---------------------------- MODULE CloudHooksProofs ----------------------------
(***************************************************************************)
(* Proofs about CloudHooks, for every set of commands and every number of  *)
(* events.                                                                 *)
(***************************************************************************)
EXTENDS CloudHooks, SequenceTheorems, TLAPS

\* The frames on their way, and the tasks of the service.
Read == {Unread} \cup Edits
Frames == [is : {"ack"}, of : {"all"}, with : Read \cup {NoField}]
          \cup [is : {"run"}, of : Hooks, with : Read]
          \cup [is : {"command"}, of : Commands, with : {0}]
Tasks == [does : {"due"}, asker : {"nobody"}] \cup [does : Hooks, asker : {"page", "file"}]

LinkInv ==
  /\ link = "down" => down = <<>> /\ ackWith = NotYet /\ runWith.with = NotYet
  /\ link = "greeted" => ackWith \in Read
  /\ runWith.with # NotYet => runWith.of \in Hooks /\ runWith.with \in Read

SequenceInv == down \in Seq(Frames) /\ queue \in Seq(Tasks) /\ LinkInv

\* Every edit of the page and every pause takes an event.
CountInv ==
  /\ page + events <= LastEdit
  /\ generation + (IF gap THEN 1 ELSE 0) + events <= LastEdit

\* The first task has the flight while a script runs.
FlightInv ==
  /\ queue = <<>> => at = "turn"
  /\ at \in Hooks => running \in Edits
  /\ at = "after" => First.does = "due"
  /\ at = "install" /\ First.does = "due" => attempted # running
  /\ attempted \in tried \cup {0, Unusable}

\* No install after itself, no resume that no pause asked for.
OnceInv == again = FALSE /\ resumes <= resumed

\* The one request of a shell is in the queue until its run begins.
FileTask(i) == queue[i].asker = "file"
FileInv ==
  /\ fileRuns <= 1
  /\ req \in {"none", "left", "back"} => fileRuns = 0
  /\ \A i \in 1 .. Len(queue) : FileTask(i) =>
       /\ req = "taken"
       /\ fileRuns = 0 \/ (i = 1 /\ at \in Hooks)
       /\ \A j \in 1 .. Len(queue) : FileTask(j) => j = i

\* A page is read when the socket is greeted and then for one run after
\* another, so that what arrives is never older than what came before it.
RunEdit(i) == down[i].is = "run" /\ down[i].with \in Edits
AckEdit(i) == down[i].is = "ack" /\ down[i].with \in Edits

\* Every request of a run on its way was read no earlier than `edit`.
NoneOlder(edit) ==
  /\ \A i \in 1 .. Len(down) : RunEdit(i) => edit <= down[i].with
  /\ runWith.with \in Edits => edit <= runWith.with
FrameInv ==
  /\ kept <= page /\ NoneOlder(kept)
  /\ ackWith \in Edits => ackWith <= page /\ NoneOlder(ackWith)
  /\ runWith.with \in Edits => runWith.with <= page
  /\ \A i \in 1 .. Len(down) : AckEdit(i) => down[i].with <= page /\ NoneOlder(down[i].with)
  /\ \A i \in 1 .. Len(down) : RunEdit(i) =>
       /\ down[i].with <= page
       /\ runWith.with \in Edits => down[i].with <= runWith.with
       /\ \A j \in i .. Len(down) : RunEdit(j) => down[i].with <= down[j].with

Tried == \E k \in tried : k >= owed.key
InstallComes == \E i \in 1 .. Len(queue) :
  /\ queue[i].does = "due"
  /\ i = 1 => at = "turn" \/ (at = "install" /\ running >= owed.key)
ResumeComes == \E i \in 1 .. Len(queue) :
  /\ queue[i].does = "due"
  /\ i = 1 => at # "resume"

\* What the last acknowledgement made due has happened, or a task holds the
\* gate that will see to it.
OwedInv == owed # Nothing =>
  /\ known = kept /\ known \in Edits /\ owed.key <= known /\ owed.gen <= generation
  /\ Tried \/ InstallComes
  /\ resumed >= owed.gen \/ ResumeComes


GatewayType ==
  /\ page \in Edits /\ row \in [Hooks -> Runs] /\ ackWith \in Configs
  /\ runWith \in [is : {"run"}, of : Hooks \cup {"none"}, with : Configs]
ConnectionType ==
  /\ link \in {"down", "greeted", "up"}
  /\ up \subseteq [hook : Hooks, run : Runs]
DiskType ==
  /\ attempted \in 0 .. Unusable /\ kept \in Read /\ last \in [Hooks -> Runs]
MemoryType ==
  /\ enabled \in {"unknown", "yes", "no"} /\ known \in Read
  /\ out \in {"none", "live", "dead"}
FlightType == at \in {"turn", "after"} \cup Hooks /\ running \in Read
ClockType ==
  /\ resumed \in 0 .. generation /\ generation \in 1 .. MaxEvents + 1
  /\ gap \in BOOLEAN /\ nudge \in BOOLEAN
  /\ clock \in Nat /\ events \in 0 .. MaxEvents
ShellType ==
  /\ cmd \in [Commands -> {"none", "sent", "arrived", "waiting", "started", "gone"}]
  /\ req \in {"none", "left", "back", "taken", "answered"} /\ listed \in BOOLEAN
HistoryType ==
  /\ owed \in [key : Read, gen : 0 .. MaxEvents + 1]
  /\ tried \subseteq Edits /\ again \in BOOLEAN
  /\ resumes \in Nat /\ fileRuns \in Nat /\ unseen \in BOOLEAN

LEMMA Parts ==
  ASSUME SequenceInv
  PROVE  TypeOK <=> /\ GatewayType /\ ConnectionType /\ DiskType /\ MemoryType
                    /\ FlightType /\ ClockType /\ ShellType /\ HistoryType
  <1>1. \A i \in DOMAIN down : /\ down[i].is \in {"ack", "run", "command"}
                               /\ down[i].of \in Hooks \cup Commands \cup {"all"}
                               /\ down[i].with \in Configs
    <2> SUFFICES ASSUME NEW i \in DOMAIN down
                 PROVE  /\ down[i].is \in {"ack", "run", "command"}
                        /\ down[i].of \in Hooks \cup Commands \cup {"all"}
                        /\ down[i].with \in Configs
      OBVIOUS
    <2>1. down[i] \in Frames
      BY ElementOfSeq, SMT DEF SequenceInv
    <2>2. Read \cup {NoField, 0} \subseteq Configs
      BY ConstantsAssumption, SMT DEF Read, Unread, Edits, NoField, Configs, LastEdit, ConstantsAssumption
    <2> QED BY <2>1, <2>2 DEF Frames
  <1>2. \A i \in DOMAIN queue : queue[i] \in [does : Hooks \cup {"due"}, asker : {"nobody", "page", "file"}]
    <2> SUFFICES ASSUME NEW i \in DOMAIN queue
                 PROVE  queue[i] \in [does : Hooks \cup {"due"}, asker : {"nobody", "page", "file"}]
      OBVIOUS
    <2>1. queue[i] \in Tasks
      BY ElementOfSeq, SMT DEF SequenceInv
    <2> QED BY <2>1 DEF Tasks
  <1> QED BY <1>1, <1>2, Zenon
          DEF TypeOK, Read, GatewayType, ConnectionType, DiskType, MemoryType, FlightType, ClockType,
              ShellType, HistoryType

LEMMA Numbers ==
  /\ LastEdit \in Nat \ {0} /\ Unread = 0 /\ NoRun \in Runs
  /\ 1 \in Edits /\ Edits \subseteq Nat \ {0} /\ Read \subseteq Nat /\ Edits \subseteq Read
  /\ 0 \in Read
  /\ NotYet \notin Read /\ NoField \notin Read
  /\ Read \cup {NoField, NotYet} \subseteq Configs
  BY ConstantsAssumption, SMT DEF Read, Unread, Edits, NoField, NotYet, Configs, LastEdit, NoRun,
     Runs, ConstantsAssumption

\* Spending an event.
LEMMA Spending ==
  ASSUME NEW n \in {0, 1, 2}, Costs(n), events \in 0 .. MaxEvents
  PROVE  events' \in 0 .. MaxEvents /\ events' = events - n
  BY ConstantsAssumption, SMT DEF Costs, ConstantsAssumption

LEMMA AdoptedType ==
  ASSUME kept \in Read, NEW config \in Read
  PROVE  Adopted(config) \in Read
  BY DEF Adopted

LEMMA EditKeys == Read \subseteq 0 .. Unusable
  BY ConstantsAssumption, SMT DEF Read, Unread, Edits, Unusable, LastEdit, ConstantsAssumption

LEMMA Counted ==
  ASSUME GatewayType, ClockType
  PROVE  /\ page \in Nat /\ generation \in Nat /\ events \in Nat /\ LastEdit \in Nat
         /\ gap \in BOOLEAN
  BY ConstantsAssumption, SMT DEF GatewayType, ClockType, Edits, LastEdit, ConstantsAssumption

LEMMA NothingType == Nothing \in [key : Read, gen : 0 .. MaxEvents + 1]
  <1>1. 0 \in Read /\ 0 \in 0 .. MaxEvents + 1
    BY Numbers, ConstantsAssumption, SMT DEF ConstantsAssumption
  <1> QED BY <1>1 DEF Nothing, Owing

LEMMA RunRecords ==
  /\ \A n \in Nat : [at |-> n, over |-> TRUE] \in Runs /\ [at |-> n, over |-> FALSE] \in Runs
  /\ \A r \in Runs : [r EXCEPT !.over = TRUE] \in Runs
  BY DEF Runs

LEMMA SaidType ==
  ASSUME up \subseteq [hook : Hooks, run : Runs], NEW h \in Hooks, NEW r \in Runs, Say(h, r)
  PROVE  up' \subseteq [hook : Hooks, run : Runs]
  BY DEF Say, Report

LEMMA SaidAgainType ==
  ASSUME last \in [Hooks -> Runs]
  PROVE  SaidAgain \subseteq [hook : Hooks, run : Runs]
  BY DEF SaidAgain, Report

----------------------------------------------------------------------------
(* Sequences *)

LEMMA FrameKinds ==
  /\ \A with \in Read \cup {NoField} : Frame("ack", "all", with) \in Frames
  /\ \A h \in Hooks, with \in Read : Frame("run", h, with) \in Frames
  /\ \A c \in Commands : Frame("command", c, 0) \in Frames
  BY DEF Frame, Frames

LEMMA TaskKinds ==
  /\ Task("due", "nobody") \in Tasks
  /\ \A h \in Hooks : Task(h, "page") \in Tasks /\ Task(h, "file") \in Tasks
  BY DEF Task, Tasks

LEMMA Appended ==
  ASSUME NEW S, NEW s \in Seq(S), NEW e \in S
  PROVE  /\ Append(s, e) \in Seq(S) /\ Append(s, e) # <<>>
         /\ Len(s) \in Nat /\ Len(Append(s, e)) = Len(s) + 1
         /\ \A i \in 1 .. Len(s) : Append(s, e)[i] = s[i]
         /\ Append(s, e)[Len(s) + 1] = e
  BY AppendProperties, LenProperties

LEMMA Taken1 ==
  ASSUME NEW S, NEW s \in Seq(S), s # <<>>
  PROVE  /\ Tail(s) \in Seq(S) /\ Len(s) \in Nat \ {0} /\ Len(Tail(s)) = Len(s) - 1
         /\ Head(s) = s[1] /\ s[1] \in S
         /\ \A i \in 1 .. Len(Tail(s)) : Tail(s)[i] = s[i + 1]
         /\ Tail(s) = <<>> <=> Len(s) = 1
  <1>1. Len(s) \in Nat \ {0} /\ Head(s) = s[1]
    BY EmptySeq, SMT
  <1>2. /\ Tail(s) \in Seq(S) /\ Len(Tail(s)) = Len(s) - 1
        /\ Head(s) \in S
        /\ \A i \in 1 .. Len(Tail(s)) : Tail(s)[i] = s[i + 1]
    BY HeadTailProperties
  <1>3. Tail(s) = <<>> <=> Len(Tail(s)) = 0
    BY <1>2, EmptySeq
  <1> QED BY <1>1, <1>2, <1>3, SMT

LEMMA FirstStays ==
  ASSUME NEW S, NEW s \in Seq(S), NEW e \in S, s # <<>>
  PROVE  Append(s, e) # <<>> /\ Head(Append(s, e)) = Head(s)
  <1>1. /\ Append(s, e) \in Seq(S) /\ Append(s, e) # <<>> /\ Append(s, e)[1] = s[1]
    BY Appended, Taken1, SMT
  <1> QED BY <1>1, Taken1

----------------------------------------------------------------------------
(* The steps that have several outcomes, one by one *)

Got(f) ==
  /\ down # <<>> /\ f = Head(down) /\ down' = Tail(down)
  /\ UNCHANGED <<gateway, link, attempted, last, at, running, resumed, generation, nudge, shell,
                 tried, again, resumes, fileRuns, unseen, clock, events>>

\* An acknowledgement of a gateway from before the scripts.
GotOldAck ==
  /\ \E f \in Frames : Got(f) /\ f.is = "ack" /\ f.with = NoField
  /\ enabled' = "no" /\ known' = Unread /\ out' = "none" /\ owed' = Nothing
  /\ gap' = gap /\ kept' = kept /\ up' = up /\ queue' = queue /\ cmd' = cmd

GotAck ==
  /\ \E f \in Frames : Got(f) /\ f.is = "ack" /\ f.with \in Read /\ known' = Adopted(f.with)
  /\ enabled' = "yes" /\ out' = "live" /\ kept' = known'
  /\ up' = up \cup SaidAgain
  /\ owed' = IF known' = Unread THEN Nothing ELSE Owing(known', generation)
  /\ queue' = IF InstallDue(known') \/ ResumeDue(known')
              THEN Append(queue, Task("due", "nobody")) ELSE queue
  /\ gap' = gap /\ cmd' = cmd

GotRun ==
  /\ \E f \in Frames : /\ Got(f) /\ f.is = "run" /\ f.with \in Read /\ f.of \in Hooks
                       /\ known' = Adopted(f.with)
                       /\ queue' = Append(queue, Task(f.of, "page"))
  /\ enabled' = "yes" /\ out' = "live" /\ kept' = known'
  /\ gap' = gap /\ cmd' = cmd /\ up' = up /\ owed' = owed

GotCommand ==
  /\ \E f \in Frames : /\ Got(f) /\ f.is = "command" /\ f.of \in Commands
                       /\ cmd' = [cmd EXCEPT ![f.of] = "arrived"]
  /\ gap' = gap /\ enabled' = enabled /\ known' = known /\ out' = out /\ kept' = kept
  /\ up' = up /\ owed' = owed /\ queue' = queue

LEMMA ReceiveCases ==
  ASSUME SequenceInv, Receive
  PROVE  GotOldAck \/ GotAck \/ GotRun \/ GotCommand
  <1> DEFINE f == Head(down)
  <1>1. f \in Frames
    BY Taken1 DEF Receive, SequenceInv
  <1>2. Got(f)
    BY DEF Receive, Got
  <1>3. CASE f.is = "ack" /\ Hello(f.with) /\ UNCHANGED cmd
    <2>1. f.with \in Read \cup {NoField}
      BY <1>1, <1>3 DEF Frames
    <2>2. CASE f.with = NoField
      <3>1. /\ enabled' = "no" /\ known' = Unread /\ out' = "none" /\ owed' = Nothing
            /\ gap' = gap /\ kept' = kept /\ up' = up /\ queue' = queue /\ cmd' = cmd
        BY <1>3, <2>2 DEF Hello, Heard
      <3> QED BY <1>1, <1>2, <1>3, <2>2, <3>1 DEF GotOldAck
    <2>3. CASE f.with # NoField
      <3>1. /\ known' = Adopted(f.with)
            /\ enabled' = "yes" /\ out' = "live" /\ kept' = known'
            /\ up' = up \cup SaidAgain
            /\ owed' = IF known' = Unread THEN Nothing ELSE Owing(known', generation)
            /\ queue' = IF InstallDue(known') \/ ResumeDue(known')
                        THEN Append(queue, Task("due", "nobody")) ELSE queue
            /\ gap' = gap /\ cmd' = cmd
        BY <1>3, <2>3 DEF Hello, Heard
      <3> QED BY <1>1, <1>2, <1>3, <2>1, <2>3, <3>1 DEF GotAck
    <2> QED BY <2>2, <2>3
  <1>4. CASE f.is = "run" /\ RunRequested(f.of, f.with) /\ UNCHANGED cmd
    <2>1. f.with \in Read /\ f.of \in Hooks
      BY <1>1, <1>4 DEF Frames
    <2>2. /\ known' = Adopted(f.with) /\ queue' = Append(queue, Task(f.of, "page"))
          /\ enabled' = "yes" /\ out' = "live" /\ kept' = known'
          /\ gap' = gap /\ cmd' = cmd /\ up' = up /\ owed' = owed
      BY <1>4 DEF RunRequested
    <2> QED BY <1>1, <1>2, <1>4, <2>1, <2>2 DEF GotRun
  <1>5. CASE /\ f.is = "command"
             /\ cmd' = [cmd EXCEPT ![f.of] = "arrived"]
             /\ UNCHANGED <<gap, enabled, known, out, kept, up, owed, queue>>
    <2>1. f.of \in Commands
      BY <1>1, <1>5 DEF Frames
    <2> QED BY <1>1, <1>2, <1>5, <2>1 DEF GotCommand
  <1> QED BY <1>3, <1>4, <1>5 DEF Receive

TurnKeeps ==
  /\ queue # <<>> /\ at \in {"turn", "after"}
  /\ UNCHANGED <<gateway, link, down, kept, memory, generation, gap, nudge, cmd, listed, owed, unseen,
                 events>>

\* Why a script begins.
Reason(h) ==
  \/ First.does = "due" /\ h = "install" /\ at = "turn" /\ InstallDue(known)
  \/ First.does = "due" /\ h = "resume" /\ (at = "after" \/ ~InstallDue(known)) /\ ResumeDue(known)
  \/ First.does = h /\ known # Unread

Begins(h) == TurnKeeps /\ Reason(h) /\ Begin(h)

\* A due task that finds nothing to do any more.
NothingDue ==
  /\ TurnKeeps
  /\ First.does = "due" /\ (at = "after" \/ ~InstallDue(known)) /\ ~ResumeDue(known)
  /\ Done /\ Skips

\* A run somebody asked for, of a script there is no text of.
NoText ==
  /\ TurnKeeps
  /\ First.does \in Hooks /\ known = Unread /\ Done
  /\ clock' = clock + 1
  /\ last' = [last EXCEPT ![First.does] = [at |-> clock + 1, over |-> TRUE]]
  /\ Say(First.does, last'[First.does])
  /\ attempted' = IF First.does = "install" THEN Unusable ELSE attempted
  /\ resumed' = IF First.does = "resume" THEN generation ELSE resumed
  /\ fileRuns' = IF First.asker = "file" THEN fileRuns + 1 ELSE fileRuns
  /\ UNCHANGED <<resumes, again, tried>>

LEMMA TurnCases ==
  ASSUME SequenceInv, Turn
  PROVE  (\E h \in Hooks : Begins(h)) \/ NothingDue \/ NoText
  <1>1. TurnKeeps
    BY DEF Turn, TurnKeeps
  <1>2. First.does \in Hooks \cup {"due"}
    BY Taken1 DEF Turn, SequenceInv, First, Tasks
  <1>3. CASE First.does = "due"
    <2>1. DueTurn
      BY <1>3 DEF Turn
    <2> QED BY <1>1, <1>3, <2>1, Zenon DEF DueTurn, DueAgain, Begins, Reason, NothingDue, Hooks
  <1>4. CASE First.does # "due"
    <2>1. AskedTurn /\ First.does \in Hooks
      BY <1>2, <1>4 DEF Turn
    <2> QED BY <1>1, <2>1, Zenon DEF AskedTurn, Begins, Reason, NoText
  <1> QED BY <1>3, <1>4

RunKeeps ==
  /\ at \in Hooks
  /\ last' = [last EXCEPT ![at].over = TRUE]
  /\ Say(at, last'[at])
  /\ UNCHANGED <<gateway, link, down, kept, memory, clocks, cmd, listed, owed, resumes, fileRuns,
                 unseen, clock, events>>
InstallRan ==
  /\ at = "install" /\ attempted' = running /\ tried' = tried \cup {running}
  /\ again' = (again \/ (First.does = "due" /\ attempted = running))

\* The install of a due task, which goes on with the resume.
DueInstallEnds ==
  /\ RunKeeps /\ InstallRan /\ First.does = "due"
  /\ at' = "after" /\ running' = Unread /\ queue' = queue /\ req' = req

AskedInstallEnds ==
  /\ RunKeeps /\ InstallRan /\ First.does # "due" /\ Done

ResumeEnds ==
  /\ RunKeeps /\ at = "resume" /\ Done
  /\ attempted' = attempted /\ tried' = tried /\ again' = again

LEMMA RunCases ==
  ASSUME RunEnds
  PROVE  DueInstallEnds \/ AskedInstallEnds \/ ResumeEnds
  <1>1. RunKeeps
    BY DEF RunEnds, RunKeeps
  <1>2. CASE at = "install"
    <2>1. InstallRan
      BY <1>2 DEF RunEnds, InstallRan
    <2> QED BY <1>1, <1>2, <2>1 DEF RunEnds, DueInstallEnds, AskedInstallEnds
  <1>3. CASE at = "resume"
    BY <1>1, <1>3 DEF RunEnds, ResumeEnds
  <1> QED BY <1>1, <1>2, <1>3 DEF RunKeeps, Hooks

LEMMA OtherTask ==
  ASSUME FileInv, UNCHANGED <<fileRuns, req, at>>, queue \in Seq(Tasks),
         NEW t \in Tasks, t.asker # "file", queue' = queue \/ queue' = Append(queue, t)
  PROVE  FileInv'
  <1>1. CASE queue' = queue
    BY <1>1 DEF FileInv, FileTask
  <1>2. CASE queue' = Append(queue, t)
    <2>1. /\ Len(queue) \in Nat /\ Len(queue') = Len(queue) + 1
          /\ \A i \in 1 .. Len(queue) : queue'[i] = queue[i]
          /\ queue'[Len(queue) + 1] = t
      BY <1>2, Appended
    <2>2. \A i \in 1 .. Len(queue') : FileTask(i)' => i \in 1 .. Len(queue) /\ FileTask(i)
      BY <2>1, SMT DEF FileTask
    <2> QED BY <2>2 DEF FileInv
  <1> QED BY <1>1, <1>2

\* The first task is over, and with it the request if it was its own.
LEMMA TaskDone ==
  ASSUME SequenceInv, FileInv, Done, queue # <<>>,
         HistoryType,
         \/ fileRuns' = fileRuns
         \/ at \notin Hooks /\ fileRuns' = IF First.asker = "file" THEN fileRuns + 1 ELSE fileRuns
  PROVE  FileInv'
  <1>1. /\ queue' = Tail(queue) /\ at' = "turn"
        /\ req' = IF First.asker = "file" THEN "answered" ELSE req
    BY DEF Done
  <1>2. /\ Len(queue) \in Nat \ {0} /\ Len(queue') = Len(queue) - 1 /\ First = queue[1]
        /\ \A i \in 1 .. Len(queue') : queue'[i] = queue[i + 1]
    BY <1>1, Taken1 DEF SequenceInv, First
  <1>3. \A i \in 1 .. Len(queue') : FileTask(i)' => i + 1 \in 2 .. Len(queue) /\ FileTask(i + 1)
    BY <1>2, SMT DEF FileTask
  <1>4. CASE First.asker = "file"
    <2>1. FileTask(1) /\ 1 \in 1 .. Len(queue)
      BY <1>2, <1>4, SMT DEF FileTask
    <2>2. /\ fileRuns = 0 \/ at \in Hooks
          /\ \A j \in 1 .. Len(queue) : FileTask(j) => j = 1
      BY <2>1 DEF FileInv
    <2>3. \A i \in 1 .. Len(queue') : ~FileTask(i)'
      BY <1>2, <1>3, <2>2, SMT
    <2>4. fileRuns' <= 1 /\ req' = "answered"
      BY <1>1, <1>4, <2>2, SMT DEF FileInv, HistoryType
    <2> QED BY <2>3, <2>4 DEF FileInv
  <1>5. CASE First.asker # "file"
    <2>1. fileRuns' = fileRuns /\ req' = req
      BY <1>1, <1>5
    <2>2. \A i \in 2 .. Len(queue) : FileTask(i) => fileRuns = 0
      BY <1>2, SMT DEF FileInv
    <2>3. ASSUME NEW i \in 1 .. Len(queue'), FileTask(i)'
          PROVE  /\ req' = "taken" /\ fileRuns' = 0
                 /\ \A j \in 1 .. Len(queue') : FileTask(j)' => j = i
      <3>1. i + 1 \in 2 .. Len(queue) /\ i + 1 \in 1 .. Len(queue) /\ FileTask(i + 1)
        BY <1>2, <1>3, <2>3, SMT
      <3>2. /\ req = "taken" /\ fileRuns = 0
            /\ \A j \in 1 .. Len(queue) : FileTask(j) => j = i + 1
        BY <2>2, <3>1 DEF FileInv
      <3>3. \A j \in 1 .. Len(queue') : FileTask(j)' => j + 1 = i + 1
        BY <1>2, <1>3, <3>2, SMT
      <3> QED BY <2>1, <3>2, <3>3, SMT
    <2> QED BY <2>1, <2>3 DEF FileInv
  <1> QED BY <1>4, <1>5

----------------------------------------------------------------------------
(* The frames on their way, at every step that changes them *)

LEMMA FrameNumbers ==
  ASSUME SequenceInv, GatewayType, DiskType
  PROVE  /\ page \in Nat /\ kept \in Nat /\ Len(down) \in Nat
         /\ \A e \in Edits : e \in Nat
         /\ NotYet \notin Edits /\ Unread \notin Edits /\ NoField \notin Edits
  BY Numbers, LenProperties, SMT DEF SequenceInv, GatewayType, DiskType, Read

LEMMA NoFrames ==
  ASSUME SequenceInv, GatewayType, DiskType, FrameInv, UNCHANGED <<page, kept>>,
         down' = <<>>, ackWith' = NotYet, runWith'.with = NotYet
  PROVE  FrameInv'
  <1>1. Len(down') = 0
    BY EmptySeq
  <1>2. NotYet \notin Edits
    BY FrameNumbers
  <1> QED BY <1>1, <1>2, SMT DEF FrameInv, NoneOlder

LEMMA FirstFrameRead ==
  ASSUME SequenceInv, GatewayType, DiskType, FrameInv, UNCHANGED <<page, ackWith, runWith>>,
         down # <<>>, down' = Tail(down),
         \/ kept' = kept
         \/ /\ down[1].with \in Edits /\ down[1].is \in {"ack", "run"}
            /\ kept' = down[1].with
  PROVE  FrameInv'
  <1>1. /\ Len(down) \in Nat \ {0} /\ Len(down') = Len(down) - 1
        /\ \A i \in 1 .. Len(down') : down'[i] = down[i + 1]
    BY Taken1 DEF SequenceInv
  <1>2. /\ \A i \in 1 .. Len(down') : (RunEdit(i)' <=> RunEdit(i + 1)) /\ (AckEdit(i)' <=> AckEdit(i + 1))
        /\ \A i \in 1 .. Len(down') : i + 1 \in 1 .. Len(down)
    BY <1>1, SMT DEF RunEdit, AckEdit
  <1>3. ASSUME NEW e \in Nat, NoneOlder(e) PROVE NoneOlder(e)'
    BY <1>1, <1>2, <1>3, SMT DEF NoneOlder
  <1>4. kept' <= page /\ NoneOlder(kept)'
    <2>1. CASE kept' = kept
      BY <2>1, <1>3, FrameNumbers DEF FrameInv, NoneOlder
    <2>2. CASE AckEdit(1) /\ kept' = down[1].with
      <3>1. down[1].with <= page /\ NoneOlder(down[1].with) /\ down[1].with \in Nat
        BY <1>1, <2>2, FrameNumbers, SMT DEF FrameInv, AckEdit
      <3> QED BY <1>1, <1>2, <2>2, <3>1, SMT DEF NoneOlder
    <2>3. CASE RunEdit(1) /\ kept' = down[1].with
      <3>1. /\ down[1].with <= page
            /\ runWith.with \in Edits => down[1].with <= runWith.with
            /\ \A j \in 1 .. Len(down) : RunEdit(j) => down[1].with <= down[j].with
        BY <1>1, <2>3, SMT DEF FrameInv
      <3> QED BY <1>1, <1>2, <2>3, <3>1, SMT DEF NoneOlder
    <2> QED BY <2>1, <2>2, <2>3 DEF AckEdit, RunEdit
  <1>5. ackWith' \in Edits => ackWith' <= page' /\ NoneOlder(ackWith)'
    BY <1>3, FrameNumbers DEF FrameInv, NoneOlder
  <1>6. ASSUME NEW i \in 1 .. Len(down'), AckEdit(i)'
        PROVE  down'[i].with <= page' /\ NoneOlder(down[i].with)'
    <2>1. /\ AckEdit(i + 1) /\ i + 1 \in 1 .. Len(down) /\ down'[i] = down[i + 1]
      BY <1>1, <1>2, <1>6
    <2>2. /\ down[i + 1].with <= page /\ NoneOlder(down[i + 1].with) /\ down[i + 1].with \in Nat
      BY <2>1, FrameNumbers DEF FrameInv, AckEdit
    <2> QED BY <1>1, <1>2, <2>1, <2>2, SMT DEF NoneOlder
  <1>7. ASSUME NEW i \in 1 .. Len(down'), RunEdit(i)'
        PROVE  /\ down'[i].with <= page'
               /\ runWith'.with \in Edits => down'[i].with <= runWith'.with
               /\ \A j \in i .. Len(down') : RunEdit(j)' => down'[i].with <= down'[j].with
    <2>1. /\ RunEdit(i + 1) /\ i + 1 \in 1 .. Len(down) /\ down'[i] = down[i + 1]
      BY <1>1, <1>2, <1>7
    <2>2. /\ down[i + 1].with <= page
          /\ runWith.with \in Edits => down[i + 1].with <= runWith.with
          /\ \A j \in i + 1 .. Len(down) : RunEdit(j) => down[i + 1].with <= down[j].with
      BY <2>1 DEF FrameInv
    <2>3. \A j \in i .. Len(down') : /\ j \in 1 .. Len(down') /\ j + 1 \in i + 1 .. Len(down)
                                     /\ down'[j] = down[j + 1]
      BY <1>1, SMT
    <2>4. \A j \in i .. Len(down') : RunEdit(j)' => down'[i].with <= down'[j].with
      BY <1>2, <2>1, <2>2, <2>3
    <2> QED BY <2>1, <2>2, <2>4
  <1> QED BY <1>4, <1>5, <1>6, <1>7 DEF FrameInv

LEMMA FrameAppended ==
  ASSUME SequenceInv, NEW f \in Frames, down' = Append(down, f)
  PROVE  /\ Len(down) \in Nat /\ Len(down') = Len(down) + 1
         /\ \A i \in 1 .. Len(down) : down'[i] = down[i]
         /\ down'[Len(down) + 1] = f
         /\ \A i \in 1 .. Len(down') : i \in 1 .. Len(down) \/ i = Len(down) + 1
  <1>1. /\ Len(down) \in Nat /\ Len(down') = Len(down) + 1
        /\ \A i \in 1 .. Len(down) : down'[i] = down[i]
        /\ down'[Len(down) + 1] = f
    BY Appended DEF SequenceInv
  <1> QED BY <1>1, SMT

\* A frame that asks for no run.
LEMMA QuietFrameSent ==
  ASSUME SequenceInv, GatewayType, DiskType, FrameInv, UNCHANGED <<page, kept, runWith>>,
         NEW f \in Frames, down' = Append(down, f), f.is # "run",
         ackWith' = ackWith \/ ackWith' = NotYet,
         (f.is = "ack" /\ f.with \in Edits) => f.with = ackWith
  PROVE  FrameInv'
  <1>1. /\ Len(down) \in Nat /\ Len(down') = Len(down) + 1
        /\ \A i \in 1 .. Len(down) : down'[i] = down[i]
        /\ down'[Len(down) + 1] = f
        /\ \A i \in 1 .. Len(down') : i \in 1 .. Len(down) \/ i = Len(down) + 1
    BY FrameAppended
  <1>2. /\ \A i \in 1 .. Len(down) : (RunEdit(i)' <=> RunEdit(i)) /\ (AckEdit(i)' <=> AckEdit(i))
        /\ \A i \in 1 .. Len(down') : i = Len(down) + 1 => ~RunEdit(i)'
    BY <1>1 DEF RunEdit, AckEdit
  <1>3. \A e : NoneOlder(e) => (\A i \in 1 .. Len(down') : RunEdit(i)' => e <= down'[i].with)
                               /\ (runWith'.with \in Edits => e <= runWith'.with)
    BY <1>1, <1>2 DEF NoneOlder
  <1>4. NoneOlder(kept)' /\ kept' <= page'
    BY <1>3 DEF FrameInv, NoneOlder
  <1>5. ackWith' \in Edits => ackWith' <= page' /\ NoneOlder(ackWith)'
    BY <1>3, FrameNumbers DEF FrameInv, NoneOlder
  <1>6. ASSUME NEW i \in 1 .. Len(down'), AckEdit(i)'
        PROVE  down'[i].with <= page' /\ NoneOlder(down[i].with)'
    <2>1. CASE i \in 1 .. Len(down)
      BY <1>1, <1>2, <1>3, <1>6, <2>1 DEF FrameInv, NoneOlder
    <2>2. CASE i = Len(down) + 1
      <3>1. f.is = "ack" /\ f.with \in Edits /\ f.with = ackWith /\ down'[i] = f
        BY <1>1, <1>6, <2>2 DEF AckEdit
      <3> QED BY <1>3, <3>1 DEF FrameInv, NoneOlder
    <2> QED BY <1>1, <2>1, <2>2
  <1>7. ASSUME NEW i \in 1 .. Len(down'), RunEdit(i)'
        PROVE  /\ down'[i].with <= page'
               /\ runWith'.with \in Edits => down'[i].with <= runWith'.with
               /\ \A j \in i .. Len(down') : RunEdit(j)' => down'[i].with <= down'[j].with
    <2>1. i \in 1 .. Len(down) /\ RunEdit(i) /\ down'[i] = down[i]
      BY <1>1, <1>2, <1>7
    <2>2. \A j \in i .. Len(down') : j \in i .. Len(down) \/ j = Len(down) + 1
      BY <1>1, SMT
    <2>3. \A j \in i .. Len(down') : RunEdit(j)' => j \in i .. Len(down) /\ RunEdit(j) /\ down'[j] = down[j]
      BY <1>1, <1>2, <2>1, <2>2, SMT
    <2> QED BY <2>1, <2>3 DEF FrameInv
  <1> QED BY <1>4, <1>5, <1>6, <1>7 DEF FrameInv

LEMMA RunFrameSent ==
  ASSUME SequenceInv, GatewayType, DiskType, FrameInv, UNCHANGED <<page, kept, ackWith>>,
         runWith \in Frames, runWith.is = "run", down' = Append(down, runWith),
         runWith'.with = NotYet
  PROVE  FrameInv'
  <1>1. /\ Len(down) \in Nat /\ Len(down') = Len(down) + 1
        /\ \A i \in 1 .. Len(down) : down'[i] = down[i]
        /\ down'[Len(down) + 1] = runWith
        /\ \A i \in 1 .. Len(down') : i \in 1 .. Len(down) \/ i = Len(down) + 1
    BY FrameAppended
  <1>2. \A i \in 1 .. Len(down) : (RunEdit(i)' <=> RunEdit(i)) /\ (AckEdit(i)' <=> AckEdit(i))
    BY <1>1 DEF RunEdit, AckEdit
  <1>3. \A i \in 1 .. Len(down') : i = Len(down) + 1 =>
          ~AckEdit(i)' /\ (RunEdit(i)' => runWith.with \in Edits)
    BY <1>1 DEF RunEdit, AckEdit
  <1>4. runWith'.with \notin Edits
    BY FrameNumbers
  <1>5. \A e : NoneOlder(e) => \A i \in 1 .. Len(down') : RunEdit(i)' => e <= down'[i].with
    BY <1>1, <1>2, <1>3 DEF NoneOlder
  <1>6. /\ NoneOlder(kept)' /\ kept' <= page'
        /\ ackWith' \in Edits => ackWith' <= page' /\ NoneOlder(ackWith)'
    BY <1>4, <1>5 DEF FrameInv, NoneOlder
  <1>7. ASSUME NEW i \in 1 .. Len(down'), AckEdit(i)'
        PROVE  down'[i].with <= page' /\ NoneOlder(down[i].with)'
    <2>1. i \in 1 .. Len(down) /\ AckEdit(i) /\ down'[i] = down[i]
      BY <1>1, <1>2, <1>3, <1>7
    <2> QED BY <1>4, <1>5, <2>1 DEF FrameInv, NoneOlder
  <1>8. ASSUME NEW i \in 1 .. Len(down'), RunEdit(i)'
        PROVE  /\ down'[i].with <= page'
               /\ \A j \in i .. Len(down') : RunEdit(j)' => down'[i].with <= down'[j].with
    <2>1. \A j \in i .. Len(down') : (i \in 1 .. Len(down) /\ j \in i .. Len(down)) \/ j = Len(down) + 1
      BY <1>1, SMT
    <2>2. CASE i \in 1 .. Len(down)
      <3>1. /\ RunEdit(i) /\ down'[i] = down[i] /\ down[i].with <= page
            /\ runWith.with \in Edits => down[i].with <= runWith.with
            /\ \A j \in i .. Len(down) : RunEdit(j) => down[i].with <= down[j].with
        BY <1>1, <1>2, <1>8, <2>2 DEF FrameInv
      <3>2. ASSUME NEW j \in i .. Len(down'), RunEdit(j)' PROVE down'[i].with <= down'[j].with
        <4>1. CASE j = Len(down) + 1
          BY <1>1, <1>3, <3>1, <3>2, <4>1
        <4>2. CASE j \in i .. Len(down)
          <5>1. j \in 1 .. Len(down)
            BY <1>1, <4>2, <2>2, SMT
          <5> QED BY <1>1, <1>2, <3>1, <3>2, <4>2, <5>1
        <4> QED BY <2>1, <4>1, <4>2
      <3> QED BY <3>1, <3>2
    <2>3. CASE i = Len(down) + 1
      <3>1. down'[i] = runWith /\ runWith.with \in Edits /\ runWith.with <= page /\ runWith.with \in Nat
        BY <1>1, <1>3, <1>8, <2>3, FrameNumbers DEF FrameInv
      <3>2. \A j \in i .. Len(down') : j = i
        BY <1>1, <2>3, SMT
      <3> QED BY <3>1, <3>2, SMT
    <2> QED BY <1>1, <2>2, <2>3
  <1> QED BY <1>4, <1>6, <1>7, <1>8 DEF FrameInv

\* The page is read now, and nothing that was read is newer.
LEMMA PageRead ==
  ASSUME SequenceInv, GatewayType, DiskType, FrameInv, UNCHANGED <<kept, down>>,
         \/ page' = page /\ ackWith' = ackWith /\ runWith'.with \in {page, Unread}
               /\ runWith.with \notin Edits
         \/ page' = page /\ ackWith' \in {page, Unread} /\ runWith' = runWith
               /\ down = <<>> /\ runWith.with \notin Edits
         \/ page' = page + 1 /\ ackWith' = ackWith /\ runWith' = runWith
  PROVE  FrameInv'
  <1>1. /\ page \in Nat /\ kept \in Nat /\ \A e \in Edits : e \in Nat
        /\ Unread \notin Edits
    BY FrameNumbers
  <1>2. CASE page' = page + 1 /\ ackWith' = ackWith /\ runWith' = runWith
    <2>1. \A n \in Nat : n <= page => n <= page + 1
      BY <1>1, SMT
    <2> QED BY <1>1, <1>2, <2>1 DEF FrameInv, NoneOlder, RunEdit, AckEdit
  <1>3. CASE /\ page' = page /\ ackWith' \in {page, Unread} /\ runWith' = runWith
             /\ down = <<>> /\ runWith.with \notin Edits
    <2>1. Len(down) = 0 /\ Len(down') = 0
      BY <1>3, EmptySeq
    <2> QED BY <1>1, <1>3, <2>1, SMT DEF FrameInv, NoneOlder
  <1>4. CASE /\ page' = page /\ ackWith' = ackWith /\ runWith'.with \in {page, Unread}
             /\ runWith.with \notin Edits
    <2>1. runWith'.with \in Edits => runWith'.with = page
      BY <1>1, <1>4
    <2> QED BY <1>1, <1>4, <2>1 DEF FrameInv, NoneOlder, RunEdit, AckEdit
  <1> QED BY <1>2, <1>3, <1>4

----------------------------------------------------------------------------
(* What is owed, at every step of the tasks *)

LEMMA OwedNumbers ==
  ASSUME HistoryType, MemoryType, ClockType
  PROVE  /\ owed.key \in Nat /\ owed.gen \in Nat /\ generation \in Nat /\ resumed \in Nat
         /\ resumed <= generation
         /\ \A e \in Edits : e \in Nat /\ e # Unread /\ e # 0 /\ e # Unusable
  <1>1. owed.key \in Read /\ owed.gen \in 0 .. MaxEvents + 1
    BY DEF HistoryType
  <1>2. /\ owed.gen \in Nat /\ generation \in Nat /\ resumed \in Nat /\ resumed <= generation
    BY <1>1, SMT DEF ClockType
  <1>3. \A e \in Edits : e \in Nat /\ e # Unread /\ e # 0 /\ e # Unusable
    BY Numbers, SMT DEF Edits, LastEdit, Unusable, Unread
  <1> QED BY <1>1, <1>2, <1>3, Numbers

\* A script that was tried for what is known now was tried for what is owed.
LEMMA TriedKnown ==
  ASSUME FlightInv, OwedInv, owed # Nothing, ~InstallDue(known), HistoryType, MemoryType, ClockType
  PROVE  Tried
  <1>1. known \in Edits /\ owed.key <= known /\ known # Unread
    BY OwedNumbers DEF OwedInv
  <1>2. attempted = known
    BY <1>1 DEF InstallDue
  <1>3. known \in tried
    BY <1>1, <1>2, OwedNumbers DEF FlightInv
  <1> QED BY <1>1, <1>3, OwedNumbers, SMT DEF Tried

LEMMA ResumedKnown ==
  ASSUME OwedInv, owed # Nothing, ~ResumeDue(known), HistoryType, MemoryType, ClockType
  PROVE  resumed >= owed.gen
  <1>1. known # Unread /\ owed.gen <= generation
    BY OwedNumbers DEF OwedInv
  <1>2. resumed >= generation
    BY <1>1, OwedNumbers, SMT DEF ResumeDue
  <1> QED BY <1>1, <1>2, OwedNumbers, SMT

\* Tasks that join the queue take nothing from those that wait.
LEMMA QueueGrows ==
  ASSUME SequenceInv, NEW t \in Tasks, queue' = queue \/ queue' = Append(queue, t),
         UNCHANGED <<at, running, owed>>
  PROVE  /\ InstallComes => InstallComes'
         /\ ResumeComes => ResumeComes'
  <1>1. /\ \A i \in 1 .. Len(queue) : i \in 1 .. Len(queue') /\ queue'[i] = queue[i]
    <2>1. CASE queue' = queue
      BY <2>1
    <2>2. CASE queue' = Append(queue, t)
      BY <2>2, Appended, SMT DEF SequenceInv
    <2> QED BY <2>1, <2>2
  <1> QED BY <1>1 DEF InstallComes, ResumeComes

\* The first task is over: those behind it come forward.
LEMMA QueueMoves ==
  ASSUME SequenceInv, Done, queue # <<>>, NEW i \in 2 .. Len(queue), queue[i].does = "due"
  PROVE  InstallComes' /\ ResumeComes'
  <1>1. queue' = Tail(queue) /\ at' = "turn"
    BY DEF Done
  <1>2. /\ Len(queue) \in Nat \ {0} /\ Len(queue') = Len(queue) - 1
        /\ \A j \in 1 .. Len(queue') : queue'[j] = queue[j + 1]
    BY <1>1, Taken1 DEF SequenceInv
  <1>3. i - 1 \in 1 .. Len(queue') /\ queue'[i - 1] = queue[i]
    BY <1>2, SMT
  <1> QED BY <1>1, <1>3 DEF InstallComes, ResumeComes

\* A due task that a pending debt is waiting for is either the first, or waits.
LEMMA WhoComes ==
  ASSUME SequenceInv, queue # <<>>
  PROVE  /\ InstallComes => \/ First.does = "due" /\ (at = "turn" \/ (at = "install" /\ running >= owed.key))
                            \/ \E i \in 2 .. Len(queue) : queue[i].does = "due"
         /\ ResumeComes => \/ First.does = "due" /\ at # "resume"
                           \/ \E i \in 2 .. Len(queue) : queue[i].does = "due"
  <1>1. First = queue[1] /\ Len(queue) \in Nat \ {0}
    BY Taken1 DEF SequenceInv, First
  <1>2. \A i \in 1 .. Len(queue) : i = 1 \/ i \in 2 .. Len(queue)
    BY <1>1, SMT
  <1> QED BY <1>1, <1>2 DEF InstallComes, ResumeComes

\* A due task that is the first one, and one that waits, when the first task
\* goes on.
LEMMA DueComes ==
  ASSUME SequenceInv, queue # <<>>, queue' = queue
  PROVE  /\ (First.does = "due" /\ at' = "install" /\ running' >= owed'.key) => InstallComes'
         /\ (First.does = "due" /\ at' # "resume") => ResumeComes'
         /\ (\E i \in 2 .. Len(queue) : queue[i].does = "due") => InstallComes' /\ ResumeComes'
  <1>1. First = queue[1] /\ Len(queue) \in Nat \ {0} /\ 1 \in 1 .. Len(queue)
    BY Taken1, SMT DEF SequenceInv, First
  <1>2. \A i \in 2 .. Len(queue) : i \in 1 .. Len(queue) /\ i # 1
    BY <1>1, SMT
  <1> QED BY <1>1, <1>2 DEF InstallComes, ResumeComes

\* An acknowledgement that brings a due task makes it come, in its turn.
LEMMA DueQueued ==
  ASSUME SequenceInv, FlightInv, queue' = Append(queue, Task("due", "nobody")),
         UNCHANGED <<at, running>>
  PROVE  InstallComes' /\ ResumeComes'
  <1>1. /\ Len(queue) \in Nat /\ Len(queue') = Len(queue) + 1
        /\ queue'[Len(queue) + 1] = Task("due", "nobody")
    BY TaskKinds, Appended DEF SequenceInv
  <1>2. Len(queue) + 1 \in 1 .. Len(queue') /\ queue'[Len(queue) + 1].does = "due"
    BY <1>1, SMT DEF Task
  <1>3. Len(queue) + 1 = 1 => at = "turn"
    <2>1. Len(queue) = 0 => queue = <<>>
      BY EmptySeq, SMT DEF SequenceInv
    <2> QED BY <1>1, <2>1, SMT DEF FlightInv
  <1> QED BY <1>2, <1>3, Zenon DEF InstallComes, ResumeComes

\* Nothing of what the debt is about moves.
LEMMA DebtStands ==
  ASSUME SequenceInv, OwedInv, HistoryType, MemoryType, ClockType,
         UNCHANGED <<owed, known, kept>>, tried \subseteq tried',
         generation' \in {generation, generation + 1},
         resumed' = resumed, UNCHANGED <<at, running>>,
         \E t \in Tasks : queue' = queue \/ queue' = Append(queue, t)
  PROVE  OwedInv'
  <1>1. (InstallComes => InstallComes') /\ (ResumeComes => ResumeComes')
    BY QueueGrows
  <1>2. Tried => Tried'
    BY DEF Tried
  <1>3. owed.gen <= generation => owed.gen <= generation'
    BY OwedNumbers, SMT
  <1> QED BY <1>1, <1>2, <1>3 DEF OwedInv

----------------------------------------------------------------------------
LEMMA DownStep ==
  ASSUME SequenceInv, GatewayType, Next
  PROVE  down' \in Seq(Frames)
  <1> USE DEF gateway, connection, disk, memory, flight, clocks, shell, history, SequenceInv
  <1>1. CASE AckSent
    <2>1. ackWith \in Read /\ Frame("ack", "all", ackWith) \in Frames
      BY <1>1, FrameKinds DEF AckSent, LinkInv
    <2>2. Frame("ack", "all", NoField) \in Frames
      BY FrameKinds
    <2>3. \/ down' = Append(down, Frame("ack", "all", ackWith))
          \/ down' = Append(down, Frame("ack", "all", NoField))
      BY <1>1, Zenon DEF AckSent
    <2> QED BY <2>1, <2>2, <2>3, Appended
  <1>2. CASE RunSent
    <2>1. runWith \in Frames
      BY <1>2 DEF RunSent, GatewayType, LinkInv, Frames
    <2> QED BY <1>2, <2>1, Appended DEF RunSent
  <1>3. ASSUME NEW c \in Commands, CommandSent(c) PROVE down' \in Seq(Frames)
    BY <1>3, Appended, FrameKinds DEF CommandSent
  <1>4. CASE GotOldAck
    BY <1>4, Taken1 DEF GotOldAck, Got
  <1>5. CASE GotAck
    BY <1>5, Taken1 DEF GotAck, Got
  <1>6. CASE GotRun
    BY <1>6, Taken1 DEF GotRun, Got
  <1>7. CASE GotCommand
    BY <1>7, Taken1 DEF GotCommand, Got
  <1>8. CASE Drop
    BY <1>8, EmptySeq DEF Drop, ConnectionEnds
  <1>9. CASE TickSees
    BY <1>9, EmptySeq DEF TickSees, Redial, ConnectionEnds
  <1>10. CASE Reconnect
    BY <1>10, EmptySeq DEF Reconnect, Redial, ConnectionEnds
  <1>11. CASE ServiceEnds
    BY <1>11, EmptySeq DEF ServiceEnds, ConnectionEnds
  <1>12. CASE \/ EditPage \/ RecordHookState \/ Dial \/ Pause \/ WakeSees \/ NothingDue \/
                 NoText \/ DueInstallEnds \/ AskedInstallEnds \/ ResumeEnds \/ ShellAsks \/
                 ShellTakesBack \/ ServiceLists
              \/ \E h \in Hooks : AskRun(h) \/ ServiceTakes(h) \/ Begins(h)
              \/ \E c \in Commands : CommandComes(c) \/ CommandGoes(c)
    <2>1. UNCHANGED <<down>>
      BY <1>12 DEF EditPage, RecordHookState, AskRun, ServiceTakes, CommandComes, CommandGoes,
                   Dial, Pause, WakeSees, Begins, NothingDue, NoText, DueInstallEnds,
                   AskedInstallEnds, ResumeEnds, ShellAsks, ShellTakesBack, ServiceLists, Begin,
                   Done, InstallRan, RunKeeps, Skips, TurnKeeps
    <2> QED BY <2>1
  <1> QED BY ReceiveCases, TurnCases, RunCases, <1>1, <1>2, <1>3, <1>4, <1>5, <1>6, <1>7, <1>8,
             <1>9, <1>10, <1>11, <1>12
             DEF Next, Command

LEMMA QueueStep ==
  ASSUME SequenceInv, FlightInv, Next
  PROVE  queue' \in Seq(Tasks)
  <1> USE DEF gateway, connection, disk, memory, flight, clocks, shell, history, SequenceInv
  <1>1. ASSUME NEW h \in Hooks, ServiceTakes(h) PROVE queue' \in Seq(Tasks)
    <2>1. queue' = queue \/ queue' = Append(queue, Task(h, "file"))
      BY <1>1 DEF ServiceTakes
    <2>2. Task(h, "file") \in Tasks
      BY TaskKinds
    <2> QED BY <2>1, <2>2, Appended
  <1>2. CASE GotOldAck
    BY <1>2 DEF GotOldAck
  <1>3. CASE GotAck
    BY <1>3, Appended, TaskKinds DEF GotAck
  <1>4. CASE GotRun
    BY <1>4, Appended, TaskKinds DEF GotRun
  <1>5. CASE GotCommand
    BY <1>5 DEF GotCommand
  <1>6. CASE NothingDue
    BY <1>6, Taken1 DEF NothingDue, TurnKeeps, Done
  <1>7. CASE NoText
    BY <1>7, Taken1 DEF NoText, TurnKeeps, Done
  <1>8. CASE DueInstallEnds
    BY <1>8 DEF DueInstallEnds
  <1>9. CASE AskedInstallEnds
    BY <1>9, Taken1 DEF AskedInstallEnds, Done, FlightInv, RunKeeps, Hooks
  <1>10. CASE ResumeEnds
    BY <1>10, Taken1 DEF ResumeEnds, Done, FlightInv, RunKeeps, Hooks
  <1>11. CASE ServiceEnds
    BY <1>11, EmptySeq DEF ServiceEnds
  <1>12. CASE \/ EditPage \/ AckSent \/ RunSent \/ RecordHookState \/ Dial \/ Drop \/ Pause \/
                 TickSees \/ WakeSees \/ Reconnect \/ ShellAsks \/ ShellTakesBack \/ ServiceLists
              \/ \E h \in Hooks : AskRun(h) \/ Begins(h)
              \/ \E c \in Commands : CommandSent(c) \/ CommandComes(c) \/ CommandGoes(c)
    <2>1. UNCHANGED <<queue>>
      BY <1>12 DEF EditPage, AckSent, RunSent, RecordHookState, AskRun, CommandSent, CommandComes,
                   CommandGoes, Dial, Drop, Pause, TickSees, WakeSees, Reconnect, Begins,
                   ShellAsks, ShellTakesBack, ServiceLists, Begin, TurnKeeps
    <2> QED BY <2>1
  <1> QED BY ReceiveCases, TurnCases, RunCases, <1>1, <1>2, <1>3, <1>4, <1>5, <1>6, <1>7, <1>8,
             <1>9, <1>10, <1>11, <1>12
             DEF Next, Command

LEMMA LinkStep ==
  ASSUME SequenceInv, GatewayType, ConnectionType, Next
  PROVE  LinkInv'
  <1> USE DEF gateway, connection, disk, memory, flight, clocks, shell, history, SequenceInv,
              LinkInv
  <1>1. CASE AckSent
    BY <1>1 DEF AckSent, ConnectionType
  <1>2. CASE RunSent
    BY <1>2 DEF RunSent, Frame
  <1>3. ASSUME NEW h \in Hooks, AskRun(h) PROVE LinkInv'
    BY <1>3, Numbers DEF AskRun, Frame, GatewayType
  <1>4. ASSUME NEW c \in Commands, CommandSent(c) PROVE LinkInv'
    BY <1>4 DEF CommandSent
  <1>5. CASE Dial
    BY <1>5, Numbers DEF Dial, GatewayType
  <1>6. CASE GotOldAck
    BY <1>6 DEF GotOldAck, Got
  <1>7. CASE GotAck
    BY <1>7 DEF GotAck, Got
  <1>8. CASE GotRun
    BY <1>8 DEF GotRun, Got
  <1>9. CASE GotCommand
    BY <1>9 DEF GotCommand, Got
  <1>10. CASE Drop
    BY <1>10 DEF Drop, ConnectionEnds, Frame
  <1>11. CASE TickSees
    BY <1>11 DEF TickSees, Redial, ConnectionEnds, Frame
  <1>12. CASE Reconnect
    BY <1>12 DEF Reconnect, Redial, ConnectionEnds, Frame
  <1>13. CASE ServiceEnds
    BY <1>13 DEF ServiceEnds, ConnectionEnds, Frame
  <1>14. CASE \/ EditPage \/ RecordHookState \/ Pause \/ WakeSees \/ NothingDue \/ NoText \/
                 DueInstallEnds \/ AskedInstallEnds \/ ResumeEnds \/ ShellAsks \/
                 ShellTakesBack \/ ServiceLists
              \/ \E h \in Hooks : ServiceTakes(h) \/ Begins(h)
              \/ \E c \in Commands : CommandComes(c) \/ CommandGoes(c)
    <2>1. UNCHANGED <<link, down, ackWith, runWith>>
      BY <1>14 DEF EditPage, RecordHookState, ServiceTakes, CommandComes, CommandGoes, Pause,
                   WakeSees, Begins, NothingDue, NoText, DueInstallEnds, AskedInstallEnds,
                   ResumeEnds, ShellAsks, ShellTakesBack, ServiceLists, Begin, Done, InstallRan,
                   RunKeeps, Skips, TurnKeeps
    <2> QED BY <2>1
  <1> QED BY ReceiveCases, TurnCases, RunCases, <1>1, <1>2, <1>3, <1>4, <1>5, <1>6, <1>7, <1>8,
             <1>9, <1>10, <1>11, <1>12, <1>13, <1>14
             DEF Next, Command

LEMMA GatewayTypeStep ==
  ASSUME SequenceInv, GatewayType, ConnectionType, ClockType, CountInv, Next
  PROVE  GatewayType'
  <1> USE DEF gateway, connection, disk, memory, flight, clocks, shell, history, GatewayType
  <1>1. CASE EditPage
    <2>1. page' \in Edits
      BY <1>1, ConstantsAssumption, SMT DEF EditPage, Event, Costs, CountInv, ClockType, Edits, LastEdit,
         ConstantsAssumption
    <2> QED BY <1>1, <2>1 DEF EditPage
  <1>2. CASE AckSent
    BY <1>2, Numbers DEF AckSent
  <1>3. CASE RunSent
    BY <1>3, Numbers DEF RunSent, Frame
  <1>4. CASE RecordHookState
    <2>1. PICK r \in up : row' = [row EXCEPT ![r.hook] = IF IsNews(row[r.hook], r.run) THEN r.run
                                                          ELSE row[r.hook]]
      BY <1>4, Zenon DEF RecordHookState
    <2>2. r.hook \in Hooks /\ r.run \in Runs
      BY DEF ConnectionType
    <2>3. row[r.hook] \in Runs
      BY <2>2
    <2>4. CASE row' = [row EXCEPT ![r.hook] = r.run]
      BY <1>4, <2>2, <2>4 DEF RecordHookState
    <2>5. CASE row' = [row EXCEPT ![r.hook] = row[r.hook]]
      BY <1>4, <2>2, <2>3, <2>5 DEF RecordHookState
    <2> QED BY <2>1, <2>4, <2>5
  <1>5. ASSUME NEW h \in Hooks, AskRun(h) PROVE GatewayType'
    BY <1>5, Numbers DEF AskRun, Frame, Read
  <1>6. CASE Dial
    BY <1>6, Numbers DEF Dial, Read
  <1>7. CASE Drop
    BY <1>7, Numbers DEF Drop, ConnectionEnds, Frame
  <1>8. CASE TickSees
    BY <1>8, Numbers DEF TickSees, Redial, ConnectionEnds, Frame
  <1>9. CASE Reconnect
    BY <1>9, Numbers DEF Reconnect, Redial, ConnectionEnds, Frame
  <1>10. CASE ServiceEnds
    BY <1>10, Numbers DEF ServiceEnds, ConnectionEnds, Frame
  <1>11. CASE \/ GotOldAck \/ GotAck \/ GotRun \/ GotCommand \/ Pause \/ WakeSees \/ NothingDue \/
                 NoText \/ DueInstallEnds \/ AskedInstallEnds \/ ResumeEnds \/ ShellAsks \/
                 ShellTakesBack \/ ServiceLists
              \/ \E h \in Hooks : ServiceTakes(h) \/ Begins(h)
              \/ \E c \in Commands : CommandSent(c) \/ CommandComes(c) \/ CommandGoes(c)
    <2>1. UNCHANGED <<page, row, ackWith, runWith>>
      BY <1>11 DEF ServiceTakes, CommandSent, CommandComes, CommandGoes, GotOldAck, GotAck,
                   GotRun, GotCommand, Pause, WakeSees, Begins, NothingDue, NoText,
                   DueInstallEnds, AskedInstallEnds, ResumeEnds, ShellAsks, ShellTakesBack,
                   ServiceLists, Begin, Done, Got, InstallRan, RunKeeps, Skips, TurnKeeps
    <2> QED BY <2>1
  <1> QED BY ReceiveCases, TurnCases, RunCases, <1>1, <1>2, <1>3, <1>4, <1>5, <1>6, <1>7, <1>8,
             <1>9, <1>10, <1>11
             DEF Next, Command

LEMMA LastStep ==
  ASSUME SequenceInv, DiskType, ClockType, Next
  PROVE  last' \in [Hooks -> Runs]
  <1> USE DEF gateway, connection, disk, memory, flight, clocks, shell, history, DiskType
  <1>1. ASSUME NEW h \in Hooks, Begins(h) PROVE last' \in [Hooks -> Runs]
    <2>1. last' = [last EXCEPT ![h] = [at |-> clock + 1, over |-> FALSE]]
      BY <1>1 DEF Begins, Begin
    <2>2. clock + 1 \in Nat
      BY SMT DEF ClockType
    <2>3. [at |-> clock + 1, over |-> FALSE] \in Runs
      BY <2>2, RunRecords
    <2> QED BY <2>1, <2>3
  <1>2. CASE NoText
    <2>1. last' = [last EXCEPT ![First.does] = [at |-> clock + 1, over |-> TRUE]]
      BY <1>2 DEF NoText
    <2>2. clock + 1 \in Nat
      BY SMT DEF ClockType
    <2>3. [at |-> clock + 1, over |-> TRUE] \in Runs
      BY <2>2, RunRecords
    <2> QED BY <2>1, <2>3
  <1>3. CASE DueInstallEnds
    BY <1>3, RunRecords DEF DueInstallEnds, RunKeeps
  <1>4. CASE AskedInstallEnds
    BY <1>4, RunRecords DEF AskedInstallEnds, RunKeeps
  <1>5. CASE ResumeEnds
    BY <1>5, RunRecords DEF ResumeEnds, RunKeeps
  <1>6. CASE ServiceEnds
    BY <1>6, RunRecords DEF ServiceEnds
  <1>7. CASE \/ EditPage \/ AckSent \/ RunSent \/ RecordHookState \/ Dial \/ GotOldAck \/
                GotAck \/ GotRun \/ GotCommand \/ Drop \/ Pause \/ TickSees \/ WakeSees \/
                Reconnect \/ NothingDue \/ ShellAsks \/ ShellTakesBack \/ ServiceLists
             \/ \E h \in Hooks : AskRun(h) \/ ServiceTakes(h)
             \/ \E c \in Commands : CommandSent(c) \/ CommandComes(c) \/ CommandGoes(c)
    <2>1. UNCHANGED <<last>>
      BY <1>7 DEF EditPage, AckSent, RunSent, RecordHookState, AskRun, ServiceTakes, CommandSent,
                  CommandComes, CommandGoes, Dial, GotOldAck, GotAck, GotRun, GotCommand, Drop,
                  Pause, TickSees, WakeSees, Reconnect, NothingDue, ShellAsks, ShellTakesBack,
                  ServiceLists, Done, Got, Skips, TurnKeeps
    <2> QED BY <2>1
  <1> QED BY ReceiveCases, TurnCases, RunCases, <1>1, <1>2, <1>3, <1>4, <1>5, <1>6, <1>7
             DEF Next, Command

LEMMA ConnectionTypeStep ==
  ASSUME SequenceInv, ConnectionType, DiskType, ClockType, Next
  PROVE  ConnectionType'
  <1> USE DEF gateway, connection, disk, memory, flight, clocks, shell, history, ConnectionType,
              Report
  <1>1. CASE AckSent
    BY <1>1 DEF AckSent
  <1>2. CASE RecordHookState
    BY <1>2 DEF RecordHookState
  <1>3. CASE Dial
    BY <1>3 DEF Dial
  <1>4. CASE GotOldAck
    BY <1>4 DEF GotOldAck, Got
  <1>5. CASE GotAck
    BY <1>5, SaidAgainType DEF GotAck, Got, DiskType
  <1>6. CASE GotRun
    BY <1>6 DEF GotRun, Got
  <1>7. CASE GotCommand
    BY <1>7 DEF GotCommand, Got
  <1>8. CASE Drop
    BY <1>8 DEF Drop, ConnectionEnds
  <1>9. CASE TickSees
    BY <1>9 DEF TickSees, Redial, ConnectionEnds
  <1>10. CASE Reconnect
    BY <1>10 DEF Reconnect, Redial, ConnectionEnds
  <1>11. ASSUME NEW h \in Hooks, Begins(h) PROVE ConnectionType'
    <2>1. link' = link /\ (up' = up \/ Say(h, last'[h]))
      BY <1>11, Zenon DEF Begins, TurnKeeps, Begin
    <2>2. last'[h] \in Runs
      BY LastStep
    <2> QED BY <2>1, <2>2, SaidType
  <1>12. CASE NoText
    <2>1. Say(First.does, last'[First.does]) /\ First.does \in Hooks /\ link' = link
      BY <1>12 DEF NoText, TurnKeeps
    <2>2. last'[First.does] \in Runs
      BY <2>1, LastStep
    <2> QED BY <2>1, <2>2, SaidType
  <1>13. CASE DueInstallEnds
    <2>1. Say(at, last'[at]) /\ at \in Hooks /\ link' = link
      BY <1>13 DEF DueInstallEnds, RunKeeps
    <2>2. last'[at] \in Runs
      BY <2>1, LastStep
    <2> QED BY <2>1, <2>2, SaidType
  <1>14. CASE AskedInstallEnds
    <2>1. Say(at, last'[at]) /\ at \in Hooks /\ link' = link
      BY <1>14 DEF AskedInstallEnds, RunKeeps
    <2>2. last'[at] \in Runs
      BY <2>1, LastStep
    <2> QED BY <2>1, <2>2, SaidType
  <1>15. CASE ResumeEnds
    <2>1. Say(at, last'[at]) /\ at \in Hooks /\ link' = link
      BY <1>15 DEF ResumeEnds, RunKeeps
    <2>2. last'[at] \in Runs
      BY <2>1, LastStep
    <2> QED BY <2>1, <2>2, SaidType
  <1>16. CASE ServiceEnds
    BY <1>16 DEF ServiceEnds, ConnectionEnds
  <1>17. CASE \/ EditPage \/ RunSent \/ Pause \/ WakeSees \/ NothingDue \/ ShellAsks \/
                 ShellTakesBack \/ ServiceLists
              \/ \E h \in Hooks : AskRun(h) \/ ServiceTakes(h)
              \/ \E c \in Commands : CommandSent(c) \/ CommandComes(c) \/ CommandGoes(c)
    <2>1. UNCHANGED <<link, up>>
      BY <1>17 DEF EditPage, RunSent, AskRun, ServiceTakes, CommandSent, CommandComes,
                   CommandGoes, Pause, WakeSees, NothingDue, ShellAsks, ShellTakesBack,
                   ServiceLists, Done, Skips, TurnKeeps
    <2> QED BY <2>1
  <1> QED BY ReceiveCases, TurnCases, RunCases, <1>1, <1>2, <1>3, <1>4, <1>5, <1>6, <1>7, <1>8,
             <1>9, <1>10, <1>11, <1>12, <1>13, <1>14, <1>15, <1>16, <1>17
             DEF Next, Command

LEMMA KeptStep ==
  ASSUME SequenceInv, DiskType, MemoryType, FlightType, Next
  PROVE  attempted' \in 0 .. Unusable /\ kept' \in Read
  <1> USE DEF gateway, connection, disk, memory, flight, clocks, shell, history, DiskType
  <1>1. CASE GotOldAck
    BY <1>1 DEF GotOldAck, Got
  <1>2. CASE GotAck
    BY <1>2, AdoptedType DEF GotAck, Got
  <1>3. CASE GotRun
    BY <1>3, AdoptedType DEF GotRun, Got
  <1>4. CASE GotCommand
    BY <1>4 DEF GotCommand, Got
  <1>5. CASE NoText
    BY <1>5, Numbers DEF NoText, TurnKeeps, Unusable, LastEdit
  <1>6. CASE DueInstallEnds
    BY <1>6, EditKeys DEF DueInstallEnds, RunKeeps, InstallRan, FlightType
  <1>7. CASE AskedInstallEnds
    BY <1>7, EditKeys DEF AskedInstallEnds, RunKeeps, InstallRan, FlightType
  <1>8. CASE ResumeEnds
    BY <1>8 DEF ResumeEnds, RunKeeps
  <1>9. CASE \/ EditPage \/ AckSent \/ RunSent \/ RecordHookState \/ Dial \/ Drop \/ Pause \/
                TickSees \/ WakeSees \/ Reconnect \/ NothingDue \/ ServiceEnds \/ ShellAsks \/
                ShellTakesBack \/ ServiceLists
             \/ \E h \in Hooks : AskRun(h) \/ ServiceTakes(h) \/ Begins(h)
             \/ \E c \in Commands : CommandSent(c) \/ CommandComes(c) \/ CommandGoes(c)
    <2>1. UNCHANGED <<attempted, kept>>
      BY <1>9 DEF EditPage, AckSent, RunSent, RecordHookState, AskRun, ServiceTakes, CommandSent,
                  CommandComes, CommandGoes, Dial, Drop, Pause, TickSees, WakeSees, Reconnect,
                  Begins, NothingDue, ServiceEnds, ShellAsks, ShellTakesBack, ServiceLists, Begin,
                  Done, Skips, TurnKeeps
    <2> QED BY <2>1
  <1> QED BY ReceiveCases, TurnCases, RunCases, <1>1, <1>2, <1>3, <1>4, <1>5, <1>6, <1>7, <1>8,
             <1>9
             DEF Next, Command

LEMMA MemoryTypeStep ==
  ASSUME SequenceInv, DiskType, MemoryType, Next
  PROVE  MemoryType'
  <1> USE DEF gateway, connection, disk, memory, flight, clocks, shell, history, MemoryType
  <1>1. CASE GotOldAck
    BY <1>1, Numbers DEF GotOldAck
  <1>2. CASE GotAck
    BY <1>2, AdoptedType DEF GotAck, DiskType
  <1>3. CASE GotRun
    BY <1>3, AdoptedType DEF GotRun, DiskType
  <1>4. CASE GotCommand
    BY <1>4 DEF GotCommand
  <1>5. CASE Drop
    BY <1>5 DEF Drop, ConnectionEnds
  <1>6. CASE TickSees
    BY <1>6 DEF TickSees, Redial, ConnectionEnds
  <1>7. CASE Reconnect
    BY <1>7 DEF Reconnect, Redial, ConnectionEnds
  <1>8. CASE ServiceEnds
    BY <1>8, Numbers DEF ServiceEnds, ConnectionEnds
  <1>9. CASE \/ EditPage \/ AckSent \/ RunSent \/ RecordHookState \/ Dial \/ Pause \/ WakeSees \/
                NothingDue \/ NoText \/ DueInstallEnds \/ AskedInstallEnds \/ ResumeEnds \/
                ShellAsks \/ ShellTakesBack \/ ServiceLists
             \/ \E h \in Hooks : AskRun(h) \/ ServiceTakes(h) \/ Begins(h)
             \/ \E c \in Commands : CommandSent(c) \/ CommandComes(c) \/ CommandGoes(c)
    <2>1. UNCHANGED <<enabled, known, out>>
      BY <1>9 DEF EditPage, AckSent, RunSent, RecordHookState, AskRun, ServiceTakes, CommandSent,
                  CommandComes, CommandGoes, Dial, Pause, WakeSees, Begins, NothingDue, NoText,
                  DueInstallEnds, AskedInstallEnds, ResumeEnds, ShellAsks, ShellTakesBack,
                  ServiceLists, Begin, Done, InstallRan, RunKeeps, Skips, TurnKeeps
    <2> QED BY <2>1
  <1> QED BY ReceiveCases, TurnCases, RunCases, <1>1, <1>2, <1>3, <1>4, <1>5, <1>6, <1>7, <1>8,
             <1>9
             DEF Next, Command

LEMMA FlightTypeStep ==
  ASSUME SequenceInv, MemoryType, FlightType, Next
  PROVE  FlightType'
  <1> USE DEF gateway, connection, disk, memory, flight, clocks, shell, history, FlightType
  <1>1. ASSUME NEW h \in Hooks, Begins(h) PROVE FlightType'
    BY <1>1 DEF Begins, Begin, MemoryType
  <1>2. CASE NothingDue
    BY <1>2, Numbers DEF NothingDue, Done
  <1>3. CASE NoText
    BY <1>3, Numbers DEF NoText, Done
  <1>4. CASE DueInstallEnds
    BY <1>4, Numbers DEF DueInstallEnds
  <1>5. CASE AskedInstallEnds
    BY <1>5, Numbers DEF AskedInstallEnds, Done
  <1>6. CASE ResumeEnds
    BY <1>6, Numbers DEF ResumeEnds, Done
  <1>7. CASE ServiceEnds
    BY <1>7, Numbers DEF ServiceEnds
  <1>8. CASE \/ EditPage \/ AckSent \/ RunSent \/ RecordHookState \/ Dial \/ GotOldAck \/
                GotAck \/ GotRun \/ GotCommand \/ Drop \/ Pause \/ TickSees \/ WakeSees \/
                Reconnect \/ ShellAsks \/ ShellTakesBack \/ ServiceLists
             \/ \E h \in Hooks : AskRun(h) \/ ServiceTakes(h)
             \/ \E c \in Commands : CommandSent(c) \/ CommandComes(c) \/ CommandGoes(c)
    <2>1. UNCHANGED <<at, running>>
      BY <1>8 DEF EditPage, AckSent, RunSent, RecordHookState, AskRun, ServiceTakes, CommandSent,
                  CommandComes, CommandGoes, Dial, GotOldAck, GotAck, GotRun, GotCommand, Drop,
                  Pause, TickSees, WakeSees, Reconnect, ShellAsks, ShellTakesBack, ServiceLists,
                  Got
    <2> QED BY <2>1
  <1> QED BY ReceiveCases, TurnCases, RunCases, <1>1, <1>2, <1>3, <1>4, <1>5, <1>6, <1>7, <1>8
             DEF Next, Command

LEMMA PausesStep ==
  ASSUME ClockType, CountInv, SequenceInv, Next
  PROVE  resumed' \in 0 .. generation' /\ generation' \in 1 .. MaxEvents + 1
  <1> USE DEF gateway, connection, disk, memory, flight, clocks, shell, history, ClockType
  <1>1. CASE TickSees
    BY <1>1, ConstantsAssumption, SMT DEF TickSees, Observe, CountInv, LastEdit,
                                          ConstantsAssumption
  <1>2. CASE WakeSees
    BY <1>2, ConstantsAssumption, SMT DEF WakeSees, Observe, CountInv, LastEdit,
                                          ConstantsAssumption
  <1>3. ASSUME NEW h \in Hooks, Begins(h) PROVE resumed' \in 0 .. generation' /\ generation' \in 1 .. MaxEvents + 1
    BY <1>3, SMT DEF Begins, TurnKeeps, Begin
  <1>4. CASE NoText
    BY <1>4, SMT DEF NoText, TurnKeeps
  <1>5. CASE ServiceEnds
    BY <1>5, ConstantsAssumption, SMT DEF ServiceEnds, StartsWith, ConstantsAssumption
  <1>6. CASE \/ EditPage \/ AckSent \/ RunSent \/ RecordHookState \/ Dial \/ GotOldAck \/
                GotAck \/ GotRun \/ GotCommand \/ Drop \/ Pause \/ Reconnect \/ NothingDue \/
                DueInstallEnds \/ AskedInstallEnds \/ ResumeEnds \/ ShellAsks \/ ShellTakesBack \/
                ServiceLists
             \/ \E h \in Hooks : AskRun(h) \/ ServiceTakes(h)
             \/ \E c \in Commands : CommandSent(c) \/ CommandComes(c) \/ CommandGoes(c)
    <2>1. UNCHANGED <<resumed, generation>>
      BY <1>6 DEF EditPage, AckSent, RunSent, RecordHookState, AskRun, ServiceTakes, CommandSent,
                  CommandComes, CommandGoes, Dial, GotOldAck, GotAck, GotRun, GotCommand, Drop,
                  Pause, Reconnect, NothingDue, DueInstallEnds, AskedInstallEnds, ResumeEnds,
                  ShellAsks, ShellTakesBack, ServiceLists, Done, Got, InstallRan, RunKeeps, Skips,
                  TurnKeeps
    <2> QED BY <2>1
  <1> QED BY ReceiveCases, TurnCases, RunCases, <1>1, <1>2, <1>3, <1>4, <1>5, <1>6
             DEF Next, Command

LEMMA FlagsStep ==
  ASSUME ClockType, SequenceInv, Next
  PROVE  gap' \in BOOLEAN /\ nudge' \in BOOLEAN /\ clock' \in Nat
  <1> USE DEF gateway, connection, disk, memory, flight, clocks, shell, history, ClockType
  <1>1. CASE GotOldAck
    BY <1>1 DEF GotOldAck, Got
  <1>2. CASE GotAck
    BY <1>2 DEF GotAck, Got
  <1>3. CASE GotRun
    BY <1>3 DEF GotRun, Got
  <1>4. CASE GotCommand
    BY <1>4 DEF GotCommand, Got
  <1>5. CASE Pause
    BY <1>5 DEF Pause
  <1>6. CASE TickSees
    BY <1>6 DEF TickSees, Observe
  <1>7. CASE WakeSees
    BY <1>7 DEF WakeSees, Observe
  <1>8. CASE Reconnect
    BY <1>8 DEF Reconnect
  <1>9. ASSUME NEW h \in Hooks, Begins(h) PROVE gap' \in BOOLEAN /\ nudge' \in BOOLEAN /\ clock' \in Nat
    BY <1>9 DEF Begins, TurnKeeps, Begin
  <1>10. CASE NoText
    BY <1>10 DEF NoText, TurnKeeps
  <1>11. CASE ServiceEnds
    BY <1>11 DEF ServiceEnds
  <1>12. CASE \/ EditPage \/ AckSent \/ RunSent \/ RecordHookState \/ Dial \/ Drop \/
                 NothingDue \/ DueInstallEnds \/ AskedInstallEnds \/ ResumeEnds \/ ShellAsks \/
                 ShellTakesBack \/ ServiceLists
              \/ \E h \in Hooks : AskRun(h) \/ ServiceTakes(h)
              \/ \E c \in Commands : CommandSent(c) \/ CommandComes(c) \/ CommandGoes(c)
    <2>1. UNCHANGED <<gap, nudge, clock>>
      BY <1>12 DEF EditPage, AckSent, RunSent, RecordHookState, AskRun, ServiceTakes, CommandSent,
                   CommandComes, CommandGoes, Dial, Drop, NothingDue, DueInstallEnds,
                   AskedInstallEnds, ResumeEnds, ShellAsks, ShellTakesBack, ServiceLists, Done,
                   InstallRan, RunKeeps, Skips, TurnKeeps
    <2> QED BY <2>1
  <1> QED BY ReceiveCases, TurnCases, RunCases, <1>1, <1>2, <1>3, <1>4, <1>5, <1>6, <1>7, <1>8,
             <1>9, <1>10, <1>11, <1>12
             DEF Next, Command

LEMMA EventsStep ==
  ASSUME ClockType, SequenceInv, Next
  PROVE  events' \in 0 .. MaxEvents /\ events' <= events
  <1> USE DEF gateway, connection, disk, memory, flight, clocks, shell, history
  <1>1. CASE EditPage
    BY <1>1, Spending, SMT DEF EditPage, Event, ClockType
  <1>2. CASE AckSent
    BY <1>2, Spending, SMT DEF AckSent, Event, ClockType
  <1>3. ASSUME NEW h \in Hooks, AskRun(h) PROVE events' \in 0 .. MaxEvents /\ events' <= events
    BY <1>3, Spending, SMT DEF AskRun, Event, ClockType, Failed
  <1>4. CASE Dial
    BY <1>4, Spending, SMT DEF Dial, Event, ClockType, Failed
  <1>5. CASE Drop
    BY <1>5, Spending, SMT DEF Drop, Event, ClockType
  <1>6. CASE Pause
    BY <1>6, Spending, SMT DEF Pause, Event, ClockType
  <1>7. CASE ServiceEnds
    BY <1>7, Spending, SMT DEF ServiceEnds, Event, ClockType
  <1>8. CASE ShellAsks
    BY <1>8, Spending, SMT DEF ShellAsks, Event, ClockType
  <1>9. CASE \/ RunSent \/ RecordHookState \/ GotOldAck \/ GotAck \/ GotRun \/ GotCommand \/
                TickSees \/ WakeSees \/ Reconnect \/ NothingDue \/ NoText \/ DueInstallEnds \/
                AskedInstallEnds \/ ResumeEnds \/ ShellTakesBack \/ ServiceLists
             \/ \E h \in Hooks : ServiceTakes(h) \/ Begins(h)
             \/ \E c \in Commands : CommandSent(c) \/ CommandComes(c) \/ CommandGoes(c)
    <2>1. UNCHANGED <<events>>
      BY <1>9 DEF RunSent, RecordHookState, ServiceTakes, CommandSent, CommandComes, CommandGoes,
                  GotOldAck, GotAck, GotRun, GotCommand, TickSees, WakeSees, Reconnect, Begins,
                  NothingDue, NoText, DueInstallEnds, AskedInstallEnds, ResumeEnds,
                  ShellTakesBack, ServiceLists, Begin, Done, Got, InstallRan, RunKeeps, Skips,
                  TurnKeeps
    <2> QED BY <2>1, SMT DEF ClockType
  <1> QED BY ReceiveCases, TurnCases, RunCases, <1>1, <1>2, <1>3, <1>4, <1>5, <1>6, <1>7, <1>8,
             <1>9
             DEF Next, Command

LEMMA CountStep ==
  ASSUME ClockType, GatewayType, CountInv, SequenceInv, Next
  PROVE  CountInv'
  <1> USE DEF gateway, connection, disk, memory, flight, clocks, shell, history, CountInv
  <1>1. CASE EditPage
    BY <1>1, EventsStep, Counted, SMT DEF EditPage, Event, Costs
  <1>2. CASE AckSent
    BY <1>2, EventsStep, Counted, SMT DEF AckSent
  <1>3. ASSUME NEW h \in Hooks, AskRun(h) PROVE CountInv'
    BY <1>3, EventsStep, Counted, SMT DEF AskRun
  <1>4. CASE Dial
    BY <1>4, EventsStep, Counted, SMT DEF Dial
  <1>5. CASE GotOldAck
    BY <1>5 DEF GotOldAck, Got
  <1>6. CASE GotAck
    BY <1>6 DEF GotAck, Got
  <1>7. CASE GotRun
    BY <1>7 DEF GotRun, Got
  <1>8. CASE GotCommand
    BY <1>8 DEF GotCommand, Got
  <1>9. CASE Drop
    BY <1>9, EventsStep, Counted, SMT DEF Drop
  <1>10. CASE Pause
    BY <1>10, EventsStep, Counted, SMT DEF Pause, Event, Costs
  <1>11. CASE TickSees
    BY <1>11, Counted, SMT DEF TickSees, Observe
  <1>12. CASE WakeSees
    BY <1>12, Counted, SMT DEF WakeSees, Observe
  <1>13. CASE ServiceEnds
    BY <1>13, EventsStep, Counted, SMT DEF ServiceEnds, ClockType, LastEdit
  <1>14. CASE ShellAsks
    BY <1>14, EventsStep, Counted, SMT DEF ShellAsks
  <1>15. CASE \/ RunSent \/ RecordHookState \/ Reconnect \/ NothingDue \/ NoText \/
                 DueInstallEnds \/ AskedInstallEnds \/ ResumeEnds \/ ShellTakesBack \/
                 ServiceLists
              \/ \E h \in Hooks : ServiceTakes(h) \/ Begins(h)
              \/ \E c \in Commands : CommandSent(c) \/ CommandComes(c) \/ CommandGoes(c)
    <2>1. UNCHANGED <<page, generation, gap, events>>
      BY <1>15 DEF RunSent, RecordHookState, ServiceTakes, CommandSent, CommandComes, CommandGoes,
                   Reconnect, Begins, NothingDue, NoText, DueInstallEnds, AskedInstallEnds,
                   ResumeEnds, ShellTakesBack, ServiceLists, Begin, Done, InstallRan, RunKeeps,
                   Skips, TurnKeeps
    <2> QED BY <2>1
  <1> QED BY ReceiveCases, TurnCases, RunCases, <1>1, <1>2, <1>3, <1>4, <1>5, <1>6, <1>7, <1>8,
             <1>9, <1>10, <1>11, <1>12, <1>13, <1>14, <1>15
             DEF Next, Command

LEMMA ShellTypeStep ==
  ASSUME SequenceInv, ShellType, Next
  PROVE  ShellType'
  <1> USE DEF gateway, connection, disk, memory, flight, clocks, shell, history, ShellType
  <1>1. ASSUME NEW h \in Hooks, ServiceTakes(h) PROVE ShellType'
    BY <1>1 DEF ServiceTakes
  <1>2. ASSUME NEW c \in Commands, CommandSent(c) PROVE ShellType'
    BY <1>2 DEF CommandSent
  <1>3. ASSUME NEW c \in Commands, CommandComes(c) PROVE ShellType'
    BY <1>3 DEF CommandComes
  <1>4. ASSUME NEW c \in Commands, CommandGoes(c) PROVE ShellType'
    BY <1>4 DEF CommandGoes
  <1>5. CASE GotOldAck
    BY <1>5 DEF GotOldAck, Got
  <1>6. CASE GotAck
    BY <1>6 DEF GotAck, Got
  <1>7. CASE GotRun
    BY <1>7 DEF GotRun, Got
  <1>8. CASE GotCommand
    BY <1>8 DEF GotCommand, Got
  <1>9. CASE Drop
    BY <1>9 DEF Drop, ConnectionEnds
  <1>10. CASE TickSees
    BY <1>10 DEF TickSees, Redial, ConnectionEnds
  <1>11. CASE Reconnect
    BY <1>11 DEF Reconnect, Redial, ConnectionEnds
  <1>12. CASE NothingDue
    BY <1>12 DEF NothingDue, TurnKeeps, Done
  <1>13. CASE NoText
    BY <1>13 DEF NoText, TurnKeeps, Done
  <1>14. CASE DueInstallEnds
    BY <1>14 DEF DueInstallEnds, RunKeeps
  <1>15. CASE AskedInstallEnds
    BY <1>15 DEF AskedInstallEnds, RunKeeps, Done
  <1>16. CASE ResumeEnds
    BY <1>16 DEF ResumeEnds, RunKeeps, Done
  <1>17. CASE ServiceEnds
    BY <1>17 DEF ServiceEnds, ConnectionEnds
  <1>18. CASE ShellAsks
    BY <1>18 DEF ShellAsks
  <1>19. CASE ShellTakesBack
    BY <1>19 DEF ShellTakesBack
  <1>20. CASE ServiceLists
    BY <1>20 DEF ServiceLists
  <1>21. CASE \/ EditPage \/ AckSent \/ RunSent \/ RecordHookState \/ Dial \/ Pause \/ WakeSees
              \/ \E h \in Hooks : AskRun(h) \/ Begins(h)
    <2>1. UNCHANGED <<cmd, req, listed>>
      BY <1>21 DEF EditPage, AckSent, RunSent, RecordHookState, AskRun, Dial, Pause, WakeSees,
                   Begins, Begin, TurnKeeps
    <2> QED BY <2>1
  <1> QED BY ReceiveCases, TurnCases, RunCases, <1>1, <1>2, <1>3, <1>4, <1>5, <1>6, <1>7, <1>8,
             <1>9, <1>10, <1>11, <1>12, <1>13, <1>14, <1>15, <1>16, <1>17, <1>18, <1>19, <1>20,
             <1>21
             DEF Next, Command

LEMMA OwedTypeStep ==
  ASSUME SequenceInv, HistoryType, MemoryType, ClockType, DiskType, Next
  PROVE  owed' \in [key : Read, gen : 0 .. MaxEvents + 1] /\ unseen' \in BOOLEAN
  <1> USE DEF gateway, connection, disk, memory, flight, clocks, shell, history, HistoryType
  <1>1. CASE GotOldAck
    BY <1>1, NothingType DEF GotOldAck, Got
  <1>2. CASE GotAck
    <2>1. unseen' = unseen
      BY <1>2 DEF GotAck, Got
    <2>2. known' \in Read /\ generation \in 0 .. MaxEvents + 1
      <3>1. known' \in Read
        BY <1>2, AdoptedType DEF GotAck, DiskType
      <3>2. generation \in 0 .. MaxEvents + 1
        BY SMT DEF ClockType
      <3> QED BY <3>1, <3>2
    <2>3. owed' = Nothing \/ owed' = Owing(known', generation)
      BY <1>2 DEF GotAck
    <2> QED BY <2>1, <2>2, <2>3, NothingType DEF Owing
  <1>3. CASE GotRun
    BY <1>3 DEF GotRun, Got
  <1>4. CASE GotCommand
    BY <1>4 DEF GotCommand, Got
  <1>5. CASE Drop
    BY <1>5, NothingType DEF Drop, ConnectionEnds
  <1>6. CASE Pause
    BY <1>6 DEF Pause
  <1>7. CASE TickSees
    BY <1>7, NothingType DEF TickSees, Redial, ConnectionEnds, Observe
  <1>8. CASE WakeSees
    BY <1>8 DEF WakeSees, Observe
  <1>9. CASE Reconnect
    BY <1>9, NothingType DEF Reconnect, Redial, ConnectionEnds
  <1>10. CASE ServiceEnds
    BY <1>10, NothingType DEF ServiceEnds, ConnectionEnds
  <1>11. CASE \/ EditPage \/ AckSent \/ RunSent \/ RecordHookState \/ Dial \/ NothingDue \/
                 NoText \/ DueInstallEnds \/ AskedInstallEnds \/ ResumeEnds \/ ShellAsks \/
                 ShellTakesBack \/ ServiceLists
              \/ \E h \in Hooks : AskRun(h) \/ ServiceTakes(h) \/ Begins(h)
              \/ \E c \in Commands : CommandSent(c) \/ CommandComes(c) \/ CommandGoes(c)
    <2>1. UNCHANGED <<owed, unseen>>
      BY <1>11 DEF EditPage, AckSent, RunSent, RecordHookState, AskRun, ServiceTakes, CommandSent,
                   CommandComes, CommandGoes, Dial, Begins, NothingDue, NoText, DueInstallEnds,
                   AskedInstallEnds, ResumeEnds, ShellAsks, ShellTakesBack, ServiceLists, Begin,
                   Done, InstallRan, RunKeeps, Skips, TurnKeeps
    <2> QED BY <2>1
  <1> QED BY ReceiveCases, TurnCases, RunCases, <1>1, <1>2, <1>3, <1>4, <1>5, <1>6, <1>7, <1>8,
             <1>9, <1>10, <1>11
             DEF Next, Command

LEMMA DoneTypeStep ==
  ASSUME SequenceInv, HistoryType, FlightInv, Next
  PROVE  tried' \subseteq Edits /\ again' \in BOOLEAN /\ resumes' \in Nat /\ fileRuns' \in Nat
  <1> USE DEF gateway, connection, disk, memory, flight, clocks, shell, history, HistoryType
  <1>1. ASSUME NEW h \in Hooks, Begins(h) PROVE tried' \subseteq Edits /\ again' \in BOOLEAN /\ resumes' \in Nat /\ fileRuns' \in Nat
    BY <1>1 DEF Begins, Begin
  <1>2. CASE NoText
    BY <1>2 DEF NoText
  <1>3. CASE DueInstallEnds
    BY <1>3 DEF DueInstallEnds, RunKeeps, InstallRan, FlightInv, Hooks
  <1>4. CASE AskedInstallEnds
    BY <1>4 DEF AskedInstallEnds, RunKeeps, InstallRan, FlightInv, Hooks
  <1>5. CASE ResumeEnds
    BY <1>5 DEF ResumeEnds, RunKeeps
  <1>6. CASE ServiceEnds
    BY <1>6 DEF ServiceEnds
  <1>7. CASE \/ EditPage \/ AckSent \/ RunSent \/ RecordHookState \/ Dial \/ GotOldAck \/
                GotAck \/ GotRun \/ GotCommand \/ Drop \/ Pause \/ TickSees \/ WakeSees \/
                Reconnect \/ NothingDue \/ ShellAsks \/ ShellTakesBack \/ ServiceLists
             \/ \E h \in Hooks : AskRun(h) \/ ServiceTakes(h)
             \/ \E c \in Commands : CommandSent(c) \/ CommandComes(c) \/ CommandGoes(c)
    <2>1. UNCHANGED <<tried, again, resumes, fileRuns>>
      BY <1>7 DEF EditPage, AckSent, RunSent, RecordHookState, AskRun, ServiceTakes, CommandSent,
                  CommandComes, CommandGoes, Dial, GotOldAck, GotAck, GotRun, GotCommand, Drop,
                  Pause, TickSees, WakeSees, Reconnect, NothingDue, ShellAsks, ShellTakesBack,
                  ServiceLists, Done, Got, Skips, TurnKeeps
    <2> QED BY <2>1
  <1> QED BY ReceiveCases, TurnCases, RunCases, <1>1, <1>2, <1>3, <1>4, <1>5, <1>6, <1>7
             DEF Next, Command

LEMMA FlightStep ==
  ASSUME SequenceInv, MemoryType, FlightInv, Next
  PROVE  FlightInv'
  <1> USE DEF gateway, connection, disk, memory, flight, clocks, shell, history, SequenceInv,
              FlightInv, First
  <1>1. ASSUME NEW h \in Hooks, ServiceTakes(h) PROVE FlightInv'
    <2>1. queue' = queue \/ queue' = Append(queue, Task(h, "file"))
      BY <1>1 DEF ServiceTakes
    <2>2. Task(h, "file") \in Tasks
      BY TaskKinds
    <2>3. UNCHANGED <<at, running, attempted, tried>>
      BY <1>1 DEF ServiceTakes
    <2>4. queue # <<>> => queue' # <<>> /\ First' = First
      BY <2>1, <2>2, FirstStays
    <2>5. CASE queue = <<>>
      BY <2>3, <2>5 DEF Hooks
    <2>6. CASE queue # <<>>
      BY <2>3, <2>4, <2>6
    <2> QED BY <2>5, <2>6
  <1>2. CASE GotOldAck
    BY <1>2 DEF GotOldAck, Got
  <1>3. CASE GotAck
    <2>1. queue' = queue \/ queue' = Append(queue, Task("due", "nobody"))
      BY <1>3 DEF GotAck
    <2>2. Task("due", "nobody") \in Tasks
      BY TaskKinds
    <2>3. UNCHANGED <<at, running, attempted, tried>>
      BY <1>3 DEF GotAck, Got
    <2>4. queue # <<>> => queue' # <<>> /\ First' = First
      BY <2>1, <2>2, FirstStays
    <2>5. CASE queue = <<>>
      BY <2>3, <2>5 DEF Hooks
    <2>6. CASE queue # <<>>
      BY <2>3, <2>4, <2>6
    <2> QED BY <2>5, <2>6
  <1>4. CASE GotRun
    <2>1. PICK f \in Frames : f.of \in Hooks /\ queue' = Append(queue, Task(f.of, "page"))
      BY <1>4 DEF GotRun
    <2>2. Task(f.of, "page") \in Tasks
      BY <2>1, TaskKinds
    <2>3. UNCHANGED <<at, running, attempted, tried>>
      BY <1>4 DEF GotRun, Got
    <2>4. queue # <<>> => queue' # <<>> /\ First' = First
      BY <2>1, <2>2, FirstStays
    <2>5. CASE queue = <<>>
      BY <2>3, <2>5 DEF Hooks
    <2>6. CASE queue # <<>>
      BY <2>3, <2>4, <2>6
    <2> QED BY <2>5, <2>6
  <1>5. CASE GotCommand
    BY <1>5 DEF GotCommand, Got
  <1>6. ASSUME NEW h \in Hooks, Begins(h) PROVE FlightInv'
    BY <1>6, Numbers DEF Begins, Begin, TurnKeeps, Reason, InstallDue, ResumeDue, First, Hooks,
                         MemoryType, Read, Unread
  <1>7. CASE NothingDue
    BY <1>7 DEF NothingDue, Done, Skips, Hooks
  <1>8. CASE NoText
    BY <1>8 DEF NoText, Done, Hooks
  <1>9. CASE DueInstallEnds
    BY <1>9 DEF DueInstallEnds, RunKeeps, InstallRan, Hooks, First
  <1>10. CASE AskedInstallEnds
    BY <1>10 DEF AskedInstallEnds, Done, InstallRan, Hooks
  <1>11. CASE ResumeEnds
    BY <1>11 DEF ResumeEnds, Done, Hooks
  <1>12. CASE ServiceEnds
    BY <1>12 DEF ServiceEnds, Hooks
  <1>13. CASE \/ EditPage \/ AckSent \/ RunSent \/ RecordHookState \/ Dial \/ Drop \/ Pause \/
                 TickSees \/ WakeSees \/ Reconnect \/ ShellAsks \/ ShellTakesBack \/ ServiceLists
              \/ \E h \in Hooks : AskRun(h)
              \/ \E c \in Commands : CommandSent(c) \/ CommandComes(c) \/ CommandGoes(c)
    <2>1. UNCHANGED <<queue, at, running, attempted, tried>>
      BY <1>13 DEF EditPage, AckSent, RunSent, RecordHookState, AskRun, CommandSent, CommandComes,
                   CommandGoes, Dial, Drop, Pause, TickSees, WakeSees, Reconnect, ShellAsks,
                   ShellTakesBack, ServiceLists
    <2> QED BY <2>1
  <1> QED BY ReceiveCases, TurnCases, RunCases, <1>1, <1>2, <1>3, <1>4, <1>5, <1>6, <1>7, <1>8,
             <1>9, <1>10, <1>11, <1>12, <1>13
             DEF Next, Command

LEMMA OnceStep ==
  ASSUME SequenceInv, ClockType, HistoryType, FlightInv, OnceInv, Next
  PROVE  OnceInv'
  <1> USE DEF gateway, connection, disk, memory, flight, clocks, shell, history, OnceInv
  <1>1. ASSUME NEW h \in Hooks, Begins(h) PROVE OnceInv'
    <2>1. again' = again /\ generation' = generation
      BY <1>1 DEF Begins, TurnKeeps, Begin
    <2>2. CASE h = "resume" /\ First.asker = "nobody"
      <3>1. First.does = "due"
        BY <1>1, <2>2, Taken1 DEF Begins, TurnKeeps, SequenceInv, Tasks, First
      <3>2. resumed < generation
        BY <1>1, <2>2, <3>1 DEF Begins, Reason, ResumeDue
      <3>3. resumed' = generation /\ resumes' = resumes + 1
        BY <1>1, <2>2, <3>2, SMT DEF Begins, Begin, ClockType
      <3> QED BY <2>1, <3>2, <3>3, SMT DEF ClockType, HistoryType
    <2>3. CASE ~(h = "resume" /\ First.asker = "nobody")
      <3>1. resumes' = resumes /\ resumed' \in {resumed, generation}
        BY <1>1, <2>3 DEF Begins, Begin
      <3> QED BY <2>1, <3>1, SMT DEF ClockType, HistoryType
    <2> QED BY <2>2, <2>3
  <1>2. CASE NoText
    BY <1>2, SMT DEF NoText, TurnKeeps, ClockType, HistoryType
  <1>3. CASE DueInstallEnds
    <2>1. attempted # running
      BY <1>3 DEF DueInstallEnds, InstallRan, FlightInv
    <2>2. again' = FALSE
      BY <1>3, <2>1 DEF DueInstallEnds, InstallRan
    <2> QED BY <1>3, <2>2 DEF DueInstallEnds, RunKeeps
  <1>4. CASE AskedInstallEnds
    BY <1>4 DEF AskedInstallEnds, InstallRan, RunKeeps
  <1>5. CASE ResumeEnds
    BY <1>5 DEF ResumeEnds, RunKeeps
  <1>6. CASE ServiceEnds
    BY <1>6 DEF ServiceEnds, StartsWith
  <1>7. CASE \/ EditPage \/ AckSent \/ RunSent \/ RecordHookState \/ Dial \/ GotOldAck \/
                GotAck \/ GotRun \/ GotCommand \/ Drop \/ Pause \/ TickSees \/ WakeSees \/
                Reconnect \/ NothingDue \/ ShellAsks \/ ShellTakesBack \/ ServiceLists
             \/ \E h \in Hooks : AskRun(h) \/ ServiceTakes(h)
             \/ \E c \in Commands : CommandSent(c) \/ CommandComes(c) \/ CommandGoes(c)
    <2>1. UNCHANGED <<again, resumes, resumed>>
      BY <1>7 DEF EditPage, AckSent, RunSent, RecordHookState, AskRun, ServiceTakes, CommandSent,
                  CommandComes, CommandGoes, Dial, GotOldAck, GotAck, GotRun, GotCommand, Drop,
                  Pause, TickSees, WakeSees, Reconnect, NothingDue, ShellAsks, ShellTakesBack,
                  ServiceLists, Done, Got, Skips, TurnKeeps
    <2> QED BY <2>1
  <1> QED BY ReceiveCases, TurnCases, RunCases, <1>1, <1>2, <1>3, <1>4, <1>5, <1>6, <1>7
             DEF Next, Command

LEMMA FileStep ==
  ASSUME SequenceInv, HistoryType, ShellType, FlightInv, FileInv, Next
  PROVE  FileInv'
  <1> USE DEF gateway, connection, disk, memory, flight, clocks, shell, history, FileInv, FileTask
  <1>1. ASSUME NEW h \in Hooks, ServiceTakes(h) PROVE FileInv'
    <2>1. CASE req' = req /\ queue' = queue
      BY <1>1, <2>1 DEF ServiceTakes
    <2>2. CASE req = "left" /\ req' = "answered" /\ queue' = queue
      BY <1>1, <2>2 DEF ServiceTakes
    <2>3. CASE req = "left" /\ req' = "taken" /\ queue' = Append(queue, Task(h, "file"))
      <3>1. Task(h, "file") \in Tasks
        BY TaskKinds
      <3>2. /\ Len(queue) \in Nat /\ Len(queue') = Len(queue) + 1
            /\ \A i \in 1 .. Len(queue) : queue'[i] = queue[i]
        BY <2>3, <3>1, Appended DEF SequenceInv
      <3>3. \A i \in 1 .. Len(queue') : FileTask(i)' => i = Len(queue')
        BY <2>3, <3>2, SMT
      <3>4. fileRuns' = fileRuns /\ fileRuns = 0 /\ at' = at
        BY <1>1, <2>3 DEF ServiceTakes
      <3> QED BY <2>3, <3>3, <3>4, SMT
    <2> QED BY <1>1, <2>1, <2>2, <2>3 DEF ServiceTakes, Taken
  <1>2. CASE GotOldAck
    BY <1>2 DEF GotOldAck, Got
  <1>3. CASE GotAck
    <2>1. queue' = queue \/ queue' = Append(queue, Task("due", "nobody"))
      BY <1>3 DEF GotAck
    <2>2. Task("due", "nobody") \in Tasks
      BY TaskKinds
    <2>3. UNCHANGED <<fileRuns, req, at>>
      BY <1>3 DEF GotAck, Got
    <2>4. Task("due", "nobody").asker # "file"
      BY DEF Task
    <2> QED BY <2>1, <2>2, <2>3, <2>4, OtherTask DEF SequenceInv
  <1>4. CASE GotRun
    <2>1. PICK f \in Frames : f.of \in Hooks /\ queue' = Append(queue, Task(f.of, "page"))
      BY <1>4 DEF GotRun
    <2>2. Task(f.of, "page") \in Tasks
      BY <2>1, TaskKinds
    <2>3. UNCHANGED <<fileRuns, req, at>>
      BY <1>4 DEF GotRun, Got
    <2>4. Task(f.of, "page").asker # "file"
      BY DEF Task
    <2> QED BY <2>1, <2>2, <2>3, <2>4, OtherTask DEF SequenceInv
  <1>5. CASE GotCommand
    BY <1>5 DEF GotCommand, Got
  <1>6. ASSUME NEW h \in Hooks, Begins(h) PROVE FileInv'
    <2>1. /\ queue' = queue /\ req' = req /\ at' = h /\ queue # <<>> /\ at \notin Hooks
          /\ fileRuns' = IF First.asker = "file" THEN fileRuns + 1 ELSE fileRuns
      BY <1>6 DEF Begins, TurnKeeps, Begin, Hooks
    <2>2. First = queue[1] /\ Len(queue) \in Nat \ {0}
      BY <2>1, Taken1 DEF SequenceInv, First
    <2>3. CASE First.asker = "file"
      <3>1. FileTask(1) /\ 1 \in 1 .. Len(queue)
        BY <2>2, <2>3, SMT
      <3>2. fileRuns = 0 /\ req = "taken" /\ \A j \in 1 .. Len(queue) : FileTask(j) => j = 1
        BY <2>1, <3>1
      <3> QED BY <2>1, <2>3, <3>2, SMT
    <2>4. CASE First.asker # "file"
      BY <2>1, <2>4
    <2> QED BY <2>3, <2>4
  <1>7. CASE NothingDue
    <2>1. /\ Done /\ queue # <<>>
          /\ fileRuns' = fileRuns
      BY <1>7 DEF NothingDue, TurnKeeps, Skips, FlightInv, Hooks
    <2> QED BY <2>1, TaskDone
  <1>8. CASE NoText
    <2>1. /\ Done /\ queue # <<>> /\ at \notin Hooks
          /\ fileRuns' = IF First.asker = "file" THEN fileRuns + 1 ELSE fileRuns
      BY <1>8 DEF NoText, TurnKeeps, FlightInv, Hooks
    <2> QED BY <2>1, TaskDone
  <1>9. CASE DueInstallEnds
    <2>1. /\ queue' = queue /\ req' = req /\ fileRuns' = fileRuns /\ at = "install" /\ queue # <<>>
          /\ First.does = "due"
      BY <1>9 DEF DueInstallEnds, RunKeeps, InstallRan, FlightInv
    <2>2. First = queue[1] /\ queue[1] \in Tasks
      BY <2>1, Taken1 DEF SequenceInv, First
    <2>3. ~FileTask(1)
      BY <2>1, <2>2 DEF Tasks, Hooks
    <2> QED BY <2>1, <2>3
  <1>10. CASE AskedInstallEnds
    <2>1. /\ Done /\ queue # <<>>
          /\ fileRuns' = fileRuns
      BY <1>10 DEF AskedInstallEnds, RunKeeps, FlightInv, Hooks
    <2> QED BY <2>1, TaskDone
  <1>11. CASE ResumeEnds
    <2>1. /\ Done /\ queue # <<>>
          /\ fileRuns' = fileRuns
      BY <1>11 DEF ResumeEnds, RunKeeps, FlightInv, Hooks
    <2> QED BY <2>1, TaskDone
  <1>12. CASE ServiceEnds
    BY <1>12, EmptySeq DEF ServiceEnds
  <1>13. CASE ShellAsks
    BY <1>13 DEF ShellAsks
  <1>14. CASE ShellTakesBack
    BY <1>14 DEF ShellTakesBack
  <1>15. CASE \/ EditPage \/ AckSent \/ RunSent \/ RecordHookState \/ Dial \/ Drop \/ Pause \/
                 TickSees \/ WakeSees \/ Reconnect \/ ServiceLists
              \/ \E h \in Hooks : AskRun(h)
              \/ \E c \in Commands : CommandSent(c) \/ CommandComes(c) \/ CommandGoes(c)
    <2>1. UNCHANGED <<fileRuns, req, queue, at>>
      BY <1>15 DEF EditPage, AckSent, RunSent, RecordHookState, AskRun, CommandSent, CommandComes,
                   CommandGoes, Dial, Drop, Pause, TickSees, WakeSees, Reconnect, ServiceLists
    <2> QED BY <2>1
  <1> QED BY ReceiveCases, TurnCases, RunCases, <1>1, <1>2, <1>3, <1>4, <1>5, <1>6, <1>7, <1>8,
             <1>9, <1>10, <1>11, <1>12, <1>13, <1>14, <1>15
             DEF Next, Command

LEMMA FrameStep ==
  ASSUME SequenceInv, GatewayType, DiskType, FrameInv, Next
  PROVE  FrameInv'
  <1> USE DEF gateway, connection, disk, memory, flight, clocks, shell, history, SequenceInv
  <1>1. CASE EditPage
    <2>1. page' = page + 1 /\ UNCHANGED <<ackWith, runWith, kept, down>>
      BY <1>1 DEF EditPage
    <2> QED BY <2>1, PageRead
  <1>2. CASE AckSent
    <2>1. ackWith' = NotYet /\ UNCHANGED <<page, runWith, kept>>
      BY <1>2 DEF AckSent
    <2>2. /\ Frame("ack", "all", ackWith) \in Frames /\ Frame("ack", "all", NoField) \in Frames
          /\ \A w : Frame("ack", "all", w).is = "ack" /\ Frame("ack", "all", w).with = w
      <3>1. ackWith \in Read
        BY <1>2 DEF AckSent, LinkInv
      <3> QED BY <3>1, FrameKinds DEF Frame
    <2>3. CASE down' = Append(down, Frame("ack", "all", ackWith))
      BY <2>1, <2>2, <2>3, QuietFrameSent
    <2>4. CASE down' = Append(down, Frame("ack", "all", NoField))
      BY <2>1, <2>2, <2>4, FrameNumbers, QuietFrameSent
    <2> QED BY <1>2, <2>3, <2>4, Zenon DEF AckSent
  <1>3. CASE RunSent
    <2>1. /\ UNCHANGED <<page, kept, ackWith>> /\ down' = Append(down, runWith)
          /\ runWith'.with = NotYet
      BY <1>3 DEF RunSent, Frame
    <2>2. runWith \in Frames /\ runWith.is = "run"
      BY <1>3 DEF RunSent, GatewayType, LinkInv, Frames
    <2> QED BY <2>1, <2>2, RunFrameSent
  <1>4. ASSUME NEW h \in Hooks, AskRun(h) PROVE FrameInv'
    <2>1. /\ runWith.with = NotYet /\ runWith'.with \in {page, Unread}
          /\ UNCHANGED <<page, ackWith, kept, down>>
      BY <1>4 DEF AskRun, Frame
    <2> QED BY <2>1, FrameNumbers, PageRead
  <1>5. ASSUME NEW c \in Commands, CommandSent(c) PROVE FrameInv'
    <2>1. /\ UNCHANGED <<page, runWith, kept, ackWith>>
          /\ down' = Append(down, Frame("command", c, 0))
      BY <1>5 DEF CommandSent
    <2>2. Frame("command", c, 0) \in Frames /\ Frame("command", c, 0).is = "command"
      BY FrameKinds DEF Frame
    <2> QED BY <2>1, <2>2, QuietFrameSent
  <1>6. CASE Dial
    <2>1. /\ down = <<>> /\ runWith.with = NotYet /\ ackWith' \in {page, Unread}
          /\ UNCHANGED <<page, runWith, kept, down>>
      BY <1>6 DEF Dial, LinkInv
    <2> QED BY <2>1, FrameNumbers, PageRead
  <1>7. CASE GotOldAck
    <2>1. /\ down # <<>> /\ down' = Tail(down) /\ UNCHANGED <<page, ackWith, runWith>>
          /\ kept' = kept
      BY <1>7 DEF GotOldAck, Got
    <2> QED BY <2>1, FirstFrameRead
  <1>8. CASE GotAck
    <2>1. PICK f \in Frames : /\ Got(f) /\ f.is = "ack" /\ f.with \in Read
                              /\ known' = Adopted(f.with)
      BY <1>8 DEF GotAck
    <2>2. /\ down # <<>> /\ down' = Tail(down) /\ UNCHANGED <<page, ackWith, runWith>>
          /\ down[1] = f
      BY <2>1, Taken1 DEF Got, SequenceInv
    <2>3. kept' = kept \/ (f.with \in Edits /\ kept' = f.with)
      BY <1>8, <2>1 DEF GotAck, Adopted, Read
    <2> QED BY <2>1, <2>2, <2>3, FirstFrameRead
  <1>9. CASE GotRun
    <2>1. PICK f \in Frames : /\ Got(f) /\ f.is = "run" /\ f.with \in Read
                              /\ known' = Adopted(f.with)
      BY <1>9 DEF GotRun
    <2>2. /\ down # <<>> /\ down' = Tail(down) /\ UNCHANGED <<page, ackWith, runWith>>
          /\ down[1] = f
      BY <2>1, Taken1 DEF Got, SequenceInv
    <2>3. kept' = kept \/ (f.with \in Edits /\ kept' = f.with)
      BY <1>9, <2>1 DEF GotRun, Adopted, Read
    <2> QED BY <2>1, <2>2, <2>3, FirstFrameRead
  <1>10. CASE GotCommand
    <2>1. /\ down # <<>> /\ down' = Tail(down) /\ UNCHANGED <<page, ackWith, runWith>>
          /\ kept' = kept
      BY <1>10 DEF GotCommand, Got
    <2> QED BY <2>1, FirstFrameRead
  <1>11. CASE Drop
    <2>1. /\ down' = <<>> /\ ackWith' = NotYet /\ runWith'.with = NotYet
          /\ UNCHANGED <<page, kept>>
      BY <1>11 DEF Drop, ConnectionEnds, Frame
    <2> QED BY <2>1, NoFrames
  <1>12. CASE TickSees
    <2>1. CASE link = "down"
      BY <1>12, <2>1 DEF TickSees, Redial, FrameInv, NoneOlder, RunEdit, AckEdit
    <2>2. CASE link # "down"
      <3>1. /\ down' = <<>> /\ ackWith' = NotYet /\ runWith'.with = NotYet
            /\ UNCHANGED <<page, kept>>
        BY <1>12, <2>2 DEF TickSees, Redial, ConnectionEnds, Frame
      <3> QED BY <3>1, NoFrames
    <2> QED BY <2>1, <2>2
  <1>13. CASE Reconnect
    <2>1. CASE link = "down"
      BY <1>13, <2>1 DEF Reconnect, Redial, FrameInv, NoneOlder, RunEdit, AckEdit
    <2>2. CASE link # "down"
      <3>1. /\ down' = <<>> /\ ackWith' = NotYet /\ runWith'.with = NotYet
            /\ UNCHANGED <<page, kept>>
        BY <1>13, <2>2 DEF Reconnect, Redial, ConnectionEnds, Frame
      <3> QED BY <3>1, NoFrames
    <2> QED BY <2>1, <2>2
  <1>14. CASE ServiceEnds
    <2>1. /\ down' = <<>> /\ ackWith' = NotYet /\ runWith'.with = NotYet
          /\ UNCHANGED <<page, kept>>
      BY <1>14 DEF ServiceEnds, ConnectionEnds, Frame
    <2> QED BY <2>1, NoFrames
  <1>15. CASE \/ RecordHookState \/ Pause \/ WakeSees \/ NothingDue \/ NoText \/ DueInstallEnds \/
                 AskedInstallEnds \/ ResumeEnds \/ ShellAsks \/ ShellTakesBack \/ ServiceLists
              \/ \E h \in Hooks : ServiceTakes(h) \/ Begins(h)
              \/ \E c \in Commands : CommandComes(c) \/ CommandGoes(c)
    <2>1. UNCHANGED <<page, kept, ackWith, runWith, down>>
      BY <1>15 DEF RecordHookState, ServiceTakes, CommandComes, CommandGoes, Pause, WakeSees,
                   Begins, NothingDue, NoText, DueInstallEnds, AskedInstallEnds, ResumeEnds,
                   ShellAsks, ShellTakesBack, ServiceLists, Begin, Done, InstallRan, RunKeeps,
                   Skips, TurnKeeps
    <2> QED BY <2>1 DEF FrameInv, NoneOlder, RunEdit, AckEdit
  <1> QED BY ReceiveCases, TurnCases, RunCases, <1>1, <1>2, <1>3, <1>4, <1>5, <1>6, <1>7, <1>8,
             <1>9, <1>10, <1>11, <1>12, <1>13, <1>14, <1>15
             DEF Next, Command

LEMMA OwedStep ==
  ASSUME SequenceInv, DiskType, MemoryType, ClockType, HistoryType, FlightInv, FrameInv,
         OwedInv, Next
  PROVE  OwedInv'
  <1> USE DEF gateway, connection, disk, memory, flight, clocks, shell, history
  <1>1. ASSUME NEW h \in Hooks, ServiceTakes(h) PROVE OwedInv'
    <2>1. /\ UNCHANGED <<owed, known, kept, tried, resumed, at, running>>
          /\ generation' \in {generation, generation + 1}
          /\ queue' = queue \/ queue' = Append(queue, Task(h, "file"))
      BY <1>1 DEF ServiceTakes
    <2>2. Task("due", "nobody") \in Tasks /\ \A g \in Hooks : Task(g, "page") \in Tasks /\ Task(g, "file") \in Tasks
      BY TaskKinds
    <2> QED BY <2>1, <2>2, DebtStands
  <1>2. CASE GotOldAck
    BY <1>2 DEF GotOldAck, OwedInv
  <1>3. CASE GotAck
    <2>1. /\ UNCHANGED <<tried, attempted, at, running, resumed, generation>> /\ kept' = known'
          /\ owed' = IF known' = Unread THEN Nothing ELSE Owing(known', generation)
          /\ queue' = IF InstallDue(known') \/ ResumeDue(known')
                      THEN Append(queue, Task("due", "nobody")) ELSE queue
      BY <1>3 DEF GotAck, Got
    <2>2. known' \in Read
      BY <1>3, AdoptedType DEF GotAck, DiskType
    <2>3. CASE known' = Unread
      BY <2>1, <2>3 DEF OwedInv
    <2>4. CASE known' # Unread
      <3>1. known' \in Edits /\ known' \in Nat /\ owed'.key = known' /\ owed'.gen = generation
        BY <2>1, <2>2, <2>4, OwedNumbers DEF Read, Owing
      <3>2. CASE InstallDue(known') \/ ResumeDue(known')
        <4>1. InstallComes' /\ ResumeComes'
          BY <2>1, <3>2, DueQueued
        <4> QED BY <2>1, <3>1, <4>1, OwedNumbers, SMT DEF OwedInv
      <3>3. CASE ~InstallDue(known') /\ ~ResumeDue(known')
        <4>1. known' \in tried
          BY <2>4, <3>1, <3>3, OwedNumbers DEF InstallDue, FlightInv
        <4>2. Tried'
          BY <2>1, <3>1, <4>1, SMT DEF Tried
        <4>3. resumed >= generation
          BY <2>4, <3>3, OwedNumbers, SMT DEF ResumeDue
        <4> QED BY <2>1, <3>1, <4>2, <4>3, OwedNumbers, SMT DEF OwedInv
      <3> QED BY <3>2, <3>3
    <2> QED BY <2>3, <2>4
  <1>4. CASE GotRun
    <2>1. PICK f \in Frames : /\ Got(f) /\ f.is = "run" /\ f.with \in Read /\ f.of \in Hooks
                              /\ known' = Adopted(f.with)
                              /\ queue' = Append(queue, Task(f.of, "page"))
      BY <1>4 DEF GotRun
    <2>2. /\ UNCHANGED <<tried, at, running, resumed, generation>> /\ owed' = owed /\ kept' = known'
          /\ down # <<>> /\ down[1] = f /\ 1 \in 1 .. Len(down)
      <3>1. down[1] = f /\ 1 \in 1 .. Len(down)
        BY <2>1, Taken1, SMT DEF Got, SequenceInv
      <3> QED BY <1>4, <2>1, <3>1 DEF GotRun, Got
    <2>3. CASE owed = Nothing
      BY <2>2, <2>3 DEF OwedInv
    <2>4. CASE owed # Nothing
      <3>1. /\ known = kept /\ known \in Edits /\ owed.key <= known /\ owed.gen <= generation
            /\ Tried \/ InstallComes
            /\ resumed >= owed.gen \/ ResumeComes
        BY <2>4 DEF OwedInv
      <3>2. known' \in Edits /\ owed.key <= known'
        <4>1. CASE f.with = Unread
          BY <2>1, <3>1, <4>1 DEF Adopted
        <4>2. CASE f.with \in Edits
          <5>1. known' = f.with
            BY <2>1, <4>2, OwedNumbers DEF Adopted
          <5>2. kept <= f.with
            BY <2>1, <2>2, <4>2 DEF FrameInv, NoneOlder, RunEdit
          <5> QED BY <3>1, <4>2, <5>1, <5>2, OwedNumbers, SMT
        <4> QED BY <2>1, <4>1, <4>2 DEF Read
      <3>3. (InstallComes => InstallComes') /\ (ResumeComes => ResumeComes')
        BY <2>1, <2>2, TaskKinds, QueueGrows
      <3>4. Tried => Tried'
        BY <2>2 DEF Tried
      <3> QED BY <2>2, <3>1, <3>2, <3>3, <3>4 DEF OwedInv
    <2> QED BY <2>3, <2>4
  <1>5. CASE GotCommand
    <2>1. /\ UNCHANGED <<owed, known, kept, tried, resumed, at, running>>
          /\ generation' \in {generation, generation + 1}
          /\ queue' = queue
      BY <1>5 DEF GotCommand, Got
    <2>2. Task("due", "nobody") \in Tasks /\ \A g \in Hooks : Task(g, "page") \in Tasks /\ Task(g, "file") \in Tasks
      BY TaskKinds
    <2> QED BY <2>1, <2>2, DebtStands
  <1>6. CASE Drop
    BY <1>6 DEF Drop, ConnectionEnds, OwedInv
  <1>7. CASE TickSees
    <2>1. CASE link = "down"
      <3>1. UNCHANGED <<owed, known, kept, tried, resumed, at, running, queue>>
        BY <1>7, <2>1 DEF TickSees, Redial
      <3>2. generation' \in {generation, generation + 1} /\ Task("due", "nobody") \in Tasks
        BY <1>7, TaskKinds DEF TickSees, Observe
      <3> QED BY <3>1, <3>2, DebtStands
    <2>2. CASE link # "down"
      BY <1>7, <2>2 DEF TickSees, Redial, ConnectionEnds, OwedInv
    <2> QED BY <2>1, <2>2
  <1>8. CASE WakeSees
    <2>1. /\ UNCHANGED <<owed, known, kept, tried, resumed, at, running>>
          /\ generation' \in {generation, generation + 1}
          /\ queue' = queue
      BY <1>8 DEF WakeSees, Observe
    <2>2. Task("due", "nobody") \in Tasks /\ \A g \in Hooks : Task(g, "page") \in Tasks /\ Task(g, "file") \in Tasks
      BY TaskKinds
    <2> QED BY <2>1, <2>2, DebtStands
  <1>9. CASE Reconnect
    <2>1. CASE link = "down"
      <3>1. UNCHANGED <<owed, known, kept, tried, resumed, at, running, queue>>
        BY <1>9, <2>1 DEF Reconnect, Redial
      <3>2. generation' \in {generation, generation + 1} /\ Task("due", "nobody") \in Tasks
        BY <1>9, TaskKinds DEF Reconnect
      <3> QED BY <3>1, <3>2, DebtStands
    <2>2. CASE link # "down"
      BY <1>9, <2>2 DEF Reconnect, Redial, ConnectionEnds, OwedInv
    <2> QED BY <2>1, <2>2
  <1>10. ASSUME NEW h \in Hooks, Begins(h) PROVE OwedInv'
    <2>1. /\ UNCHANGED <<owed, known, kept, generation, queue, tried>> /\ queue # <<>>
          /\ at \in {"turn", "after"} /\ at' = h /\ running' = known
          /\ resumed' = IF h = "resume" /\ generation > resumed THEN generation ELSE resumed
          /\ Reason(h)
      BY <1>10 DEF Begins, TurnKeeps, Begin
    <2>2. CASE owed = Nothing
      BY <2>1, <2>2 DEF OwedInv
    <2>3. CASE owed # Nothing
      <3>1. /\ known = kept /\ known \in Edits /\ owed.key <= known /\ owed.gen <= generation
            /\ Tried \/ InstallComes
            /\ resumed >= owed.gen \/ ResumeComes
        BY <2>3 DEF OwedInv
      <3>2. Tried' <=> Tried
        BY <2>1 DEF Tried
      <3>3. resumed >= owed.gen => resumed' >= owed.gen
        BY <2>1, OwedNumbers, SMT
      <3>4. CASE First.does = "due" /\ h = "install"
        <4>1. InstallComes' /\ ResumeComes'
          BY <2>1, <3>1, <3>4, DueComes, OwedNumbers
        <4> QED BY <2>1, <3>1, <4>1 DEF OwedInv
      <3>5. CASE /\ First.does = "due" /\ h = "resume" /\ ResumeDue(known)
                 /\ at = "after" \/ ~InstallDue(known)
        <4>1. resumed' = generation
          BY <2>1, <3>5, OwedNumbers, SMT DEF ResumeDue
        <4>2. resumed' >= owed.gen
          BY <3>1, <4>1, OwedNumbers, SMT
        <4>3. Tried \/ InstallComes'
          BY <2>1, <2>3, <3>1, <3>5, TriedKnown, WhoComes, DueComes
        <4> QED BY <2>1, <3>1, <3>2, <4>2, <4>3 DEF OwedInv
      <3>6. CASE First.does = h
        <4>1. (InstallComes => InstallComes') /\ (ResumeComes => ResumeComes')
          BY <2>1, <3>6, WhoComes, DueComes DEF Hooks
        <4> QED BY <2>1, <3>1, <3>2, <3>3, <4>1 DEF OwedInv
      <3> QED BY <2>1, <3>4, <3>5, <3>6 DEF Reason
    <2> QED BY <2>2, <2>3
  <1>11. CASE NothingDue
    <2>1. /\ UNCHANGED <<owed, known, kept, generation>> /\ Done /\ queue # <<>>
          /\ tried \subseteq tried' /\ resumed' = resumed
          /\ First.does = "due" /\ ~ResumeDue(known)
          /\ at = "turn" => ~InstallDue(known)
          /\ at \in {"turn", "after"}
      BY <1>11 DEF NothingDue, TurnKeeps, Skips
    <2>2. CASE owed = Nothing
      BY <2>1, <2>2 DEF OwedInv
    <2>3. CASE owed # Nothing
      <3>1. /\ known = kept /\ known \in Edits /\ owed.key <= known /\ owed.gen <= generation
            /\ Tried \/ InstallComes
            /\ resumed >= owed.gen \/ ResumeComes
        BY <2>3 DEF OwedInv
      <3>2. Tried \/ InstallComes'
        BY <2>1, <2>3, <3>1, WhoComes, QueueMoves, TriedKnown
      <3>3. resumed' >= owed.gen \/ ResumeComes'
        BY <2>1, <2>3, <3>1, WhoComes, QueueMoves, ResumedKnown
      <3>4. Tried => Tried'
        BY <2>1 DEF Tried
      <3> QED BY <2>1, <3>1, <3>2, <3>3, <3>4 DEF OwedInv
    <2> QED BY <2>2, <2>3
  <1>12. CASE NoText
    <2>1. owed' = owed /\ known' = known /\ known = Unread
      BY <1>12 DEF NoText, TurnKeeps
    <2>2. owed = Nothing
      BY <2>1, OwedNumbers DEF OwedInv
    <2> QED BY <2>1, <2>2 DEF OwedInv
  <1>13. CASE DueInstallEnds
    <2>1. /\ UNCHANGED <<owed, known, kept, generation, resumed, queue>> /\ queue # <<>>
          /\ tried' = tried \cup {running} /\ at = "install" /\ at' = "after" /\ First.does = "due"
      BY <1>13 DEF DueInstallEnds, RunKeeps, InstallRan, FlightInv
    <2>2. CASE owed = Nothing
      BY <2>1, <2>2 DEF OwedInv
    <2>3. CASE owed # Nothing
      <3>1. /\ known = kept /\ known \in Edits /\ owed.key <= known /\ owed.gen <= generation
            /\ Tried \/ InstallComes
            /\ resumed >= owed.gen \/ ResumeComes
        BY <2>3 DEF OwedInv
      <3>2. Tried' \/ InstallComes'
        <4>1. Tried => Tried'
          BY <2>1 DEF Tried
        <4>2. running >= owed.key => Tried'
          BY <2>1 DEF Tried
        <4> QED BY <2>1, <3>1, <4>1, <4>2, WhoComes, DueComes
      <3>3. ResumeComes'
        BY <2>1, DueComes
      <3> QED BY <2>1, <3>1, <3>2, <3>3 DEF OwedInv
    <2> QED BY <2>2, <2>3
  <1>14. CASE AskedInstallEnds
    <2>1. /\ UNCHANGED <<owed, known, kept, generation>> /\ Done /\ queue # <<>>
          /\ tried \subseteq tried' /\ resumed' = resumed /\ First.does # "due"
      BY <1>14 DEF AskedInstallEnds, RunKeeps, InstallRan, FlightInv, Hooks
    <2>2. CASE owed = Nothing
      BY <2>1, <2>2 DEF OwedInv
    <2>3. CASE owed # Nothing
      <3>1. /\ known = kept /\ known \in Edits /\ owed.key <= known /\ owed.gen <= generation
            /\ Tried \/ InstallComes
            /\ resumed >= owed.gen \/ ResumeComes
        BY <2>3 DEF OwedInv
      <3>2. Tried \/ InstallComes'
        BY <2>1, <2>3, <3>1, WhoComes, QueueMoves
      <3>3. resumed' >= owed.gen \/ ResumeComes'
        BY <2>1, <2>3, <3>1, WhoComes, QueueMoves
      <3>4. Tried => Tried'
        BY <2>1 DEF Tried
      <3> QED BY <2>1, <3>1, <3>2, <3>3, <3>4 DEF OwedInv
    <2> QED BY <2>2, <2>3
  <1>15. CASE ResumeEnds
    <2>1. /\ UNCHANGED <<owed, known, kept, generation>> /\ Done /\ queue # <<>>
          /\ tried \subseteq tried' /\ resumed' = resumed /\ at = "resume"
      BY <1>15 DEF ResumeEnds, RunKeeps, FlightInv, Hooks
    <2>2. CASE owed = Nothing
      BY <2>1, <2>2 DEF OwedInv
    <2>3. CASE owed # Nothing
      <3>1. /\ known = kept /\ known \in Edits /\ owed.key <= known /\ owed.gen <= generation
            /\ Tried \/ InstallComes
            /\ resumed >= owed.gen \/ ResumeComes
        BY <2>3 DEF OwedInv
      <3>2. Tried \/ InstallComes'
        BY <2>1, <2>3, <3>1, WhoComes, QueueMoves
      <3>3. resumed' >= owed.gen \/ ResumeComes'
        BY <2>1, <2>3, <3>1, WhoComes, QueueMoves
      <3>4. Tried => Tried'
        BY <2>1 DEF Tried
      <3> QED BY <2>1, <3>1, <3>2, <3>3, <3>4 DEF OwedInv
    <2> QED BY <2>2, <2>3
  <1>16. CASE ServiceEnds
    BY <1>16 DEF ServiceEnds, ConnectionEnds, OwedInv
  <1>17. CASE \/ EditPage \/ AckSent \/ RunSent \/ RecordHookState \/ Dial \/ Pause \/
                 ShellAsks \/ ShellTakesBack \/ ServiceLists
              \/ \E h \in Hooks : AskRun(h)
              \/ \E c \in Commands : CommandSent(c) \/ CommandComes(c) \/ CommandGoes(c)
    <2>1. UNCHANGED <<owed, known, kept, generation, tried, queue, at, running, resumed>>
      BY <1>17 DEF EditPage, AckSent, RunSent, RecordHookState, AskRun, CommandSent, CommandComes,
                   CommandGoes, Dial, Pause, ShellAsks, ShellTakesBack, ServiceLists
    <2> QED BY <2>1 DEF OwedInv, Tried, InstallComes, ResumeComes
  <1> QED BY ReceiveCases, TurnCases, RunCases, <1>1, <1>2, <1>3, <1>4, <1>5, <1>6, <1>7, <1>8,
             <1>9, <1>10, <1>11, <1>12, <1>13, <1>14, <1>15, <1>16, <1>17
             DEF Next, Command

----------------------------------------------------------------------------
AllTypes == /\ GatewayType /\ ConnectionType /\ DiskType /\ MemoryType
            /\ FlightType /\ ClockType /\ ShellType /\ HistoryType
InnerInv == /\ SequenceInv /\ CountInv /\ FlightInv /\ OnceInv /\ FileInv /\ FrameInv /\ OwedInv

LEMMA InitInv == Init => AllTypes /\ InnerInv
  <1> SUFFICES ASSUME Init PROVE AllTypes /\ InnerInv
    OBVIOUS
  <1>1. Len(down) = 0 /\ Len(queue) = 0 /\ down \in Seq(Frames) /\ queue \in Seq(Tasks)
    BY EmptySeq DEF Init
  <1>2. SequenceInv
    BY <1>1 DEF Init, SequenceInv, LinkInv, Frame
  <1>3. GatewayType
    BY Numbers DEF Init, GatewayType, Frame
  <1>4. ConnectionType /\ ShellType
    BY DEF Init, ConnectionType, ShellType
  <1>5. DiskType
    BY Numbers, EditKeys DEF Init, DiskType
  <1>6. MemoryType /\ FlightType
    BY Numbers DEF Init, MemoryType, FlightType
  <1>7. ClockType
    <2>1. MaxEvents \in 0 .. MaxEvents /\ 0 \in 0 .. 1 /\ 1 \in 1 .. MaxEvents + 1
      BY ConstantsAssumption, SMT DEF ConstantsAssumption
    <2> QED BY <2>1 DEF Init, ClockType
  <1>8. HistoryType
    BY NothingType DEF Init, HistoryType
  <1>9. CountInv
    BY ConstantsAssumption, SMT DEF Init, CountInv, LastEdit, ConstantsAssumption
  <1>10. FlightInv /\ OnceInv /\ OwedInv
    BY DEF Init, FlightInv, OnceInv, OwedInv, Hooks
  <1>11. FileInv
    BY <1>1, SMT DEF Init, FileInv
  <1>12. FrameInv
    <2>1. /\ page = 1 /\ kept = Unread /\ Unread = 0
          /\ ackWith = NotYet /\ runWith.with = NotYet /\ NotYet \notin Edits
      BY <1>2, <1>3, <1>5, FrameNumbers, Numbers DEF Init, Frame
    <2> QED BY <1>1, <2>1, SMT DEF FrameInv, NoneOlder
  <1> QED BY <1>2, <1>3, <1>4, <1>5, <1>6, <1>7, <1>8, <1>9, <1>10, <1>11, <1>12 DEF AllTypes, InnerInv

LEMMA TypesStep ==
  ASSUME AllTypes, InnerInv, Next
  PROVE  AllTypes'
  <1> USE DEF AllTypes, InnerInv
  <1>1. GatewayType' /\ ConnectionType' /\ MemoryType' /\ FlightType' /\ ShellType'
    BY GatewayTypeStep, ConnectionTypeStep, MemoryTypeStep, FlightTypeStep, ShellTypeStep
  <1>2. DiskType'
    BY LastStep, KeptStep DEF DiskType
  <1>3. ClockType'
    BY PausesStep, FlagsStep, EventsStep, Zenon DEF ClockType
  <1>4. HistoryType'
    BY OwedTypeStep, DoneTypeStep, Zenon DEF HistoryType
  <1> QED BY <1>1, <1>2, <1>3, <1>4

LEMMA InnerStep ==
  ASSUME AllTypes, InnerInv, Next
  PROVE  InnerInv'
  <1> USE DEF AllTypes, InnerInv
  <1>1. SequenceInv'
    BY DownStep, QueueStep, LinkStep DEF SequenceInv
  <1>2. CountInv' /\ FlightInv' /\ OnceInv' /\ FileInv'
    BY CountStep, FlightStep, OnceStep, FileStep
  <1>3. FrameInv' /\ OwedInv'
    BY FrameStep, OwedStep
  <1> QED BY <1>1, <1>2, <1>3

LEMMA Stutter ==
  ASSUME UNCHANGED vars
  PROVE  /\ AllTypes => AllTypes'
         /\ InnerInv => InnerInv'
  <1> USE DEF vars, gateway, connection, disk, memory, flight, clocks, shell, history
  <1>1. AllTypes => AllTypes'
    BY DEF AllTypes, GatewayType, ConnectionType, DiskType, MemoryType, FlightType, ClockType,
           ShellType, HistoryType
  <1>2. SequenceInv => SequenceInv'
    BY DEF SequenceInv, LinkInv
  <1>3. CountInv /\ FlightInv /\ OnceInv /\ FileInv => CountInv' /\ FlightInv' /\ OnceInv' /\ FileInv'
    BY DEF CountInv, FlightInv, First, OnceInv, FileInv, FileTask
  <1>4. FrameInv => FrameInv'
    BY DEF FrameInv, NoneOlder, RunEdit, AckEdit
  <1>5. OwedInv => OwedInv'
    BY DEF OwedInv, Tried, InstallComes, ResumeComes
  <1> QED BY <1>1, <1>2, <1>3, <1>4, <1>5 DEF InnerInv

LEMMA HooksInvariant == SafetySpec => [](AllTypes /\ InnerInv)
  <1>1. AllTypes /\ InnerInv /\ [Next]_vars => (AllTypes /\ InnerInv)'
    BY TypesStep, InnerStep, Stutter
  <1> QED BY <1>1, InitInv, PTL DEF SafetySpec

\* The frames, the tasks, the files and the clocks have the values that
\* hooks/mod.rs, clock.rs and the gateway give them; no resume is counted that
\* no pause asked for.
THEOREM TypeCorrect == SafetySpec => []TypeOK
  <1>1. AllTypes /\ InnerInv => TypeOK
    BY Parts DEF AllTypes, InnerInv
  <1> QED BY <1>1, HooksInvariant, PTL

\* However often connections are lost, acknowledged and lost again, whatever
\* the page becomes meanwhile: no install runs by itself right after itself,
\* with no other install between (mod.rs:12, 270), there are never more resumes
\* than returns of the machine, and the request of a shell runs once, and not
\* after it was taken back.
THEOREM EachCauseOnce == SafetySpec => []OneRunPerCause
  <1>1. AllTypes /\ InnerInv => OneRunPerCause
    <2> SUFFICES ASSUME AllTypes, InnerInv PROVE OneRunPerCause
      OBVIOUS
    <2>1. again = FALSE /\ resumes <= generation
      BY OwedNumbers, SMT DEF AllTypes, InnerInv, OnceInv, HistoryType
    <2> QED BY <2>1, Zenon DEF InnerInv, FileInv, OneRunPerCause
  <1> QED BY <1>1, HooksInvariant, PTL

LEMMA StartsBehindGate ==
  ASSUME AllTypes, InnerInv, Next, NEW c \in Commands, cmd[c] # "started", cmd'[c] = "started"
  PROVE  queue = <<>>
  <1> DEFINE Quiet == \A d \in Commands : cmd'[d] # "started" \/ cmd'[d] = cmd[d]
  <1> USE DEF gateway, connection, disk, memory, flight, clocks, shell, history
  <1>1. ASSUME NEW d \in Commands, CommandComes(d) PROVE queue = <<>>
    BY <1>1 DEF CommandComes, Closed, AllTypes, ShellType
  <1>2. ASSUME NEW d \in Commands, CommandGoes(d) PROVE queue = <<>>
    BY <1>2 DEF CommandGoes, Closed, AllTypes, ShellType
  <1>3. ASSUME NEW d \in Commands, CommandSent(d) PROVE FALSE
    BY <1>3 DEF CommandSent, AllTypes, ShellType
  <1>4. ASSUME GotCommand PROVE FALSE
    BY <1>4 DEF GotCommand, AllTypes, ShellType
  <1>5. CASE Drop
    BY <1>5 DEF Drop, ConnectionEnds
  <1>6. CASE TickSees
    BY <1>6 DEF TickSees, Redial, ConnectionEnds
  <1>7. CASE Reconnect
    BY <1>7 DEF Reconnect, Redial, ConnectionEnds
  <1>8. CASE ServiceEnds
    BY <1>8 DEF ServiceEnds, ConnectionEnds
  <1>9. CASE \/ EditPage \/ AckSent \/ RunSent \/ RecordHookState \/ Dial \/ GotOldAck \/ GotAck
             \/ GotRun \/ Pause \/ WakeSees \/ NothingDue \/ NoText \/ DueInstallEnds
             \/ AskedInstallEnds \/ ResumeEnds \/ ShellAsks \/ ShellTakesBack \/ ServiceLists
             \/ \E h \in Hooks : AskRun(h) \/ ServiceTakes(h) \/ Begins(h)
    <2>1. cmd' = cmd
      BY <1>9 DEF EditPage, AckSent, RunSent, RecordHookState, Dial, GotOldAck, GotAck, GotRun,
         Pause, WakeSees, NothingDue, NoText, DueInstallEnds, AskedInstallEnds, ResumeEnds,
         ShellAsks, ShellTakesBack, ServiceLists, AskRun, ServiceTakes, Begins, TurnKeeps, RunKeeps
    <2> QED BY <2>1
  <1> QED BY ReceiveCases, TurnCases, RunCases, <1>1, <1>2, <1>3, <1>4, <1>5, <1>6, <1>7, <1>8,
             <1>9 DEF Next, Command, InnerInv

\* Whatever connections are lost and acknowledged while a command waits, and
\* however the tasks follow one another: it starts in a checkout whose install
\* has ended and whose pauses have had their resume, or it runs out of patience.
THEOREM GateStands == SafetySpec => GateHolds
  <1>1. AllTypes /\ InnerInv /\ [Next]_vars =>
          [\A c \in Commands : (cmd[c] # "started" /\ cmd'[c] = "started") =>
             /\ at \notin Hooks
             /\ owed # Nothing => ((\E k \in tried : k >= owed.key) /\ resumed >= owed.gen)]_vars
    <2> SUFFICES ASSUME AllTypes, InnerInv, Next,
                        NEW c \in Commands, cmd[c] # "started", cmd'[c] = "started"
                 PROVE  /\ at \notin Hooks
                        /\ owed # Nothing => (Tried /\ resumed >= owed.gen)
      BY DEF Tried
    <2>1. queue = <<>> /\ Len(queue) = 0
      BY StartsBehindGate, EmptySeq
    <2>2. at \notin Hooks
      BY <2>1 DEF InnerInv, FlightInv, Hooks
    <2>3. ~InstallComes /\ ~ResumeComes
      BY <2>1, SMT DEF InstallComes, ResumeComes
    <2> QED BY <2>2, <2>3 DEF InnerInv, OwedInv
  <1> QED BY <1>1, HooksInvariant, PTL DEF SafetySpec, GateHolds

=============================================================================
