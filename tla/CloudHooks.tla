------------------------------- MODULE CloudHooks -------------------------------
(***************************************************************************)
(* The scripts of a cloud project on one of its machines: what the gateway *)
(* tells the machine of the project's page and keeps of its runs           *)
(* (cloud/hooks.ts, relay-do-hello.ts), the service that decides which run *)
(* is due (cloud/hooks/mod.rs), the gate that holds commands back meanwhile *)
(* (gate.rs, connection.rs), the clock that notices a pause (cloud/mod.rs, *)
(* clock.rs, http.rs), and a request left by a shell on the machine        *)
(* (requests.rs, command.rs).                                              *)
(*                                                                         *)
(* The connection loop handles one frame at a time and in order; tasks run *)
(* beside it, and a script runs while one task holds the flight.  Reports  *)
(* are written by handlers that wait on D1, in any order.  Every edit of   *)
(* the page has both scripts; files of the repository stand for such an    *)
(* edit.  How a script ends does not matter here, only that it did.        *)
(***************************************************************************)
EXTENDS Naturals, Sequences, FiniteSets

CONSTANTS
  Commands,  \* calls that start something, and terminals that open
  MaxEvents  \* together: edits of the page, runs somebody asks for there or
             \* from a shell, pauses of the machine, and faults: connections
             \* lost, services ended, reads that fail, old gateways

ASSUME ConstantsAssumption ==
  /\ IsFiniteSet(Commands)
  /\ MaxEvents \in Nat

Hooks == {"install", "resume"}
LastEdit == MaxEvents + 1
Edits == 1 .. LastEdit
Unread == 0                \* `scripts: null`: the page could not be read
NoField == LastEdit + 1    \* an acknowledgement of a gateway without scripts
NotYet == LastEdit + 2
Unusable == LastEdit + 1   \* the key of a script there is no text of

NoRun == [at |-> 0, over |-> TRUE]

VARIABLES
  \* The gateway.
  page,      \* the edit the page shows
  row,       \* install_hook and resume_hook of the machine's row
  ackWith,   \* what the acknowledgement under way read
  runWith,   \* what the request of a run under way read, and for which hook
  \* The connection.
  link,      \* "down", "greeted" (its hello was handled), "up" (acknowledged)
  down,      \* frames on their way to the machine
  up,        \* reports on their way to the gateway
  \* The disk.
  attempted, kept, last,
  \* The service.
  enabled, known,
  out,       \* `outgoing`: "none", "live", or "dead" with its connection
  queue,     \* tasks that hold the gate; the first has the flight or gets it next
  at,        \* what the first one does: "turn", "install", "after", "resume"
  running,   \* the edit whose script runs
  resumed, generation,
  gap,       \* the clock would show a pause nobody has seen
  nudge,     \* reconnect_now was called
  \* Commands, and the request of a shell.
  cmd, req, listed,
  \* What was owed when the connection was acknowledged, what was done.
  owed, tried, again, resumes, fileRuns,
  unseen,    \* a pause that nobody has seen yet
  clock, events

gateway == <<page, row, ackWith, runWith>>
connection == <<link, down, up>>
disk == <<attempted, kept, last>>
memory == <<enabled, known, out>>
flight == <<queue, at, running>>
clocks == <<resumed, generation, gap, nudge>>
shell == <<req, listed>>
history == <<owed, tried, again, resumes, fileRuns, unseen>>
vars == <<gateway, connection, disk, memory, flight, clocks, cmd, shell, history, clock, events>>

Costs(n) == events >= n /\ events' = events - n
Event == Costs(1)
Owing(k, g) == [key |-> k, gen |-> g]
Nothing == Owing(0, 0)

Frame(is, of, with) == [is |-> is, of |-> of, with |-> with]
Task(does, asker) == [does |-> does, asker |-> asker]

\* send(): what goes up when there is a gateway that listens.
Listening == enabled = "yes" /\ out = "live"
Report(h, run) == [hook |-> h, run |-> run]

----------------------------------------------------------------------------
(* The gateway *)

\* saveScripts.
EditPage ==
  /\ Event
  /\ page' = page + 1
  /\ UNCHANGED <<row, ackWith, runWith, connection, disk, memory, flight, clocks, cmd, shell,
                 history, clock>>

\* hooksConfigFor.
Failed(read) == IF read = Unread THEN 1 ELSE 0

\* handleHello up to its wait on D1; the socket takes work from here on.
Dial ==
  /\ link = "down"
  /\ link' = "greeted"
  /\ \E read \in {page, Unread} : Costs(Failed(read)) /\ ackWith' = read
  /\ UNCHANGED <<page, row, runWith, down, up, disk, memory, flight, clocks, cmd, shell, history,
                 clock>>

\* A gateway from before the scripts sends no such field.
AckSent ==
  /\ link = "greeted"
  /\ link' = "up"
  /\ \/ down' = Append(down, Frame("ack", "all", ackWith)) /\ UNCHANGED events
     \/ down' = Append(down, Frame("ack", "all", NoField)) /\ Event
  /\ ackWith' = NotYet
  /\ UNCHANGED <<page, row, runWith, up, disk, memory, flight, clocks, cmd, shell, history, clock>>

\* requestHookRun, and its wait on D1.
AskRun(h) ==
  /\ link # "down" /\ runWith = Frame("run", "none", NotYet)
  /\ \E read \in {page, Unread} : Costs(1 + Failed(read)) /\ runWith' = Frame("run", h, read)
  /\ UNCHANGED <<page, row, ackWith, connection, disk, memory, flight, clocks, cmd, shell, history,
                 clock>>

RunSent ==
  /\ runWith.with # NotYet
  /\ down' = Append(down, runWith)
  /\ runWith' = Frame("run", "none", NotYet)
  /\ UNCHANGED <<page, row, ackWith, link, up, disk, memory, flight, clocks, cmd, shell, history,
                 clock, events>>

\* A call goes to an executor also before its hello.
CommandSent(c) ==
  /\ cmd[c] = "none" /\ link # "down"
  /\ cmd' = [cmd EXCEPT ![c] = "sent"]
  /\ down' = Append(down, Frame("command", c, 0))
  /\ UNCHANGED <<gateway, link, up, disk, memory, flight, clocks, shell, history, clock, events>>

\* The condition of recordHookState's update.
IsNews(old, new) == \/ old.at < new.at
                    \/ old.at = new.at /\ (new.over \/ ~old.over)

RecordHookState ==
  /\ \E r \in up :
       /\ up' = up \ {r}
       /\ row' = [row EXCEPT ![r.hook] = IF IsNews(@, r.run) THEN r.run ELSE @]
  /\ UNCHANGED <<page, ackWith, runWith, link, down, disk, memory, flight, clocks, cmd, shell,
                 history, clock, events>>

----------------------------------------------------------------------------
(* The connection loop *)

\* adopt: what was sent, or the copy kept when it could not be read.
Adopted(config) == IF config = Unread THEN kept ELSE config

InstallDue(config) == config # Unread /\ attempted # config
ResumeDue(config) == config # Unread /\ resumed < generation

\* What an acknowledgement says again.
SaidAgain == {Report(h, last[h]) : h \in {g \in Hooks : last[g] # NoRun /\ (last[g].over \/ g = "install")}}

\* Mutant: any frame makes the clock start over, also behind a pause.
HeardAnyway == FALSE

\* mark_heard: a pause is left to be seen.
Heard == gap

\* HookRunner::hello.  The gate is held, and the rest is a task.
Hello(config) ==
  /\ gap' = Heard
  /\ IF config = NoField
     THEN /\ enabled' = "no" /\ known' = Unread /\ out' = "none"
          /\ owed' = Nothing
          /\ UNCHANGED <<kept, up, queue>>
     ELSE /\ enabled' = "yes" /\ out' = "live" /\ known' = Adopted(config)
          /\ kept' = Adopted(config)
          /\ up' = up \cup SaidAgain
          /\ owed' = IF known' = Unread THEN Nothing ELSE Owing(known', generation)
          /\ queue' = IF InstallDue(known') \/ ResumeDue(known')
                      THEN Append(queue, Task("due", "nobody")) ELSE queue

\* run_requested.
RunRequested(h, config) ==
  /\ enabled' = "yes" /\ out' = "live" /\ known' = Adopted(config)
  /\ kept' = Adopted(config)
  /\ queue' = Append(queue, Task(h, "page"))
  /\ UNCHANGED <<gap, up, owed>>

Receive ==
  /\ down # <<>>
  /\ down' = Tail(down)
  /\ LET f == Head(down)
     IN  \/ f.is = "ack" /\ Hello(f.with) /\ UNCHANGED cmd
         \/ f.is = "run" /\ RunRequested(f.of, f.with) /\ UNCHANGED cmd
         \/ /\ f.is = "command"
            /\ cmd' = [cmd EXCEPT ![f.of] = "arrived"]
            /\ UNCHANGED <<gap, enabled, known, out, kept, up, owed, queue>>
  /\ UNCHANGED <<gateway, link, attempted, last, at, running, resumed, generation, nudge, shell,
                 tried, again, resumes, fileRuns, unseen, clock, events>>

\* A connection ends: what was under way on it may be lost.  A command that
\* waits may be cancelled, then or at any time (CommandGoes).
ConnectionEnds ==
  /\ link' = "down" /\ down' = <<>>
  /\ up' \in SUBSET up
  /\ out' = IF out = "live" THEN "dead" ELSE out
  /\ ackWith' = NotYet /\ runWith' = Frame("run", "none", NotYet)
  /\ owed' = Nothing
  /\ cmd' = [c \in Commands |-> IF cmd[c] = "sent" THEN "gone" ELSE cmd[c]]

Drop ==
  /\ link # "down" /\ Event
  /\ ConnectionEnds
  /\ UNCHANGED <<page, row, disk, enabled, known, flight, clocks, shell, tried, again, resumes,
                 fileRuns, unseen, clock>>

----------------------------------------------------------------------------
(* Pauses *)

Pause ==
  /\ Event
  /\ gap' = TRUE /\ unseen' = TRUE
  /\ UNCHANGED <<gateway, connection, disk, memory, flight, resumed, generation, nudge, cmd, shell,
                 owed, tried, again, resumes, fileRuns, clock>>

\* observe_resume: whoever looks at the clock first counts the pause.
Observe == gap /\ gap' = FALSE /\ unseen' = FALSE /\ generation' = generation + 1

\* The connection loop drops what it has, and dials again.
Redial == IF link = "down"
          THEN UNCHANGED <<link, down, up, out, ackWith, runWith, owed, cmd>>
          ELSE ConnectionEnds

\* The tick of the connection, and the ones between two connections.
TickSees ==
  /\ Observe
  /\ Redial
  /\ UNCHANGED <<page, row, disk, enabled, known, flight, resumed, nudge, shell, tried, again,
                 resumes, fileRuns, clock, events>>

\* The request that woke the machine.
WakeSees ==
  /\ Observe
  /\ nudge' = TRUE
  /\ UNCHANGED <<gateway, connection, disk, memory, flight, resumed, cmd, shell, owed, tried, again,
                 resumes, fileRuns, clock, events>>

Reconnect ==
  /\ nudge
  /\ nudge' = FALSE
  /\ Redial
  /\ UNCHANGED <<page, row, disk, enabled, known, flight, resumed, generation, gap, shell, tried,
                 again, resumes, fileRuns, unseen, clock, events>>

----------------------------------------------------------------------------
(* The scripts *)

First == Head(queue)
Say(h, run) == up' = IF Listening THEN up \cup {Report(h, run)} ELSE up

\* execute, up to the start of the script.
Begin(h) ==
  /\ at' = h /\ running' = known
  /\ clock' = clock + 1
  /\ last' = [last EXCEPT ![h] = [at |-> clock + 1, over |-> FALSE]]
  /\ resumed' = IF h = "resume" /\ generation > resumed THEN generation ELSE resumed
  /\ resumes' = IF h = "resume" /\ First.asker = "nobody" THEN resumes + 1 ELSE resumes
  /\ fileRuns' = IF First.asker = "file" THEN fileRuns + 1 ELSE fileRuns
  /\ IF h = "install" THEN Say(h, last'[h]) ELSE UNCHANGED up
  /\ UNCHANGED <<queue, attempted, req, tried, again>>

\* The task is over: its hold on the gate is dropped, and its answer written.
Done ==
  /\ queue' = Tail(queue) /\ at' = "turn" /\ running' = Unread
  /\ req' = IF First.asker = "file" THEN "answered" ELSE req

\* Mutant: what was due when the acknowledgement came is due.
DueBefore == TRUE

\* Decided again now that it is this run's turn.
DueAgain == InstallDue(known)

Skips == UNCHANGED <<clock, last, up, resumed, attempted, resumes, again, tried, fileRuns>>

DueTurn ==
  \/ at = "turn" /\ DueAgain /\ Begin("install")
  \/ (at = "after" \/ ~DueAgain) /\ ResumeDue(known) /\ Begin("resume")
  \/ (at = "after" \/ ~DueAgain) /\ ~ResumeDue(known) /\ Done /\ Skips

\* A run somebody asked for.  Without any text there is nothing to run, and
\* that is an attempt too.
AskedTurn ==
  \/ known # Unread /\ Begin(First.does)
  \/ /\ known = Unread /\ Done
     /\ clock' = clock + 1
     /\ last' = [last EXCEPT ![First.does] = [at |-> clock + 1, over |-> TRUE]]
     /\ Say(First.does, last'[First.does])
     /\ attempted' = IF First.does = "install" THEN Unusable ELSE attempted
     /\ resumed' = IF First.does = "resume" THEN generation ELSE resumed
     /\ fileRuns' = IF First.asker = "file" THEN fileRuns + 1 ELSE fileRuns
     /\ UNCHANGED <<resumes, again, tried>>

Turn ==
  /\ queue # <<>> /\ at \in {"turn", "after"}
  /\ IF First.does = "due" THEN DueTurn ELSE AskedTurn
  /\ UNCHANGED <<gateway, link, down, kept, memory, generation, gap, nudge, cmd, listed, owed, unseen,
                 events>>

\* The script is over, or out of time.
RunEnds ==
  /\ at \in Hooks
  /\ last' = [last EXCEPT ![at].over = TRUE]
  /\ Say(at, last'[at])
  /\ IF at = "install"
     THEN /\ attempted' = running /\ tried' = tried \cup {running}
          /\ again' = (again \/ (First.does = "due" /\ attempted = running))
     ELSE UNCHANGED <<attempted, tried, again>>
  /\ IF First.does = "due" /\ at = "install"
     THEN at' = "after" /\ running' = Unread /\ UNCHANGED <<queue, req>>
     ELSE Done
  /\ UNCHANGED <<gateway, link, down, kept, memory, clocks, cmd, listed, owed, resumes, fileRuns,
                 unseen, clock, events>>

\* Mutant: the resume that ran is remembered on disk, where the count starts over.
RememberedResume == resumed

\* No resume has run for a process that starts.
StartsWith == 0

\* The service is told to stop, is killed, or the machine starts cold: another
\* one closes what the file still calls running.
ServiceEnds ==
  /\ Event
  /\ ConnectionEnds
  /\ last' = [h \in Hooks |-> [last[h] EXCEPT !.over = TRUE]]
  /\ enabled' = "unknown" /\ known' = Unread
  /\ queue' = <<>> /\ at' = "turn" /\ running' = Unread
  /\ resumed' = StartsWith /\ generation' = 1 /\ nudge' = FALSE
  /\ gap' = FALSE /\ unseen' = FALSE
  /\ listed' = FALSE
  /\ resumes' = 0
  /\ UNCHANGED <<page, row, attempted, kept, req, tried, again, fileRuns, clock>>

----------------------------------------------------------------------------
(* The gate *)

\* Mutant: the gate is closed by what runs, not by what was decided.
ClosedByRunning == at \in Hooks

Closed == queue # <<>>

\* wait_at_gate.
CommandComes(c) ==
  /\ cmd[c] = "arrived"
  /\ cmd' = [cmd EXCEPT ![c] = IF Closed THEN "waiting" ELSE "started"]
  /\ UNCHANGED <<gateway, connection, disk, memory, flight, clocks, shell, history, clock, events>>

CommandGoes(c) ==
  /\ cmd[c] = "waiting"
  /\ \/ ~Closed /\ cmd' = [cmd EXCEPT ![c] = "started"]
     \/ cmd' = [cmd EXCEPT ![c] = "gone"]
  /\ UNCHANGED <<gateway, connection, disk, memory, flight, clocks, shell, history, clock, events>>

----------------------------------------------------------------------------
(* A request from a shell on the machine *)

ShellAsks ==
  /\ Event
  /\ req = "none"
  /\ req' = "left"
  /\ UNCHANGED <<gateway, connection, disk, memory, flight, clocks, cmd, listed, history, clock>>

\* Nobody took it in time.
ShellTakesBack ==
  /\ req = "left"
  /\ req' = "back"
  /\ UNCHANGED <<gateway, connection, disk, memory, flight, clocks, cmd, listed, history, clock, events>>

\* poll_requests reads the folder, and takes what it read.
ServiceLists ==
  /\ req = "left" /\ ~listed /\ enabled # "unknown"
  /\ listed' = TRUE
  /\ UNCHANGED <<gateway, connection, disk, memory, flight, clocks, cmd, req, history, clock, events>>

\* take(): true for whoever removed the file.
Taken == req = "left"

ServiceTakes(h) ==
  /\ listed
  /\ listed' = FALSE
  /\ IF ~Taken THEN UNCHANGED <<req, queue>>
     ELSE IF enabled = "yes"
     THEN req' = "taken" /\ queue' = Append(queue, Task(h, "file"))
     ELSE req' = "answered" /\ UNCHANGED queue
  /\ UNCHANGED <<gateway, connection, disk, memory, at, running, clocks, cmd, history, clock, events>>

----------------------------------------------------------------------------
Init ==
  /\ page = 1 /\ row = [h \in Hooks |-> NoRun]
  /\ ackWith = NotYet /\ runWith = Frame("run", "none", NotYet)
  /\ link = "down" /\ down = <<>> /\ up = {}
  /\ attempted = 0 /\ kept = Unread /\ last = [h \in Hooks |-> NoRun]
  /\ enabled = "unknown" /\ known = Unread /\ out = "none"
  /\ queue = <<>> /\ at = "turn" /\ running = Unread
  /\ resumed = 0 /\ generation = 1 /\ gap = FALSE /\ nudge = FALSE
  /\ cmd = [c \in Commands |-> "none"] /\ req = "none" /\ listed = FALSE
  /\ owed = Nothing /\ tried = {} /\ again = FALSE
  /\ resumes = 0 /\ fileRuns = 0 /\ unseen = FALSE
  /\ clock = 0 /\ events = MaxEvents

Command(c) == CommandComes(c) \/ CommandGoes(c)

Next ==
  \/ EditPage \/ AckSent \/ RunSent \/ RecordHookState
  \/ \E h \in Hooks : AskRun(h) \/ ServiceTakes(h)
  \/ \E c \in Commands : CommandSent(c) \/ Command(c)
  \/ Dial \/ Receive \/ Drop
  \/ Pause \/ TickSees \/ WakeSees \/ Reconnect
  \/ Turn \/ RunEnds \/ ServiceEnds
  \/ ShellAsks \/ ShellTakesBack \/ ServiceLists

\* The machine dials, both ends read what arrives, handlers go on, the clock
\* ticks, tasks get their turn, and a script has a time limit.
Fairness ==
  /\ WF_vars(Dial \/ AckSent)
  /\ WF_vars(Receive)
  /\ WF_vars(RecordHookState)
  /\ WF_vars(TickSees \/ Reconnect)
  /\ WF_vars(Turn \/ RunEnds)

SafetySpec == Init /\ [][Next]_vars
Spec == SafetySpec /\ Fairness

----------------------------------------------------------------------------
Runs == [at : Nat, over : BOOLEAN]
Configs == 0 .. LastEdit + 2

TypeOK ==
  /\ page \in Edits /\ row \in [Hooks -> Runs]
  /\ ackWith \in Configs
  /\ runWith \in [is : {"run"}, of : Hooks \cup {"none"}, with : Configs]
  /\ link \in {"down", "greeted", "up"}
  /\ \A i \in DOMAIN down : /\ down[i].is \in {"ack", "run", "command"}
                            /\ down[i].of \in Hooks \cup Commands \cup {"all"}
                            /\ down[i].with \in Configs
  /\ up \subseteq [hook : Hooks, run : Runs]
  /\ attempted \in 0 .. Unusable /\ kept \in {Unread} \cup Edits /\ last \in [Hooks -> Runs]
  /\ enabled \in {"unknown", "yes", "no"} /\ known \in {Unread} \cup Edits
  /\ out \in {"none", "live", "dead"}
  /\ \A i \in DOMAIN queue : queue[i] \in [does : Hooks \cup {"due"}, asker : {"nobody", "page", "file"}]
  /\ at \in {"turn", "after"} \cup Hooks /\ running \in {Unread} \cup Edits
  /\ resumed \in 0 .. generation /\ generation \in 1 .. MaxEvents + 1
  /\ gap \in BOOLEAN /\ nudge \in BOOLEAN
  /\ cmd \in [Commands -> {"none", "sent", "arrived", "waiting", "started", "gone"}]
  /\ req \in {"none", "left", "back", "taken", "answered"} /\ listed \in BOOLEAN
  /\ owed \in [key : {Unread} \cup Edits, gen : 0 .. MaxEvents + 1]
  /\ tried \subseteq Edits /\ again \in BOOLEAN
  /\ resumes \in Nat /\ fileRuns \in Nat /\ unseen \in BOOLEAN /\ clock \in Nat
  /\ events \in 0 .. MaxEvents

\* A command that did not run out of patience starts in a checkout that was
\* made: on an acknowledged connection no script is running or due, the
\* install of what the page said has ended, and so has the resume of the
\* pauses seen by then (hooks/mod.rs:202, gate.rs:40).
GateHolds ==
  [][\A c \in Commands : (cmd[c] # "started" /\ cmd'[c] = "started") =>
       /\ at \notin Hooks
       /\ owed # Nothing => ((\E k \in tried : k >= owed.key) /\ resumed >= owed.gen)]_vars

\* Whatever connections and acknowledgements come on top, an install does not run
\* by itself when it was the last one tried (mod.rs:12 keeps the last attempt
\* alone: an older revision may run again after another one), resumes run by
\* themselves no more often than the machine came back, and a run a shell asked
\* for happens once, and never after it was taken back.
OneRunPerCause ==
  /\ ~again
  /\ resumes <= generation
  /\ fileRuns <= 1 /\ (req = "back" => fileRuns = 0)

Talking == enabled = "yes" /\ out = "live"

\* In the end what was due has run, no pause went by without its resume, and
\* the page shows how every last run ended, whatever was lost, said again or
\* came in another order (cloud/hooks.ts:169, cloud/mod.rs:163).
HooksCatchUp ==
  <>[](Talking => /\ ~unseen
                  /\ \A h \in Hooks : row[h] = last[h]
                  /\ owed # Nothing => /\ resumed = generation
                                       /\ \E k \in tried : k >= owed.key)
=============================================================================
