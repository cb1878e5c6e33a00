----------------------------- MODULE RelayTerminals -----------------------------
(***************************************************************************)
(* The web terminal of one project: the shell on the machine               *)
(* (workspace/terminal.rs), the browser windows that show it one after     *)
(* another, and between them the relay object, which keeps a row for a     *)
(* shell nobody watches and replays its output to whoever comes next       *)
(* (relay-do-terminal.ts, relay-do-terminal-sessions.ts).                  *)
(*                                                                         *)
(* A session is named by the window that asked for it.  The object's       *)
(* handlers await its storage alone, which lets no other event in, so a    *)
(* handler is one step; dropExecutor also awaits D1 and is two.  What is   *)
(* in memory is gone once the object leaves memory.                        *)
(***************************************************************************)
EXTENDS Naturals, Sequences, FiniteSets

CONSTANTS
  Viewers,    \* sockets of browser windows, and the sessions they ask for
  MaxOut,     \* chunks a shell writes
  MaxShells,  \* shells the machine starts
  MaxConns,   \* connections of the machine
  MaxReplay,  \* chunks that fit a replay
  MaxEvents   \* frames of input, evictions, lost connections, shells that do not start
              \* or run out of memory, openings that meet a closed gate

Conns == 1 .. MaxConns
Nobody == "nobody"

ASSUME ConstantsAssumption ==
  /\ IsFiniteSet(Viewers) /\ Nobody \notin Viewers
  /\ {MaxOut, MaxShells, MaxConns, MaxReplay, MaxEvents} \subseteq Nat
  /\ MaxConns > 0 /\ MaxReplay > 0

Ids == Viewers \cup {Nobody}
Chunk == (1 .. MaxShells) \X (1 .. MaxOut)
NoSession == [id |-> Nobody, replay |-> <<>>]
NoShell == [id |-> Nobody, gen |-> 0, out |-> 0]
NoBuffer == [replay |-> <<>>, seeded |-> FALSE]

VARIABLES
  view,      \* each window's socket: "left" is one whose close is on its way
  idOf,      \* the session it shows
  seen,      \* what came up on its screen
  buffer,    \* replayBySocket
  row,       \* the stored session of the target
  pending,   \* pendingDetached
  alarm,     \* when the object is woken: in seconds, at a deadline, or not
  aged,      \* the session is past its idle limit or its longest duration
  socket,    \* each connection of the machine, at the relay
  dropping,  \* connections whose dropExecutor awaits D1
  toCli, toGateway,  \* frames on their way, in order
  conn,      \* the connection the CLI is on, 0 for none
  shell,     \* the shell of the project's root
  shells,    \* shells started
  ending,    \* sessions whose shell was killed and has not said so
  held,      \* sessions whose opening waits for the project's gate: frames of
             \* theirs that arrived stay where they are in toCli
  crossed,   \* a frame of one session was handled before an older one of another
  events,
  slept      \* output that only memory held went with it

windows == <<view, idOf, seen>>
relay == <<buffer, row, pending, alarm, aged>>
links == <<socket, dropping, conn>>
frames == <<toCli, toGateway>>
cli == <<shell, shells, ending>>
gate == <<held, crossed>>
vars == <<windows, relay, links, frames, cli, gate, events, slept>>

Event == events > 0 /\ events' = events - 1

----------------------------------------------------------------------------
(* What the object keeps *)

\* Mutant: nothing is dropped.
Untrimmed(replay, chunks) == replay \o chunks

\* The oldest chunks go.
AppendReplay(replay, chunks) ==
  LET all == replay \o chunks
  IN  SubSeq(all, IF Len(all) > MaxReplay THEN Len(all) - MaxReplay + 1 ELSE 1, Len(all))

Live == {v \in Viewers : view[v] \in {"live", "left"}}
Watching(id) == {v \in Live : idOf[v] = id}

\* A buffer that restarted after a wake continues what is stored.
Merged(session, v) ==
  IF buffer[v].seeded THEN buffer[v].replay
  ELSE AppendReplay(session.replay, buffer[v].replay)

\* persistDetachedTerminal.
Persisted(v) ==
  [id |-> idOf[v],
   replay |-> Merged(IF row.id = idOf[v] THEN row ELSE NoSession, v)]

Forgotten(s, id) == IF s.id = id THEN NoSession ELSE s

\* executorSocket: a greeted connection, the only one that may open terminals.
Executor == {c \in Conns : socket[c] = "active"}

ToExecutor(frame) ==
  toCli' = [c \in Conns |-> IF c \in Executor THEN Append(toCli[c], frame) ELSE toCli[c]]

Frame(kind, id) == [kind |-> kind, id |-> id]

\* scheduleWorkspaceAlarm.
Deadline(session, queued) ==
  IF queued # NoSession THEN "soon" ELSE IF session # NoSession THEN "later" ELSE "none"

----------------------------------------------------------------------------
(* The windows *)

\* Mutant: a window attaches to what is stored and not to what is queued.
StoredOnly(s, q) == s

\* flushDetachedSession before the row is read.
Flushed(s, q) == IF q.id # Nobody THEN q ELSE s

\* acceptTerminalSocket.  The window that showed the terminal is detached.
Accept(v) ==
  /\ view[v] = "none" /\ Executor # {}
  /\ LET kept    == IF Live = {} THEN row ELSE Persisted(CHOOSE p \in Live : TRUE)
         stored  == Flushed(kept, IF Live = {} THEN pending ELSE Forgotten(pending, kept.id))
         id      == IF stored = NoSession THEN v ELSE stored.id
     IN  /\ view' = [p \in Viewers |-> IF p = v THEN "live" ELSE IF p \in Live THEN "over" ELSE view[p]]
         /\ idOf' = [idOf EXCEPT ![v] = id]
         /\ seen' = [seen EXCEPT ![v] = stored.replay]
         /\ row' = [id |-> id, replay |-> stored.replay]
         /\ buffer' = [p \in Viewers |-> IF p = v THEN [replay |-> stored.replay, seeded |-> TRUE]
                                          ELSE NoBuffer]
         /\ pending' = NoSession
         /\ alarm' = "later"
         /\ aged' = (aged /\ stored # NoSession)
         /\ ToExecutor(Frame("open", id))
  /\ UNCHANGED <<links, toGateway, cli, gate, events, slept>>

\* The browser goes, or its socket breaks.
Leave(v) ==
  /\ view[v] = "live"
  /\ view' = [view EXCEPT ![v] = "left"]
  /\ UNCHANGED <<idOf, seen, relay, links, frames, cli, gate, events, slept>>

\* Every unsettled window of these is told and closed; its buffer goes with
\* its socket.
Settle(W) ==
  /\ view' = [v \in Viewers |-> IF v \in W THEN "over" ELSE view[v]]
  /\ buffer' = [v \in Viewers |-> IF v \in W THEN NoBuffer ELSE buffer[v]]

\* webSocketClose, webSocketError.
CloseSeen(v) ==
  /\ view[v] = "left"
  /\ Settle({v})
  /\ row' = Persisted(v)
  /\ pending' = Forgotten(pending, idOf[v])
  /\ alarm' = Deadline(row', pending')
  /\ UNCHANGED <<idOf, seen, aged, links, frames, cli, gate, events, slept>>

\* handleTerminalCallerMessage, with a machine that is gone.
NoExecutor(v) ==
  /\ Executor = {} /\ view[v] = "live"
  /\ view' = [view EXCEPT ![v] = "left"]
  /\ UNCHANGED <<idOf, seen, relay, links, frames, cli, gate, events, slept>>

Input(v) ==
  /\ view[v] = "live" /\ Executor # {}
  /\ Event
  /\ ToExecutor(Frame("input", idOf[v]))
  /\ UNCHANGED <<windows, relay, links, toGateway, cli, gate, slept>>

Forget(id) ==
  /\ row' = Forgotten(row, id)
  /\ pending' = Forgotten(pending, id)

CloseShell(v) ==
  /\ view[v] = "live" /\ Executor # {}
  /\ Settle({v})
  /\ ToExecutor(Frame("close", idOf[v]))
  /\ Forget(idOf[v])
  /\ UNCHANGED <<idOf, seen, alarm, aged, links, toGateway, cli, gate, events, slept>>

\* closeTerminalTarget.
CloseTarget ==
  /\ row # NoSession
  /\ Settle(Live)
  /\ ToExecutor(Frame("close", row.id))
  /\ Forget(row.id)
  /\ alarm' = Deadline(row', pending')
  /\ UNCHANGED <<idOf, seen, aged, links, toGateway, cli, gate, events, slept>>

----------------------------------------------------------------------------
(* Frames of the machine: forwardTerminalMessage *)

\* Mutant: output that is queued wakes nobody.
NoAlarm == alarm

\* Queued output is written at the end of its window, by an alarm.
Trailing == IF pending = NoSession /\ alarm # "soon" THEN "soon" ELSE alarm

\* touchDetachedSession.
Detached(id, chunk) ==
  LET base == IF pending.id = id THEN pending ELSE IF row.id = id THEN row ELSE NoSession
      next == [id |-> id, replay |-> AppendReplay(base.replay, <<chunk>>)]
  IN  IF base = NoSession THEN UNCHANGED <<row, pending, alarm>>
      ELSE \/ row' = next /\ pending' = NoSession /\ alarm' = "later"
           \/ pending' = next /\ alarm' = Trailing /\ UNCHANGED row

Output(id, chunk) ==
  IF Watching(id) # {}
  THEN LET v == CHOOSE w \in Watching(id) : TRUE
       IN  /\ seen' = [seen EXCEPT ![v] = IF view[v] = "live" THEN Append(@, chunk) ELSE @]
           /\ buffer' = [buffer EXCEPT ![v].replay = AppendReplay(@, <<chunk>>)]
           /\ UNCHANGED <<row, pending, alarm>>
  ELSE Detached(id, chunk) /\ UNCHANGED <<seen, buffer>>

Receive(c) ==
  /\ toGateway[c] # <<>> /\ socket[c] \in {"active", "replaced"}
  /\ toGateway' = [toGateway EXCEPT ![c] = Tail(@)]
  /\ LET f == Head(toGateway[c])
     IN  \/ /\ f.kind = "output" /\ Output(f.id, f.chunk)
            /\ UNCHANGED <<view, toCli>>
         \/ /\ f.kind = "exit" /\ Settle(Watching(f.id)) /\ Forget(f.id)
            /\ UNCHANGED <<seen, alarm, toCli>>
         \/ /\ f.kind = "error" /\ Settle(Watching(f.id)) /\ Forget(f.id)
            /\ ToExecutor(Frame("close", f.id))
            /\ UNCHANGED <<seen, alarm>>
  /\ UNCHANGED <<idOf, aged, links, cli, gate, events, slept>>

----------------------------------------------------------------------------
(* Time, and memory *)

Ages ==
  /\ row # NoSession /\ ~aged
  /\ aged' = TRUE
  /\ UNCHANGED <<windows, buffer, row, pending, alarm, links, frames, cli, gate, events, slept>>

\* expireWorkspaceSessions.
Expire ==
  /\ alarm = "soon" \/ (alarm = "later" /\ aged)
  /\ LET stored == Flushed(row, pending)
     IN  IF aged /\ stored # NoSession
         THEN /\ Settle(Watching(stored.id))
              /\ ToExecutor(Frame("close", stored.id))
              /\ row' = NoSession
         ELSE /\ row' = stored
              /\ UNCHANGED <<view, buffer, toCli>>
  /\ pending' = NoSession
  /\ alarm' = Deadline(row', pending')
  /\ UNCHANGED <<idOf, seen, aged, links, toGateway, cli, gate, events, slept>>

\* What the object keeps in memory is gone, with the windows' sockets left.
Wiped ==
  /\ buffer' = [v \in Viewers |-> NoBuffer]
  /\ pending' = NoSession
  /\ UNCHANGED <<windows, row, alarm, aged, socket, conn, frames, cli, gate>>

Unstored == \E v \in Live : buffer[v].seeded => buffer[v].replay # row.replay

\* Ten seconds with nothing to do, which an alarm in five cuts short.
Hibernate ==
  /\ alarm # "soon" /\ dropping = {}
  /\ Wiped /\ slept' = (slept \/ Unstored)
  /\ UNCHANGED <<dropping, events>>

\* A deploy or a crash, in the middle of anything.
Evict ==
  /\ Event /\ Wiped
  /\ dropping' = {} /\ slept' = TRUE

----------------------------------------------------------------------------
(* Connections of the machine *)

Dial(c) ==
  /\ conn = 0 /\ socket[c] = "none" /\ \A d \in Conns : d < c => socket[d] # "none"
  /\ conn' = c
  /\ socket' = [socket EXCEPT ![c] = "accepted"]
  /\ UNCHANGED <<windows, relay, dropping, frames, cli, gate, events, slept>>

\* Mutant: only the row that a window shows goes with its shell.
ForgetShown == IF Live # {} THEN NoSession ELSE row

\* forgetAllStoredTerminals.
ForgetAll == NoSession

\* resetExecutorTerminals, and what dropExecutor does after D1.
FailTerminals == Settle(Live) /\ row' = ForgetAll /\ pending' = NoSession

Hello(c) ==
  /\ conn = c /\ socket[c] = "accepted"
  /\ socket' = [d \in Conns |-> IF d = c THEN "active"
                                ELSE IF socket[d] \in {"accepted", "active"} THEN "replaced" ELSE socket[d]]
  /\ FailTerminals /\ alarm' = "none"
  /\ UNCHANGED <<idOf, seen, aged, dropping, conn, frames, cli, gate, events, slept>>

\* The CLI ends its terminals with the connection.
ConnectionEnds ==
  /\ conn # 0 /\ Event
  /\ conn' = 0
  /\ shell' = NoShell /\ ending' = {}
  /\ toCli' = [toCli EXCEPT ![conn] = <<>>]
  /\ held' = {}
  /\ UNCHANGED <<windows, relay, socket, dropping, toGateway, shells, crossed, slept>>

\* dropExecutor: whether the socket was replaced is settled before D1 is told.
SocketEnds(c) ==
  /\ conn # c /\ socket[c] \in {"accepted", "active", "replaced"}
  /\ socket' = [socket EXCEPT ![c] = "closed"]
  /\ toGateway' = [toGateway EXCEPT ![c] = <<>>]
  /\ toCli' = [toCli EXCEPT ![c] = <<>>]
  /\ dropping' = IF \E d \in Conns \ {c} : socket[d] \in {"accepted", "active"}
                 THEN dropping ELSE dropping \cup {c}
  /\ UNCHANGED <<windows, relay, conn, cli, gate, events, slept>>

DropFinishes(c) ==
  /\ c \in dropping
  /\ dropping' = dropping \ {c}
  /\ FailTerminals
  /\ UNCHANGED <<idOf, seen, alarm, aged, socket, conn, frames, cli, gate, events, slept>>

----------------------------------------------------------------------------
(* The machine: TerminalRegistry *)

Says(fs) == toGateway' = [toGateway EXCEPT ![conn] = @ \o fs]

\* open: the root's shell takes the session's name (attach), or a fresh one is
\* started.
Open(id) ==
  \/ /\ shell # NoShell
     /\ shell' = [shell EXCEPT !.id = id]
     /\ UNCHANGED <<shells, toGateway, events>>
  \/ /\ shell = NoShell
     /\ \/ /\ shells < MaxShells
           /\ shells' = shells + 1
           /\ shell' = [id |-> id, gen |-> shells + 1, out |-> 0]
           /\ UNCHANGED <<toGateway, events>>
        \/ /\ Event /\ Says(<<Frame("error", id)>>)
           /\ UNCHANGED <<shell, shells>>

\* handle_terminal_message.
Serve(f) ==
  \/ f.kind = "open" /\ Open(f.id) /\ UNCHANGED ending
  \/ /\ f.kind = "input"
     /\ Says(IF shell.id = f.id THEN <<>> ELSE <<Frame("error", f.id)>>)
     /\ UNCHANGED <<cli, events>>
  \/ /\ f.kind = "close"
     /\ IF shell.id = f.id
        THEN shell' = NoShell /\ ending' = ending \cup {f.id}
        ELSE UNCHANGED <<shell, ending>>
     /\ UNCHANGED <<shells, toGateway, events>>

\* route_terminal_message: an opening that meets a closed gate waits for it in
\* a task of its own, and so do the session's later frames behind it.  The
\* loop of the connection reads on.
Reached(i) == \A j \in 1 .. i - 1 : toCli[conn][j].id \in held
Foremost(i) == \A j \in 1 .. i - 1 : toCli[conn][j].id # toCli[conn][i].id

Hold(i) ==
  /\ Event /\ Reached(i)
  /\ toCli[conn][i].kind = "open" /\ toCli[conn][i].id \notin held
  /\ held' = held \cup {toCli[conn][i].id}
  /\ UNCHANGED <<windows, relay, links, frames, cli, crossed, slept>>

\* The oldest frame.
Handle ==
  /\ conn # 0 /\ toCli[conn] # <<>>
  /\ toCli' = [toCli EXCEPT ![conn] = Tail(@)]
  /\ Serve(Head(toCli[conn]))
  /\ UNCHANGED <<windows, relay, links, gate, slept>>

Without(q, i) == [j \in 1 .. Len(q) - 1 |-> IF j < i THEN q[j] ELSE q[j + 1]]

\* A frame that came behind those of sessions that are held.
Overtake(i) ==
  /\ i > 1 /\ Reached(i) /\ Foremost(i)
  /\ toCli' = [toCli EXCEPT ![conn] = Without(@, i)]
  /\ Serve(toCli[conn][i])
  /\ crossed' = TRUE
  /\ UNCHANGED <<windows, relay, links, held, slept>>

\* The task handed on what it held.
Release(id) ==
  /\ id \in held
  /\ \A i \in DOMAIN toCli[conn] : toCli[conn][i].id = id => ~Reached(i)
  /\ held' = held \ {id}
  /\ UNCHANGED <<windows, relay, links, frames, cli, crossed, events, slept>>

Write ==
  /\ shell # NoShell /\ shell.out < MaxOut
  /\ shell' = [shell EXCEPT !.out = @ + 1]
  /\ Says(<<[kind |-> "output", id |-> shell.id, chunk |-> <<shell.gen, shell.out + 1>>]>>)
  /\ UNCHANGED <<windows, relay, links, toCli, shells, ending, gate, events, slept>>

\* The thread that waits for the child says so and takes the entry out; a
\* shell that ran out of memory is an error first.
Exit ==
  /\ shell # NoShell
  /\ shell' = NoShell
  /\ \/ Says(<<Frame("exit", shell.id)>>) /\ UNCHANGED events
     \/ Event /\ Says(<<Frame("error", shell.id), Frame("exit", shell.id)>>)
  /\ UNCHANGED <<windows, relay, links, toCli, shells, ending, gate, slept>>

KilledExits(id) ==
  /\ id \in ending
  /\ ending' = ending \ {id}
  /\ Says(<<Frame("exit", id)>>)
  /\ UNCHANGED <<windows, relay, links, toCli, shell, shells, gate, events, slept>>

----------------------------------------------------------------------------
Init ==
  /\ view = [v \in Viewers |-> "none"]
  /\ idOf = [v \in Viewers |-> Nobody]
  /\ seen = [v \in Viewers |-> <<>>]
  /\ buffer = [v \in Viewers |-> NoBuffer]
  /\ row = NoSession /\ pending = NoSession
  /\ alarm = "none" /\ aged = FALSE
  /\ socket = [c \in Conns |-> "none"] /\ dropping = {} /\ conn = 0
  /\ toCli = [c \in Conns |-> <<>>] /\ toGateway = [c \in Conns |-> <<>>]
  /\ shell = NoShell /\ shells = 0 /\ ending = {}
  /\ held = {} /\ crossed = FALSE
  /\ events = MaxEvents
  /\ slept = FALSE

\* At the gate, and past what waits there.
Waits ==
  \/ conn # 0 /\ \E i \in DOMAIN toCli[conn] : Hold(i)
  \/ \E id \in Viewers : Release(id)
Overtakes == conn # 0 /\ \E i \in DOMAIN toCli[conn] : Overtake(i)

Next ==
  \/ \E v \in Viewers : Accept(v) \/ Leave(v) \/ CloseSeen(v) \/ NoExecutor(v) \/ Input(v) \/ CloseShell(v)
  \/ CloseTarget
  \/ \E c \in Conns : Receive(c) \/ Dial(c) \/ Hello(c) \/ SocketEnds(c) \/ DropFinishes(c)
  \/ Ages \/ Expire \/ Hibernate \/ Evict
  \/ ConnectionEnds
  \/ Waits \/ Overtakes
  \/ Handle \/ Write \/ Exit \/ \E id \in Viewers : KilledExits(id)

Spec == Init /\ [][Next]_vars

----------------------------------------------------------------------------
Frames == [kind : {"open", "input", "close", "exit", "error"}, id : Viewers]
            \cup [kind : {"output"}, id : Viewers, chunk : Chunk]
Session == {s \in [id : Ids, replay : UNION {[1 .. n -> Chunk] : n \in 0 .. MaxReplay}] :
              s.id = Nobody => s.replay = <<>>}

TypeOK ==
  /\ view \in [Viewers -> {"none", "live", "left", "over"}]
  /\ idOf \in [Viewers -> Ids]
  /\ \A v \in Viewers : \A i \in DOMAIN seen[v] : seen[v][i] \in Chunk
  /\ \A v \in Viewers : Len(buffer[v].replay) <= MaxReplay /\ buffer[v].seeded \in BOOLEAN
  /\ row \in Session /\ pending \in Session
  /\ alarm \in {"none", "later", "soon"} /\ aged \in BOOLEAN
  /\ socket \in [Conns -> {"none", "accepted", "active", "replaced", "closed"}]
  /\ dropping \subseteq Conns /\ conn \in 0 .. MaxConns
  /\ \A c \in Conns : \A q \in {toCli[c], toGateway[c]} : \A i \in DOMAIN q : q[i] \in Frames
  /\ shell \in [id : Ids, gen : 0 .. MaxShells, out : 0 .. MaxOut]
  /\ shells \in 0 .. MaxShells /\ ending \subseteq Viewers
  /\ held \subseteq Viewers /\ crossed \in BOOLEAN
  /\ events \in 0 .. MaxEvents
  /\ slept \in BOOLEAN

\* Between one window and the next, and between what is stored, queued and
\* sent, a screen shows every chunk once and in order; one is missing only
\* where memory was lost (relay-do-terminal-sessions.ts:85, :206), or where the
\* machine handled frames of two sessions out of order.
OutputUnbroken ==
  \A v \in Viewers : \A i \in 1 .. Len(seen[v]) - 1 :
    LET a == seen[v][i]
        b == seen[v][i + 1]
        skips == slept \/ crossed
    IN  \/ b[1] = a[1] /\ (IF skips THEN b[2] > a[2] ELSE b[2] = a[2] + 1)
        \/ b[1] > a[1] /\ (skips \/ b[2] = 1)

\* Nothing on its way, and the machine connected and greeted.
Settled ==
  /\ conn # 0 /\ socket[conn] = "active" /\ dropping = {}
  /\ \A c \in Conns : toCli[c] = <<>> /\ toGateway[c] = <<>>
  /\ ending = {} /\ \A v \in Viewers : view[v] # "left"

\* Once everything arrived, what the dashboard lists and what a window shows
\* is a shell that runs, unless a frame of another session overtook one that
\* a closed gate held (connection.rs:1891).
ListedIsAlive ==
  Settled /\ ~crossed => /\ row # NoSession => shell.id = row.id
                         /\ \A v \in Live : shell.id = idOf[v]
=============================================================================
