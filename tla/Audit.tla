--------------------------------- MODULE Audit ---------------------------------
(***************************************************************************)
(* The audit trail of one project: the intent recorded before a tool runs, *)
(* the outcome after it (dispatch.ts, audit.ts, audit-stream.ts), the      *)
(* outbox that stands in for a stream that fails, and the erasure of the   *)
(* archive once the project is deleted (audit-deletions.ts, with the job   *)
(* of scripts/audit-maintenance that drives it).                           *)
(*                                                                         *)
(* A statement or a batch on D1 is one step, and so is a send.  An event   *)
(* is its kind: every copy of one has the id of its call.  Backoffs are    *)
(* time, and time is in three guards: a lease lapses while its holder      *)
(* works, a row is stale only once its call cannot be going on, and a day  *)
(* is longer than a call, a send and a commit of the sink.                 *)
(***************************************************************************)
EXTENDS Naturals, FiniteSets

CONSTANTS
  Calls,     \* calls to the project's tools
  Flushes,   \* Workers that may be delivering at once
  Jobs,      \* maintenance runs that may be erasing at once
  MaxFaults  \* failed sends and statements, lost answers, dead Workers, outlasted leases

\* The intent, which reads as incomplete on its own, and the outcome.
Events == {"incomplete", "outcome"}

Nobody == "nobody"
Dead == "dead"  \* the lease token of a Worker that is gone

\* A lease token is a fresh UUID.
ASSUME ConstantsAssumption ==
  /\ IsFiniteSet(Calls) /\ IsFiniteSet(Flushes) /\ IsFiniteSet(Jobs)
  /\ {Nobody, Dead} \cap (Flushes \cup Jobs) = {}
  /\ MaxFaults \in Nat

VARIABLES
  call,      \* where the dispatch of each call is
  handle,    \* where its intent went: "none", "stream", "row"
  ran,       \* calls whose tool was sent to its machine
  told,      \* calls whose outcome was put somewhere durable
  late,      \* calls whose outbox row was saved after the project was deleted
  row,       \* its audit_outbox row: "none", "started", or the event it holds
  accepted,  \* rows the stream has acknowledged
  lease, lapsed,        \* of each row: whose, and whether it ran out
  flush, batch,         \* each delivery: where it is, and what it claimed
  stream,    \* events acknowledged and not in the archive yet
  archive,   \* events in the archive
  deletion,  \* the audit_deletions row
  job,       \* each maintenance run: "idle", "claimed", "erased"
  faults

calls == <<call, handle, ran, told, late>>
outbox == <<row, accepted, lease, lapsed>>
delivery == <<flush, batch>>
warehouse == <<stream, archive>>
erasure == <<deletion, job>>
vars == <<calls, outbox, delivery, warehouse, erasure, faults>>

Deleted == deletion.asked
Over(c) == call[c] \in {"none", "over", "refused", "dead"}

Fault == faults > 0 /\ faults' = faults - 1

\* A send that is acknowledged, one that is not and arrived, and one that
\* did not: `then` is where each goes.
Send(c, event, acknowledged, not) ==
  \/ /\ stream' = [stream EXCEPT ![c] = @ \cup {event}]
     /\ acknowledged /\ UNCHANGED faults
  \/ /\ stream' = [stream EXCEPT ![c] = @ \cup {event}]
     /\ not /\ Fault
  \/ not /\ Fault /\ UNCHANGED stream

Goto(c, at) == call' = [call EXCEPT ![c] = at]

----------------------------------------------------------------------------
(* A call: beginAudit, the tool, record *)

\* The project is resolved, and its policy with it.
Dispatch(c) ==
  /\ call[c] = "none" /\ ~Deleted
  /\ Goto(c, "begin")
  /\ UNCHANGED <<handle, ran, told, late, outbox, delivery, warehouse, erasure, faults>>

SendIntent(c) ==
  /\ call[c] = "begin"
  /\ Send(c, "incomplete",
          Goto(c, "ready") /\ handle' = [handle EXCEPT ![c] = "stream"],
          Goto(c, "fallback") /\ UNCHANGED handle)
  /\ UNCHANGED <<ran, told, late, outbox, delivery, archive, erasure>>

\* Mutant: a tool runs although neither store took the intent.
RunAnyway == "ready"

\* Neither store took the intent.
FailClosed == "refused"

\* The row has no reference to its project: it is saved although that is gone.
Saved(c) == late' = IF Deleted THEN late \cup {c} ELSE late

InsertIntent(c) ==
  /\ call[c] = "fallback"
  /\ \/ /\ Goto(c, "ready") /\ handle' = [handle EXCEPT ![c] = "row"]
        /\ row' = [row EXCEPT ![c] = "started"] /\ Saved(c)
        /\ UNCHANGED faults
     \/ Goto(c, FailClosed) /\ Fault /\ UNCHANGED <<handle, late, row>>
  /\ UNCHANGED <<ran, told, accepted, lease, lapsed, delivery, warehouse, erasure>>

\* The policy, a person or the placement refuses it, or the machine gets it.
Decide(c) ==
  /\ call[c] = "ready"
  /\ \/ Goto(c, "finish") /\ UNCHANGED ran
     \/ Goto(c, "running") /\ ran' = ran \cup {c}
  /\ UNCHANGED <<handle, told, late, outbox, delivery, warehouse, erasure, faults>>

Answered(c) ==
  /\ call[c] = "running"
  /\ Goto(c, "finish")
  /\ UNCHANGED <<handle, ran, told, late, outbox, delivery, warehouse, erasure, faults>>

Tell(c) == told' = told \cup {c}

\* finishStreamIntent.
SendOutcome(c) ==
  /\ call[c] = "finish" /\ handle[c] = "stream"
  /\ Send(c, "outcome", Goto(c, "over") /\ Tell(c), Goto(c, "save") /\ UNCHANGED told)
  /\ UNCHANGED <<handle, ran, late, outbox, delivery, archive, erasure>>

\* Its catch: the outcome waits in the outbox.
SaveOutcome(c) ==
  /\ call[c] = "save"
  /\ Goto(c, "over")
  /\ \/ row' = [row EXCEPT ![c] = "outcome"] /\ Tell(c) /\ Saved(c) /\ UNCHANGED faults
     \/ Fault /\ UNCHANGED <<row, told, late>>
  /\ UNCHANGED <<handle, ran, accepted, lease, lapsed, delivery, warehouse, erasure>>

\* finishAudit of an intent in the outbox: an update, of a row that may have
\* been deleted with the project.  The flush behind it is a delivery.
UpdateRow(c) ==
  /\ call[c] = "finish" /\ handle[c] = "row"
  /\ Goto(c, "over")
  /\ \/ /\ row[c] # "none" /\ c \notin accepted
        /\ row' = [row EXCEPT ![c] = "outcome"] /\ Tell(c)
        /\ UNCHANGED faults
     \/ (row[c] = "none" \/ c \in accepted) /\ UNCHANGED <<row, told, faults>>
     \/ Fault /\ UNCHANGED <<row, told>>
  /\ UNCHANGED <<handle, ran, late, accepted, lease, lapsed, delivery, warehouse, erasure>>

CallDies(c) ==
  /\ ~Over(c) /\ Fault
  /\ Goto(c, "dead")
  /\ UNCHANGED <<handle, ran, told, late, outbox, delivery, warehouse, erasure>>

----------------------------------------------------------------------------
(* flushAuditOutbox *)

Claimable == {c \in Calls : /\ row[c] \in Events /\ c \notin accepted
                            /\ lease[c] = Nobody \/ c \in lapsed}

Claim(f) ==
  /\ flush[f] = "idle" /\ Claimable # {}
  /\ lease' = [c \in Calls |-> IF c \in Claimable THEN f ELSE lease[c]]
  /\ lapsed' = lapsed \ Claimable
  /\ batch' = [batch EXCEPT ![f] = {<<c, row[c]>> : c \in Claimable}]
  /\ flush' = [flush EXCEPT ![f] = "claimed"]
  /\ UNCHANGED <<calls, row, accepted, warehouse, erasure, faults>>

Arrive(b) == stream' = [c \in Calls |-> stream[c] \cup {e \in Events : <<c, e>> \in b}]

Deliver(f) ==
  /\ flush[f] = "claimed"
  /\ \/ Arrive(batch[f]) /\ flush' = [flush EXCEPT ![f] = "sent"] /\ UNCHANGED faults
     \/ Arrive(batch[f]) /\ flush' = [flush EXCEPT ![f] = "failed"] /\ Fault
     \/ flush' = [flush EXCEPT ![f] = "failed"] /\ Fault /\ UNCHANGED stream
  /\ UNCHANGED <<calls, outbox, batch, archive, erasure>>

Held(f) == {c \in Calls : lease[c] = f}
Release(f) ==
  /\ lease' = [c \in Calls |-> IF lease[c] = f THEN Nobody ELSE lease[c]]
  /\ lapsed' = lapsed \ Held(f)
  /\ flush' = [flush EXCEPT ![f] = "idle"]
  /\ batch' = [batch EXCEPT ![f] = {}]

Accept(f) ==
  /\ flush[f] = "sent"
  /\ \/ accepted' = accepted \cup Held(f) /\ Release(f) /\ UNCHANGED faults
     \/ /\ flush' = [flush EXCEPT ![f] = "failed"] /\ Fault
        /\ UNCHANGED <<accepted, lease, lapsed, batch>>
  /\ UNCHANGED <<calls, row, warehouse, erasure>>

BackOff(f) ==
  /\ flush[f] = "failed"
  /\ Release(f)
  /\ UNCHANGED <<calls, row, accepted, warehouse, erasure, faults>>

FlushDies(f) ==
  /\ flush[f] # "idle" /\ Fault
  /\ flush' = [flush EXCEPT ![f] = "idle"] /\ batch' = [batch EXCEPT ![f] = {}]
  /\ lease' = [c \in Calls |-> IF lease[c] = f THEN Dead ELSE lease[c]]
  /\ UNCHANGED <<calls, row, accepted, lapsed, warehouse, erasure>>

\* The lease of a Worker that is gone lapses; that of one at work, when the
\* send outlasts LEASE_MS.
LeaseLapses(c) ==
  /\ lease[c] # Nobody /\ c \notin lapsed
  /\ lapsed' = lapsed \cup {c}
  /\ IF lease[c] = Dead THEN UNCHANGED faults ELSE Fault
  /\ UNCHANGED <<calls, row, accepted, lease, delivery, warehouse, erasure>>

(* reconcileAuditOutbox, around a flush *)

\* Mutant: a started row is closed while its call may still be going on.
StartedAtAll(c) == row[c] = "started"

\* STALE_STARTED_MS is longer than a call with its approval and its wake.
Stale(c) == row[c] = "started" /\ Over(c)

Reconcile ==
  /\ \E c \in Calls : Stale(c)
  /\ row' = [c \in Calls |-> IF Stale(c) THEN "incomplete" ELSE row[c]]
  /\ UNCHANGED <<calls, accepted, lease, lapsed, delivery, warehouse, erasure, faults>>

\* Acknowledged rows go after a day.
Expire(c) ==
  /\ c \in accepted
  /\ row' = [row EXCEPT ![c] = "none"]
  /\ accepted' = accepted \ {c}
  /\ UNCHANGED <<calls, lease, lapsed, delivery, warehouse, erasure, faults>>

\* The sink commits what the stream acknowledged.
Sink(c) ==
  /\ stream[c] # {}
  /\ archive' = [archive EXCEPT ![c] = @ \cup stream[c]]
  /\ stream' = [stream EXCEPT ![c] = {}]
  /\ UNCHANGED <<calls, outbox, delivery, erasure, faults>>

----------------------------------------------------------------------------
(* The project is deleted, and its archive erased *)

\* One batch: the instruction to erase, the outbox, the project.
DeleteProject ==
  /\ ~Deleted
  /\ deletion' = [deletion EXCEPT !.asked = TRUE]
  /\ row' = [c \in Calls |-> "none"] /\ accepted' = {}
  /\ lease' = [c \in Calls |-> Nobody] /\ lapsed' = {}
  /\ UNCHANGED <<calls, delivery, warehouse, job, faults>>

\* Mutant: what a run left leased is not claimed again.
Unleased == deletion.lease = Nobody

Pending == deletion.lease = Nobody \/ deletion.lapsed

\* claimAuditDeletions.
JobClaims(j) ==
  /\ job[j] = "idle"
  /\ Deleted /\ ~deletion.completed /\ deletion.due
  /\ Pending
  /\ deletion' = [deletion EXCEPT !.lease = j, !.lapsed = FALSE]
  /\ job' = [job EXCEPT ![j] = "claimed"]
  /\ UNCHANGED <<calls, outbox, delivery, warehouse, faults>>

\* One transaction of the catalog.
JobErases(j) ==
  /\ job[j] = "claimed"
  /\ archive' = [c \in Calls |-> {}]
  /\ job' = [job EXCEPT ![j] = "erased"]
  /\ UNCHANGED <<calls, outbox, delivery, stream, deletion, faults>>

\* Mutant: any run may settle what it once claimed.
AnyHolder(j) == ~deletion.completed

Holds(j) == ~deletion.completed /\ deletion.lease = j

\* Mutant: one pass more.
ThirdPass == deletion.passes + 1 >= 3

LastPass == deletion.passes + 1 >= 2

\* settleAuditDeletion: the first pass is looked at again in a day.
JobSettles(j) ==
  /\ job[j] = "erased"
  /\ job' = [job EXCEPT ![j] = "idle"]
  /\ deletion' = IF Holds(j)
                 THEN [deletion EXCEPT !.passes = @ + 1, !.completed = LastPass, !.due = LastPass,
                                       !.lease = Nobody, !.lapsed = FALSE]
                 ELSE deletion
  /\ UNCHANGED <<calls, outbox, delivery, warehouse, faults>>

\* The transaction fails: tried again later, and not counted.
JobFails(j) ==
  /\ job[j] = "claimed" /\ Fault
  /\ job' = [job EXCEPT ![j] = "idle"]
  /\ deletion' = IF Holds(j) THEN [deletion EXCEPT !.lease = Nobody, !.lapsed = FALSE]
                 ELSE deletion
  /\ UNCHANGED <<calls, outbox, delivery, warehouse>>

JobDies(j) ==
  /\ job[j] # "idle" /\ Fault
  /\ job' = [job EXCEPT ![j] = "idle"]
  /\ deletion' = IF deletion.lease = j THEN [deletion EXCEPT !.lease = Dead] ELSE deletion
  /\ UNCHANGED <<calls, outbox, delivery, warehouse>>

DeletionLapses ==
  /\ deletion.lease # Nobody /\ ~deletion.lapsed
  /\ deletion' = [deletion EXCEPT !.lapsed = TRUE]
  /\ IF deletion.lease = Dead THEN UNCHANGED faults ELSE Fault
  /\ UNCHANGED <<calls, outbox, delivery, warehouse, job>>

\* RECHECK_MS, a plain timer, outlasts a call, a send and a commit of the sink.
\* It does not outlast a row of the outbox, which is offered until it is taken:
\* the rows saved after the deletion are not waited for.
Moving(c) == stream[c] # {} \/ \E f \in Flushes : \E e \in Events : <<c, e>> \in batch[f]
InFlight == \E c \in Calls : ~Over(c) \/ (c \notin late /\ Moving(c))

ADayPasses ==
  /\ Deleted /\ ~deletion.due /\ ~InFlight
  /\ deletion' = [deletion EXCEPT !.due = TRUE]
  /\ UNCHANGED <<calls, outbox, delivery, warehouse, job, faults>>

----------------------------------------------------------------------------
Init ==
  /\ call = [c \in Calls |-> "none"] /\ handle = [c \in Calls |-> "none"]
  /\ ran = {} /\ told = {} /\ late = {}
  /\ row = [c \in Calls |-> "none"] /\ accepted = {}
  /\ lease = [c \in Calls |-> Nobody] /\ lapsed = {}
  /\ flush = [f \in Flushes |-> "idle"] /\ batch = [f \in Flushes |-> {}]
  /\ stream = [c \in Calls |-> {}] /\ archive = [c \in Calls |-> {}]
  /\ deletion = [asked |-> FALSE, passes |-> 0, completed |-> FALSE, due |-> TRUE,
                 lease |-> Nobody, lapsed |-> FALSE]
  /\ job = [j \in Jobs |-> "idle"]
  /\ faults = MaxFaults

Work(c) ==
  \/ SendIntent(c) \/ InsertIntent(c) \/ Decide(c) \/ Answered(c)
  \/ SendOutcome(c) \/ SaveOutcome(c) \/ UpdateRow(c)

Flush(f) == Claim(f) \/ Deliver(f) \/ Accept(f) \/ BackOff(f)

Job(j) == JobClaims(j) \/ JobErases(j) \/ JobSettles(j)

Next ==
  \/ \E c \in Calls : \/ Dispatch(c) \/ Work(c) \/ CallDies(c)
                      \/ LeaseLapses(c) \/ Expire(c) \/ Sink(c)
  \/ \E f \in Flushes : Flush(f) \/ FlushDies(f)
  \/ Reconcile \/ DeleteProject
  \/ \E j \in Jobs : Job(j) \/ JobFails(j) \/ JobDies(j)
  \/ DeletionLapses \/ ADayPasses

\* Calls go on, the crons run, the sink commits, leases lapse, days pass.
Fairness ==
  /\ \A c \in Calls : WF_vars(Work(c)) /\ WF_vars(LeaseLapses(c)) /\ WF_vars(Sink(c))
  /\ \A f \in Flushes : WF_vars(Flush(f))
  /\ WF_vars(Reconcile)
  /\ \A j \in Jobs : WF_vars(Job(j))
  /\ WF_vars(DeletionLapses) /\ WF_vars(ADayPasses)

SafetySpec == Init /\ [][Next]_vars
Spec == SafetySpec /\ Fairness

----------------------------------------------------------------------------
TypeOK ==
  /\ call \in [Calls -> {"none", "begin", "fallback", "ready", "running", "finish", "save",
                         "over", "refused", "dead"}]
  /\ handle \in [Calls -> {"none", "stream", "row"}]
  /\ ran \subseteq Calls /\ told \subseteq Calls /\ late \subseteq Calls
  /\ row \in [Calls -> {"none", "started"} \cup Events] /\ accepted \subseteq Calls
  /\ lease \in [Calls -> Flushes \cup {Nobody, Dead}] /\ lapsed \subseteq Calls
  /\ flush \in [Flushes -> {"idle", "claimed", "sent", "failed"}]
  /\ batch \in [Flushes -> SUBSET (Calls \X Events)]
  /\ stream \in [Calls -> SUBSET Events] /\ archive \in [Calls -> SUBSET Events]
  /\ deletion \in [asked : BOOLEAN, passes : 0 .. 2, completed : BOOLEAN, due : BOOLEAN,
                   lease : Jobs \cup {Nobody, Dead}, lapsed : BOOLEAN]
  /\ job \in [Jobs -> {"idle", "claimed", "erased"}]
  /\ faults \in 0 .. MaxFaults

Durable(c) == row[c] # "none" \/ stream[c] # {} \/ archive[c] # {}

\* No tool runs without a durable intent (audit.ts), until the project is
\* deleted, and whatever happens after it ran.
NothingRunsUnrecorded == \A c \in ran : Durable(c) \/ Deleted

\* Once erased, the archive of a deleted project holds nothing, and nothing
\* that was in flight brings any of it back (api/internal.ts), but for what was
\* saved in the outbox after the deletion.
ErasedForGood ==
  deletion.completed =>
    \A c \in Calls \ late : stream[c] = {} /\ archive[c] = {} /\ row[c] = "none"

\* Activity tells what happened: every tool that ran is read in the end, and
\* by its outcome where that was told, although the outbox closes rows, sends
\* twice, and drops what it believes acknowledged.
ActivityTellsAll ==
  \A c \in Calls : /\ (c \in ran) ~> (archive[c] # {} \/ Deleted)
                   /\ (c \in told) ~> ("outcome" \in archive[c] \/ Deleted)

\* The archive of a deleted project is erased.
ErasureEnds == Deleted ~> deletion.completed
=============================================================================
