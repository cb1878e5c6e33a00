------------------------------ MODULE CloudRemoval ------------------------------
(***************************************************************************)
(* Taking a project, or only its Exeora Cloud location, away: the mark in  *)
(* cloud_projects, the destruction of every machine, the root machine last *)
(* when the project goes with it, and whoever comes last finishing what    *)
(* the mark asked for (cloud/teardown.ts, the destroy step of              *)
(* machine-steps.ts, revoke.ts, the batches of provisioning.ts and         *)
(* location.ts, the sweep of reconcile.ts).                                *)
(*                                                                         *)
(* A machine's provisioning and its Sprite are those of CloudMachine.  A   *)
(* D1 batch is one step; two awaits on D1 are two.                         *)
(***************************************************************************)
EXTENDS Naturals, FiniteSets

CONSTANTS
  Root,        \* the machine that holds the project's root
  Workspaces,  \* the machines of its workspaces
  Requests,    \* the removals people ask for, which nothing keeps apart
  Scopes,      \* what they may ask for
  MaxDeaths,   \* list that die half way
  MaxFaults    \* lost alarms, broken destroy() calls, failed calls of a step

Machines == Workspaces \cup {Root}

ASSUME ConstantsAssumption ==
  /\ Root \notin Workspaces
  /\ Requests \cap Machines = {}
  /\ IsFiniteSet(Workspaces)
  /\ Scopes \subseteq {"project", "location"}
  /\ MaxDeaths \in Nat /\ MaxFaults \in Nat

VARIABLES
  \* D1.
  project,  \* the projects row is there
  home,     \* the project's default machine is the root machine
  mark,     \* cloud_projects: "gone", "kept", or the scope it is marked with
  status,   \* cloud_machines: "none", "standing", "destroying"
  device,   \* devices: "none", "live", "revoked", "gone"
  \* The objects.
  object,   \* "up" or not made yet, "destroy", or "gone" with its tombstone
  told,     \* destroy() calls that have put their record and not yet written
  alarm,    \* an alarm is set
  pending,  \* children the root's step read and has still to tell
  \* Requests.
  list,     \* machines each request has still to tell
  \* The destroy steps of machines, and requests.
  step,     \* where each of them waits
  scope,    \* the scope each of them read to finish
  deaths, faults

d1 == <<project, home, mark, status, device>>
objects == <<object, told, alarm, pending>>
steps == <<step, scope>>
budgets == <<deaths, faults>>
vars == <<d1, objects, list, steps, budgets>>

Marks == {"project", "location"}

\* Mutant: a scope is acted on that nobody asked for.
MarkedOrNot == mark # "gone"

Marked == mark \in Marks

Recorded == {m \in Machines : status[m] # "none"}
Doomed(m) == object[m] \in {"destroy", "gone"}

Goes(a, to) == step' = [step EXCEPT ![a] = to]

\* A call or an alarm comes to nothing; a request dies.
Fault == faults > 0 /\ faults' = faults - 1
Death == deaths > 0 /\ deaths' = deaths - 1

----------------------------------------------------------------------------
(* Machines made *)

\* The batch of createCloudWorkspace, createCloudProject or createCloudRoot:
\* selected out of a cloud_projects row that is not marked.  A new root is the
\* project's default when the project had no other.  Past the mark the batch
\* makes no row that a removal reads.
CreateRows(m) ==
  /\ device[m] = "none" /\ project /\ mark = "kept"
  /\ device' = [device EXCEPT ![m] = "live"]
  /\ status' = [status EXCEPT ![m] = "standing"]
  /\ UNCHANGED home \/ (m = Root /\ home' = TRUE)
  /\ UNCHANGED <<project, mark, objects, list, steps, budgets>>

----------------------------------------------------------------------------
(* destroy() *)

\* Its record.
Tell(m) ==
  /\ object' = [object EXCEPT ![m] = "destroy"]
  /\ told' = told \cup {m}

\* A caller tells `m`, or the call is refused.
TellOrFail(m) ==
  \/ Tell(m) /\ UNCHANGED faults
  \/ Fault /\ UNCHANGED <<object, told>>

RowDestroying(m) == [status EXCEPT ![m] = IF @ = "none" THEN "none" ELSE "destroying"]

\* The rest of destroy(): its row, its alarm, and the revocation it tries.
TellWrites(m) ==
  /\ m \in told
  /\ told' = told \ {m}
  /\ status' = RowDestroying(m)
  /\ alarm' = [alarm EXCEPT ![m] = TRUE]
  /\ \/ device' = [device EXCEPT ![m] = IF @ = "live" THEN "revoked" ELSE @] /\ UNCHANGED faults
     \/ Fault /\ UNCHANGED device
  /\ UNCHANGED <<project, home, mark, object, pending, list, steps, deaths>>

\* The call breaks off before its row, or before its alarm.
TellBreaks(m) ==
  /\ m \in told /\ Fault
  /\ told' = told \ {m}
  /\ status' \in {status, RowDestroying(m)}
  /\ UNCHANGED <<project, home, mark, device, object, alarm, pending, list, steps, deaths>>

----------------------------------------------------------------------------
(* Who asks for it *)

\* destroyCloudWorkspace and revokeOwnedDevice.
RemoveMachine(q, m) ==
  /\ step[q] = "idle" /\ status[m] # "none"
  /\ list' = [list EXCEPT ![q] = {m}]
  /\ Goes(q, IF m = Root THEN "leave" ELSE "telling")
  /\ UNCHANGED <<d1, objects, scope, budgets>>

\* removeCloud: the mark.
Remove(q, s) ==
  /\ step[q] = "idle" /\ mark # "gone"
  /\ mark' = s
  /\ Goes(q, s)
  /\ UNCHANGED <<project, home, status, device, objects, list, scope, budgets>>

\* The machines are read after the mark; with none there is only the rest.
ReadMachines(q) ==
  /\ step[q] \in Marks
  /\ list' = [list EXCEPT ![q] = Recorded]
  /\ Goes(q, IF Recorded = {} THEN "scope"
             ELSE IF step[q] = "location" /\ Root \in Recorded THEN "leave" ELSE "telling")
  /\ UNCHANGED <<d1, objects, scope, budgets>>

\* moveDefaultLocationStatements: the project's default leaves machine m,
\* unless the project is to go with it.
LeavesRoot(m) == home /\ (m # Root \/ mark = "project")

\* A project that only leaves Cloud, or only its root machine, leaves it first.
LeaveRoot(q) ==
  /\ step[q] = "leave"
  /\ home' = LeavesRoot(Root)
  /\ Goes(q, "telling")
  /\ UNCHANGED <<project, mark, status, device, objects, list, scope, budgets>>

\* Children first.  A destroy() that is refused does not spare the others.
TellNext(q, m) ==
  /\ step[q] = "telling" /\ m \in list[q]
  /\ m = Root => list[q] = {Root}
  /\ list' = [list EXCEPT ![q] = @ \ {m}]
  /\ Goes(q, IF list[q] = {m} THEN "over" ELSE "telling")
  /\ TellOrFail(m)
  /\ UNCHANGED <<d1, alarm, pending, scope, deaths>>

RequestDies(q) ==
  /\ step[q] \notin {"idle", "over"} /\ Death
  /\ Goes(q, "over")
  /\ list' = [list EXCEPT ![q] = {}] /\ scope' = [scope EXCEPT ![q] = "none"]
  /\ UNCHANGED <<d1, objects, faults>>

----------------------------------------------------------------------------
(* The destroy step *)

AlarmFires(m) ==
  /\ alarm[m] /\ step[m] = "idle"
  /\ alarm' = [alarm EXCEPT ![m] = FALSE]
  /\ Goes(m, IF object[m] # "destroy" THEN "idle" ELSE IF m = Root THEN "look" ELSE "unmake")
  /\ UNCHANGED <<d1, object, told, pending, list, scope, budgets>>

\* removingProject.
RootLooks ==
  /\ step[Root] = "look"
  /\ Goes(Root, IF mark = "project" THEN "children" ELSE "unmake")
  /\ UNCHANGED <<d1, objects, list, scope, budgets>>

\* Mutant: the root does not wait for its children.
NobodyWaits == {}

\* The machines of a project being removed whose object was not told.
Untold == {c \in Workspaces : status[c] = "standing"}

RootReads ==
  /\ step[Root] = "children"
  /\ pending' = Untold
  /\ Goes(Root, IF Untold # {} THEN "telling" ELSE "unmake")
  /\ UNCHANGED <<d1, object, told, alarm, list, scope, budgets>>

RootTells(c) ==
  /\ step[Root] = "telling" /\ c \in pending
  /\ pending' = pending \ {c}
  /\ TellOrFail(c)
  /\ UNCHANGED <<d1, alarm, list, steps, deaths>>

RootLooksAgain ==
  /\ step[Root] = "telling" /\ pending = {}
  /\ Goes(Root, "idle")
  /\ alarm' = [alarm EXCEPT ![Root] = TRUE]
  /\ UNCHANGED <<d1, object, told, pending, list, scope, budgets>>

\* The device is revoked, and the Sprite deleted.
Unmake(m) ==
  /\ step[m] = "unmake"
  /\ Goes(m, "unrow")
  /\ device' = [device EXCEPT ![m] = IF @ = "live" THEN "revoked" ELSE @]
  /\ UNCHANGED <<project, home, mark, status, objects, list, scope, budgets>>

\* What a cascade from the projects row takes.
ProjectGoes ==
  /\ project' = FALSE /\ home' = FALSE /\ mark' = "gone"
  /\ status' = [m \in Machines |-> "none"]

\* permanentlyDeleteDevice: a project still on the device goes with it.
DeleteDevice(m) ==
  /\ step[m] = "unrow"
  /\ Goes(m, "scope")
  /\ device' = [device EXCEPT ![m] = "gone"]
  /\ IF m = Root /\ LeavesRoot(m)
     THEN ProjectGoes
     ELSE /\ status' = [status EXCEPT ![m] = "none"]
          /\ home' = LeavesRoot(m)
          /\ UNCHANGED <<project, mark>>
  /\ UNCHANGED <<objects, list, scope, budgets>>

Wipe(m) ==
  /\ step[m] = "wipe"
  /\ Goes(m, "idle")
  /\ object' = [object EXCEPT ![m] = "gone"]
  /\ alarm' = [alarm EXCEPT ![m] = FALSE]
  /\ UNCHANGED <<d1, told, pending, list, scope, budgets>>

----------------------------------------------------------------------------
(* finishCloudRemoval: by a machine as it leaves, and by a removal that found *)
(* no machine *)

\* Where it returns to.
Back(a) == IF a \in Machines THEN "wipe" ELSE "over"

ReadScope(a) ==
  /\ step[a] = "scope"
  /\ Goes(a, IF Marked THEN "count" ELSE Back(a))
  /\ scope' = [scope EXCEPT ![a] = IF Marked THEN mark ELSE @]
  /\ UNCHANGED <<d1, objects, list, budgets>>

\* Mutant: whoever is still standing is not looked for.
NoneStanding(leaving) == TRUE

\* No other machine of the project is recorded.
LastToGo(leaving) == Recorded \ {leaving} = {}

Count(a) ==
  /\ step[a] = "count"
  /\ Goes(a, IF LastToGo(a) THEN "finish" ELSE Back(a))
  /\ scope' = [scope EXCEPT ![a] = IF LastToGo(a) THEN @ ELSE "none"]
  /\ UNCHANGED <<d1, objects, list, budgets>>

Finish(s) ==
  \/ s = "location" /\ mark' = "gone" /\ UNCHANGED <<project, home, status>>
  \/ s = "project" /\ ProjectGoes

FinishStep(a) ==
  /\ step[a] = "finish"
  /\ Goes(a, Back(a))
  /\ Finish(scope[a])
  /\ scope' = [scope EXCEPT ![a] = "none"]
  /\ UNCHANGED <<device, objects, list, budgets>>

----------------------------------------------------------------------------
(* The sweep *)

\* The two queries of reconcileCloud.  Destructions under way for ten minutes
\* are asked for again: how long one takes is open, so any may be that old.
SweepRetries(m) ==
  /\ status[m] = "destroying"
  /\ Tell(m)
  /\ UNCHANGED <<d1, alarm, pending, list, steps, budgets>>

\* Mutant: a mark alone does not make the sweep take a machine down.
Unreachable == {m \in Recorded : status[m] # "destroying" /\ device[m] = "revoked"}

LeftBehind ==
  {m \in Recorded : status[m] # "destroying" /\ (Marked \/ device[m] = "revoked")}

\* The root last, once the destroy() of every other has returned: one that
\* fails ends this run of the sweep.
SweepTells(m) ==
  /\ m \in LeftBehind
  /\ m = Root => LeftBehind = {Root}
  /\ Tell(m)
  /\ UNCHANGED <<d1, alarm, pending, list, steps, budgets>>

----------------------------------------------------------------------------
(* What is lost *)

AlarmLost(m) ==
  /\ alarm[m] /\ Fault
  /\ alarm' = [alarm EXCEPT ![m] = FALSE]
  /\ UNCHANGED <<d1, object, told, pending, list, steps, deaths>>

\* A call of the step fails: fail() sets the alarm again.
StepFails(m) ==
  /\ step[m] \in {"look", "children", "unmake", "unrow", "scope", "count", "finish"} /\ Fault
  /\ Goes(m, "idle")
  /\ scope' = [scope EXCEPT ![m] = "none"]
  /\ alarm' = [alarm EXCEPT ![m] = TRUE]
  /\ UNCHANGED <<d1, object, told, pending, list, deaths>>

----------------------------------------------------------------------------
Init ==
  /\ project = TRUE /\ home = FALSE /\ mark = "kept"
  /\ status = [m \in Machines |-> "none"] /\ device = [m \in Machines |-> "none"]
  /\ object = [m \in Machines |-> "up"] /\ told = {}
  /\ alarm = [m \in Machines |-> FALSE] /\ pending = {}
  /\ list = [q \in Requests |-> {}]
  /\ step = [a \in Machines \cup Requests |-> "idle"]
  /\ scope = [a \in Machines \cup Requests |-> "none"]
  /\ deaths = MaxDeaths /\ faults = MaxFaults

Finishing(a) == ReadScope(a) \/ Count(a) \/ FinishStep(a)

\* What a request does once it is asked.
Request(q) ==
  \/ ReadMachines(q) \/ LeaveRoot(q) \/ Finishing(q)
  \/ \E m \in Machines : TellNext(q, m)

Step(m) == Unmake(m) \/ DeleteDevice(m) \/ Finishing(m) \/ Wipe(m)

RootStep == RootLooks \/ RootReads \/ RootLooksAgain \/ \E c \in Workspaces : RootTells(c)

\* Everything a machine does about its alarm.
Destroys(m) == AlarmFires(m) \/ Step(m) \/ (m = Root /\ RootStep)

Sweep(m) == SweepRetries(m) \/ SweepTells(m)

Next ==
  \/ \E m \in Machines :
       \/ CreateRows(m)
       \/ TellWrites(m) \/ TellBreaks(m)
       \/ Destroys(m)
       \/ Sweep(m)
       \/ AlarmLost(m) \/ StepFails(m)
  \/ \E q \in Requests :
       \/ \E s \in Scopes : Remove(q, s)
       \/ \E m \in Machines : RemoveMachine(q, m)
       \/ Request(q)
       \/ RequestDies(q)

\* Calls arrive, alarms fire, a request that lives goes on, and the cron runs
\* the sweep.
Fairness ==
  /\ \A q \in Requests : WF_vars(Request(q))
  /\ \A m \in Machines :
       WF_vars(TellWrites(m)) /\ WF_vars(Destroys(m)) /\ WF_vars(Sweep(m))

SafetySpec == Init /\ [][Next]_vars
Spec == SafetySpec /\ Fairness

----------------------------------------------------------------------------
TypeOK ==
  /\ project \in BOOLEAN /\ home \in BOOLEAN
  /\ mark \in {"gone", "kept"} \cup Marks
  /\ status \in [Machines -> {"none", "standing", "destroying"}]
  /\ device \in [Machines -> {"none", "live", "revoked", "gone"}]
  /\ object \in [Machines -> {"up", "destroy", "gone"}]
  /\ told \subseteq Machines
  /\ alarm \in [Machines -> BOOLEAN]
  /\ pending \subseteq Workspaces
  /\ list \in [Requests -> SUBSET Machines]
  /\ step \in [Machines \cup Requests ->
                 {"idle", "leave", "look", "children", "telling", "unmake", "unrow", "scope",
                  "count", "finish", "wipe", "over"} \cup Marks]
  /\ scope \in [Machines \cup Requests -> {"none"} \cup Marks]
  /\ deaths \in 0 .. MaxDeaths /\ faults \in 0 .. MaxFaults

\* Nothing deletes a row that a machine still standing is recorded in
\* (teardown.ts): a row goes only once the machine's object was told.
NoStandingRowTaken ==
  [][\A m \in Machines : (status[m] # "none" /\ status'[m] = "none") => Doomed(m)]_vars

\* Every removal that was asked for ends, whatever its machines run into
\* (teardown.ts: "called by each machine ... and by the sweep").
EveryRemovalEnds == Marked ~> (mark = "gone")

\* Two calls or alarms of this behaviour came to nothing.
TwoFaults == MaxFaults - faults > 1

\* A removal that has machines to take down ends, whether or not its request
\* lives: the sweep goes on with it.  Every machine goes, whatever it runs into,
\* and the mark goes with the last of them, unless two calls or alarms fail.
RemovalOfMachinesEnds ==
  (Marked /\ Recorded # {}) ~> (Recorded = {} /\ (mark = "gone" \/ TwoFaults))
=============================================================================
