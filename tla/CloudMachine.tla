------------------------------ MODULE CloudMachine ------------------------------
(***************************************************************************)
(* One machine of Exeora Cloud: the CloudMachine object that provisions    *)
(* and destroys it one alarm at a time (cloud/machine-do.ts,               *)
(* machine-steps.ts), the requests that create, retry and destroy it       *)
(* (provisioning.ts, machine-start.ts, teardown.ts, revoke.ts) and the     *)
(* five-minute sweep behind them (reconcile.ts).                           *)
(*                                                                         *)
(* The object's storage closes its input gate, so what a handler does      *)
(* between two external awaits is one step, and a handler that waits on    *)
(* D1, on the relay or on the Sprites API can be overtaken there by any    *)
(* other.  Alarms of one object never overlap.  Consecutive storage writes *)
(* with no such wait between them are taken as one.  Time appears as three *)
(* flags: a phase past its own budget (`late`), a row untouched for 10/20  *)
(* and 45 minutes (`age` 1 and 2), a Sprite past the orphans' grace.       *)
(***************************************************************************)
EXTENDS Naturals

CONSTANTS
  MaxTokens,    \* how often a machine token is minted: the creation and each retry
  MaxAttempts,  \* MAX_ATTEMPTS
  MaxFaults     \* lost alarms, evictions, failed calls and dead requests

ASSUME ConstantsAssumption ==
  /\ MaxTokens \in Nat \ {0}
  /\ MaxAttempts \in Nat \ {0}
  /\ MaxFaults \in Nat

Tokens == 1 .. MaxTokens
NoToken == 0

Calling == {"create", "bootstrap", "tools", "service"}
Waiting == {"wait-hello", "wait-install"}
Provisioning == Calling \cup Waiting
Phases == Provisioning \cup {"none", "ready", "error", "destroy"}
Following == [create |-> "bootstrap", bootstrap |-> "tools", tools |-> "service",
              service |-> "wait-hello"]

\* Where a running alarm waits.
Points == {"idle", "call", "reply", "write", "advance", "fail", "explain",
           "unmake", "unrow", "wipe"}

VARIABLES
  \* The object's storage.
  phase,      \* the record's phase, "none" without a record
  tombstone,  \* left behind once destroyed
  secrets,    \* the machine token still to be delivered
  alarm,      \* an alarm is set
  attempts,
  late,       \* the phase has outlived its budget
  \* Its handlers that are under way.
  step,       \* the running alarm: its phase, where it waits, where it goes
  carried,    \* the token in the script a bootstrap sent
  call,       \* each provision() call, by its token
  ask,        \* the destroy() call, whoever asked for it: one at a time
  \* D1.
  status,     \* of the cloud_machines row, "none" without a row
  hash,       \* the token whose hash the row keeps
  age,        \* how long the row was not touched
  device,     \* the devices row: "none", "live", "revoked", "gone"
  sweep,      \* what the sweep read and has not acted on
  \* The Sprite.
  sprite,     \* "none", "young" or "old"
  landing,    \* a creation whose answer was lost and that may still arrive
  holds,      \* the token written on the machine
  runs,       \* the token its CLI was started with
  online,     \* its CLI has a socket at the relay
  faults

record == <<phase, tombstone, secrets, attempts, late>>
storage == <<record, alarm>>
handlers == <<step, carried, call, ask>>
rows == <<status, hash, age, device>>
machine == <<sprite, landing, holds, runs, online>>
vars == <<storage, handlers, rows, sweep, machine, faults>>

Idle == [of |-> "none", at |-> "idle", to |-> "none"]
Running == step # Idle
At(point) == step.at = point
Doomed == phase = "destroy" \/ tombstone
HasRow == status # "none"

\* D1 as the object sees it: an update of a row that is gone writes nothing.
SetStatus(s) == IF HasRow THEN s ELSE "none"
Touched == 0

----------------------------------------------------------------------------
(* Requests: creation, retry, and the provision() call they end in *)

\* The batch of createCloudProject, createCloudWorkspace or createCloudRoot.
CreateRows ==
  /\ device = "none"
  /\ status' = "creating" /\ hash' = 1 /\ age' = Touched /\ device' = "live"
  /\ call' = [call EXCEPT ![1] = "sent"]
  /\ UNCHANGED <<storage, step, carried, ask, sweep, machine, faults>>

RetryReads(t) ==
  /\ t # 1
  /\ call[t] = "none"
  /\ status = "error"
  /\ call' = [call EXCEPT ![t] = "read"]
  /\ UNCHANGED <<storage, step, carried, ask, rows, sweep, machine, faults>>

Claimable == status = "error"

RetryClaims(t) ==
  /\ call[t] = "read"
  /\ IF Claimable
     THEN /\ status' = "creating" /\ hash' = t /\ age' = Touched
          /\ call' = [call EXCEPT ![t] = "sent"]
     ELSE /\ call' = [call EXCEPT ![t] = "over"]
          /\ UNCHANGED <<status, hash, age>>
  /\ UNCHANGED <<storage, step, carried, ask, device, sweep, machine, faults>>

\* Mutant: only a record being destroyed refuses, not the mark left behind.
RefusedByRecord == phase = "destroy"

\* What provision() refuses.
Refused == phase = "destroy" \/ tombstone

ProvisionArrives(t) ==
  /\ call[t] = "sent"
  /\ IF Refused
     THEN /\ call' = [call EXCEPT ![t] = "over"]
          /\ UNCHANGED <<phase, secrets, attempts, late>>
     ELSE /\ phase' = "create" /\ secrets' = t /\ attempts' = 0 /\ late' = FALSE
          /\ call' = [call EXCEPT ![t] = "put"]
  /\ UNCHANGED <<tombstone, alarm, step, carried, ask, rows, sweep, machine, faults>>

ProvisionWritesRow(t) ==
  /\ call[t] = "put"
  /\ status' = SetStatus("creating") /\ age' = Touched
  /\ call' = [call EXCEPT ![t] = "written"]
  /\ UNCHANGED <<storage, step, carried, ask, hash, device, sweep, machine, faults>>

\* The chain of alarms begins.
ProvisionArms(t) ==
  /\ call[t] = "written"
  /\ alarm' = TRUE
  /\ call' = [call EXCEPT ![t] = "over"]
  /\ UNCHANGED <<record, step, carried, ask, status, hash, age, device, sweep, machine, faults>>

\* The call does not get through, or one of its updates in D1 throws.
CallBreaks(t) ==
  /\ faults > 0
  /\ call[t] \in {"sent", "put", "written"}
  /\ call' = [call EXCEPT ![t] = "broken"]
  /\ faults' = faults - 1
  /\ UNCHANGED <<storage, step, carried, ask, rows, sweep, machine>>

\* startMachine's catch: the call failed, or its answer did while the object
\* goes on with it.
StartFails(t) ==
  /\ \/ call[t] = "broken" /\ call' = [call EXCEPT ![t] = "over"] /\ UNCHANGED faults
     \/ call[t] \in {"put", "written"} /\ faults > 0 /\ faults' = faults - 1 /\ UNCHANGED call
  /\ status' = SetStatus("error") /\ age' = Touched
  /\ UNCHANGED <<storage, step, carried, ask, hash, device, sweep, machine>>

\* The Worker that made the call is gone before it.
RequestDies(t) ==
  /\ faults > 0
  /\ call[t] \in {"sent", "broken"}
  /\ call' = [call EXCEPT ![t] = "over"]
  /\ faults' = faults - 1
  /\ UNCHANGED <<storage, step, carried, ask, rows, sweep, machine>>

----------------------------------------------------------------------------
(* destroy(), asked for by a person or by the sweep *)

OwnerAsks ==
  /\ ask = "none"
  /\ HasRow
  /\ ask' = "sent"
  /\ UNCHANGED <<storage, step, carried, call, rows, sweep, machine, faults>>

\* Mutant: rows left in `destroying` are not looked for.
RevokedOnly == status \notin {"none", "destroying"} /\ device = "revoked"

\* Rows left in `destroying`, and machines whose device was revoked.
LeftBehind == \/ status = "destroying" /\ age > 0
              \/ status \notin {"none", "destroying"} /\ device = "revoked"

SweepAsks ==
  /\ ask = "none"
  /\ LeftBehind
  /\ ask' = "sent"
  /\ UNCHANGED <<storage, step, carried, call, rows, sweep, machine, faults>>

DestroyArrives ==
  /\ ask = "sent"
  /\ phase' = "destroy" /\ secrets' = NoToken /\ attempts' = 0 /\ late' = FALSE
  /\ ask' = "put"
  /\ UNCHANGED <<tombstone, alarm, step, carried, call, rows, sweep, machine, faults>>

DestroyWritesRow ==
  /\ ask = "put"
  /\ status' = SetStatus("destroying") /\ age' = Touched
  /\ ask' = "written"
  /\ UNCHANGED <<storage, step, carried, call, hash, device, sweep, machine, faults>>

DestroyArms ==
  /\ ask = "written"
  /\ alarm' = TRUE
  /\ ask' = "armed"
  /\ UNCHANGED <<record, step, carried, call, rows, sweep, machine, faults>>

\* The call does not get through, or the update of the row throws: whoever
\* asked sees an error, and the record may say `destroy` with no alarm set.
DestroyBreaks ==
  /\ faults > 0
  /\ ask \in {"sent", "put", "written"}
  /\ ask' = "none"
  /\ faults' = faults - 1
  /\ UNCHANGED <<storage, step, carried, call, rows, sweep, machine>>

\* Best effort: the step revokes again.
DestroyRevokes ==
  /\ ask = "armed"
  /\ ask' = "none"
  /\ \/ /\ device' = IF device = "live" THEN "revoked" ELSE device
        /\ online' = FALSE
        /\ UNCHANGED faults
     \/ /\ faults > 0
        /\ faults' = faults - 1
        /\ UNCHANGED <<device, online>>
  /\ UNCHANGED <<storage, step, carried, call, status, hash, age, sweep>>
  /\ UNCHANGED <<sprite, landing, holds, runs>>

----------------------------------------------------------------------------
(* alarm() and its steps *)

AlarmFires ==
  /\ alarm
  /\ ~Running
  /\ alarm' = FALSE
  /\ IF phase \in {"none", "ready", "error"}
     THEN UNCHANGED <<step, carried>>
     ELSE /\ step' = [of |-> phase, at |-> "call", to |-> "none"]
          /\ carried' = IF phase = "bootstrap" THEN secrets ELSE NoToken
  /\ UNCHANGED <<record, call, ask, rows, sweep, machine, faults>>

Goto(point) == step' = [step EXCEPT !.at = point]

\* What each call does on the other side.
Effect(of) ==
  /\ sprite' = IF of = "create" /\ sprite = "none" THEN "young" ELSE sprite
  /\ holds' = IF of = "bootstrap" THEN carried ELSE holds
  /\ runs' = IF of = "service" THEN holds ELSE runs
  /\ online' = IF of = "service" THEN FALSE ELSE online
  /\ UNCHANGED landing

StepCalls ==
  /\ At("call") /\ step.of \in Calling
  /\ step.of = "create" \/ sprite # "none"
  /\ Effect(step.of)
  /\ Goto("reply")
  /\ UNCHANGED <<storage, carried, call, ask, rows, sweep, faults>>

\* The call fails, or its answer is lost: a creation may still go through.
StepFails ==
  /\ At("call") /\ step.of \in Calling
  /\ \/ faults > 0 /\ faults' = faults - 1
     \/ step.of # "create" /\ sprite = "none" /\ UNCHANGED faults
  /\ landing' = (landing \/ step.of = "create")
  /\ Goto("fail")
  /\ UNCHANGED <<storage, carried, call, ask, rows, sweep, sprite, holds, runs, online>>

\* Mutant: a step does not look whether its phase was left.
StillInAny == Running

\* stillIn, and the same check in alarm() and fail().
StillIn == phase = step.of

StepReplies ==
  /\ At("reply")
  /\ IF StillIn
     THEN step' = [step EXCEPT !.at = "write", !.to = Following[step.of]]
     ELSE step' = Idle
  /\ UNCHANGED <<storage, carried, call, ask, rows, sweep, machine, faults>>

\* A machine that connected goes on to its install script when its CLI runs
\* those, and is handed over otherwise.
WaitHello ==
  /\ At("call") /\ step.of = "wait-hello"
  /\ \/ ~StillIn /\ step' = Idle /\ UNCHANGED alarm
     \/ /\ StillIn /\ online
        /\ \E to \in {"wait-install", "ready"} : step' = [step EXCEPT !.at = "write", !.to = to]
        /\ UNCHANGED alarm
     \/ StillIn /\ ~online /\ late /\ Goto("fail") /\ UNCHANGED alarm
     \/ StillIn /\ ~online /\ ~late /\ step' = Idle /\ alarm' = TRUE
  /\ UNCHANGED <<record, carried, call, ask, rows, sweep, machine, faults>>

\* What the machine reports of its install script is not told apart from time:
\* it is handed over once the run is settled, or past the budget.
WaitInstall ==
  /\ At("call") /\ step.of = "wait-install"
  /\ \/ ~StillIn /\ step' = Idle /\ UNCHANGED alarm
     \/ StillIn /\ step' = [step EXCEPT !.at = "write", !.to = "ready"] /\ UNCHANGED alarm
     \/ StillIn /\ ~late /\ step' = Idle /\ alarm' = TRUE
  /\ UNCHANGED <<record, carried, call, ask, rows, sweep, machine, faults>>

\* The row is the read model: its step, and `ready` on the hand-over.
StepWrites ==
  /\ At("write")
  /\ status' = IF step.to = "ready" THEN SetStatus("ready") ELSE status
  /\ age' = Touched
  /\ Goto("advance")
  /\ UNCHANGED <<storage, carried, call, ask, hash, device, sweep, machine, faults>>

SecretsAfter(of) == IF of = "bootstrap" THEN NoToken ELSE secrets

StepAdvances ==
  /\ At("advance")
  /\ step' = Idle
  /\ IF StillIn
     THEN /\ phase' = step.to /\ attempts' = 0 /\ late' = FALSE
          /\ secrets' = SecretsAfter(step.of)
          /\ alarm' = (alarm \/ step.to # "ready")
     ELSE UNCHANGED <<phase, attempts, late, secrets, alarm>>
  /\ UNCHANGED <<tombstone, carried, call, ask, rows, sweep, machine, faults>>

\* Mutant: one attempt more than MAX_ATTEMPTS.
OneMoreAttempt == attempts >= MaxAttempts

Exhausted == attempts + 1 >= MaxAttempts

\* fail(): a fatal error or a spent budget gives up, except on a destruction.
GivesUp ==
  /\ At("fail") /\ StillIn /\ phase # "destroy"
  /\ phase' = "error" /\ secrets' = NoToken /\ attempts' = attempts + 1
  /\ Goto("explain")
  /\ UNCHANGED <<tombstone, alarm, late, carried, call, ask, rows, sweep, machine, faults>>

GivesUpInRow ==
  /\ At("explain")
  /\ status' = SetStatus("error") /\ age' = Touched
  /\ step' = Idle
  /\ UNCHANGED <<storage, carried, call, ask, hash, device, sweep, machine, faults>>

\* A destruction counts its attempts to no end, so they are not kept.
TriesAgain ==
  /\ At("fail") /\ StillIn
  /\ phase = "destroy" \/ ~Exhausted
  /\ attempts' = IF phase = "destroy" THEN attempts ELSE attempts + 1
  /\ alarm' = TRUE
  /\ step' = Idle
  /\ UNCHANGED <<phase, tombstone, secrets, late, carried, call, ask, rows, sweep, machine, faults>>

FailsLate ==
  /\ At("fail") /\ ~StillIn
  /\ step' = Idle
  /\ UNCHANGED <<storage, carried, call, ask, rows, sweep, machine, faults>>

(* The destroy step: the device, the Sprite, the rows, the object *)

Revokes ==
  /\ At("call") /\ step.of = "destroy"
  /\ device' = IF device = "live" THEN "revoked" ELSE device
  /\ online' = FALSE
  /\ Goto("unmake")
  /\ UNCHANGED <<storage, carried, call, ask, status, hash, age, sweep>>
  /\ UNCHANGED <<sprite, landing, holds, runs, faults>>

DeletesSprite ==
  /\ At("unmake")
  /\ sprite' = "none" /\ holds' = NoToken /\ runs' = NoToken /\ online' = FALSE
  /\ Goto("unrow")
  /\ UNCHANGED <<storage, carried, call, ask, rows, sweep, landing, faults>>

DeletesRows ==
  /\ At("unrow")
  /\ status' = "none" /\ hash' = NoToken /\ device' = "gone" /\ age' = 0
  /\ Goto("wipe")
  /\ UNCHANGED <<storage, carried, call, ask, sweep, machine, faults>>

\* deleteAll, then the tombstone.
Wipes ==
  /\ At("wipe")
  /\ phase' = "none" /\ secrets' = NoToken /\ attempts' = 0 /\ late' = FALSE
  /\ tombstone' = TRUE
  /\ alarm' = FALSE
  /\ step' = Idle
  /\ UNCHANGED <<carried, call, ask, rows, sweep, machine, faults>>

DestroyFails ==
  /\ faults > 0
  /\ step.of = "destroy" /\ step.at \in {"call", "unmake", "unrow", "wipe"}
  /\ Goto("fail")
  /\ faults' = faults - 1
  /\ UNCHANGED <<storage, carried, call, ask, rows, sweep, machine>>

----------------------------------------------------------------------------
(* The sweep *)

\* poke(), for a row left in `creating`.
SweepPokes ==
  /\ status = "creating" /\ age = 1
  /\ phase \notin {"none", "ready", "error"} /\ ~alarm
  /\ alarm' = TRUE
  /\ UNCHANGED <<record, handlers, rows, sweep, machine, faults>>

\* Mutant: a row left in `creating` is only ever poked.
NeverOverdue == FALSE

Overdue == status = "creating" /\ age = 2

SweepReads ==
  /\ sweep = "none"
  /\ \/ Overdue /\ sweep' = "overdue"
     \/ status = "none" /\ sweep' = "unclaimed"
  /\ UNCHANGED <<storage, handlers, rows, machine, faults>>

SweepGivesUp ==
  /\ sweep = "overdue"
  /\ status' = SetStatus("error") /\ age' = Touched
  /\ sweep' = "none"
  /\ UNCHANGED <<storage, handlers, hash, device, machine, faults>>

\* Mutant: an orphan is deleted however young it is.
AnySprite == sprite # "none"

\* Past the grace of a Sprite whose rows may still be on their way.
Orphaned == sprite = "old"

SweepDeletesOrphan ==
  /\ sweep = "unclaimed"
  /\ IF Orphaned
     THEN sprite' = "none" /\ holds' = NoToken /\ runs' = NoToken /\ online' = FALSE
     ELSE UNCHANGED <<sprite, holds, runs, online>>
  /\ sweep' = "none"
  /\ UNCHANGED <<storage, handlers, rows, landing, faults>>

----------------------------------------------------------------------------
(* The machine, the platform and time *)

CliDials ==
  /\ ~online /\ sprite # "none"
  /\ runs # NoToken /\ runs = hash /\ device = "live"
  /\ online' = TRUE
  /\ UNCHANGED <<storage, handlers, rows, sweep, sprite, landing, holds, runs, faults>>

CliDrops ==
  /\ online
  /\ online' = FALSE
  /\ UNCHANGED <<storage, handlers, rows, sweep, sprite, landing, holds, runs, faults>>

\* deleteAccount: the rows go with the user.  Every machine it read was told;
\* one created since it read was not.
AccountDeleted ==
  /\ HasRow /\ (Doomed \/ status = "creating")
  /\ status' = "none" /\ hash' = NoToken /\ device' = "gone" /\ age' = 0
  /\ online' = FALSE
  /\ UNCHANGED <<storage, handlers, sweep, sprite, landing, holds, runs, faults>>

\* The chain of alarms is lost: the platform gave up retrying.
AlarmLost ==
  /\ faults > 0 /\ alarm
  /\ alarm' = FALSE
  /\ faults' = faults - 1
  /\ UNCHANGED <<record, handlers, rows, sweep, machine>>

\* Every handler under way is lost with the object's memory.  An alarm that
\* was running is run again; the callers of the others see an error.
Evicted ==
  /\ faults > 0
  /\ Running \/ ask \in {"put", "written", "armed"} \/ \E t \in Tokens : call[t] \in {"put", "written"}
  /\ alarm' = (alarm \/ Running)
  /\ landing' = (landing \/ (step.of = "create" /\ At("call")))
  /\ step' = Idle
  /\ call' = [t \in Tokens |-> IF call[t] \in {"put", "written"} THEN "broken" ELSE call[t]]
  /\ ask' = IF ask = "sent" THEN "sent" ELSE "none"
  /\ faults' = faults - 1
  /\ UNCHANGED <<record, carried, rows, sweep, sprite, holds, runs, online>>

SpriteLands ==
  /\ landing
  /\ landing' = FALSE
  /\ sprite' = IF sprite = "none" THEN "young" ELSE sprite
  /\ UNCHANGED <<storage, handlers, rows, sweep, holds, runs, online, faults>>

\* One pass of the sweep is far shorter than the grace.
SpriteAges ==
  /\ sprite = "young"
  /\ sweep = "unclaimed" => status = "none"
  /\ sprite' = "old"
  /\ UNCHANGED <<storage, handlers, rows, sweep, landing, holds, runs, online, faults>>

\* A request is over in seconds, a phase waits for 10 minutes at least and may
\* retry for 30: a row is 20 minutes old only without the one, and 45 only
\* without the other too.
Requested == \E t \in Tokens : call[t] \in {"read", "sent", "put", "written", "broken"}
UnderWay == alarm \/ Running \/ Requested

PhaseAges ==
  /\ phase \in Waiting /\ ~late /\ ~Requested
  /\ late' = TRUE
  /\ UNCHANGED <<phase, tombstone, secrets, attempts, alarm, handlers, rows, sweep, machine, faults>>

RowAges ==
  /\ \/ age = 0 /\ status = "destroying"
     \/ age = 0 /\ status = "creating" /\ ~Requested
     \/ age = 1 /\ status = "creating" /\ ~UnderWay
  /\ age' = age + 1
  /\ UNCHANGED <<storage, handlers, status, hash, device, sweep, machine, faults>>

----------------------------------------------------------------------------
Init ==
  /\ phase = "none" /\ tombstone = FALSE /\ secrets = NoToken /\ alarm = FALSE
  /\ attempts = 0 /\ late = FALSE
  /\ step = Idle /\ carried = NoToken
  /\ call = [t \in Tokens |-> "none"]
  /\ ask = "none"
  /\ status = "none" /\ hash = NoToken /\ age = 0 /\ device = "none"
  /\ sweep = "none"
  /\ sprite = "none" /\ landing = FALSE /\ holds = NoToken /\ runs = NoToken
  /\ online = FALSE
  /\ faults = MaxFaults

Requests ==
  \/ CreateRows
  \/ \E t \in Tokens :
       \/ RetryReads(t) \/ RetryClaims(t)
       \/ ProvisionArrives(t) \/ ProvisionWritesRow(t) \/ ProvisionArms(t)
       \/ CallBreaks(t) \/ StartFails(t) \/ RequestDies(t)

Destructions ==
  \/ OwnerAsks \/ SweepAsks
  \/ DestroyArrives \/ DestroyWritesRow \/ DestroyArms \/ DestroyRevokes \/ DestroyBreaks

Steps ==
  \/ StepCalls \/ StepFails \/ StepReplies \/ WaitHello \/ WaitInstall
  \/ StepWrites \/ StepAdvances
  \/ GivesUp \/ GivesUpInRow \/ TriesAgain \/ FailsLate
  \/ Revokes \/ DeletesSprite \/ DeletesRows \/ Wipes \/ DestroyFails

Sweeps == SweepPokes \/ SweepReads \/ SweepGivesUp \/ SweepDeletesOrphan

Surroundings ==
  \/ CliDials \/ CliDrops \/ AccountDeleted
  \/ AlarmLost \/ Evicted \/ SpriteLands \/ SpriteAges \/ PhaseAges \/ RowAges

Next == Requests \/ Destructions \/ AlarmFires \/ Steps \/ Sweeps \/ Surroundings

\* The runtime fires alarms and delivers calls, the cron runs the sweep, and
\* time passes.  Nothing is assumed of people, of machines or of faults.
Fairness ==
  /\ WF_vars(AlarmFires) /\ WF_vars(Steps)
  /\ \A t \in Tokens : WF_vars(RetryClaims(t) \/ ProvisionArrives(t) \/ ProvisionWritesRow(t)
                               \/ ProvisionArms(t) \/ StartFails(t))
  /\ WF_vars(DestroyArrives \/ DestroyWritesRow \/ DestroyArms \/ DestroyRevokes)
  /\ WF_vars(SweepAsks) /\ WF_vars(SweepPokes)
  /\ WF_vars(SweepReads) /\ WF_vars(SweepGivesUp \/ SweepDeletesOrphan)
  /\ WF_vars(SpriteAges) /\ WF_vars(PhaseAges) /\ WF_vars(RowAges)

SafetySpec == Init /\ [][Next]_vars
Spec == SafetySpec /\ Fairness

----------------------------------------------------------------------------
TypeOK ==
  /\ phase \in Phases /\ tombstone \in BOOLEAN /\ secrets \in {NoToken} \cup Tokens
  /\ alarm \in BOOLEAN /\ attempts \in 0 .. MaxAttempts /\ late \in BOOLEAN
  /\ step \in [of : Phases, at : Points, to : Phases]
  /\ carried \in {NoToken} \cup Tokens
  /\ call \in [Tokens -> {"none", "read", "sent", "put", "written", "broken", "over"}]
  /\ ask \in {"none", "sent", "put", "written", "armed"}
  /\ status \in {"none", "creating", "ready", "error", "destroying"}
  /\ hash \in {NoToken} \cup Tokens /\ age \in 0 .. 2
  /\ device \in {"none", "live", "revoked", "gone"}
  /\ sweep \in {"none", "overdue", "unclaimed"}
  /\ sprite \in {"none", "young", "old"} /\ landing \in BOOLEAN
  /\ holds \in {NoToken} \cup Tokens /\ runs \in {NoToken} \cup Tokens
  /\ online \in BOOLEAN
  /\ faults \in 0 .. MaxFaults

\* A row says `destroying` only once the machine's object has been told, which
\* no late failure or hand-over undoes: what the project's root machine reads in
\* the rows of the others before it goes last.
RowToldFirst == status = "destroying" => Doomed


\* Destruction wins: no request, step or failure that was under way brings
\* back a machine whose destruction was asked for.
DestructionWins == [][Doomed => (Doomed' /\ phase' \in {"destroy", "none"})]_vars

\* A Sprite is only deleted under a machine that is being destroyed, or that
\* no row claims.
OnlyUnclaimedSpritesGo ==
  [][(sprite # "none" /\ sprite' = "none") => (phase = "destroy" \/ status = "none")]_vars

\* Every creation ends: no row says `creating` for ever, whatever was lost.
EveryCreationSettles == (status = "creating") ~> (status # "creating")

\* A destruction nobody looks after: its call broke behind the record, before
\* the row said so, the alarm was set or the device was revoked.  The sweep
\* selects neither the row nor the device, and pokes rows in `creating` only.
Overlooked ==
  /\ phase = "destroy" /\ ~alarm /\ ~Running /\ ask = "none"
  /\ status \in {"ready", "error"} /\ device = "live"

\* A destruction that reached the object finishes, and nothing of the machine
\* is left or comes back, unless it is overlooked until somebody asks again.
\* No Sprite runs on that nobody's row names: it would be a bill.
NothingIsLeft ==
  /\ (phase = "destroy") ~> ([](status = "none" /\ sprite = "none") \/ Overlooked)
  /\ (sprite # "none" /\ status = "none") ~> (sprite = "none")
=============================================================================
