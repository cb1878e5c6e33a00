--------------------------- MODULE CloudMachineProofs ---------------------------
(***************************************************************************)
(* Proofs about CloudMachine, for every number of tokens, attempts and     *)
(* faults.                                                                 *)
(***************************************************************************)
EXTENDS CloudMachine, TLAPS

RecordType ==
  /\ phase \in Phases /\ tombstone \in BOOLEAN /\ secrets \in {NoToken} \cup Tokens
  /\ alarm \in BOOLEAN /\ attempts \in 0 .. MaxAttempts /\ late \in BOOLEAN
HandlerType ==
  /\ step \in [of : Phases, at : Points, to : Phases]
  /\ carried \in {NoToken} \cup Tokens
  /\ call \in [Tokens -> {"none", "read", "sent", "put", "written", "broken", "over"}]
  /\ ask \in {"none", "sent", "put", "written", "armed"}
RowType ==
  /\ status \in {"none", "creating", "ready", "error", "destroying"}
  /\ hash \in {NoToken} \cup Tokens /\ age \in 0 .. 2
  /\ device \in {"none", "live", "revoked", "gone"}
  /\ sweep \in {"none", "overdue", "unclaimed"}
MachineType ==
  /\ sprite \in {"none", "young", "old"} /\ landing \in BOOLEAN
  /\ holds \in {NoToken} \cup Tokens /\ runs \in {NoToken} \cup Tokens
  /\ online \in BOOLEAN
  /\ faults \in 0 .. MaxFaults

LEMMA PhaseNames ==
  /\ Provisioning = {"create", "bootstrap", "tools", "service", "wait-hello", "wait-install"}
  /\ Phases = Provisioning \cup {"none", "ready", "error", "destroy"}
  BY DEF Phases, Provisioning, Calling, Waiting

LEMMA TokenNumbers ==
  /\ 1 \in Tokens
  /\ NoToken \notin Tokens
  /\ 0 \in 0 .. MaxAttempts
  BY ConstantsAssumption, SMT DEF ConstantsAssumption, Tokens, NoToken

\* A spent fault or attempt stays within its bound.
LEMMA Counting ==
  ASSUME NEW n, NEW x \in 0 .. n, n \in Nat
  PROVE  /\ x > 0 => x - 1 \in 0 .. n
         /\ x < n => x + 1 \in 0 .. n
  BY SMT

StepSet == [of : Phases, at : Points, to : Phases]

\* A step that moves on is still a step.
LEMMA StepRecords ==
  ASSUME NEW s \in StepSet, NEW p \in Points, NEW q \in Phases
  PROVE  /\ [s EXCEPT !.at = p] \in StepSet
         /\ [s EXCEPT !.at = p, !.to = q] \in StepSet
  BY DEF StepSet

LEMMA IdleStep == Idle \in StepSet
  BY DEF StepSet, Idle, Points, Phases

\* Before the rows of the machine are written nothing of it exists.
FreshInv == device = "none" =>
  /\ status = "none" /\ sprite = "none" /\ landing = FALSE
  /\ phase = "none" /\ step = Idle /\ ask = "none"
  /\ \A t \in Tokens : call[t] = "none"

\* Where a phase leads once it went well.
NextOf(of) == CASE of \in Calling -> {Following[of]}
                [] of = "wait-hello" -> {"wait-install", "ready"}
                [] OTHER -> {"ready"}

\* Which phase the running alarm is in, and where it waits; nothing but its
\* last step takes the object out of `destroy`, and nothing else than the
\* alarm takes it forward.
StepInv ==
  /\ step.at = "idle" => step = Idle
  /\ step.at = "reply" => step.of \in Calling
  /\ step.at \in {"write", "advance"} => step.of \in Provisioning /\ step.to \in NextOf(step.of)
  /\ step.at = "explain" => step.of \in Provisioning
  /\ step.at \in {"unmake", "unrow", "wipe"} => step.of = "destroy"
  /\ step.at \in {"call", "fail"} => step.of \in Provisioning \cup {"destroy"}
  /\ step.of = "destroy" => phase = "destroy"
  /\ step.of # "none" => phase \in {step.of, "none", "create", "error", "destroy"}

DoomInv ==
  /\ tombstone => phase \in {"none", "destroy"}
  /\ ask = "put" => Doomed
  /\ status = "destroying" => Doomed

\* A phase that still runs has an attempt left.
BudgetInv == phase \in Provisioning => attempts < MaxAttempts

\* What the sweep is about to delete belongs to no row.
OrphanInv == (sweep = "unclaimed" /\ sprite = "old") => status = "none"

MachineInv == TypeOK /\ FreshInv /\ StepInv /\ DoomInv /\ BudgetInv /\ OrphanInv

LEMMA StepReplyType ==
  ASSUME TypeOK, StepInv, StepReplies \/ WaitHello \/ WaitInstall
  PROVE  step' \in StepSet
  <1>1. step \in StepSet /\ {"write", "fail"} \subseteq Points
    BY DEF TypeOK, StepSet, Points
  <1>2. {"ready", "wait-install"} \subseteq Phases
    BY DEF Phases, Provisioning, Waiting
  <1>3. CASE StepReplies
    <2>1. Following[step.of] \in Phases
      BY <1>3 DEF StepReplies, StepInv, At, Following, Calling, Phases, Provisioning, Waiting
    <2>2. \/ step' = Idle
          \/ step' = [step EXCEPT !.at = "write", !.to = Following[step.of]]
      BY <1>3, Zenon DEF StepReplies
    <2>3. [step EXCEPT !.at = "write", !.to = Following[step.of]] \in StepSet
      BY <1>1, <2>1, StepRecords
    <2> QED BY <2>2, <2>3, IdleStep
  <1>4. CASE WaitHello
    <2>1. \/ step' = Idle
          \/ step' = [step EXCEPT !.at = "fail"]
          \/ \E to \in {"wait-install", "ready"} : step' = [step EXCEPT !.at = "write", !.to = to]
      BY <1>4, Zenon DEF WaitHello, Goto
    <2>2. /\ [step EXCEPT !.at = "fail"] \in StepSet
          /\ \A to \in {"wait-install", "ready"} :
               [step EXCEPT !.at = "write", !.to = to] \in StepSet
      BY <1>1, <1>2, StepRecords
    <2> QED BY <2>1, <2>2, IdleStep, Zenon
  <1>5. CASE WaitInstall
    <2>1. step' = Idle \/ step' = [step EXCEPT !.at = "write", !.to = "ready"]
      BY <1>5, Zenon DEF WaitInstall
    <2>2. [step EXCEPT !.at = "write", !.to = "ready"] \in StepSet
      BY <1>1, <1>2, StepRecords
    <2> QED BY <2>1, <2>2, IdleStep
  <1> QED BY <1>3, <1>4, <1>5

LEMMA StepReplyInv ==
  ASSUME TypeOK, StepInv, StepReplies \/ WaitHello \/ WaitInstall
  PROVE  StepInv'
  <1> DEFINE Moves(to) == /\ step'.of = step.of /\ step'.at = "write" /\ step'.to = to
                          /\ step.of \in Provisioning /\ to \in NextOf(step.of)
  <1>1. /\ step \in StepSet /\ phase' = phase
        /\ {"write", "fail"} \subseteq Points /\ {"ready", "wait-install"} \subseteq Phases
    BY DEF TypeOK, StepSet, Points, Phases, Provisioning, Waiting, StepReplies, WaitHello,
           WaitInstall, record, storage, machine
  <1>2. CASE step' = Idle
    BY <1>2 DEF StepInv, Idle
  <1>3. CASE step.of = "wait-hello" /\ step' = [step EXCEPT !.at = "fail"]
    <2>1. step'.of = "wait-hello" /\ step'.at = "fail"
      BY <1>1, <1>3 DEF StepSet
    <2> QED BY <1>1, <1>3, <2>1 DEF StepInv, Provisioning, Waiting
  <1>4. CASE \E to \in Phases : Moves(to)
    BY <1>1, <1>4 DEF StepInv, Provisioning, Calling, Waiting
  <1>5. CASE StepReplies
    <2>1. /\ step.of \in Calling
          /\ step' = Idle \/ step' = [step EXCEPT !.at = "write", !.to = Following[step.of]]
      BY <1>5, Zenon DEF StepReplies, StepInv, At
    <2>2. Following[step.of] \in Phases
      BY <2>1 DEF Following, Calling, Phases, Provisioning, Waiting
    <2>3. ASSUME step' = [step EXCEPT !.at = "write", !.to = Following[step.of]]
          PROVE  Moves(Following[step.of])
      <3>1. /\ step'.of = step.of /\ step'.at = "write" /\ step'.to = Following[step.of]
        BY <1>1, <2>2, <2>3 DEF StepSet
      <3>2. step.of \in Provisioning /\ Following[step.of] \in NextOf(step.of)
        BY <2>1 DEF NextOf, Provisioning, Calling, Waiting
      <3> QED BY <3>1, <3>2
    <2> HIDE DEF Moves
    <2> QED BY <1>2, <1>4, <2>1, <2>2, <2>3
  <1>6. CASE WaitHello
    <2>1. /\ step.of = "wait-hello"
          /\ \/ step' = Idle
             \/ step' = [step EXCEPT !.at = "fail"]
             \/ \E to \in {"wait-install", "ready"} : step' = [step EXCEPT !.at = "write", !.to = to]
      BY <1>6, Zenon DEF WaitHello, Goto
    <2>2. ASSUME NEW to \in {"wait-install", "ready"}, step' = [step EXCEPT !.at = "write", !.to = to]
          PROVE  Moves(to)
      <3>1. /\ step'.of = step.of /\ step'.at = "write" /\ step'.to = to
        BY <1>1, <2>2 DEF StepSet
      <3>2. step.of \in Provisioning /\ to \in NextOf(step.of)
        BY <2>1, <2>2 DEF NextOf, Provisioning, Calling, Waiting
      <3> QED BY <3>1, <3>2
    <2> HIDE DEF Moves
    <2> QED BY <1>1, <1>2, <1>3, <1>4, <2>1, <2>2
  <1>7. CASE WaitInstall
    <2>1. /\ step.of = "wait-install"
          /\ step' = Idle \/ step' = [step EXCEPT !.at = "write", !.to = "ready"]
      BY <1>7, Zenon DEF WaitInstall
    <2>2. ASSUME step' = [step EXCEPT !.at = "write", !.to = "ready"]
          PROVE  Moves("ready")
      <3>1. /\ step'.of = step.of /\ step'.at = "write" /\ step'.to = "ready"
        BY <1>1, <2>2 DEF StepSet
      <3>2. step.of \in Provisioning /\ "ready" \in NextOf(step.of)
        BY <2>1 DEF NextOf, Provisioning, Calling, Waiting
      <3> QED BY <3>1, <3>2
    <2> HIDE DEF Moves
    <2> QED BY <1>1, <1>2, <1>4, <2>1, <2>2
  <1> QED BY <1>5, <1>6, <1>7

LEMMA RecordTypeStep ==
  ASSUME TypeOK, StepInv, BudgetInv, Next
  PROVE  RecordType'
  <1> USE DEF record, storage, handlers, rows, machine, TypeOK, RecordType, At, HasRow, NoToken,
              Phases, Provisioning, Calling, Waiting
  <1>1. ASSUME NEW t \in Tokens, ProvisionArrives(t) PROVE RecordType'
    <2>1. \/ phase' = phase /\ secrets' = secrets /\ attempts' = attempts /\ late' = late
          \/ phase' = "create" /\ secrets' = t /\ attempts' = 0 /\ late' = FALSE
      <3>1. CASE Refused
        BY <1>1, <3>1, Zenon DEF ProvisionArrives
      <3>2. CASE ~Refused
        BY <1>1, <3>2, Zenon DEF ProvisionArrives
      <3> QED BY <3>1, <3>2
    <2>2. tombstone' = tombstone /\ alarm' = alarm
      BY <1>1 DEF ProvisionArrives
    <2>3. phase' \in Phases /\ secrets' \in {NoToken} \cup Tokens /\ attempts' \in 0 .. MaxAttempts
      BY <2>1, TokenNumbers
    <2>4. late' \in BOOLEAN /\ tombstone' \in BOOLEAN /\ alarm' \in BOOLEAN
      BY <2>1, <2>2, Zenon
    <2> QED BY <2>3, <2>4
  <1>2. ASSUME NEW t \in Tokens, ProvisionArms(t) PROVE RecordType'
    BY <1>2 DEF ProvisionArms
  <1>3. CASE DestroyArrives
    BY <1>3, TokenNumbers DEF DestroyArrives
  <1>4. CASE DestroyWritesRow \/ DestroyArms \/ DestroyBreaks
    BY <1>4 DEF DestroyWritesRow, DestroyArms, DestroyBreaks
  <1>5. CASE AlarmFires
    BY <1>5 DEF AlarmFires
  <1>6. CASE WaitHello
    BY <1>6 DEF WaitHello
  <1>7. CASE WaitInstall
    BY <1>7 DEF WaitInstall
  <1>8. CASE StepAdvances
    <2>1. step.to \in Phases /\ secrets' \in {secrets, NoToken}
      BY <1>8 DEF StepAdvances, SecretsAfter
    <2>2. \/ UNCHANGED <<phase, attempts, late, alarm>>
          \/ phase' = step.to /\ attempts' = 0 /\ late' = FALSE /\ alarm' \in BOOLEAN
      BY <1>8, Zenon DEF StepAdvances
    <2>3. tombstone' = tombstone
      BY <1>8 DEF StepAdvances
    <2>4. late' \in BOOLEAN /\ alarm' \in BOOLEAN
      BY <2>2, Zenon
    <2>5. phase' \in Phases /\ attempts' \in 0 .. MaxAttempts
      BY <2>1, <2>2, TokenNumbers
    <2> QED BY <2>1, <2>3, <2>4, <2>5
  <1>9. CASE GivesUp
    <2>1. attempts + 1 \in 0 .. MaxAttempts
      <3>1. phase \in Provisioning
        BY <1>9 DEF GivesUp, StillIn, StepInv
      <3> QED BY <3>1, Counting, ConstantsAssumption DEF BudgetInv, ConstantsAssumption
    <2> QED BY <1>9, <2>1, TokenNumbers DEF GivesUp
  <1>10. CASE TriesAgain
    <2>1. attempts' \in 0 .. MaxAttempts
      BY <1>10, ConstantsAssumption DEF TriesAgain, Exhausted, ConstantsAssumption
    <2> QED BY <1>10, <2>1 DEF TriesAgain
  <1>11. CASE Wipes
    BY <1>11, TokenNumbers DEF Wipes
  <1>12. CASE SweepPokes
    BY <1>12 DEF SweepPokes
  <1>13. CASE AlarmLost
    BY <1>13 DEF AlarmLost
  <1>14. CASE Evicted
    BY <1>14 DEF Evicted
  <1>15. CASE PhaseAges
    BY <1>15 DEF PhaseAges
  <1>16. CASE \/ CreateRows \/ OwnerAsks \/ SweepAsks \/ DestroyRevokes \/ StepCalls \/
                 StepFails \/ StepReplies \/ StepWrites \/ GivesUpInRow \/ FailsLate \/ Revokes \/
                 DeletesSprite \/ DeletesRows \/ DestroyFails \/ SweepReads \/ SweepGivesUp \/
                 SweepDeletesOrphan \/ CliDials \/ CliDrops \/ AccountDeleted \/ SpriteLands \/
                 SpriteAges \/ RowAges
              \/ \E t \in Tokens : RetryReads(t) \/ RetryClaims(t) \/ ProvisionWritesRow(t) \/
                                   CallBreaks(t) \/ StartFails(t) \/ RequestDies(t)
    <2>1. UNCHANGED <<phase, tombstone, secrets, alarm, attempts, late>>
      BY <1>16 DEF CreateRows, RetryReads, RetryClaims, ProvisionWritesRow, CallBreaks,
                   StartFails, RequestDies, OwnerAsks, SweepAsks, DestroyRevokes, StepCalls,
                   StepFails, StepReplies, StepWrites, GivesUpInRow, FailsLate, Revokes,
                   DeletesSprite, DeletesRows, DestroyFails, SweepReads, SweepGivesUp,
                   SweepDeletesOrphan, CliDials, CliDrops, AccountDeleted, SpriteLands,
                   SpriteAges, RowAges
    <2> QED BY <2>1
  <1> QED BY <1>1, <1>2, <1>3, <1>4, <1>5, <1>6, <1>7, <1>8, <1>9, <1>10, <1>11, <1>12, <1>13,
             <1>14, <1>15, <1>16
             DEF Next, Requests, Destructions, Steps, Sweeps, Surroundings

LEMMA HandlerTypeStep ==
  ASSUME TypeOK, StepInv, BudgetInv, Next
  PROVE  HandlerType'
  <1> USE DEF record, storage, handlers, rows, machine, TypeOK, HandlerType, At, HasRow, Idle,
              Goto, Points, Phases, Provisioning, Calling, Waiting
  <1>1. CASE CreateRows
    BY <1>1, TokenNumbers DEF CreateRows
  <1>2. ASSUME NEW t \in Tokens, RetryReads(t) PROVE HandlerType'
    BY <1>2 DEF RetryReads
  <1>3. ASSUME NEW t \in Tokens, RetryClaims(t) PROVE HandlerType'
    BY <1>3 DEF RetryClaims
  <1>4. ASSUME NEW t \in Tokens, ProvisionArrives(t) PROVE HandlerType'
    BY <1>4 DEF ProvisionArrives
  <1>5. ASSUME NEW t \in Tokens, ProvisionWritesRow(t) PROVE HandlerType'
    BY <1>5 DEF ProvisionWritesRow
  <1>6. ASSUME NEW t \in Tokens, ProvisionArms(t) PROVE HandlerType'
    BY <1>6 DEF ProvisionArms
  <1>7. ASSUME NEW t \in Tokens, CallBreaks(t) PROVE HandlerType'
    BY <1>7 DEF CallBreaks
  <1>8. ASSUME NEW t \in Tokens, StartFails(t) PROVE HandlerType'
    BY <1>8 DEF StartFails
  <1>9. ASSUME NEW t \in Tokens, RequestDies(t) PROVE HandlerType'
    BY <1>9 DEF RequestDies
  <1>10. CASE OwnerAsks
    BY <1>10 DEF OwnerAsks
  <1>11. CASE SweepAsks
    BY <1>11 DEF SweepAsks
  <1>12. CASE DestroyArrives
    BY <1>12 DEF DestroyArrives
  <1>13. CASE DestroyWritesRow \/ DestroyArms \/ DestroyBreaks
    BY <1>13 DEF DestroyWritesRow, DestroyArms, DestroyBreaks
  <1>14. CASE DestroyRevokes
    BY <1>14 DEF DestroyRevokes
  <1>15. CASE AlarmFires
    BY <1>15, TokenNumbers DEF AlarmFires
  <1>16. CASE StepCalls
    BY <1>16 DEF StepCalls
  <1>17. CASE StepFails
    BY <1>17 DEF StepFails
  <1>18. CASE StepReplies
    BY <1>18, StepReplyType DEF StepReplies, StepSet
  <1>19. CASE WaitHello
    BY <1>19, StepReplyType DEF WaitHello, StepSet
  <1>20. CASE WaitInstall
    BY <1>20, StepReplyType DEF WaitInstall, StepSet
  <1>21. CASE StepWrites
    BY <1>21 DEF StepWrites
  <1>22. CASE StepAdvances
    BY <1>22 DEF StepAdvances
  <1>23. CASE GivesUp
    BY <1>23 DEF GivesUp
  <1>24. CASE GivesUpInRow
    BY <1>24 DEF GivesUpInRow
  <1>25. CASE TriesAgain
    BY <1>25 DEF TriesAgain
  <1>26. CASE FailsLate
    BY <1>26 DEF FailsLate
  <1>27. CASE Revokes
    BY <1>27 DEF Revokes
  <1>28. CASE DeletesSprite
    BY <1>28 DEF DeletesSprite
  <1>29. CASE DeletesRows
    BY <1>29 DEF DeletesRows
  <1>30. CASE Wipes
    BY <1>30 DEF Wipes
  <1>31. CASE DestroyFails
    BY <1>31 DEF DestroyFails
  <1>32. CASE Evicted
    BY <1>32 DEF Evicted
  <1>33. CASE \/ SweepPokes \/ SweepReads \/ SweepGivesUp \/ SweepDeletesOrphan \/ CliDials \/
                 CliDrops \/ AccountDeleted \/ AlarmLost \/ SpriteLands \/ SpriteAges \/
                 PhaseAges \/ RowAges
    <2>1. UNCHANGED <<step, carried, call, ask>>
      BY <1>33 DEF SweepPokes, SweepReads, SweepGivesUp, SweepDeletesOrphan, CliDials, CliDrops,
                   AccountDeleted, AlarmLost, SpriteLands, SpriteAges, PhaseAges, RowAges
    <2> QED BY <2>1
  <1> QED BY <1>1, <1>2, <1>3, <1>4, <1>5, <1>6, <1>7, <1>8, <1>9, <1>10, <1>11, <1>12, <1>13,
             <1>14, <1>15, <1>16, <1>17, <1>18, <1>19, <1>20, <1>21, <1>22, <1>23, <1>24, <1>25,
             <1>26, <1>27, <1>28, <1>29, <1>30, <1>31, <1>32, <1>33
             DEF Next, Requests, Destructions, Steps, Sweeps, Surroundings

LEMMA RowTypeStep ==
  ASSUME TypeOK, StepInv, BudgetInv, Next
  PROVE  RowType'
  <1> USE DEF record, storage, handlers, rows, machine, TypeOK, RowType, At, HasRow, Touched,
              SetStatus, NoToken
  <1>1. CASE CreateRows
    BY <1>1, TokenNumbers DEF CreateRows
  <1>2. ASSUME NEW t \in Tokens, RetryClaims(t) PROVE RowType'
    BY <1>2 DEF RetryClaims
  <1>3. ASSUME NEW t \in Tokens, ProvisionWritesRow(t) PROVE RowType'
    BY <1>3 DEF ProvisionWritesRow
  <1>4. ASSUME NEW t \in Tokens, StartFails(t) PROVE RowType'
    BY <1>4 DEF StartFails
  <1>5. CASE DestroyWritesRow \/ DestroyArms \/ DestroyBreaks
    BY <1>5 DEF DestroyWritesRow, DestroyArms, DestroyBreaks
  <1>6. CASE DestroyRevokes
    BY <1>6 DEF DestroyRevokes
  <1>7. CASE StepWrites
    BY <1>7 DEF StepWrites
  <1>8. CASE GivesUpInRow
    BY <1>8 DEF GivesUpInRow
  <1>9. CASE Revokes
    BY <1>9 DEF Revokes
  <1>10. CASE DeletesRows
    BY <1>10, TokenNumbers DEF DeletesRows
  <1>11. CASE SweepReads
    BY <1>11 DEF SweepReads
  <1>12. CASE SweepGivesUp
    BY <1>12 DEF SweepGivesUp
  <1>13. CASE SweepDeletesOrphan
    BY <1>13 DEF SweepDeletesOrphan
  <1>14. CASE AccountDeleted
    BY <1>14, TokenNumbers DEF AccountDeleted
  <1>15. CASE RowAges
    BY <1>15 DEF RowAges
  <1>16. CASE \/ OwnerAsks \/ SweepAsks \/ DestroyArrives \/ AlarmFires \/ StepCalls \/
                 StepFails \/ StepReplies \/ WaitHello \/ WaitInstall \/ StepAdvances \/
                 GivesUp \/ TriesAgain \/ FailsLate \/ DeletesSprite \/ Wipes \/ DestroyFails \/
                 SweepPokes \/ CliDials \/ CliDrops \/ AlarmLost \/ Evicted \/ SpriteLands \/
                 SpriteAges \/ PhaseAges
              \/ \E t \in Tokens : RetryReads(t) \/ ProvisionArrives(t) \/ ProvisionArms(t) \/
                                   CallBreaks(t) \/ RequestDies(t)
    <2>1. UNCHANGED <<status, hash, age, device, sweep>>
      BY <1>16 DEF RetryReads, ProvisionArrives, ProvisionArms, CallBreaks, RequestDies,
                   OwnerAsks, SweepAsks, DestroyArrives, AlarmFires, StepCalls, StepFails,
                   StepReplies, WaitHello, WaitInstall, StepAdvances, GivesUp, TriesAgain,
                   FailsLate, DeletesSprite, Wipes, DestroyFails, SweepPokes, CliDials, CliDrops,
                   AlarmLost, Evicted, SpriteLands, SpriteAges, PhaseAges
    <2> QED BY <2>1
  <1> QED BY <1>1, <1>2, <1>3, <1>4, <1>5, <1>6, <1>7, <1>8, <1>9, <1>10, <1>11, <1>12, <1>13,
             <1>14, <1>15, <1>16
             DEF Next, Requests, Destructions, Steps, Sweeps, Surroundings

LEMMA MachineTypeStep ==
  ASSUME TypeOK, StepInv, BudgetInv, Next
  PROVE  MachineType'
  <1> USE DEF record, storage, handlers, rows, machine, TypeOK, MachineType, At, HasRow, NoToken,
              Effect
  <1>1. ASSUME NEW t \in Tokens, CallBreaks(t) PROVE MachineType'
    BY <1>1, Counting, ConstantsAssumption DEF CallBreaks, ConstantsAssumption
  <1>2. ASSUME NEW t \in Tokens, StartFails(t) PROVE MachineType'
    BY <1>2, Counting, ConstantsAssumption DEF StartFails, ConstantsAssumption
  <1>3. ASSUME NEW t \in Tokens, RequestDies(t) PROVE MachineType'
    BY <1>3, Counting, ConstantsAssumption DEF RequestDies, ConstantsAssumption
  <1>4. CASE DestroyRevokes
    <2>1. online' \in BOOLEAN /\ faults' \in 0 .. MaxFaults
      <3>1. CASE faults' = faults
        BY <1>4, <3>1 DEF DestroyRevokes
      <3>2. CASE faults > 0 /\ faults' = faults - 1
        BY <1>4, <3>2, Counting, ConstantsAssumption DEF DestroyRevokes, ConstantsAssumption
      <3> QED BY <1>4, <3>1, <3>2, Zenon DEF DestroyRevokes
    <2> QED BY <1>4, <2>1 DEF DestroyRevokes
  <1>5. CASE StepCalls
    BY <1>5 DEF StepCalls
  <1>6. CASE StepFails
    BY <1>6, Counting, ConstantsAssumption DEF StepFails, ConstantsAssumption
  <1>7. CASE Revokes
    BY <1>7 DEF Revokes
  <1>8. CASE DeletesSprite
    BY <1>8 DEF DeletesSprite
  <1>9. CASE DestroyFails
    BY <1>9, Counting, ConstantsAssumption DEF DestroyFails, ConstantsAssumption
  <1>10. CASE SweepDeletesOrphan
    BY <1>10 DEF SweepDeletesOrphan
  <1>11. CASE CliDials
    BY <1>11 DEF CliDials
  <1>12. CASE CliDrops
    BY <1>12 DEF CliDrops
  <1>13. CASE AccountDeleted
    BY <1>13 DEF AccountDeleted
  <1>14. CASE AlarmLost \/ DestroyBreaks
    BY <1>14, Counting, ConstantsAssumption DEF AlarmLost, DestroyBreaks, ConstantsAssumption
  <1>15. CASE Evicted
    BY <1>15, Counting, ConstantsAssumption DEF Evicted, ConstantsAssumption
  <1>16. CASE SpriteLands
    BY <1>16 DEF SpriteLands
  <1>17. CASE SpriteAges
    BY <1>17 DEF SpriteAges
  <1>18. CASE \/ CreateRows \/ OwnerAsks \/ SweepAsks \/ DestroyArrives \/ DestroyWritesRow \/ DestroyArms \/
                 AlarmFires \/ StepReplies \/ WaitHello \/ WaitInstall \/ StepWrites \/
                 StepAdvances \/ GivesUp \/ GivesUpInRow \/ TriesAgain \/ FailsLate \/
                 DeletesRows \/ Wipes \/ SweepPokes \/ SweepReads \/ SweepGivesUp \/ PhaseAges \/
                 RowAges
              \/ \E t \in Tokens : RetryReads(t) \/ RetryClaims(t) \/ ProvisionArrives(t) \/
                                   ProvisionWritesRow(t) \/ ProvisionArms(t)
    <2>1. UNCHANGED <<sprite, landing, holds, runs, online, faults>>
      BY <1>18 DEF CreateRows, RetryReads, RetryClaims, ProvisionArrives, ProvisionWritesRow,
                   ProvisionArms, OwnerAsks, SweepAsks, DestroyArrives, DestroyWritesRow, DestroyArms,
                   AlarmFires, StepReplies, WaitHello, WaitInstall, StepWrites, StepAdvances,
                   GivesUp, GivesUpInRow, TriesAgain, FailsLate, DeletesRows, Wipes, SweepPokes,
                   SweepReads, SweepGivesUp, PhaseAges, RowAges
    <2> QED BY <2>1
  <1> QED BY <1>1, <1>2, <1>3, <1>4, <1>5, <1>6, <1>7, <1>8, <1>9, <1>10, <1>11, <1>12, <1>13,
             <1>14, <1>15, <1>16, <1>17, <1>18
             DEF Next, Requests, Destructions, Steps, Sweeps, Surroundings

LEMMA FreshStep ==
  ASSUME TypeOK, FreshInv, StepInv, Next
  PROVE  FreshInv'
  <1> USE DEF record, storage, handlers, rows, machine, TypeOK, FreshInv, At, HasRow, Goto,
              SetStatus, Idle, Running
  <1>1. CASE CreateRows
    BY <1>1 DEF CreateRows
  <1>2. ASSUME NEW t \in Tokens, RetryReads(t) PROVE FreshInv'
    BY <1>2 DEF RetryReads
  <1>3. ASSUME NEW t \in Tokens, RetryClaims(t) PROVE FreshInv'
    BY <1>3 DEF RetryClaims
  <1>4. ASSUME NEW t \in Tokens, ProvisionArrives(t) PROVE FreshInv'
    BY <1>4 DEF ProvisionArrives
  <1>5. ASSUME NEW t \in Tokens, ProvisionWritesRow(t) PROVE FreshInv'
    BY <1>5 DEF ProvisionWritesRow
  <1>6. ASSUME NEW t \in Tokens, ProvisionArms(t) PROVE FreshInv'
    BY <1>6 DEF ProvisionArms
  <1>7. ASSUME NEW t \in Tokens, CallBreaks(t) PROVE FreshInv'
    BY <1>7 DEF CallBreaks
  <1>8. ASSUME NEW t \in Tokens, StartFails(t) PROVE FreshInv'
    BY <1>8 DEF StartFails
  <1>9. ASSUME NEW t \in Tokens, RequestDies(t) PROVE FreshInv'
    BY <1>9 DEF RequestDies
  <1>10. CASE OwnerAsks
    BY <1>10 DEF OwnerAsks
  <1>11. CASE SweepAsks
    BY <1>11 DEF SweepAsks, LeftBehind
  <1>12. CASE DestroyArrives
    BY <1>12 DEF DestroyArrives
  <1>13. CASE DestroyWritesRow \/ DestroyArms \/ DestroyBreaks
    BY <1>13 DEF DestroyWritesRow, DestroyArms, DestroyBreaks
  <1>14. CASE DestroyRevokes
    BY <1>14 DEF DestroyRevokes
  <1>15. CASE AlarmFires
    BY <1>15 DEF AlarmFires
  <1>16. CASE StepCalls
    BY <1>16 DEF StepCalls
  <1>17. CASE StepFails
    BY <1>17 DEF StepFails
  <1>18. CASE StepReplies
    BY <1>18 DEF StepReplies
  <1>19. CASE WaitHello
    BY <1>19 DEF WaitHello
  <1>20. CASE WaitInstall
    BY <1>20 DEF WaitInstall
  <1>21. CASE StepWrites
    BY <1>21 DEF StepWrites
  <1>22. CASE StepAdvances
    BY <1>22 DEF StepAdvances
  <1>23. CASE GivesUp
    BY <1>23 DEF GivesUp
  <1>24. CASE GivesUpInRow
    BY <1>24 DEF GivesUpInRow
  <1>25. CASE TriesAgain
    BY <1>25 DEF TriesAgain
  <1>26. CASE FailsLate
    BY <1>26 DEF FailsLate
  <1>27. CASE Revokes
    BY <1>27 DEF Revokes
  <1>28. CASE DeletesSprite
    BY <1>28 DEF DeletesSprite
  <1>29. CASE DeletesRows
    BY <1>29 DEF DeletesRows
  <1>30. CASE Wipes
    BY <1>30 DEF Wipes
  <1>31. CASE DestroyFails
    BY <1>31 DEF DestroyFails
  <1>32. CASE SweepGivesUp
    BY <1>32 DEF SweepGivesUp
  <1>33. CASE SweepDeletesOrphan
    BY <1>33 DEF SweepDeletesOrphan
  <1>34. CASE AccountDeleted
    BY <1>34 DEF AccountDeleted
  <1>35. CASE Evicted
    BY <1>35 DEF Evicted
  <1>36. CASE SpriteLands
    BY <1>36 DEF SpriteLands
  <1>37. CASE SpriteAges
    BY <1>37 DEF SpriteAges
  <1>38. CASE \/ SweepPokes \/ SweepReads \/ CliDials \/ CliDrops \/ AlarmLost \/ PhaseAges \/
                 RowAges
    <2>1. UNCHANGED <<device, status, sprite, landing, phase, step, ask, call>>
      BY <1>38 DEF SweepPokes, SweepReads, CliDials, CliDrops, AlarmLost, PhaseAges, RowAges
    <2> QED BY <2>1
  <1> QED BY <1>1, <1>2, <1>3, <1>4, <1>5, <1>6, <1>7, <1>8, <1>9, <1>10, <1>11, <1>12, <1>13,
             <1>14, <1>15, <1>16, <1>17, <1>18, <1>19, <1>20, <1>21, <1>22, <1>23, <1>24, <1>25,
             <1>26, <1>27, <1>28, <1>29, <1>30, <1>31, <1>32, <1>33, <1>34, <1>35, <1>36, <1>37, <1>38
             DEF Next, Requests, Destructions, Steps, Sweeps, Surroundings

LEMMA StepInvStep ==
  ASSUME TypeOK, StepInv, Next
  PROVE  StepInv'
  <1> USE DEF record, storage, handlers, rows, machine, TypeOK, StepInv, At, Goto, Idle, Running,
              StillIn, NextOf, Calling, Waiting, Provisioning
  <1>1. ASSUME NEW t \in Tokens, ProvisionArrives(t) PROVE StepInv'
    BY <1>1 DEF ProvisionArrives, Refused
  <1>2. CASE DestroyArrives
    BY <1>2 DEF DestroyArrives
  <1>3. CASE AlarmFires
    BY <1>3 DEF AlarmFires, Phases
  <1>4. CASE StepCalls
    BY <1>4 DEF StepCalls
  <1>5. CASE StepFails
    BY <1>5 DEF StepFails
  <1>6. CASE StepReplies
    BY <1>6, StepReplyInv
  <1>7. CASE WaitHello
    BY <1>7, StepReplyInv
  <1>8. CASE WaitInstall
    BY <1>8, StepReplyInv
  <1>9. CASE StepWrites
    BY <1>9 DEF StepWrites
  <1>10. CASE StepAdvances
    BY <1>10 DEF StepAdvances
  <1>11. CASE GivesUp
    BY <1>11 DEF GivesUp
  <1>12. CASE GivesUpInRow
    BY <1>12 DEF GivesUpInRow
  <1>13. CASE TriesAgain
    BY <1>13 DEF TriesAgain
  <1>14. CASE FailsLate
    BY <1>14 DEF FailsLate
  <1>15. CASE Revokes
    BY <1>15 DEF Revokes
  <1>16. CASE DeletesSprite
    BY <1>16 DEF DeletesSprite
  <1>17. CASE DeletesRows
    BY <1>17 DEF DeletesRows
  <1>18. CASE Wipes
    BY <1>18 DEF Wipes
  <1>19. CASE DestroyFails
    BY <1>19 DEF DestroyFails
  <1>20. CASE Evicted
    BY <1>20 DEF Evicted
  <1>21. CASE \/ CreateRows \/ OwnerAsks \/ SweepAsks \/ DestroyWritesRow \/ DestroyArms \/ DestroyBreaks \/ DestroyRevokes \/
                 SweepPokes \/ SweepReads \/ SweepGivesUp \/ SweepDeletesOrphan \/ CliDials \/
                 CliDrops \/ AccountDeleted \/ AlarmLost \/ SpriteLands \/ SpriteAges \/
                 PhaseAges \/ RowAges
              \/ \E t \in Tokens : RetryReads(t) \/ RetryClaims(t) \/ ProvisionWritesRow(t) \/
                                   ProvisionArms(t) \/ CallBreaks(t) \/ StartFails(t) \/
                                   RequestDies(t)
    <2>1. UNCHANGED <<step, phase>>
      BY <1>21 DEF CreateRows, RetryReads, RetryClaims, ProvisionWritesRow, ProvisionArms,
                   CallBreaks, StartFails, RequestDies, OwnerAsks, SweepAsks, DestroyWritesRow, DestroyArms, DestroyBreaks,
                   DestroyRevokes, SweepPokes, SweepReads, SweepGivesUp, SweepDeletesOrphan,
                   CliDials, CliDrops, AccountDeleted, AlarmLost, SpriteLands, SpriteAges,
                   PhaseAges, RowAges
    <2> QED BY <2>1
  <1> QED BY <1>1, <1>2, <1>3, <1>4, <1>5, <1>6, <1>7, <1>8, <1>9, <1>10, <1>11, <1>12, <1>13,
             <1>14, <1>15, <1>16, <1>17, <1>18, <1>19, <1>20, <1>21
             DEF Next, Requests, Destructions, Steps, Sweeps, Surroundings

LEMMA DoomStep ==
  ASSUME TypeOK, StepInv, DoomInv, Next
  PROVE  DoomInv'
  <1> USE DEF record, storage, handlers, rows, machine, TypeOK, StepInv, DoomInv, At, HasRow,
              SetStatus, StillIn, Doomed, NextOf, Calling, Waiting, Provisioning, Following
  <1>1. CASE CreateRows
    BY <1>1 DEF CreateRows
  <1>2. ASSUME NEW t \in Tokens, RetryClaims(t) PROVE DoomInv'
    BY <1>2 DEF RetryClaims
  <1>3. ASSUME NEW t \in Tokens, ProvisionArrives(t) PROVE DoomInv'
    BY <1>3 DEF ProvisionArrives, Refused
  <1>4. ASSUME NEW t \in Tokens, ProvisionWritesRow(t) PROVE DoomInv'
    BY <1>4 DEF ProvisionWritesRow
  <1>5. ASSUME NEW t \in Tokens, StartFails(t) PROVE DoomInv'
    BY <1>5 DEF StartFails
  <1>6. CASE OwnerAsks
    BY <1>6 DEF OwnerAsks
  <1>7. CASE SweepAsks
    BY <1>7 DEF SweepAsks
  <1>8. CASE DestroyArrives
    BY <1>8 DEF DestroyArrives
  <1>9. CASE DestroyWritesRow \/ DestroyArms \/ DestroyBreaks
    BY <1>9 DEF DestroyWritesRow, DestroyArms, DestroyBreaks
  <1>10. CASE DestroyRevokes
    BY <1>10 DEF DestroyRevokes
  <1>11. CASE StepWrites
    BY <1>11 DEF StepWrites
  <1>12. CASE StepAdvances
    BY <1>12 DEF StepAdvances
  <1>13. CASE GivesUp
    BY <1>13 DEF GivesUp
  <1>14. CASE GivesUpInRow
    BY <1>14 DEF GivesUpInRow
  <1>15. CASE DeletesRows
    BY <1>15 DEF DeletesRows
  <1>16. CASE Wipes
    BY <1>16 DEF Wipes
  <1>17. CASE SweepGivesUp
    BY <1>17 DEF SweepGivesUp
  <1>18. CASE AccountDeleted
    BY <1>18 DEF AccountDeleted
  <1>19. CASE Evicted
    BY <1>19 DEF Evicted
  <1>20. CASE \/ AlarmFires \/ StepCalls \/ StepFails \/ StepReplies \/ WaitHello \/
                 WaitInstall \/ TriesAgain \/ FailsLate \/ Revokes \/ DeletesSprite \/
                 DestroyFails \/ SweepPokes \/ SweepReads \/ SweepDeletesOrphan \/ CliDials \/
                 CliDrops \/ AlarmLost \/ SpriteLands \/ SpriteAges \/ PhaseAges \/ RowAges
              \/ \E t \in Tokens : RetryReads(t) \/ ProvisionArms(t) \/ CallBreaks(t) \/
                                   RequestDies(t)
    <2>1. UNCHANGED <<tombstone, phase, ask, status>>
      BY <1>20 DEF RetryReads, ProvisionArms, CallBreaks, RequestDies, AlarmFires, StepCalls,
                   StepFails, StepReplies, WaitHello, WaitInstall, TriesAgain, FailsLate, Revokes,
                   DeletesSprite, DestroyFails, SweepPokes, SweepReads, SweepDeletesOrphan,
                   CliDials, CliDrops, AlarmLost, SpriteLands, SpriteAges, PhaseAges, RowAges
    <2> QED BY <2>1
  <1> QED BY <1>1, <1>2, <1>3, <1>4, <1>5, <1>6, <1>7, <1>8, <1>9, <1>10, <1>11, <1>12, <1>13,
             <1>14, <1>15, <1>16, <1>17, <1>18, <1>19, <1>20
             DEF Next, Requests, Destructions, Steps, Sweeps, Surroundings

LEMMA BudgetStep ==
  ASSUME TypeOK, StepInv, BudgetInv, Next
  PROVE  BudgetInv'
  <1> USE DEF record, storage, handlers, rows, machine, TypeOK, StepInv, BudgetInv, At, StillIn,
              Calling, Waiting, Provisioning
  <1>1. ASSUME NEW t \in Tokens, ProvisionArrives(t) PROVE BudgetInv'
    BY <1>1, ConstantsAssumption DEF ProvisionArrives, Refused, ConstantsAssumption
  <1>2. CASE DestroyArrives
    BY <1>2 DEF DestroyArrives
  <1>3. CASE StepAdvances
    BY <1>3, ConstantsAssumption DEF StepAdvances, NextOf, Following, ConstantsAssumption
  <1>4. CASE GivesUp
    BY <1>4 DEF GivesUp
  <1>5. CASE TriesAgain
    <2>1. CASE phase = "destroy"
      BY <1>5, <2>1 DEF TriesAgain
    <2>2. CASE phase # "destroy"
      BY <1>5, <2>2, ConstantsAssumption DEF TriesAgain, Exhausted, ConstantsAssumption
    <2> QED BY <2>1, <2>2
  <1>6. CASE Wipes
    BY <1>6 DEF Wipes
  <1>7. CASE \/ CreateRows \/ OwnerAsks \/ SweepAsks \/ DestroyWritesRow \/ DestroyArms \/ DestroyBreaks \/ DestroyRevokes \/
                AlarmFires \/ StepCalls \/ StepFails \/ StepReplies \/ WaitHello \/ WaitInstall \/
                StepWrites \/ GivesUpInRow \/ FailsLate \/ Revokes \/ DeletesSprite \/
                DeletesRows \/ DestroyFails \/ SweepPokes \/ SweepReads \/ SweepGivesUp \/
                SweepDeletesOrphan \/ CliDials \/ CliDrops \/ AccountDeleted \/ AlarmLost \/
                Evicted \/ SpriteLands \/ SpriteAges \/ PhaseAges \/ RowAges
             \/ \E t \in Tokens : RetryReads(t) \/ RetryClaims(t) \/ ProvisionWritesRow(t) \/
                                  ProvisionArms(t) \/ CallBreaks(t) \/ StartFails(t) \/
                                  RequestDies(t)
    <2>1. UNCHANGED <<phase, attempts>>
      BY <1>7 DEF CreateRows, RetryReads, RetryClaims, ProvisionWritesRow, ProvisionArms,
                  CallBreaks, StartFails, RequestDies, OwnerAsks, SweepAsks, DestroyWritesRow, DestroyArms, DestroyBreaks,
                  DestroyRevokes, AlarmFires, StepCalls, StepFails, StepReplies, WaitHello,
                  WaitInstall, StepWrites, GivesUpInRow, FailsLate, Revokes, DeletesSprite,
                  DeletesRows, DestroyFails, SweepPokes, SweepReads, SweepGivesUp,
                  SweepDeletesOrphan, CliDials, CliDrops, AccountDeleted, AlarmLost, Evicted,
                  SpriteLands, SpriteAges, PhaseAges, RowAges
    <2> QED BY <2>1
  <1> QED BY <1>1, <1>2, <1>3, <1>4, <1>5, <1>6, <1>7
             DEF Next, Requests, Destructions, Steps, Sweeps, Surroundings

LEMMA OrphanStep ==
  ASSUME TypeOK, FreshInv, OrphanInv, Next
  PROVE  OrphanInv'
  <1> USE DEF record, storage, handlers, rows, machine, TypeOK, FreshInv, OrphanInv, At, HasRow,
              SetStatus
  <1>1. CASE CreateRows
    BY <1>1 DEF CreateRows
  <1>2. ASSUME NEW t \in Tokens, RetryClaims(t) PROVE OrphanInv'
    BY <1>2 DEF RetryClaims, Claimable
  <1>3. ASSUME NEW t \in Tokens, ProvisionWritesRow(t) PROVE OrphanInv'
    BY <1>3 DEF ProvisionWritesRow
  <1>4. ASSUME NEW t \in Tokens, StartFails(t) PROVE OrphanInv'
    BY <1>4 DEF StartFails
  <1>5. CASE DestroyWritesRow \/ DestroyArms \/ DestroyBreaks
    BY <1>5 DEF DestroyWritesRow, DestroyArms, DestroyBreaks
  <1>6. CASE StepCalls
    BY <1>6 DEF StepCalls, Effect
  <1>7. CASE StepWrites
    BY <1>7 DEF StepWrites
  <1>8. CASE GivesUpInRow
    BY <1>8 DEF GivesUpInRow
  <1>9. CASE DeletesSprite
    BY <1>9 DEF DeletesSprite
  <1>10. CASE DeletesRows
    BY <1>10 DEF DeletesRows
  <1>11. CASE SweepReads
    BY <1>11 DEF SweepReads
  <1>12. CASE SweepGivesUp
    BY <1>12 DEF SweepGivesUp
  <1>13. CASE SweepDeletesOrphan
    BY <1>13 DEF SweepDeletesOrphan
  <1>14. CASE AccountDeleted
    BY <1>14 DEF AccountDeleted
  <1>15. CASE SpriteLands
    BY <1>15 DEF SpriteLands
  <1>16. CASE SpriteAges
    BY <1>16 DEF SpriteAges
  <1>17. CASE \/ OwnerAsks \/ SweepAsks \/ DestroyArrives \/ DestroyRevokes \/ AlarmFires \/
                 StepFails \/ StepReplies \/ WaitHello \/ WaitInstall \/ StepAdvances \/
                 GivesUp \/ TriesAgain \/ FailsLate \/ Revokes \/ Wipes \/ DestroyFails \/
                 SweepPokes \/ CliDials \/ CliDrops \/ AlarmLost \/ Evicted \/ PhaseAges \/
                 RowAges
              \/ \E t \in Tokens : RetryReads(t) \/ ProvisionArrives(t) \/ ProvisionArms(t) \/
                                   CallBreaks(t) \/ RequestDies(t)
    <2>1. UNCHANGED <<sweep, sprite, status>>
      BY <1>17 DEF RetryReads, ProvisionArrives, ProvisionArms, CallBreaks, RequestDies,
                   OwnerAsks, SweepAsks, DestroyArrives, DestroyRevokes, AlarmFires, StepFails,
                   StepReplies, WaitHello, WaitInstall, StepAdvances, GivesUp, TriesAgain,
                   FailsLate, Revokes, Wipes, DestroyFails, SweepPokes, CliDials, CliDrops,
                   AlarmLost, Evicted, PhaseAges, RowAges
    <2> QED BY <2>1
  <1> QED BY <1>1, <1>2, <1>3, <1>4, <1>5, <1>6, <1>7, <1>8, <1>9, <1>10, <1>11, <1>12, <1>13,
             <1>14, <1>15, <1>16, <1>17
             DEF Next, Requests, Destructions, Steps, Sweeps, Surroundings

LEMMA StaysDoomed ==
  ASSUME TypeOK, StepInv, DoomInv, Doomed, Next
  PROVE  Doomed' /\ phase' \in {"destroy", "none"}
  <1> USE DEF record, storage, handlers, rows, machine, TypeOK, StepInv, DoomInv, At, StillIn,
              Doomed, Calling, Waiting, Provisioning
  <1>1. ASSUME NEW t \in Tokens, ProvisionArrives(t) PROVE Doomed' /\ phase' \in {"destroy", "none"}
    BY <1>1 DEF ProvisionArrives, Refused
  <1>2. CASE DestroyArrives
    BY <1>2 DEF DestroyArrives
  <1>3. CASE StepAdvances
    BY <1>3 DEF StepAdvances
  <1>4. CASE GivesUp
    BY <1>4 DEF GivesUp
  <1>5. CASE Wipes
    BY <1>5 DEF Wipes
  <1>6. CASE \/ CreateRows \/ OwnerAsks \/ SweepAsks \/ DestroyWritesRow \/ DestroyArms \/ DestroyBreaks \/ DestroyRevokes \/
                AlarmFires \/ StepCalls \/ StepFails \/ StepReplies \/ WaitHello \/ WaitInstall \/
                StepWrites \/ GivesUpInRow \/ TriesAgain \/ FailsLate \/ Revokes \/
                DeletesSprite \/ DeletesRows \/ DestroyFails \/ SweepPokes \/ SweepReads \/
                SweepGivesUp \/ SweepDeletesOrphan \/ CliDials \/ CliDrops \/ AccountDeleted \/
                AlarmLost \/ Evicted \/ SpriteLands \/ SpriteAges \/ PhaseAges \/ RowAges
             \/ \E t \in Tokens : RetryReads(t) \/ RetryClaims(t) \/ ProvisionWritesRow(t) \/
                                  ProvisionArms(t) \/ CallBreaks(t) \/ StartFails(t) \/
                                  RequestDies(t)
    <2>1. UNCHANGED <<phase, tombstone>>
      BY <1>6 DEF CreateRows, RetryReads, RetryClaims, ProvisionWritesRow, ProvisionArms,
                  CallBreaks, StartFails, RequestDies, OwnerAsks, SweepAsks, DestroyWritesRow, DestroyArms, DestroyBreaks,
                  DestroyRevokes, AlarmFires, StepCalls, StepFails, StepReplies, WaitHello,
                  WaitInstall, StepWrites, GivesUpInRow, TriesAgain, FailsLate, Revokes,
                  DeletesSprite, DeletesRows, DestroyFails, SweepPokes, SweepReads, SweepGivesUp,
                  SweepDeletesOrphan, CliDials, CliDrops, AccountDeleted, AlarmLost, Evicted,
                  SpriteLands, SpriteAges, PhaseAges, RowAges
    <2> QED BY <2>1
  <1> QED BY <1>1, <1>2, <1>3, <1>4, <1>5, <1>6
             DEF Next, Requests, Destructions, Steps, Sweeps, Surroundings

LEMMA SpriteKept ==
  ASSUME TypeOK, StepInv, OrphanInv, Next, sprite # "none", sprite' = "none"
  PROVE  phase = "destroy" \/ status = "none"
  <1> USE DEF record, storage, handlers, rows, machine, TypeOK, StepInv, OrphanInv, At
  <1>1. CASE StepCalls
    BY <1>1 DEF StepCalls, Effect
  <1>2. CASE DeletesSprite
    BY <1>2 DEF DeletesSprite
  <1>3. CASE SweepDeletesOrphan
    BY <1>3 DEF SweepDeletesOrphan, Orphaned
  <1>4. CASE SpriteLands
    BY <1>4 DEF SpriteLands
  <1>5. CASE SpriteAges
    BY <1>5 DEF SpriteAges
  <1>6. CASE \/ CreateRows \/ OwnerAsks \/ SweepAsks \/ DestroyArrives \/ DestroyWritesRow \/ DestroyArms \/ DestroyBreaks \/
                DestroyRevokes \/ AlarmFires \/ StepFails \/ StepReplies \/ WaitHello \/
                WaitInstall \/ StepWrites \/ StepAdvances \/ GivesUp \/ GivesUpInRow \/
                TriesAgain \/ FailsLate \/ Revokes \/ DeletesRows \/ Wipes \/ DestroyFails \/
                SweepPokes \/ SweepReads \/ SweepGivesUp \/ CliDials \/ CliDrops \/
                AccountDeleted \/ AlarmLost \/ Evicted \/ PhaseAges \/ RowAges
             \/ \E t \in Tokens : RetryReads(t) \/ RetryClaims(t) \/ ProvisionArrives(t) \/
                                  ProvisionWritesRow(t) \/ ProvisionArms(t) \/ CallBreaks(t) \/
                                  StartFails(t) \/ RequestDies(t)
    <2>1. UNCHANGED <<sprite>>
      BY <1>6 DEF CreateRows, RetryReads, RetryClaims, ProvisionArrives, ProvisionWritesRow,
                  ProvisionArms, CallBreaks, StartFails, RequestDies, OwnerAsks, SweepAsks,
                  DestroyArrives, DestroyWritesRow, DestroyArms, DestroyBreaks, DestroyRevokes, AlarmFires, StepFails,
                  StepReplies, WaitHello, WaitInstall, StepWrites, StepAdvances, GivesUp,
                  GivesUpInRow, TriesAgain, FailsLate, Revokes, DeletesRows, Wipes, DestroyFails,
                  SweepPokes, SweepReads, SweepGivesUp, CliDials, CliDrops, AccountDeleted,
                  AlarmLost, Evicted, PhaseAges, RowAges
    <2> QED BY <2>1
  <1> QED BY <1>1, <1>2, <1>3, <1>4, <1>5, <1>6
             DEF Next, Requests, Destructions, Steps, Sweeps, Surroundings

LEMMA InitInv == Init => MachineInv
  <1> SUFFICES ASSUME Init PROVE MachineInv
    OBVIOUS
  <1>1. RecordType /\ RowType
    <2>1. phase \in Phases
      BY DEF Init, Phases
    <2>2. 0 \in 0 .. 2
      BY SMT
    <2> QED BY <2>1, <2>2, TokenNumbers DEF Init, RecordType, RowType
  <1>2. HandlerType
    BY IdleStep DEF Init, HandlerType, StepSet
  <1>3. MachineType
    <2>1. faults \in 0 .. MaxFaults
      BY ConstantsAssumption, SMT DEF Init, ConstantsAssumption
    <2> QED BY <2>1 DEF Init, MachineType
  <1>4. TypeOK
    BY <1>1, <1>2, <1>3, Zenon DEF TypeOK, RecordType, HandlerType, RowType, MachineType
  <1>5. FreshInv /\ StepInv /\ DoomInv /\ OrphanInv
    BY DEF Init, FreshInv, StepInv, DoomInv, OrphanInv, Idle
  <1>6. BudgetInv
    BY DEF Init, BudgetInv, Provisioning, Calling, Waiting
  <1> QED BY <1>4, <1>5, <1>6 DEF MachineInv

LEMMA Stutter ==
  ASSUME UNCHANGED vars
  PROVE  MachineInv => MachineInv'
  BY DEF vars, storage, record, handlers, rows, machine, MachineInv, TypeOK, FreshInv, StepInv,
         DoomInv, Doomed, BudgetInv, OrphanInv, HasRow

LEMMA TypeStep ==
  ASSUME TypeOK, StepInv, BudgetInv, Next
  PROVE  TypeOK'
  BY RecordTypeStep, HandlerTypeStep, RowTypeStep, MachineTypeStep, Zenon
     DEF TypeOK, RecordType, HandlerType, RowType, MachineType

LEMMA MachineInvariant == SafetySpec => []MachineInv
  <1>1. MachineInv /\ [Next]_vars => MachineInv'
    BY TypeStep, FreshStep, StepInvStep, DoomStep, BudgetStep, OrphanStep, Stutter DEF MachineInv
  <1> QED BY <1>1, InitInv, PTL DEF SafetySpec

\* The object's record, its handlers, the rows and the Sprite have the values
\* that machine-do.ts, machine-steps.ts and the requests give them; attempts
\* never pass MAX_ATTEMPTS, whatever fails.
THEOREM TypeCorrect == SafetySpec => []TypeOK
  <1>1. MachineInv => TypeOK
    BY DEF MachineInv
  <1> QED BY <1>1, MachineInvariant, PTL

\* A row says `destroying` only once the machine's object was told, and the
\* object never forgets it: destroy() writes its record before the row.
THEOREM RowsToldFirst == SafetySpec => []RowToldFirst
  <1>1. MachineInv => RowToldFirst
    BY DEF MachineInv, DoomInv, RowToldFirst
  <1> QED BY <1>1, MachineInvariant, PTL

\* Whatever was under way when a machine's destruction was asked for, a
\* provision() call, a step that had called out, a failure, a lost alarm or an
\* eviction, the object goes on to destroy it and stays destroyed.
THEOREM DestructionStands == SafetySpec => DestructionWins
  <1>1. MachineInv /\ [Next]_vars => [Doomed => (Doomed' /\ phase' \in {"destroy", "none"})]_vars
    BY StaysDoomed DEF MachineInv
  <1> QED BY <1>1, MachineInvariant, PTL DEF SafetySpec, DestructionWins

\* Neither the destroy step nor the sweep deletes the Sprite of a machine that
\* has a row and that nobody asked to destroy, however old the sweep's answer
\* of unclaimed Sprites is by then.
THEOREM ClaimedSpritesStay == SafetySpec => OnlyUnclaimedSpritesGo
  <1>1. MachineInv /\ [Next]_vars =>
          [(sprite # "none" /\ sprite' = "none") => (phase = "destroy" \/ status = "none")]_vars
    BY SpriteKept DEF MachineInv
  <1> QED BY <1>1, MachineInvariant, PTL DEF SafetySpec, OnlyUnclaimedSpritesGo
=============================================================================
