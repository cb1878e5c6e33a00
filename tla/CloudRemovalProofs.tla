--------------------------- MODULE CloudRemovalProofs ---------------------------
(***************************************************************************)
(* What CloudRemoval guarantees for any number of workspaces, of removals  *)
(* that overlap, of deaths and faults: its types, that whatever is taken   *)
(* down was told to be, and that no row of a standing machine is taken as  *)
(* long as nobody asks for less than was asked for before.                 *)
(***************************************************************************)
EXTENDS CloudRemoval, TLAPS

Actors == Machines \cup Requests

----------------------------------------------------------------------------
(* The invariants *)

\* Only an object that was told destroys, and what it writes tells so.
ToldInv ==
  /\ \A m \in Machines : /\ step[m] # "idle" => Doomed(m)
                         /\ status[m] = "destroying" => Doomed(m)
                         /\ device[m] = "revoked" => Doomed(m)
                         /\ status[m] # "none" \/ Doomed(m) => device[m] # "none"
  /\ \A m \in told : Doomed(m)
  /\ \A m \in pending : device[m] # "none"
  /\ \A q \in Requests : \A m \in list[q] : device[m] # "none"

AllDoomed == \A m \in Machines : status[m] # "none" => Doomed(m)

\* Once marked, a project gets no machine, so a count of them stays true.
CountInv ==
  \A a \in Actors : /\ step[a] \in {"count", "finish"} => mark # "kept"
                    /\ step[a] = "finish" => Recorded \subseteq {a}

\* While the root machine is the project's default, it takes no other machine
\* with it that still stands.
RootInv ==
  /\ mark = "kept" /\ Doomed(Root) => ~home
  /\ mark = "location" /\ Doomed(Root) /\ home => AllDoomed
  /\ \A q \in Requests :
       step[q] = "telling" /\ Root \in list[q] /\ mark \in {"kept", "location"} => ~home
  /\ mark = "project" /\ home /\ step[Root] \in {"unmake", "unrow"} => AllDoomed

\* A request that asked for the project finds it marked so, or gone.
AskInv == \A q \in Requests : step[q] = "project" => mark \in {"project", "gone"}

RemovalInv == TypeOK /\ ToldInv /\ CountInv /\ RootInv /\ AskInv

\* The removal of a project is turned into one that only leaves Cloud, which
\* the update of removeCloud does not exclude.
AsksForLess == mark = "project" /\ mark' = "location"

----------------------------------------------------------------------------
(* Types *)

LEMMA Apart ==
  /\ Root \in Machines /\ Root \notin Workspaces /\ Requests \cap Machines = {}
  /\ Scopes \subseteq {"project", "location"}
  BY ConstantsAssumption DEF ConstantsAssumption, Machines

LEMMA BudgetType ==
  ASSUME TypeOK
  PROVE  /\ UNCHANGED faults \/ Fault => faults' \in 0 .. MaxFaults
         /\ Death => deaths' \in 0 .. MaxDeaths
  BY ConstantsAssumption, SMT DEF ConstantsAssumption, TypeOK, Fault, Death

LEMMA ProjectGoesType ==
  ASSUME ProjectGoes
  PROVE  /\ project' \in BOOLEAN /\ home' \in BOOLEAN /\ mark' = "gone"
         /\ status' \in [Machines -> {"none", "standing", "destroying"}]
  BY Zenon DEF ProjectGoes

LEMMA TypeStep ==
  ASSUME TypeOK, Next
  PROVE  TypeOK'
  <1> USE DEF TypeOK, Marks, Machines, Actors, d1, objects, steps, budgets
  <1>1. ASSUME NEW k \in Machines, CreateRows(k) PROVE TypeOK'
    <2>1. home' \in BOOLEAN
      BY <1>1, Zenon DEF CreateRows
    <2> QED BY <1>1, <2>1, SMT DEF CreateRows
  <1>2. ASSUME NEW k \in Machines, TellWrites(k) PROVE TypeOK'
    <2>1. faults' \in 0 .. MaxFaults
      BY <1>2, BudgetType DEF TellWrites
    <2> QED BY <1>2, <2>1, SMT DEF TellWrites, RowDestroying
  <1>3. ASSUME NEW k \in Machines, TellBreaks(k) PROVE TypeOK'
    <2>1. faults' \in 0 .. MaxFaults
      BY <1>3, BudgetType DEF TellBreaks
    <2> QED BY <1>3, <2>1, SMT DEF TellBreaks, RowDestroying
  <1>4. ASSUME NEW k \in Machines, AlarmFires(k) PROVE TypeOK'
    BY <1>4, Apart, SMT DEF AlarmFires, Goes
  <1>5. ASSUME NEW k \in Machines, Unmake(k) PROVE TypeOK'
    BY <1>5, Apart, SMT DEF Unmake, Goes
  <1>6. ASSUME NEW k \in Machines, DeleteDevice(k) PROVE TypeOK'
    <2>1. /\ step' = [step EXCEPT ![k] = "scope"] /\ device' = [device EXCEPT ![k] = "gone"]
          /\ UNCHANGED <<objects, list, scope, budgets>>
      BY <1>6 DEF DeleteDevice, Goes
    <2>2. /\ device' \in [Machines -> {"none", "live", "revoked", "gone"}]
          /\ step' \in [Actors -> {"idle", "leave", "look", "children", "telling", "unmake",
                      "unrow", "scope", "count", "finish", "wipe", "over"} \cup Marks]
      BY <2>1, SMT
    <2>3. /\ project' \in BOOLEAN /\ home' \in BOOLEAN
          /\ mark' \in {"gone", "kept"} \cup Marks
          /\ status' \in [Machines -> {"none", "standing", "destroying"}]
      <3>1. CASE ProjectGoes
        BY <3>1, ProjectGoesType
      <3>2. CASE /\ status' = [status EXCEPT ![k] = "none"] /\ home' = LeavesRoot(k)
                 /\ UNCHANGED <<project, mark>>
        <4>1. home' \in BOOLEAN
          BY <3>2, Zenon DEF LeavesRoot
        <4> QED BY <3>2, <4>1, SMT
      <3> QED BY <1>6, <3>1, <3>2 DEF DeleteDevice
    <2> QED BY <2>1, <2>2, <2>3, Zenon
  <1>7. ASSUME NEW k \in Machines, Wipe(k) PROVE TypeOK'
    BY <1>7, Apart, SMT DEF Wipe, Goes
  <1>8. ASSUME NEW k \in Machines, SweepRetries(k) PROVE TypeOK'
    BY <1>8, SMT DEF SweepRetries, Tell
  <1>9. ASSUME NEW k \in Machines, SweepTells(k) PROVE TypeOK'
    BY <1>9, SMT DEF SweepTells, Tell, LeftBehind, Recorded
  <1>10. ASSUME NEW k \in Machines, AlarmLost(k) PROVE TypeOK'
    <2>1. faults' \in 0 .. MaxFaults
      BY <1>10, BudgetType DEF AlarmLost
    <2> QED BY <1>10, <2>1, SMT DEF AlarmLost
  <1>11. ASSUME NEW k \in Machines, StepFails(k) PROVE TypeOK'
    <2>1. faults' \in 0 .. MaxFaults
      BY <1>11, BudgetType DEF StepFails
    <2> QED BY <1>11, <2>1, SMT DEF StepFails, Goes
  <1>12. ASSUME RootLooks PROVE TypeOK'
    BY <1>12, Apart, SMT DEF RootLooks, Goes
  <1>13. ASSUME RootReads PROVE TypeOK'
    BY <1>13, Apart, SMT DEF RootReads, Goes, Untold
  <1>14. ASSUME RootLooksAgain PROVE TypeOK'
    BY <1>14, Apart, SMT DEF RootLooksAgain, Goes
  <1>15. ASSUME NEW c \in Workspaces, RootTells(c) PROVE TypeOK'
    <2>1. faults' \in 0 .. MaxFaults
      BY <1>15, BudgetType DEF RootTells, TellOrFail
    <2> QED BY <1>15, <2>1, SMT DEF RootTells, TellOrFail, Tell
  <1>16. ASSUME NEW k \in Actors, ReadScope(k) PROVE TypeOK'
    BY <1>16, SMT DEF ReadScope, Goes, Marked, Back
  <1>17. ASSUME NEW k \in Actors, Count(k) PROVE TypeOK'
    BY <1>17, SMT DEF Count, Goes, Back, LastToGo
  <1>18. ASSUME NEW k \in Actors, FinishStep(k) PROVE TypeOK'
    <2>1. /\ step' = [step EXCEPT ![k] = Back(k)] /\ scope' = [scope EXCEPT ![k] = "none"]
          /\ UNCHANGED <<device, objects, list, budgets>>
      BY <1>18 DEF FinishStep, Goes
    <2>2. /\ scope' \in [Actors -> {"none"} \cup Marks]
          /\ step' \in [Actors -> {"idle", "leave", "look", "children", "telling", "unmake",
                      "unrow", "scope", "count", "finish", "wipe", "over"} \cup Marks]
      BY <2>1, SMT DEF Back
    <2>3. /\ project' \in BOOLEAN /\ home' \in BOOLEAN
          /\ mark' \in {"gone", "kept"} \cup Marks
          /\ status' \in [Machines -> {"none", "standing", "destroying"}]
      <3>1. CASE ProjectGoes
        BY <3>1, ProjectGoesType
      <3>2. CASE mark' = "gone" /\ UNCHANGED <<project, home, status>>
        BY <3>2, SMT
      <3> QED BY <1>18, <3>1, <3>2 DEF FinishStep, Finish
    <2> QED BY <2>1, <2>2, <2>3, Zenon
  <1>19. ASSUME NEW q \in Requests, NEW s \in Scopes, Remove(q, s) PROVE TypeOK'
    <2>1. s \in Marks
      BY ConstantsAssumption DEF ConstantsAssumption
    <2> QED BY <1>19, <2>1, SMT DEF Remove, Goes
  <1>20. ASSUME NEW q \in Requests, NEW k \in Machines, RemoveMachine(q, k) PROVE TypeOK'
    BY <1>20, Apart, SMT DEF RemoveMachine, Goes
  <1>21. ASSUME NEW q \in Requests, ReadMachines(q) PROVE TypeOK'
    BY <1>21, Apart, SMT DEF ReadMachines, Goes, Recorded
  <1>22. ASSUME NEW q \in Requests, LeaveRoot(q) PROVE TypeOK'
    <2>1. home' \in BOOLEAN
      BY <1>22, Zenon DEF LeaveRoot, LeavesRoot
    <2> QED BY <1>22, <2>1, SMT DEF LeaveRoot, Goes
  <1>23. ASSUME NEW q \in Requests, NEW k \in Machines, TellNext(q, k) PROVE TypeOK'
    <2>1. faults' \in 0 .. MaxFaults
      BY <1>23, BudgetType DEF TellNext, TellOrFail
    <2> QED BY <1>23, <2>1, SMT DEF TellNext, TellOrFail, Tell, Goes
  <1>24. ASSUME NEW q \in Requests, RequestDies(q) PROVE TypeOK'
    <2>1. deaths' \in 0 .. MaxDeaths
      BY <1>24, BudgetType DEF RequestDies
    <2> QED BY <1>24, <2>1, SMT DEF RequestDies, Goes
  <1> QED BY <1>1, <1>2, <1>3, <1>4, <1>5, <1>6, <1>7, <1>8, <1>9, <1>10, <1>11, <1>12, 
             <1>13, <1>14, <1>15, <1>16, <1>17, <1>18, <1>19, <1>20, <1>21, <1>22, <1>23, <1>24
             DEF Next, Destroys, Sweep, Step, RootStep, Request, Finishing, Actors

----------------------------------------------------------------------------
(* What a step may do *)

\* To one machine.
MachineMoves(m) ==
  /\ Doomed(m) => Doomed(m)'
  /\ Doomed(m)' => \/ Doomed(m) \/ status[m] # "none" \/ m \in pending \/ step[m] # "idle"
                   \/ \E q \in Requests : m \in list[q]
  /\ device[m] # "none" => device'[m] # "none"
  /\ device'[m] = "revoked" => device[m] = "revoked" \/ m \in told \/ step[m] # "idle"
  /\ status'[m] # "none" => status[m] # "none" \/ (mark = "kept" /\ device'[m] # "none")
  /\ status'[m] = "destroying" => status[m] = "destroying" \/ m \in told
  /\ step'[m] # "idle" => step[m] # "idle" \/ Doomed(m)
  /\ m \in told' => m \in told \/ Doomed(m)'
  /\ m \in pending' => m \in pending \/ status[m] # "none"
  /\ \A q \in Requests : m \in list'[q] => m \in list[q] \/ status[m] # "none"

LEMMA MachineStep ==
  ASSUME TypeOK, Next, NEW m \in Machines
  PROVE  MachineMoves(m)
  <1> USE DEF TypeOK, Doomed, Machines, Actors, d1, objects, steps, budgets, MachineMoves
  <1>1. ASSUME NEW k \in Machines, CreateRows(k) PROVE MachineMoves(m)
    BY <1>1, SMT DEF CreateRows
  <1>2. ASSUME NEW k \in Machines, TellWrites(k) PROVE MachineMoves(m)
    BY <1>2, SMT DEF TellWrites, RowDestroying, Fault
  <1>3. ASSUME NEW k \in Machines, TellBreaks(k) PROVE MachineMoves(m)
    BY <1>3, SMT DEF TellBreaks, RowDestroying, Fault
  <1>4. ASSUME NEW k \in Machines, AlarmFires(k) PROVE MachineMoves(m)
    BY <1>4, Apart, SMT DEF AlarmFires, Goes
  <1>5. ASSUME NEW k \in Machines, Unmake(k) PROVE MachineMoves(m)
    BY <1>5, Apart, SMT DEF Unmake, Goes
  <1>6. ASSUME NEW k \in Machines, DeleteDevice(k) PROVE MachineMoves(m)
    <2>1. /\ step' = [step EXCEPT ![k] = "scope"] /\ device' = [device EXCEPT ![k] = "gone"]
          /\ UNCHANGED <<object, told, list, pending>>
      BY <1>6 DEF DeleteDevice, Goes
    <2>2. status'[m] = "none" \/ status'[m] = status[m]
      <3>1. CASE ProjectGoes
        BY <3>1, Zenon DEF ProjectGoes
      <3>2. CASE status' = [status EXCEPT ![k] = "none"]
        BY <3>2, SMT
      <3> QED BY <1>6, <3>1, <3>2 DEF DeleteDevice
    <2>3. m # k => step'[m] = step[m] /\ device'[m] = device[m]
      BY <2>1, SMT
    <2>4. device'[k] = "gone" /\ step[k] = "unrow"
      BY <1>6, <2>1, SMT DEF DeleteDevice
    <2> QED BY <2>1, <2>2, <2>3, <2>4, SMT
  <1>7. ASSUME NEW k \in Machines, Wipe(k) PROVE MachineMoves(m)
    BY <1>7, Apart, SMT DEF Wipe, Goes
  <1>8. ASSUME NEW k \in Machines, SweepRetries(k) PROVE MachineMoves(m)
    BY <1>8, SMT DEF SweepRetries, Tell
  <1>9. ASSUME NEW k \in Machines, SweepTells(k) PROVE MachineMoves(m)
    BY <1>9, SMT DEF SweepTells, Tell, LeftBehind, Recorded
  <1>10. ASSUME NEW k \in Machines, AlarmLost(k) PROVE MachineMoves(m)
    BY <1>10, SMT DEF AlarmLost, Fault
  <1>11. ASSUME NEW k \in Machines, StepFails(k) PROVE MachineMoves(m)
    BY <1>11, Apart, SMT DEF StepFails, Goes, Fault
  <1>12. ASSUME RootLooks PROVE MachineMoves(m)
    BY <1>12, Apart, SMT DEF RootLooks, Goes
  <1>13. ASSUME RootReads PROVE MachineMoves(m)
    BY <1>13, Apart, SMT DEF RootReads, Goes, Untold
  <1>14. ASSUME RootLooksAgain PROVE MachineMoves(m)
    BY <1>14, Apart, SMT DEF RootLooksAgain, Goes
  <1>15. ASSUME NEW c \in Workspaces, RootTells(c) PROVE MachineMoves(m)
    BY <1>15, SMT DEF RootTells, TellOrFail, Tell, Fault
  <1>16. ASSUME NEW k \in Actors, ReadScope(k) PROVE MachineMoves(m)
    BY <1>16, SMT DEF ReadScope, Goes, Marked, Back
  <1>17. ASSUME NEW k \in Actors, Count(k) PROVE MachineMoves(m)
    BY <1>17, SMT DEF Count, Goes, Back, LastToGo
  <1>18. ASSUME NEW k \in Actors, FinishStep(k) PROVE MachineMoves(m)
    BY <1>18, SMT DEF FinishStep, Goes, Back, Finish, ProjectGoes
  <1>19. ASSUME NEW q \in Requests, NEW s \in Scopes, Remove(q, s) PROVE MachineMoves(m)
    BY <1>19, Apart, SMT DEF Remove, Goes
  <1>20. ASSUME NEW q \in Requests, NEW k \in Machines, RemoveMachine(q, k) PROVE MachineMoves(m)
    BY <1>20, Apart, SMT DEF RemoveMachine, Goes
  <1>21. ASSUME NEW q \in Requests, ReadMachines(q) PROVE MachineMoves(m)
    BY <1>21, Apart, SMT DEF ReadMachines, Goes, Recorded
  <1>22. ASSUME NEW q \in Requests, LeaveRoot(q) PROVE MachineMoves(m)
    BY <1>22, Apart, SMT DEF LeaveRoot, Goes, LeavesRoot
  <1>23. ASSUME NEW q \in Requests, NEW k \in Machines, TellNext(q, k) PROVE MachineMoves(m)
    BY <1>23, Apart, SMT DEF TellNext, Goes, TellOrFail, Tell, Fault
  <1>24. ASSUME NEW q \in Requests, RequestDies(q) PROVE MachineMoves(m)
    BY <1>24, Apart, SMT DEF RequestDies, Goes, Death
  <1> QED BY <1>1, <1>2, <1>3, <1>4, <1>5, <1>6, <1>7, <1>8, <1>9, <1>10, <1>11, <1>12, 
             <1>13, <1>14, <1>15, <1>16, <1>17, <1>18, <1>19, <1>20, <1>21, <1>22, <1>23, <1>24
             DEF Next, Destroys, Sweep, Step, RootStep, Request, Finishing, Actors

\* What takes its row.
RowGoes(m) ==
  status[m] # "none" /\ status'[m] = "none" =>
    \/ step[m] = "unrow"
    \/ step[Root] = "unrow" /\ home /\ mark = "project"
    \/ \E a \in Actors : step[a] = "finish"

LEMMA RowStep ==
  ASSUME TypeOK, Next, NEW m \in Machines
  PROVE  RowGoes(m)
  <1> USE DEF TypeOK, Doomed, Machines, Actors, d1, objects, steps, budgets, RowGoes
  <1>1. ASSUME NEW k \in Machines, CreateRows(k) PROVE RowGoes(m)
    BY <1>1, SMT DEF CreateRows
  <1>2. ASSUME NEW k \in Machines, TellWrites(k) PROVE RowGoes(m)
    BY <1>2, SMT DEF TellWrites, RowDestroying, Fault
  <1>3. ASSUME NEW k \in Machines, TellBreaks(k) PROVE RowGoes(m)
    BY <1>3, SMT DEF TellBreaks, RowDestroying, Fault
  <1>4. ASSUME NEW k \in Machines, AlarmFires(k) PROVE RowGoes(m)
    BY <1>4, Apart, SMT DEF AlarmFires, Goes
  <1>5. ASSUME NEW k \in Machines, Unmake(k) PROVE RowGoes(m)
    BY <1>5, Apart, SMT DEF Unmake, Goes
  <1>6. ASSUME NEW k \in Machines, DeleteDevice(k) PROVE RowGoes(m)
    <2>1. CASE k = Root /\ LeavesRoot(k)
      BY <1>6, <2>1, SMT DEF DeleteDevice, LeavesRoot
    <2>2. CASE ~(k = Root /\ LeavesRoot(k))
      <3>1. status' = [status EXCEPT ![k] = "none"] /\ step[k] = "unrow"
        BY <1>6, <2>2 DEF DeleteDevice
      <3> QED BY <3>1, SMT
    <2> QED BY <2>1, <2>2
  <1>7. ASSUME NEW k \in Machines, Wipe(k) PROVE RowGoes(m)
    BY <1>7, Apart, SMT DEF Wipe, Goes
  <1>8. ASSUME NEW k \in Machines, SweepRetries(k) PROVE RowGoes(m)
    BY <1>8, SMT DEF SweepRetries, Tell
  <1>9. ASSUME NEW k \in Machines, SweepTells(k) PROVE RowGoes(m)
    BY <1>9, SMT DEF SweepTells, Tell, LeftBehind, Recorded
  <1>10. ASSUME NEW k \in Machines, AlarmLost(k) PROVE RowGoes(m)
    BY <1>10, SMT DEF AlarmLost, Fault
  <1>11. ASSUME NEW k \in Machines, StepFails(k) PROVE RowGoes(m)
    BY <1>11, Apart, SMT DEF StepFails, Goes, Fault
  <1>12. ASSUME RootLooks PROVE RowGoes(m)
    BY <1>12, Apart, SMT DEF RootLooks, Goes
  <1>13. ASSUME RootReads PROVE RowGoes(m)
    BY <1>13, Apart, SMT DEF RootReads, Goes, Untold
  <1>14. ASSUME RootLooksAgain PROVE RowGoes(m)
    BY <1>14, Apart, SMT DEF RootLooksAgain, Goes
  <1>15. ASSUME NEW c \in Workspaces, RootTells(c) PROVE RowGoes(m)
    BY <1>15, SMT DEF RootTells, TellOrFail, Tell, Fault
  <1>16. ASSUME NEW k \in Actors, ReadScope(k) PROVE RowGoes(m)
    BY <1>16, SMT DEF ReadScope, Goes, Marked, Back
  <1>17. ASSUME NEW k \in Actors, Count(k) PROVE RowGoes(m)
    BY <1>17, SMT DEF Count, Goes, Back, LastToGo
  <1>18. ASSUME NEW k \in Actors, FinishStep(k) PROVE RowGoes(m)
    BY <1>18 DEF FinishStep
  <1>19. ASSUME NEW q \in Requests, NEW s \in Scopes, Remove(q, s) PROVE RowGoes(m)
    BY <1>19, Apart, SMT DEF Remove, Goes
  <1>20. ASSUME NEW q \in Requests, NEW k \in Machines, RemoveMachine(q, k) PROVE RowGoes(m)
    BY <1>20, Apart, SMT DEF RemoveMachine, Goes
  <1>21. ASSUME NEW q \in Requests, ReadMachines(q) PROVE RowGoes(m)
    BY <1>21, Apart, SMT DEF ReadMachines, Goes, Recorded
  <1>22. ASSUME NEW q \in Requests, LeaveRoot(q) PROVE RowGoes(m)
    BY <1>22, Apart, SMT DEF LeaveRoot, Goes, LeavesRoot
  <1>23. ASSUME NEW q \in Requests, NEW k \in Machines, TellNext(q, k) PROVE RowGoes(m)
    BY <1>23, Apart, SMT DEF TellNext, Goes, TellOrFail, Tell, Fault
  <1>24. ASSUME NEW q \in Requests, RequestDies(q) PROVE RowGoes(m)
    BY <1>24, Apart, SMT DEF RequestDies, Goes, Death
  <1> QED BY <1>1, <1>2, <1>3, <1>4, <1>5, <1>6, <1>7, <1>8, <1>9, <1>10, <1>11, <1>12, 
             <1>13, <1>14, <1>15, <1>16, <1>17, <1>18, <1>19, <1>20, <1>21, <1>22, <1>23, <1>24
             DEF Next, Destroys, Sweep, Step, RootStep, Request, Finishing, Actors

\* To the project and the requests that remove it.
ProjectMoves ==
  /\ mark # "kept" => mark' # "kept" /\ (home = FALSE => home' = FALSE)
  /\ mark' \in Marks => \/ mark' = mark
                        \/ /\ mark # "gone" /\ mark' \in Scopes
                           /\ UNCHANGED <<home, object, status>> /\ step'[Root] = step[Root]
  /\ home' = FALSE \/ home = TRUE \/ (device[Root] = "none" /\ object' = object)

LEMMA ProjectStep ==
  ASSUME TypeOK, Next
  PROVE  ProjectMoves
  <1> USE DEF TypeOK, Doomed, Machines, Actors, d1, objects, steps, budgets, Marks, ProjectMoves
  <1>1. ASSUME NEW k \in Machines, CreateRows(k) PROVE ProjectMoves
    BY <1>1, SMT DEF CreateRows
  <1>2. ASSUME NEW k \in Machines, TellWrites(k) PROVE ProjectMoves
    BY <1>2, SMT DEF TellWrites, RowDestroying, Fault
  <1>3. ASSUME NEW k \in Machines, TellBreaks(k) PROVE ProjectMoves
    BY <1>3, SMT DEF TellBreaks, RowDestroying, Fault
  <1>4. ASSUME NEW k \in Machines, AlarmFires(k) PROVE ProjectMoves
    BY <1>4, Apart, SMT DEF AlarmFires, Goes
  <1>5. ASSUME NEW k \in Machines, Unmake(k) PROVE ProjectMoves
    BY <1>5, Apart, SMT DEF Unmake, Goes
  <1>6. ASSUME NEW k \in Machines, DeleteDevice(k) PROVE ProjectMoves
    BY <1>6, Apart, SMT DEF DeleteDevice, Goes, ProjectGoes, LeavesRoot
  <1>7. ASSUME NEW k \in Machines, Wipe(k) PROVE ProjectMoves
    BY <1>7, Apart, SMT DEF Wipe, Goes
  <1>8. ASSUME NEW k \in Machines, SweepRetries(k) PROVE ProjectMoves
    BY <1>8, SMT DEF SweepRetries, Tell
  <1>9. ASSUME NEW k \in Machines, SweepTells(k) PROVE ProjectMoves
    BY <1>9, SMT DEF SweepTells, Tell, LeftBehind, Recorded
  <1>10. ASSUME NEW k \in Machines, AlarmLost(k) PROVE ProjectMoves
    BY <1>10, SMT DEF AlarmLost, Fault
  <1>11. ASSUME NEW k \in Machines, StepFails(k) PROVE ProjectMoves
    BY <1>11, Apart, SMT DEF StepFails, Goes, Fault
  <1>12. ASSUME RootLooks PROVE ProjectMoves
    BY <1>12, Apart, SMT DEF RootLooks, Goes
  <1>13. ASSUME RootReads PROVE ProjectMoves
    BY <1>13, Apart, SMT DEF RootReads, Goes, Untold
  <1>14. ASSUME RootLooksAgain PROVE ProjectMoves
    BY <1>14, Apart, SMT DEF RootLooksAgain, Goes
  <1>15. ASSUME NEW c \in Workspaces, RootTells(c) PROVE ProjectMoves
    BY <1>15, SMT DEF RootTells, TellOrFail, Tell, Fault
  <1>16. ASSUME NEW k \in Actors, ReadScope(k) PROVE ProjectMoves
    BY <1>16, SMT DEF ReadScope, Goes, Marked, Back
  <1>17. ASSUME NEW k \in Actors, Count(k) PROVE ProjectMoves
    BY <1>17, SMT DEF Count, Goes, Back, LastToGo
  <1>18. ASSUME NEW k \in Actors, FinishStep(k) PROVE ProjectMoves
    BY <1>18, SMT DEF FinishStep, Goes, Back, Finish, ProjectGoes
  <1>19. ASSUME NEW q \in Requests, NEW s \in Scopes, Remove(q, s) PROVE ProjectMoves
    BY <1>19, Apart, SMT DEF Remove, Goes
  <1>20. ASSUME NEW q \in Requests, NEW k \in Machines, RemoveMachine(q, k) PROVE ProjectMoves
    BY <1>20, Apart, SMT DEF RemoveMachine, Goes
  <1>21. ASSUME NEW q \in Requests, ReadMachines(q) PROVE ProjectMoves
    BY <1>21, Apart, SMT DEF ReadMachines, Goes, Recorded
  <1>22. ASSUME NEW q \in Requests, LeaveRoot(q) PROVE ProjectMoves
    BY <1>22, Apart, SMT DEF LeaveRoot, Goes, LeavesRoot
  <1>23. ASSUME NEW q \in Requests, NEW k \in Machines, TellNext(q, k) PROVE ProjectMoves
    BY <1>23, Apart, SMT DEF TellNext, Goes, TellOrFail, Tell, Fault
  <1>24. ASSUME NEW q \in Requests, RequestDies(q) PROVE ProjectMoves
    BY <1>24, Apart, SMT DEF RequestDies, Goes, Death
  <1> QED BY <1>1, <1>2, <1>3, <1>4, <1>5, <1>6, <1>7, <1>8, <1>9, <1>10, <1>11, <1>12, 
             <1>13, <1>14, <1>15, <1>16, <1>17, <1>18, <1>19, <1>20, <1>21, <1>22, <1>23, <1>24
             DEF Next, Destroys, Sweep, Step, RootStep, Request, Finishing, Actors

RequestMoves(p) ==
  /\ step'[p] = "project" => step[p] = "project" \/ mark' = "project"
  /\ step'[p] = "telling" /\ Root \in list'[p] =>
       \/ step[p] = "telling" /\ Root \in list[p]
       \/ mark = "project" \/ home' = FALSE \/ step[p] = "project"

LEMMA RequestStep ==
  ASSUME TypeOK, Next, NEW p \in Requests
  PROVE  RequestMoves(p)
  <1> USE DEF TypeOK, Doomed, Machines, Actors, d1, objects, steps, budgets, Marks, RequestMoves
  <1>1. ASSUME NEW k \in Machines, CreateRows(k) PROVE RequestMoves(p)
    BY <1>1, SMT DEF CreateRows
  <1>2. ASSUME NEW k \in Machines, TellWrites(k) PROVE RequestMoves(p)
    BY <1>2, SMT DEF TellWrites, RowDestroying, Fault
  <1>3. ASSUME NEW k \in Machines, TellBreaks(k) PROVE RequestMoves(p)
    BY <1>3, SMT DEF TellBreaks, RowDestroying, Fault
  <1>4. ASSUME NEW k \in Machines, AlarmFires(k) PROVE RequestMoves(p)
    BY <1>4, Apart, SMT DEF AlarmFires, Goes
  <1>5. ASSUME NEW k \in Machines, Unmake(k) PROVE RequestMoves(p)
    BY <1>5, Apart, SMT DEF Unmake, Goes
  <1>6. ASSUME NEW k \in Machines, DeleteDevice(k) PROVE RequestMoves(p)
    BY <1>6, Apart, SMT DEF DeleteDevice, Goes, ProjectGoes, LeavesRoot
  <1>7. ASSUME NEW k \in Machines, Wipe(k) PROVE RequestMoves(p)
    BY <1>7, Apart, SMT DEF Wipe, Goes
  <1>8. ASSUME NEW k \in Machines, SweepRetries(k) PROVE RequestMoves(p)
    BY <1>8, SMT DEF SweepRetries, Tell
  <1>9. ASSUME NEW k \in Machines, SweepTells(k) PROVE RequestMoves(p)
    BY <1>9, SMT DEF SweepTells, Tell, LeftBehind, Recorded
  <1>10. ASSUME NEW k \in Machines, AlarmLost(k) PROVE RequestMoves(p)
    BY <1>10, SMT DEF AlarmLost, Fault
  <1>11. ASSUME NEW k \in Machines, StepFails(k) PROVE RequestMoves(p)
    BY <1>11, Apart, SMT DEF StepFails, Goes, Fault
  <1>12. ASSUME RootLooks PROVE RequestMoves(p)
    BY <1>12, Apart, SMT DEF RootLooks, Goes
  <1>13. ASSUME RootReads PROVE RequestMoves(p)
    BY <1>13, Apart, SMT DEF RootReads, Goes, Untold
  <1>14. ASSUME RootLooksAgain PROVE RequestMoves(p)
    BY <1>14, Apart, SMT DEF RootLooksAgain, Goes
  <1>15. ASSUME NEW c \in Workspaces, RootTells(c) PROVE RequestMoves(p)
    BY <1>15, SMT DEF RootTells, TellOrFail, Tell, Fault
  <1>16. ASSUME NEW k \in Actors, ReadScope(k) PROVE RequestMoves(p)
    BY <1>16, SMT DEF ReadScope, Goes, Marked, Back
  <1>17. ASSUME NEW k \in Actors, Count(k) PROVE RequestMoves(p)
    BY <1>17, SMT DEF Count, Goes, Back, LastToGo
  <1>18. ASSUME NEW k \in Actors, FinishStep(k) PROVE RequestMoves(p)
    BY <1>18, SMT DEF FinishStep, Goes, Back, Finish, ProjectGoes
  <1>19. ASSUME NEW q \in Requests, NEW s \in Scopes, Remove(q, s) PROVE RequestMoves(p)
    BY <1>19, Apart, SMT DEF Remove, Goes
  <1>20. ASSUME NEW q \in Requests, NEW k \in Machines, RemoveMachine(q, k) PROVE RequestMoves(p)
    BY <1>20, Apart, SMT DEF RemoveMachine, Goes
  <1>21. ASSUME NEW q \in Requests, ReadMachines(q) PROVE RequestMoves(p)
    BY <1>21, Apart, SMT DEF ReadMachines, Goes, Recorded
  <1>22. ASSUME NEW q \in Requests, LeaveRoot(q) PROVE RequestMoves(p)
    <2>1. mark = "project" \/ home' = FALSE
      BY <1>22, Zenon DEF LeaveRoot, LeavesRoot
    <2> QED BY <1>22, <2>1, SMT DEF LeaveRoot, Goes
  <1>23. ASSUME NEW q \in Requests, NEW k \in Machines, TellNext(q, k) PROVE RequestMoves(p)
    BY <1>23, Apart, SMT DEF TellNext, Goes, TellOrFail, Tell, Fault
  <1>24. ASSUME NEW q \in Requests, RequestDies(q) PROVE RequestMoves(p)
    BY <1>24, Apart, SMT DEF RequestDies, Goes, Death
  <1> QED BY <1>1, <1>2, <1>3, <1>4, <1>5, <1>6, <1>7, <1>8, <1>9, <1>10, <1>11, <1>12, 
             <1>13, <1>14, <1>15, <1>16, <1>17, <1>18, <1>19, <1>20, <1>21, <1>22, <1>23, <1>24
             DEF Next, Destroys, Sweep, Step, RootStep, Request, Finishing, Actors

\* To whoever finishes a removal.
FinishMoves(a) ==
  /\ step'[a] \in {"count", "finish"} => step[a] \in {"count", "finish"} \/ mark \in Marks
  /\ step'[a] = "finish" => step[a] = "finish" \/ (step[a] = "count" /\ LastToGo(a))

LEMMA FinishStepMoves ==
  ASSUME TypeOK, Next, NEW a \in Actors
  PROVE  FinishMoves(a)
  <1> USE DEF TypeOK, Doomed, Machines, Actors, d1, objects, steps, budgets, Marks, FinishMoves
  <1>1. ASSUME NEW k \in Machines, CreateRows(k) PROVE FinishMoves(a)
    BY <1>1, SMT DEF CreateRows
  <1>2. ASSUME NEW k \in Machines, TellWrites(k) PROVE FinishMoves(a)
    BY <1>2, SMT DEF TellWrites, RowDestroying, Fault
  <1>3. ASSUME NEW k \in Machines, TellBreaks(k) PROVE FinishMoves(a)
    BY <1>3, SMT DEF TellBreaks, RowDestroying, Fault
  <1>4. ASSUME NEW k \in Machines, AlarmFires(k) PROVE FinishMoves(a)
    BY <1>4, Apart, SMT DEF AlarmFires, Goes
  <1>5. ASSUME NEW k \in Machines, Unmake(k) PROVE FinishMoves(a)
    BY <1>5, Apart, SMT DEF Unmake, Goes
  <1>6. ASSUME NEW k \in Machines, DeleteDevice(k) PROVE FinishMoves(a)
    BY <1>6, Apart, SMT DEF DeleteDevice, Goes, ProjectGoes, LeavesRoot
  <1>7. ASSUME NEW k \in Machines, Wipe(k) PROVE FinishMoves(a)
    BY <1>7, Apart, SMT DEF Wipe, Goes
  <1>8. ASSUME NEW k \in Machines, SweepRetries(k) PROVE FinishMoves(a)
    BY <1>8, SMT DEF SweepRetries, Tell
  <1>9. ASSUME NEW k \in Machines, SweepTells(k) PROVE FinishMoves(a)
    BY <1>9, SMT DEF SweepTells, Tell, LeftBehind, Recorded
  <1>10. ASSUME NEW k \in Machines, AlarmLost(k) PROVE FinishMoves(a)
    BY <1>10, SMT DEF AlarmLost, Fault
  <1>11. ASSUME NEW k \in Machines, StepFails(k) PROVE FinishMoves(a)
    BY <1>11, Apart, SMT DEF StepFails, Goes, Fault
  <1>12. ASSUME RootLooks PROVE FinishMoves(a)
    BY <1>12, Apart, SMT DEF RootLooks, Goes
  <1>13. ASSUME RootReads PROVE FinishMoves(a)
    BY <1>13, Apart, SMT DEF RootReads, Goes, Untold
  <1>14. ASSUME RootLooksAgain PROVE FinishMoves(a)
    BY <1>14, Apart, SMT DEF RootLooksAgain, Goes
  <1>15. ASSUME NEW c \in Workspaces, RootTells(c) PROVE FinishMoves(a)
    BY <1>15, SMT DEF RootTells, TellOrFail, Tell, Fault
  <1>16. ASSUME NEW k \in Actors, ReadScope(k) PROVE FinishMoves(a)
    BY <1>16, SMT DEF ReadScope, Goes, Marked, Back
  <1>17. ASSUME NEW k \in Actors, Count(k) PROVE FinishMoves(a)
    BY <1>17, SMT DEF Count, Goes, Back
  <1>18. ASSUME NEW k \in Actors, FinishStep(k) PROVE FinishMoves(a)
    BY <1>18, SMT DEF FinishStep, Goes, Back, Finish, ProjectGoes
  <1>19. ASSUME NEW q \in Requests, NEW s \in Scopes, Remove(q, s) PROVE FinishMoves(a)
    BY <1>19, Apart, SMT DEF Remove, Goes
  <1>20. ASSUME NEW q \in Requests, NEW k \in Machines, RemoveMachine(q, k) PROVE FinishMoves(a)
    BY <1>20, Apart, SMT DEF RemoveMachine, Goes
  <1>21. ASSUME NEW q \in Requests, ReadMachines(q) PROVE FinishMoves(a)
    BY <1>21, Apart, SMT DEF ReadMachines, Goes, Recorded
  <1>22. ASSUME NEW q \in Requests, LeaveRoot(q) PROVE FinishMoves(a)
    BY <1>22, Apart, SMT DEF LeaveRoot, Goes, LeavesRoot
  <1>23. ASSUME NEW q \in Requests, NEW k \in Machines, TellNext(q, k) PROVE FinishMoves(a)
    BY <1>23, Apart, SMT DEF TellNext, Goes, TellOrFail, Tell, Fault
  <1>24. ASSUME NEW q \in Requests, RequestDies(q) PROVE FinishMoves(a)
    BY <1>24, Apart, SMT DEF RequestDies, Goes, Death
  <1> QED BY <1>1, <1>2, <1>3, <1>4, <1>5, <1>6, <1>7, <1>8, <1>9, <1>10, <1>11, <1>12, 
             <1>13, <1>14, <1>15, <1>16, <1>17, <1>18, <1>19, <1>20, <1>21, <1>22, <1>23, <1>24
             DEF Next, Destroys, Sweep, Step, RootStep, Request, Finishing, Actors

NoneUntold == \A c \in Workspaces : status[c] # "standing"
OnlyRootLeft == Root \in LeftBehind /\ \A m \in LeftBehind : m = Root

\* To the root machine.
RootMoves ==
  /\ mark = "project" /\ step'[Root] \in {"unmake", "unrow"} =>
       step[Root] \in {"unmake", "unrow"} \/ (step[Root] = "children" /\ NoneUntold)
  /\ Doomed(Root)' => \/ Doomed(Root) \/ step[Root] # "idle"
                      \/ mark = "project" \/ OnlyRootLeft \/ status[Root] = "destroying"
                      \/ \E p \in Requests : step[p] = "telling" /\ Root \in list[p]

LEMMA RootStepMoves ==
  ASSUME TypeOK, Next
  PROVE  RootMoves
  <1> USE DEF TypeOK, Doomed, Machines, Actors, d1, objects, steps, budgets, RootMoves
  <1>1. ASSUME NEW k \in Machines, CreateRows(k) PROVE RootMoves
    BY <1>1, SMT DEF CreateRows
  <1>2. ASSUME NEW k \in Machines, TellWrites(k) PROVE RootMoves
    BY <1>2, SMT DEF TellWrites, RowDestroying, Fault
  <1>3. ASSUME NEW k \in Machines, TellBreaks(k) PROVE RootMoves
    BY <1>3, SMT DEF TellBreaks, RowDestroying, Fault
  <1>4. ASSUME NEW k \in Machines, AlarmFires(k) PROVE RootMoves
    BY <1>4, Apart, SMT DEF AlarmFires, Goes
  <1>5. ASSUME NEW k \in Machines, Unmake(k) PROVE RootMoves
    BY <1>5, Apart, SMT DEF Unmake, Goes
  <1>6. ASSUME NEW k \in Machines, DeleteDevice(k) PROVE RootMoves
    BY <1>6, Apart, SMT DEF DeleteDevice, Goes, ProjectGoes, LeavesRoot
  <1>7. ASSUME NEW k \in Machines, Wipe(k) PROVE RootMoves
    BY <1>7, Apart, SMT DEF Wipe, Goes
  <1>8. ASSUME NEW k \in Machines, SweepRetries(k) PROVE RootMoves
    BY <1>8, SMT DEF SweepRetries, Tell
  <1>9. ASSUME NEW k \in Machines, SweepTells(k) PROVE RootMoves
    BY <1>9, SMT DEF SweepTells, Tell, OnlyRootLeft
  <1>10. ASSUME NEW k \in Machines, AlarmLost(k) PROVE RootMoves
    BY <1>10, SMT DEF AlarmLost, Fault
  <1>11. ASSUME NEW k \in Machines, StepFails(k) PROVE RootMoves
    BY <1>11, Apart, SMT DEF StepFails, Goes, Fault
  <1>12. ASSUME RootLooks PROVE RootMoves
    BY <1>12, Apart, SMT DEF RootLooks, Goes
  <1>13. ASSUME RootReads PROVE RootMoves
    BY <1>13, Apart, SMT DEF RootReads, Goes, Untold, NoneUntold
  <1>14. ASSUME RootLooksAgain PROVE RootMoves
    BY <1>14, Apart, SMT DEF RootLooksAgain, Goes
  <1>15. ASSUME NEW c \in Workspaces, RootTells(c) PROVE RootMoves
    BY <1>15, Apart, SMT DEF RootTells, TellOrFail, Tell, Fault
  <1>16. ASSUME NEW k \in Actors, ReadScope(k) PROVE RootMoves
    BY <1>16, SMT DEF ReadScope, Goes, Marked, Back
  <1>17. ASSUME NEW k \in Actors, Count(k) PROVE RootMoves
    BY <1>17, SMT DEF Count, Goes, Back, LastToGo
  <1>18. ASSUME NEW k \in Actors, FinishStep(k) PROVE RootMoves
    BY <1>18, SMT DEF FinishStep, Goes, Back, Finish, ProjectGoes
  <1>19. ASSUME NEW q \in Requests, NEW s \in Scopes, Remove(q, s) PROVE RootMoves
    BY <1>19, Apart, SMT DEF Remove, Goes
  <1>20. ASSUME NEW q \in Requests, NEW k \in Machines, RemoveMachine(q, k) PROVE RootMoves
    BY <1>20, Apart, SMT DEF RemoveMachine, Goes
  <1>21. ASSUME NEW q \in Requests, ReadMachines(q) PROVE RootMoves
    BY <1>21, Apart, SMT DEF ReadMachines, Goes, Recorded
  <1>22. ASSUME NEW q \in Requests, LeaveRoot(q) PROVE RootMoves
    BY <1>22, Apart, SMT DEF LeaveRoot, Goes, LeavesRoot
  <1>23. ASSUME NEW q \in Requests, NEW k \in Machines, TellNext(q, k) PROVE RootMoves
    BY <1>23, Apart, SMT DEF TellNext, Goes, TellOrFail, Tell, Fault
  <1>24. ASSUME NEW q \in Requests, RequestDies(q) PROVE RootMoves
    BY <1>24, Apart, SMT DEF RequestDies, Goes, Death
  <1> QED BY <1>1, <1>2, <1>3, <1>4, <1>5, <1>6, <1>7, <1>8, <1>9, <1>10, <1>11, <1>12, 
             <1>13, <1>14, <1>15, <1>16, <1>17, <1>18, <1>19, <1>20, <1>21, <1>22, <1>23, <1>24
             DEF Next, Destroys, Sweep, Step, RootStep, Request, Finishing, Actors

----------------------------------------------------------------------------
(* The invariants are kept *)

LEMMA ToldStep ==
  ASSUME TypeOK, ToldInv, Next
  PROVE  ToldInv'
  <1>1. ASSUME NEW m \in Machines
        PROVE  /\ step'[m] # "idle" => Doomed(m)'
               /\ status'[m] = "destroying" => Doomed(m)'
               /\ device'[m] = "revoked" => Doomed(m)'
               /\ status'[m] # "none" \/ Doomed(m)' => device'[m] # "none"
               /\ m \in told' => Doomed(m)'
               /\ m \in pending' => device'[m] # "none"
               /\ \A q \in Requests : m \in list'[q] => device'[m] # "none"
    <2>1. MachineMoves(m)
      BY MachineStep
    <2>2. Doomed(m) \/ status[m] # "none" => device[m] # "none"
      BY DEF ToldInv
    <2>3. step[m] # "idle" \/ m \in told => Doomed(m)
      BY DEF ToldInv
    <2>4. m \in pending \/ (\E q \in Requests : m \in list[q]) => device[m] # "none"
      BY DEF ToldInv
    <2> QED BY <2>1, <2>2, <2>3, <2>4, SMT DEF MachineMoves, ToldInv
  <1>2. /\ told' \subseteq Machines /\ pending' \subseteq Machines
        /\ \A q \in Requests : list'[q] \subseteq Machines
    BY TypeStep DEF TypeOK, Machines
  <1> QED BY <1>1, <1>2 DEF ToldInv

LEMMA CountStep ==
  ASSUME TypeOK, CountInv, Next
  PROVE  CountInv'
  <1>1. ASSUME NEW a \in Actors
        PROVE  /\ step'[a] \in {"count", "finish"} => mark' # "kept"
               /\ step'[a] = "finish" => Recorded' \subseteq {a}
    <2>1. step'[a] \in {"count", "finish"} => mark # "kept"
      BY FinishStepMoves, SMT DEF FinishMoves, CountInv, Marks
    <2>2. mark # "kept" => mark' # "kept" /\ Recorded' \subseteq Recorded
      <3>1. ASSUME NEW n \in Machines, mark # "kept", status'[n] # "none" PROVE status[n] # "none"
        BY <3>1, MachineStep DEF MachineMoves
      <3> QED BY <3>1, ProjectStep DEF ProjectMoves, Recorded
    <2>3. step'[a] = "finish" => Recorded \subseteq {a}
      BY FinishStepMoves DEF FinishMoves, CountInv, LastToGo
    <2> QED BY <2>1, <2>2, <2>3
  <1> QED BY <1>1 DEF CountInv

LEMMA MarkStays ==
  ASSUME TypeOK, Next, ~AsksForLess
  PROVE  /\ mark' = "kept" => mark = "kept"
         /\ mark' = "location" => mark \in {"kept", "location"}
         /\ mark \in {"project", "gone"} => mark' \in {"project", "gone"}
  BY ProjectStep, TypeStep DEF ProjectMoves, AsksForLess, TypeOK, Marks

LEMMA AskStep ==
  ASSUME TypeOK, AskInv, Next, ~AsksForLess
  PROVE  AskInv'
  BY MarkStays, RequestStep DEF AskInv, RequestMoves

LEMMA DoomStays ==
  ASSUME TypeOK, Next, mark # "kept", AllDoomed
  PROVE  AllDoomed'
  <1>1. ASSUME NEW m \in Machines, status'[m] # "none" PROVE Doomed(m)'
    <2>1. status[m] # "none"
      BY <1>1, MachineStep DEF MachineMoves
    <2> QED BY <2>1, MachineStep DEF MachineMoves, AllDoomed
  <1> QED BY <1>1 DEF AllDoomed

LEMMA RootInvStep ==
  ASSUME RemovalInv, Next, ~AsksForLess
  PROVE  RootInv'
  <1> USE DEF RemovalInv
  <1>0. /\ Root \in Machines
        /\ home \in BOOLEAN /\ mark \in {"gone", "kept", "project", "location"}
        /\ home' \in BOOLEAN
    BY TypeStep DEF TypeOK, Machines, Marks
  <1>1. ProjectMoves /\ RootMoves /\ MachineMoves(Root)
    BY <1>0, ProjectStep, RootStepMoves, MachineStep
  <1>2. mark' = "kept" /\ Doomed(Root)' => ~home'
    <2> SUFFICES ASSUME mark' = "kept", Doomed(Root)', home' PROVE FALSE
      OBVIOUS
    <2>1. mark = "kept"
      BY MarkStays
    <2>2. home => Doomed(Root)
      <3>1. CASE OnlyRootLeft
        BY <1>0, <2>1, <3>1 DEF OnlyRootLeft, LeftBehind, Recorded, Marked, Marks, ToldInv
      <3>2. CASE \E p \in Requests : step[p] = "telling" /\ Root \in list[p]
        BY <2>1, <3>2 DEF RootInv
      <3> QED BY <1>0, <1>1, <2>1, <3>1, <3>2 DEF RootMoves, ToldInv
    <2>3. ~home
      BY <2>1, <2>2 DEF RootInv
    <2>4. device[Root] = "none" /\ object' = object
      BY <1>1, <2>3 DEF ProjectMoves
    <2> QED BY <1>0, <2>4 DEF ToldInv, Doomed
  <1>3. mark' = "location" /\ Doomed(Root)' /\ home' => AllDoomed'
    <2> SUFFICES ASSUME mark' = "location", Doomed(Root)', home' PROVE AllDoomed'
      OBVIOUS
    <2>1. CASE mark = "location"
      <3>1. home
        BY <1>0, <1>1, <2>1 DEF ProjectMoves
      <3>2. CASE Doomed(Root)
        BY <2>1, <3>1, <3>2, DoomStays DEF RootInv
      <3>3. CASE OnlyRootLeft
        <4>1. ASSUME NEW m \in Machines, status'[m] # "none" PROVE Doomed(m)'
          <5>1. status[m] # "none"
            BY <2>1, <4>1, MachineStep DEF MachineMoves
          <5>2. CASE status[m] = "destroying"
            BY <5>2, MachineStep DEF MachineMoves, ToldInv
          <5>3. CASE status[m] # "destroying"
            BY <2>1, <3>3, <5>1, <5>3 DEF OnlyRootLeft, LeftBehind, Recorded, Marked, Marks
          <5> QED BY <5>2, <5>3
        <4> QED BY <4>1 DEF AllDoomed
      <3>4. CASE \E p \in Requests : step[p] = "telling" /\ Root \in list[p]
        BY <2>1, <3>1, <3>4 DEF RootInv
      <3> QED BY <1>0, <1>1, <2>1, <3>2, <3>3, <3>4 DEF RootMoves, ToldInv
    <2>2. CASE mark = "kept"
      BY <1>0, <1>1, <2>2 DEF ProjectMoves, Marks, RootInv, Doomed
    <2> QED BY <2>1, <2>2, MarkStays
  <1>4. ASSUME NEW p \in Requests, step'[p] = "telling", Root \in list'[p],
               mark' \in {"kept", "location"}
        PROVE  ~home'
    <2>1. mark \in {"kept", "location"}
      BY <1>4, MarkStays
    <2>2. CASE step[p] = "telling" /\ Root \in list[p]
      <3>1. ~home /\ device[Root] # "none"
        BY <2>1, <2>2 DEF RootInv, ToldInv
      <3> QED BY <1>0, <1>1, <3>1 DEF ProjectMoves
    <2>3. step[p] # "project" /\ mark # "project"
      BY <2>1 DEF AskInv
    <2> QED BY <1>4, <2>2, <2>3, RequestStep DEF RequestMoves
  <1>5. mark' = "project" /\ home' /\ step'[Root] \in {"unmake", "unrow"} => AllDoomed'
    <2> SUFFICES ASSUME mark' = "project", home', step'[Root] \in {"unmake", "unrow"}
                 PROVE  AllDoomed'
      OBVIOUS
    <2>1. CASE mark = "project"
      <3>1. home
        BY <1>0, <1>1, <2>1 DEF ProjectMoves
      <3>2. CASE step[Root] \in {"unmake", "unrow"}
        BY <2>1, <3>1, <3>2, DoomStays DEF RootInv
      <3>3. CASE step[Root] = "children" /\ NoneUntold
        <4>1. AllDoomed
          BY <3>3 DEF AllDoomed, NoneUntold, ToldInv, Machines, TypeOK
        <4> QED BY <2>1, <4>1, DoomStays
      <3> QED BY <1>1, <2>1, <3>2, <3>3 DEF RootMoves
    <2>2. CASE mark # "project"
      <3>1. mark # "gone" /\ home /\ step[Root] # "idle"
        BY <1>1, <2>2 DEF ProjectMoves, Marks
      <3>2. Doomed(Root)
        BY <1>0, <3>1 DEF ToldInv
      <3>3. mark = "location" /\ AllDoomed
        BY <1>0, <2>2, <3>1, <3>2 DEF RootInv
      <3> QED BY <3>3, DoomStays
    <2> QED BY <2>1, <2>2
  <1> QED BY <1>2, <1>3, <1>4, <1>5 DEF RootInv

\* Nothing but its own destruction, that of the project's root machine and the
\* end of a removal takes a row.
LEMMA NoRowTaken ==
  ASSUME RemovalInv, Next, NEW m \in Machines, status[m] # "none", status'[m] = "none"
  PROVE  Doomed(m)
  <1> USE DEF RemovalInv
  <1>1. CASE step[m] = "unrow"
    BY <1>1 DEF ToldInv
  <1>2. CASE step[Root] = "unrow" /\ home /\ mark = "project"
    BY <1>2 DEF RootInv, AllDoomed
  <1>3. ASSUME NEW a \in Actors, step[a] = "finish" PROVE Doomed(m)
    <2>1. a = m
      BY <1>3 DEF CountInv, Recorded
    <2> QED BY <1>3, <2>1 DEF ToldInv
  <1> QED BY <1>1, <1>2, <1>3, RowStep DEF RowGoes

----------------------------------------------------------------------------
(* What holds of every behaviour *)

LEMMA InitInv == Init => RemovalInv
  <1> SUFFICES ASSUME Init PROVE RemovalInv
    OBVIOUS
  <1>1. deaths \in 0 .. MaxDeaths /\ faults \in 0 .. MaxFaults
    BY ConstantsAssumption, SMT DEF ConstantsAssumption, Init
  <1>2. TypeOK
    BY <1>1, Zenon DEF Init, TypeOK, Marks
  <1>3. \A a \in Actors : step[a] = "idle"
    BY SMT DEF Init, Actors
  <1>4. \A m \in Machines : status[m] = "none" /\ device[m] = "none" /\ ~Doomed(m)
    BY SMT DEF Init, Doomed
  <1>5. \A q \in Requests : list[q] = {}
    BY SMT DEF Init
  <1>6. Root \in Machines
    BY DEF Machines
  <1> QED BY <1>2, <1>3, <1>4, <1>5, <1>6
             DEF Init, RemovalInv, ToldInv, CountInv, RootInv, AskInv, Actors

LEMMA Stutter ==
  ASSUME UNCHANGED vars
  PROVE  /\ TypeOK => TypeOK'
         /\ RemovalInv => RemovalInv'
  BY DEF vars, d1, objects, steps, budgets, TypeOK, RemovalInv, ToldInv, CountInv, RootInv,
         AskInv, AllDoomed, Doomed, Recorded

\* Rows, objects, requests and the sweep have the values that teardown.ts,
\* machine-steps.ts and reconcile.ts give them.
THEOREM TypeCorrect == SafetySpec => []TypeOK
  <1>1. Init => TypeOK
    BY InitInv DEF RemovalInv
  <1>2. TypeOK /\ [Next]_vars => TypeOK'
    BY TypeStep, Stutter
  <1> QED BY <1>1, <1>2, PTL DEF SafetySpec

LEMMA RemovalInvariant == SafetySpec /\ [][~AsksForLess]_vars => []RemovalInv
  <1>1. RemovalInv /\ [Next]_vars /\ [~AsksForLess]_vars => RemovalInv'
    BY TypeStep, ToldStep, CountStep, RootInvStep, AskStep, Stutter DEF RemovalInv
  <1> QED BY <1>1, InitInv, PTL DEF SafetySpec

\* However many machines a project has, however many removals of it overlap and
\* whatever dies or fails, no row is deleted that a machine still standing is
\* recorded in (teardown.ts), unless the removal of the project is replaced by
\* one that only leaves Cloud.
THEOREM StandingRowsStay ==
  SafetySpec /\ [][~AsksForLess]_vars => NoStandingRowTaken
  <1>1. RemovalInv /\ [Next]_vars =>
          [\A m \in Machines : (status[m] # "none" /\ status'[m] = "none") => Doomed(m)]_vars
    BY NoRowTaken
  <1> QED BY <1>1, RemovalInvariant, PTL DEF SafetySpec, NoStandingRowTaken

\* A project whose removals all ask for the same, which is what a person does
\* who asks again, never has that replacement.
THEOREM SameRemovalsTakeNoStandingRow ==
  ASSUME NEW s, Scopes = {s}
  PROVE  SafetySpec => NoStandingRowTaken
  <1> DEFINE AsAsked == mark \in Marks => mark = s
  <1>1. Init => AsAsked
    BY DEF Init, Marks
  <1>2. TypeOK /\ AsAsked /\ [Next]_vars => AsAsked'
    <2>1. TypeOK /\ AsAsked /\ Next => AsAsked'
      BY ProjectStep DEF ProjectMoves
    <2>2. AsAsked /\ UNCHANGED vars => AsAsked'
      BY DEF vars, d1
    <2> QED BY <2>1, <2>2
  <1>3. TypeOK /\ AsAsked /\ AsAsked' => [~AsksForLess]_vars
    BY DEF AsksForLess, Marks
  <1> QED BY <1>1, <1>2, <1>3, TypeCorrect, StandingRowsStay, PTL DEF SafetySpec
=============================================================================
