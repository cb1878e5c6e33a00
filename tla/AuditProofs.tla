------------------------------ MODULE AuditProofs ------------------------------
(***************************************************************************)
(* What Audit guarantees for any number of calls, deliveries and           *)
(* maintenance runs: its types, that no tool runs unrecorded, and that a   *)
(* deleted project stays erased, of what no row was saved after it.        *)
(***************************************************************************)
EXTENDS Audit, TLAPS

----------------------------------------------------------------------------
(* The invariants *)

\* Something of the call is in the stream or in the archive.
Sent(c) == stream[c] # {} \/ archive[c] # {}

\* Who holds the lease of a row has its event in its batch, and a row is taken
\* for acknowledged only once its event was sent.
DeliveryInv ==
  /\ \A f \in Flushes, c \in Calls :
       lease[c] = f => /\ flush[f] # "idle"
                       /\ \E e \in Events : <<c, e>> \in batch[f]
                       /\ flush[f] = "sent" => Sent(c) \/ Deleted
  /\ \A c \in accepted : Sent(c) \/ Deleted

\* A call goes past its intent only once that is durable.
RecordInv ==
  \A c \in Calls : call[c] \in {"ready", "running"} \/ c \in ran => Durable(c) \/ Deleted

\* A maintenance run that holds the deletion took it while it was due, and has
\* erased when it says so.  No row outlives the deletion but one saved after it,
\* and what else was in flight is over before the second pass.
ErasureInv ==
  /\ Deleted => \A c \in Calls \ late : row[c] = "none"
  /\ \A j \in Jobs : job[j] # "idle" => Deleted
  /\ deletion.lease # Nobody => deletion.due /\ ~deletion.completed
  /\ deletion.passes >= 1 => Deleted /\ (deletion.due => ~InFlight)
  /\ deletion.completed <=> deletion.passes = 2
  /\ \A j \in Jobs :
       job[j] = "erased" /\ deletion.lease = j /\ deletion.passes >= 1 =>
         \A c \in Calls \ late : archive[c] = {}
  /\ deletion.completed => deletion.due /\ \A c \in Calls \ late : archive[c] = {}

AuditInv == TypeOK /\ DeliveryInv /\ RecordInv /\ ErasureInv

----------------------------------------------------------------------------
(* Types *)

LEMMA FaultType ==
  ASSUME TypeOK, Fault
  PROVE  faults' \in 0 .. MaxFaults
  BY ConstantsAssumption, SMT DEF ConstantsAssumption, TypeOK, Fault

LEMMA SendType ==
  ASSUME TypeOK, NEW c \in Calls, NEW e \in Events,
         \/ stream' = [stream EXCEPT ![c] = @ \cup {e}]
         \/ stream' = stream
  PROVE  stream' \in [Calls -> SUBSET Events]
  BY SMT DEF TypeOK

DeletionType == [asked : BOOLEAN, passes : 0 .. 2, completed : BOOLEAN, due : BOOLEAN,
                 lease : Jobs \cup {Nobody, Dead}, lapsed : BOOLEAN]

LEMMA TypeStep ==
  ASSUME TypeOK, ErasureInv, Next
  PROVE  TypeOK'
  <1> USE DEF TypeOK, calls, outbox, delivery, warehouse, erasure
  <1>1. ASSUME NEW c \in Calls, Dispatch(c) PROVE TypeOK'
    BY <1>1, SMT DEF Dispatch, Goto
  <1>2. ASSUME NEW c \in Calls, SendIntent(c) PROVE TypeOK'
    <2>1. faults' \in 0 .. MaxFaults
      BY <1>2, FaultType DEF SendIntent, Send, TypeOK
    <2>2. stream' \in [Calls -> SUBSET Events]
      <3>1. "incomplete" \in Events
        BY DEF Events
      <3> QED BY <1>2, <3>1, SendType DEF SendIntent, Send
    <2>3. call' \in [Calls -> {"none", "begin", "fallback", "ready", "running", "finish", "save",
                              "over", "refused", "dead"}]
      BY <1>2, SMT DEF SendIntent, Send, Goto
    <2>4. handle' \in [Calls -> {"none", "stream", "row"}]
      BY <1>2, SMT DEF SendIntent, Send
    <2> QED BY <1>2, <2>1, <2>2, <2>3, <2>4, Zenon DEF SendIntent
  <1>3. ASSUME NEW c \in Calls, InsertIntent(c) PROVE TypeOK'
    BY <1>3, FaultType, SMT DEF InsertIntent, Saved, Goto, FailClosed
  <1>4. ASSUME NEW c \in Calls, Decide(c) PROVE TypeOK'
    BY <1>4, SMT DEF Decide, Goto
  <1>5. ASSUME NEW c \in Calls, Answered(c) PROVE TypeOK'
    BY <1>5, SMT DEF Answered, Goto
  <1>6. ASSUME NEW c \in Calls, SendOutcome(c) PROVE TypeOK'
    <2>1. faults' \in 0 .. MaxFaults
      BY <1>6, FaultType DEF SendOutcome, Send, TypeOK
    <2>2. stream' \in [Calls -> SUBSET Events]
      <3>1. "outcome" \in Events
        BY DEF Events
      <3> QED BY <1>6, <3>1, SendType DEF SendOutcome, Send
    <2>3. call' \in [Calls -> {"none", "begin", "fallback", "ready", "running", "finish", "save",
                              "over", "refused", "dead"}]
      BY <1>6, SMT DEF SendOutcome, Send, Goto
    <2>4. told' \subseteq Calls
      BY <1>6, SMT DEF SendOutcome, Send, Tell
    <2> QED BY <1>6, <2>1, <2>2, <2>3, <2>4, Zenon DEF SendOutcome
  <1>7. ASSUME NEW c \in Calls, SaveOutcome(c) PROVE TypeOK'
    <2>1. faults' \in 0 .. MaxFaults
      BY <1>7, FaultType DEF SaveOutcome
    <2> QED BY <1>7, <2>1, SMT DEF SaveOutcome, Saved, Goto, Tell, Events
  <1>8. ASSUME NEW c \in Calls, UpdateRow(c) PROVE TypeOK'
    <2>1. faults' \in 0 .. MaxFaults
      BY <1>8, FaultType DEF UpdateRow
    <2> QED BY <1>8, <2>1, SMT DEF UpdateRow, Goto, Tell, Events
  <1>9. ASSUME NEW c \in Calls, CallDies(c) PROVE TypeOK'
    BY <1>9, FaultType, SMT DEF CallDies, Goto
  <1>10. ASSUME NEW c \in Calls, LeaseLapses(c) PROVE TypeOK'
    BY <1>10, FaultType, SMT DEF LeaseLapses
  <1>11. ASSUME NEW c \in Calls, Expire(c) PROVE TypeOK'
    BY <1>11, SMT DEF Expire
  <1>12. ASSUME NEW c \in Calls, Sink(c) PROVE TypeOK'
    BY <1>12, SMT DEF Sink
  <1>13. ASSUME NEW f \in Flushes, Claim(f) PROVE TypeOK'
    BY <1>13, SMT DEF Claim, Claimable
  <1>14. ASSUME NEW f \in Flushes, Deliver(f) PROVE TypeOK'
    <2>1. faults' \in 0 .. MaxFaults
      BY <1>14, FaultType DEF Deliver
    <2>2. stream' \in [Calls -> SUBSET Events]
      <3>1. CASE Arrive(batch[f])
        BY <3>1, SMT DEF Arrive
      <3> QED BY <1>14, <3>1 DEF Deliver
    <2>3. flush' \in [Flushes -> {"idle", "claimed", "sent", "failed"}]
      BY <1>14, SMT DEF Deliver
    <2> QED BY <1>14, <2>1, <2>2, <2>3, Zenon DEF Deliver
  <1>15. ASSUME NEW f \in Flushes, Accept(f) PROVE TypeOK'
    BY <1>15, FaultType, SMT DEF Accept, Release, Held
  <1>16. ASSUME NEW f \in Flushes, BackOff(f) PROVE TypeOK'
    BY <1>16, SMT DEF BackOff, Release, Held
  <1>17. ASSUME NEW f \in Flushes, FlushDies(f) PROVE TypeOK'
    BY <1>17, FaultType, SMT DEF FlushDies
  <1>18. CASE Reconcile
    BY <1>18, SMT DEF Reconcile, Stale, Events
  <1>19. CASE DeleteProject
    <2>1. deletion' \in DeletionType
      BY <1>19, Zenon DEF DeleteProject, DeletionType
    <2>2. /\ row' \in [Calls -> {"none", "started"} \cup Events]
          /\ lease' \in [Calls -> Flushes \cup {Nobody, Dead}]
      BY <1>19, SMT DEF DeleteProject
    <2> QED BY <1>19, <2>1, <2>2, Zenon DEF DeleteProject, DeletionType
  <1>20. ASSUME NEW j \in Jobs, JobClaims(j) PROVE TypeOK'
    <2>1. deletion' \in DeletionType
      BY <1>20, Zenon DEF JobClaims, DeletionType
    <2>3. job' \in [Jobs -> {"idle", "claimed", "erased"}]
      BY <1>20, SMT DEF JobClaims
    <2> QED BY <1>20, <2>1, <2>3, Zenon DEF JobClaims, DeletionType
  <1>21. ASSUME NEW j \in Jobs, JobErases(j) PROVE TypeOK'
    BY <1>21, SMT DEF JobErases
  <1>22. ASSUME NEW j \in Jobs, JobSettles(j) PROVE TypeOK'
    <2>1. deletion' \in DeletionType
      <3>1. CASE Holds(j)
        <4>1. deletion.passes \in 0 .. 2 /\ deletion.passes # 2
          BY <3>1 DEF Holds, ErasureInv
        <4>2. deletion.passes + 1 \in 0 .. 2 /\ LastPass \in BOOLEAN
          BY <4>1, SMT DEF LastPass
        <4> QED BY <1>22, <3>1, <4>2, Zenon DEF JobSettles, DeletionType
      <3> QED BY <1>22, <3>1 DEF JobSettles, DeletionType
    <2>3. job' \in [Jobs -> {"idle", "claimed", "erased"}]
      BY <1>22, SMT DEF JobSettles
    <2> QED BY <1>22, <2>1, <2>3, Zenon DEF JobSettles, DeletionType
  <1>23. ASSUME NEW j \in Jobs, JobFails(j) PROVE TypeOK'
    <2>1. deletion' \in DeletionType
      BY <1>23, Zenon DEF JobFails, DeletionType, Holds
    <2>2. faults' \in 0 .. MaxFaults
      BY <1>23, FaultType DEF JobFails
    <2>3. job' \in [Jobs -> {"idle", "claimed", "erased"}]
      BY <1>23, SMT DEF JobFails
    <2> QED BY <1>23, <2>1, <2>2, <2>3, Zenon DEF JobFails, DeletionType
  <1>24. ASSUME NEW j \in Jobs, JobDies(j) PROVE TypeOK'
    BY <1>24, FaultType, SMT DEF JobDies
  <1>25. CASE DeletionLapses
    <2>1. deletion' \in DeletionType
      BY <1>25, Zenon DEF DeletionLapses, DeletionType
    <2>2. faults' \in 0 .. MaxFaults
      BY <1>25, FaultType DEF DeletionLapses
    <2> QED BY <1>25, <2>1, <2>2, Zenon DEF DeletionLapses, DeletionType
  <1>26. CASE ADayPasses
    <2>1. deletion' \in DeletionType
      BY <1>26, Zenon DEF ADayPasses, DeletionType
    <2> QED BY <1>26, <2>1, Zenon DEF ADayPasses, DeletionType
  <1> QED BY <1>1, <1>2, <1>3, <1>4, <1>5, <1>6, <1>7, <1>8, <1>9, <1>10, <1>11, <1>12, <1>13,
             <1>14, <1>15, <1>16, <1>17, <1>18, <1>19, <1>20, <1>21, <1>22, <1>23, <1>24, <1>25,
             <1>26
             DEF Next, Work, Flush, Job

----------------------------------------------------------------------------
(* What a step may do *)

\* To what was sent, and to the project.
SentMoves(c) ==
  /\ Sent(c) => Sent(c)' \/ \E j \in Jobs : job[j] # "idle"
  /\ archive'[c] # {} => archive[c] # {} \/ stream[c] # {}
  /\ row[c] # "none" => row'[c] # "none" \/ c \in accepted \/ deletion'.asked = TRUE
  /\ call'[c] \in {"ready", "running"} \/ c \in ran' =>
       call[c] \in {"ready", "running"} \/ c \in ran \/ row'[c] # "none" \/ stream'[c] # {}

LEMMA SentStep ==
  ASSUME TypeOK, Next, NEW d \in Calls
  PROVE  SentMoves(d)
  <1> USE DEF TypeOK, SentMoves, Sent, calls, outbox, delivery, warehouse, erasure
  <1>1. ASSUME NEW c \in Calls, Dispatch(c) PROVE SentMoves(d)
    BY <1>1, SMT DEF Dispatch, Goto
  <1>2. ASSUME NEW c \in Calls, SendIntent(c) PROVE SentMoves(d)
    <2>1. UNCHANGED <<ran, row, archive, deletion>>
      BY <1>2 DEF SendIntent
    <2>4. \/ /\ stream' = [stream EXCEPT ![c] = @ \cup {"incomplete"}]
             /\ call' = [call EXCEPT ![c] = "ready"]
          \/ /\ stream' = [stream EXCEPT ![c] = @ \cup {"incomplete"}] \/ stream' = stream
             /\ call' = [call EXCEPT ![c] = "fallback"]
      BY <1>2 DEF SendIntent, Send, Goto
    <2>6. stream \in [Calls -> SUBSET Events]
      BY DEF TypeOK
    <2>5. stream[d] \subseteq stream'[d]
      <3>1. CASE stream' = stream
        BY <3>1
      <3>2. CASE stream' = [stream EXCEPT ![c] = @ \cup {"incomplete"}]
        <4>1. stream'[d] = IF d = c THEN stream[d] \cup {"incomplete"} ELSE stream[d]
          BY <2>6, <3>2, Zenon
        <4> QED BY <4>1
      <3> QED BY <2>4, <3>1, <3>2
    <2>2. \/ stream'[c] # {} /\ call' = [call EXCEPT ![c] = "ready"]
          \/ call' = [call EXCEPT ![c] = "fallback"]
      <3>1. stream' = [stream EXCEPT ![c] = @ \cup {"incomplete"}] =>
              stream'[c] = stream[c] \cup {"incomplete"}
        BY <2>6, Zenon
      <3> QED BY <2>4, <3>1
    <2>3. call'[d] \in {"ready", "running"} => call[d] \in {"ready", "running"} \/ stream'[d] # {}
      BY <2>2, SMT
    <2> QED BY <2>1, <2>3, <2>5
  <1>3. ASSUME NEW c \in Calls, InsertIntent(c) PROVE SentMoves(d)
    BY <1>3, SMT DEF InsertIntent, Goto, FailClosed
  <1>4. ASSUME NEW c \in Calls, Decide(c) PROVE SentMoves(d)
    BY <1>4, SMT DEF Decide, Goto
  <1>5. ASSUME NEW c \in Calls, Answered(c) PROVE SentMoves(d)
    BY <1>5, SMT DEF Answered, Goto
  <1>6. ASSUME NEW c \in Calls, SendOutcome(c) PROVE SentMoves(d)
    BY <1>6, SMT DEF SendOutcome, Goto, Send, Tell
  <1>7. ASSUME NEW c \in Calls, SaveOutcome(c) PROVE SentMoves(d)
    BY <1>7, SMT DEF SaveOutcome, Goto, Tell
  <1>8. ASSUME NEW c \in Calls, UpdateRow(c) PROVE SentMoves(d)
    BY <1>8, SMT DEF UpdateRow, Goto, Tell
  <1>9. ASSUME NEW c \in Calls, CallDies(c) PROVE SentMoves(d)
    BY <1>9, SMT DEF CallDies, Goto
  <1>10. ASSUME NEW c \in Calls, LeaseLapses(c) PROVE SentMoves(d)
    BY <1>10, SMT DEF LeaseLapses
  <1>11. ASSUME NEW c \in Calls, Expire(c) PROVE SentMoves(d)
    BY <1>11, SMT DEF Expire
  <1>12. ASSUME NEW c \in Calls, Sink(c) PROVE SentMoves(d)
    BY <1>12, SMT DEF Sink
  <1>13. ASSUME NEW f \in Flushes, Claim(f) PROVE SentMoves(d)
    BY <1>13, SMT DEF Claim, Claimable
  <1>14. ASSUME NEW f \in Flushes, Deliver(f) PROVE SentMoves(d)
    <2>1. ASSUME Arrive(batch[f]) PROVE stream[d] # {} => stream'[d] # {}
      <3>1. stream'[d] = stream[d] \cup {e \in Events : <<d, e>> \in batch[f]}
        BY <2>1, Zenon DEF Arrive
      <3> QED BY <3>1
    <2>2. stream[d] # {} => stream'[d] # {}
      BY <1>14, <2>1 DEF Deliver
    <2> QED BY <1>14, <2>2, SMT DEF Deliver
  <1>15. ASSUME NEW f \in Flushes, Accept(f) PROVE SentMoves(d)
    BY <1>15, SMT DEF Accept, Release, Held
  <1>16. ASSUME NEW f \in Flushes, BackOff(f) PROVE SentMoves(d)
    BY <1>16, SMT DEF BackOff, Release, Held
  <1>17. ASSUME NEW f \in Flushes, FlushDies(f) PROVE SentMoves(d)
    BY <1>17, SMT DEF FlushDies
  <1>18. CASE Reconcile
    BY <1>18, SMT DEF Reconcile, Stale
  <1>19. CASE DeleteProject
    BY <1>19, SMT DEF DeleteProject
  <1>20. ASSUME NEW j \in Jobs, JobClaims(j) PROVE SentMoves(d)
    BY <1>20, SMT DEF JobClaims
  <1>21. ASSUME NEW j \in Jobs, JobErases(j) PROVE SentMoves(d)
    BY <1>21, SMT DEF JobErases
  <1>22. ASSUME NEW j \in Jobs, JobSettles(j) PROVE SentMoves(d)
    BY <1>22, SMT DEF JobSettles, Holds, LastPass
  <1>23. ASSUME NEW j \in Jobs, JobFails(j) PROVE SentMoves(d)
    BY <1>23, SMT DEF JobFails, Holds
  <1>24. ASSUME NEW j \in Jobs, JobDies(j) PROVE SentMoves(d)
    BY <1>24, SMT DEF JobDies
  <1>25. CASE DeletionLapses
    BY <1>25, SMT DEF DeletionLapses
  <1>26. CASE ADayPasses
    BY <1>26, SMT DEF ADayPasses
  <1> QED BY <1>1, <1>2, <1>3, <1>4, <1>5, <1>6, <1>7, <1>8, <1>9, <1>10, <1>11, <1>12, <1>13,
             <1>14, <1>15, <1>16, <1>17, <1>18, <1>19, <1>20, <1>21, <1>22, <1>23, <1>24, <1>25,
             <1>26
             DEF Next, Work, Flush, Job

\* A step adds a row to a deleted project by a late save alone.
RowMoves(c) ==
  /\ late \subseteq late'
  /\ deletion.asked = TRUE /\ row[c] = "none" => row'[c] = "none" \/ c \in late'
  /\ ~(deletion.asked = TRUE) /\ deletion'.asked = TRUE => row'[c] = "none"

LEMMA RowStep ==
  ASSUME TypeOK, ErasureInv, Next, NEW d \in Calls
  PROVE  RowMoves(d)
  <1> USE DEF TypeOK, RowMoves, calls, outbox, delivery, warehouse, erasure
  <1>1. ASSUME NEW c \in Calls, Dispatch(c) PROVE RowMoves(d)
    BY <1>1, SMT DEF Dispatch, Goto, Deleted
  <1>2. ASSUME NEW c \in Calls, SendIntent(c) PROVE RowMoves(d)
    BY <1>2, SMT DEF SendIntent, Goto, Send
  <1>3. ASSUME NEW c \in Calls, InsertIntent(c) PROVE RowMoves(d)
    BY <1>3, SMT DEF InsertIntent, Goto, FailClosed, Saved, Deleted
  <1>4. ASSUME NEW c \in Calls, Decide(c) PROVE RowMoves(d)
    BY <1>4, SMT DEF Decide, Goto
  <1>5. ASSUME NEW c \in Calls, Answered(c) PROVE RowMoves(d)
    BY <1>5, SMT DEF Answered, Goto
  <1>6. ASSUME NEW c \in Calls, SendOutcome(c) PROVE RowMoves(d)
    BY <1>6, SMT DEF SendOutcome, Goto, Send, Tell
  <1>7. ASSUME NEW c \in Calls, SaveOutcome(c) PROVE RowMoves(d)
    BY <1>7, SMT DEF SaveOutcome, Goto, Tell, Saved, Deleted
  <1>8. ASSUME NEW c \in Calls, UpdateRow(c) PROVE RowMoves(d)
    BY <1>8, SMT DEF UpdateRow, Goto, Tell
  <1>9. ASSUME NEW c \in Calls, CallDies(c) PROVE RowMoves(d)
    BY <1>9, SMT DEF CallDies, Goto
  <1>10. ASSUME NEW c \in Calls, LeaseLapses(c) PROVE RowMoves(d)
    BY <1>10, SMT DEF LeaseLapses
  <1>11. ASSUME NEW c \in Calls, Expire(c) PROVE RowMoves(d)
    BY <1>11, SMT DEF Expire
  <1>12. ASSUME NEW c \in Calls, Sink(c) PROVE RowMoves(d)
    BY <1>12, SMT DEF Sink
  <1>13. ASSUME NEW f \in Flushes, Claim(f) PROVE RowMoves(d)
    BY <1>13, SMT DEF Claim, Claimable, Events
  <1>14. ASSUME NEW f \in Flushes, Deliver(f) PROVE RowMoves(d)
    BY <1>14, SMT DEF Deliver, Arrive
  <1>15. ASSUME NEW f \in Flushes, Accept(f) PROVE RowMoves(d)
    BY <1>15, SMT DEF Accept, Release, Held
  <1>16. ASSUME NEW f \in Flushes, BackOff(f) PROVE RowMoves(d)
    BY <1>16, SMT DEF BackOff, Release, Held
  <1>17. ASSUME NEW f \in Flushes, FlushDies(f) PROVE RowMoves(d)
    BY <1>17, SMT DEF FlushDies
  <1>18. CASE Reconcile
    BY <1>18, SMT DEF Reconcile, Stale
  <1>19. CASE DeleteProject
    BY <1>19, SMT DEF DeleteProject, Deleted
  <1>20. ASSUME NEW j \in Jobs, JobClaims(j) PROVE RowMoves(d)
    <2>1. deletion'.asked = deletion.asked
      BY <1>20, Zenon DEF JobClaims, Holds, LastPass, TypeOK
    <2> QED BY <1>20, <2>1, SMT DEF JobClaims
  <1>21. ASSUME NEW j \in Jobs, JobErases(j) PROVE RowMoves(d)
    BY <1>21, SMT DEF JobErases
  <1>22. ASSUME NEW j \in Jobs, JobSettles(j) PROVE RowMoves(d)
    <2>1. deletion'.asked = deletion.asked
      BY <1>22, Zenon DEF JobSettles, Holds, LastPass, TypeOK
    <2> QED BY <1>22, <2>1, SMT DEF JobSettles
  <1>23. ASSUME NEW j \in Jobs, JobFails(j) PROVE RowMoves(d)
    <2>1. deletion'.asked = deletion.asked
      BY <1>23, Zenon DEF JobFails, Holds, LastPass, TypeOK
    <2> QED BY <1>23, <2>1, SMT DEF JobFails
  <1>24. ASSUME NEW j \in Jobs, JobDies(j) PROVE RowMoves(d)
    <2>1. deletion'.asked = deletion.asked
      BY <1>24, Zenon DEF JobDies, Holds, LastPass, TypeOK
    <2> QED BY <1>24, <2>1, SMT DEF JobDies
  <1>25. CASE DeletionLapses
    <2>1. deletion'.asked = deletion.asked
      BY <1>25, Zenon DEF DeletionLapses, Holds, LastPass, TypeOK
    <2> QED BY <1>25, <2>1, SMT DEF DeletionLapses
  <1>26. CASE ADayPasses
    <2>1. deletion'.asked = deletion.asked
      BY <1>26, Zenon DEF ADayPasses, Holds, LastPass, TypeOK
    <2> QED BY <1>26, <2>1, SMT DEF ADayPasses
  <1> QED BY <1>1, <1>2, <1>3, <1>4, <1>5, <1>6, <1>7, <1>8, <1>9, <1>10, <1>11, <1>12, <1>13,
             <1>14, <1>15, <1>16, <1>17, <1>18, <1>19, <1>20, <1>21, <1>22, <1>23, <1>24, <1>25,
             <1>26
             DEF Next, Work, Flush, Job

Quiet ==
  \A c \in Calls : /\ call[c] \in {"none", "over", "refused", "dead"}
                   /\ c \notin late => row[c] = "none" /\ ~Moving(c)

LEMMA QuietIs ==
  ASSUME Deleted, ErasureInv
  PROVE  ~InFlight <=> Quiet
  BY DEF ErasureInv, InFlight, Quiet, Over

\* To a call of a deleted project that is over and has no late row, and to what
\* the deliveries claimed.
QuietMoves(c) ==
  /\ call'[c] = call[c]
  /\ c \notin late' => c \notin late /\ row'[c] = "none" /\ stream'[c] = {}
  /\ \A f \in Flushes : \/ batch'[f] = batch[f] \/ batch'[f] = {}
                        \/ batch'[f] = {<<b, row[b]>> : b \in Claimable}

LEMMA QuietStep ==
  ASSUME TypeOK, Deleted, Next, NEW d \in Calls,
         call[d] \in {"none", "over", "refused", "dead"},
         d \notin late => row[d] = "none" /\ ~Moving(d)
  PROVE  QuietMoves(d)
  <1> USE DEF TypeOK, QuietMoves, calls, outbox, delivery, warehouse, erasure
  <1>0. d \notin late => /\ row[d] = "none" /\ stream[d] = {}
                         /\ \A f \in Flushes : \A e \in Events : <<d, e>> \notin batch[f]
    BY DEF Moving
  <1>1. ASSUME NEW c \in Calls, Dispatch(c) PROVE QuietMoves(d)
    BY <1>1, <1>0, SMT DEF Dispatch, Goto, Deleted
  <1>2. ASSUME NEW c \in Calls, SendIntent(c) PROVE QuietMoves(d)
    BY <1>2, <1>0, SMT DEF SendIntent, Goto, Send
  <1>3. ASSUME NEW c \in Calls, InsertIntent(c) PROVE QuietMoves(d)
    BY <1>3, <1>0, SMT DEF InsertIntent, Goto, FailClosed, Saved
  <1>4. ASSUME NEW c \in Calls, Decide(c) PROVE QuietMoves(d)
    BY <1>4, <1>0, SMT DEF Decide, Goto
  <1>5. ASSUME NEW c \in Calls, Answered(c) PROVE QuietMoves(d)
    BY <1>5, <1>0, SMT DEF Answered, Goto
  <1>6. ASSUME NEW c \in Calls, SendOutcome(c) PROVE QuietMoves(d)
    BY <1>6, <1>0, SMT DEF SendOutcome, Goto, Send, Tell
  <1>7. ASSUME NEW c \in Calls, SaveOutcome(c) PROVE QuietMoves(d)
    BY <1>7, <1>0, SMT DEF SaveOutcome, Goto, Tell, Saved
  <1>8. ASSUME NEW c \in Calls, UpdateRow(c) PROVE QuietMoves(d)
    <2>1. c # d
      BY <1>8 DEF UpdateRow
    <2>2. call' = [call EXCEPT ![c] = "over"] /\ UNCHANGED <<late, stream, batch>>
      BY <1>8 DEF UpdateRow, Goto
    <2>3. row' = [row EXCEPT ![c] = "outcome"] \/ row' = row
      BY <1>8 DEF UpdateRow
    <2> QED BY <1>0, <2>1, <2>2, <2>3, SMT
  <1>9. ASSUME NEW c \in Calls, CallDies(c) PROVE QuietMoves(d)
    BY <1>9, <1>0, SMT DEF CallDies, Goto, Over
  <1>10. ASSUME NEW c \in Calls, LeaseLapses(c) PROVE QuietMoves(d)
    BY <1>10, <1>0, SMT DEF LeaseLapses
  <1>11. ASSUME NEW c \in Calls, Expire(c) PROVE QuietMoves(d)
    BY <1>11, <1>0, SMT DEF Expire
  <1>12. ASSUME NEW c \in Calls, Sink(c) PROVE QuietMoves(d)
    BY <1>12, <1>0, SMT DEF Sink
  <1>13. ASSUME NEW f \in Flushes, Claim(f) PROVE QuietMoves(d)
    <2>1. /\ batch' = [batch EXCEPT ![f] = {<<b, row[b]>> : b \in Claimable}]
          /\ UNCHANGED <<call, late, row, stream>>
      BY <1>13 DEF Claim
    <2>2. \A g \in Flushes : batch'[g] = batch[g] \/ batch'[g] = {<<b, row[b]>> : b \in Claimable}
      BY <2>1, Zenon
    <2> QED BY <1>0, <2>1, <2>2, Zenon
  <1>14. ASSUME NEW f \in Flushes, Deliver(f) PROVE QuietMoves(d)
    <2>1. d \notin late => stream'[d] = {}
      <3>1. Arrive(batch[f]) => stream'[d] = stream[d] \cup {e \in Events : <<d, e>> \in batch[f]}
        BY Zenon DEF Arrive
      <3> QED BY <1>0, <1>14, <3>1 DEF Deliver
    <2>2. UNCHANGED <<call, late, row, batch>>
      BY <1>14 DEF Deliver
    <2> QED BY <1>0, <2>1, <2>2, Zenon
  <1>15. ASSUME NEW f \in Flushes, Accept(f) PROVE QuietMoves(d)
    BY <1>15, <1>0, SMT DEF Accept, Release, Held
  <1>16. ASSUME NEW f \in Flushes, BackOff(f) PROVE QuietMoves(d)
    BY <1>16, <1>0, SMT DEF BackOff, Release, Held
  <1>17. ASSUME NEW f \in Flushes, FlushDies(f) PROVE QuietMoves(d)
    BY <1>17, <1>0, SMT DEF FlushDies
  <1>18. CASE Reconcile
    BY <1>18, <1>0, SMT DEF Reconcile, Stale
  <1>19. CASE DeleteProject
    BY <1>19, <1>0, SMT DEF DeleteProject, Deleted
  <1>20. ASSUME NEW j \in Jobs, JobClaims(j) PROVE QuietMoves(d)
    BY <1>20, <1>0, SMT DEF JobClaims
  <1>21. ASSUME NEW j \in Jobs, JobErases(j) PROVE QuietMoves(d)
    BY <1>21, <1>0, SMT DEF JobErases
  <1>22. ASSUME NEW j \in Jobs, JobSettles(j) PROVE QuietMoves(d)
    BY <1>22, <1>0, SMT DEF JobSettles
  <1>23. ASSUME NEW j \in Jobs, JobFails(j) PROVE QuietMoves(d)
    BY <1>23, <1>0, SMT DEF JobFails
  <1>24. ASSUME NEW j \in Jobs, JobDies(j) PROVE QuietMoves(d)
    BY <1>24, <1>0, SMT DEF JobDies
  <1>25. CASE DeletionLapses
    BY <1>25, <1>0, SMT DEF DeletionLapses
  <1>26. CASE ADayPasses
    BY <1>26, <1>0, SMT DEF ADayPasses
  <1> QED BY <1>1, <1>2, <1>3, <1>4, <1>5, <1>6, <1>7, <1>8, <1>9, <1>10, <1>11, <1>12, <1>13,
             <1>14, <1>15, <1>16, <1>17, <1>18, <1>19, <1>20, <1>21, <1>22, <1>23, <1>24, <1>25,
             <1>26
             DEF Next, Work, Flush, Job

LEMMA QuietCallStays ==
  ASSUME TypeOK, Deleted, Quiet, Next, NEW d \in Calls
  PROVE  /\ call'[d] = call[d]
         /\ d \notin late' => d \notin late /\ row'[d] = "none" /\ ~Moving(d)'
  <1>1. QuietMoves(d)
    BY QuietStep DEF Quiet
  <1>2. ASSUME d \notin late', NEW f \in Flushes, NEW e \in Events PROVE <<d, e>> \notin batch'[f]
    <2>1. row[d] = "none" /\ <<d, e>> \notin batch[f]
      BY <1>1, <1>2 DEF QuietMoves, Quiet, Moving
    <2>2. d \notin Claimable
      BY <2>1 DEF Claimable, Events
    <2> QED BY <1>1, <2>1, <2>2 DEF QuietMoves
  <1> QED BY <1>1, <1>2 DEF QuietMoves, Moving

LEMMA QuietStays ==
  ASSUME TypeOK, Deleted, Quiet, Next
  PROVE  Quiet'
  BY QuietCallStays DEF Quiet

LEMMA SafeStays ==
  ASSUME TypeOK, Next, Deleted, Quiet, \A c \in Calls \ late : archive[c] = {}
  PROVE  \A c \in Calls \ late' : archive'[c] = {}
  <1>1. ASSUME NEW c \in Calls, c \notin late' PROVE archive'[c] = {}
    <2>1. c \notin late
      BY <1>1, QuietCallStays
    <2>2. archive[c] = {} /\ stream[c] = {}
      BY <1>1, <2>1 DEF Quiet, Moving
    <2> QED BY <2>2, SentStep DEF SentMoves
  <1> QED BY <1>1

----------------------------------------------------------------------------
(* The invariants are kept *)

LEMMA ErasureStep ==
  ASSUME TypeOK, ErasureInv, Next
  PROVE  ErasureInv' /\ (Deleted => Deleted')
  <1>1. deletion \in DeletionType /\ Nobody \notin Jobs
    BY ConstantsAssumption DEF ConstantsAssumption, TypeOK, DeletionType
  <1>2. deletion.passes \in 0 .. 2
    BY <1>1 DEF DeletionType
  <1>3. deletion.passes >= 1 /\ deletion.due => Quiet /\ Quiet'
    BY QuietIs, QuietStays DEF ErasureInv
  <1>14. Deleted' => \A c \in Calls \ late' : row'[c] = "none"
    <2>1. deletion'.asked \in BOOLEAN /\ deletion.asked \in BOOLEAN
      BY <1>1, TypeStep DEF TypeOK, DeletionType
    <2> QED BY <2>1, RowStep DEF RowMoves, ErasureInv, Deleted
  <1>15. Quiet' => ~InFlight'
    BY DEF InFlight, Quiet, Over
  <1>4. deletion.completed => deletion.passes >= 1
    BY SMT DEF ErasureInv
  <1>5. ASSUME deletion'.passes = deletion.passes, deletion'.completed = deletion.completed,
               deletion'.due = deletion.due, deletion'.asked = deletion.asked,
               deletion'.lease # Nobody => deletion.lease # Nobody,
               \A j \in Jobs : deletion'.lease = j => deletion.lease = j,
               \A j \in Jobs : job'[j] = job[j] \/ job'[j] = "idle"
        PROVE  ErasureInv' /\ (Deleted => Deleted')
    <2>1. ASSUME NEW j \in Jobs, job'[j] = "erased", deletion'.lease = j, deletion'.passes >= 1
          PROVE  \A c \in Calls \ late' : archive'[c] = {}
      <3>1. job[j] = "erased" /\ deletion.lease = j /\ deletion.passes >= 1 /\ deletion.due
        BY <1>1, <1>5, <2>1 DEF ErasureInv
      <3> QED BY <1>3, <3>1, SafeStays DEF ErasureInv
    <2>2. deletion.completed => \A c \in Calls \ late' : archive'[c] = {}
      BY <1>3, <1>4, SafeStays DEF ErasureInv
    <2>3. deletion'.passes >= 1 => Deleted' /\ (deletion'.due => ~InFlight')
      BY <1>3, <1>5, <1>15 DEF ErasureInv, Deleted
    <2>4. \A j \in Jobs : job'[j] # "idle" => Deleted'
      BY <1>5 DEF ErasureInv, Deleted
    <2> QED BY <1>5, <1>14, <2>1, <2>2, <2>3, <2>4 DEF ErasureInv, Deleted
  <1>6. CASE UNCHANGED erasure
    BY <1>5, <1>6 DEF erasure
  <1>7. CASE DeleteProject
    <2>1. /\ deletion' = [deletion EXCEPT !.asked = TRUE] /\ UNCHANGED <<archive, job>>
          /\ ~Deleted
      BY <1>7 DEF DeleteProject, warehouse
    <2>2. /\ deletion'.passes = deletion.passes /\ deletion'.completed = deletion.completed
          /\ deletion'.due = deletion.due /\ deletion'.lease = deletion.lease
          /\ deletion'.asked = TRUE
      BY <1>1, <2>1, Zenon DEF DeletionType
    <2> QED BY <1>4, <1>14, <2>1, <2>2 DEF ErasureInv, Deleted
  <1>8. ASSUME NEW j \in Jobs, JobClaims(j) PROVE ErasureInv' /\ (Deleted => Deleted')
    <2>1. /\ deletion' = [deletion EXCEPT !.lease = j, !.lapsed = FALSE]
          /\ job' = [job EXCEPT ![j] = "claimed"]
          /\ Deleted /\ deletion.due /\ ~deletion.completed
          /\ UNCHANGED <<calls, outbox, delivery, warehouse>>
      BY <1>8 DEF JobClaims
    <2>2. /\ deletion'.passes = deletion.passes /\ deletion'.completed = deletion.completed
          /\ deletion'.due = deletion.due /\ deletion'.lease = j
          /\ deletion'.asked = deletion.asked
      BY <1>1, <2>1, Zenon DEF DeletionType
    <2>3. job'[j] = "claimed"
      BY <2>1, SMT DEF TypeOK
    <2>4. deletion'.passes >= 1 => ~InFlight'
      BY <1>3, <1>15, <2>1, <2>2
    <2> QED BY <1>14, <2>1, <2>2, <2>3, <2>4 DEF ErasureInv, Deleted
  <1>9. ASSUME NEW j \in Jobs, JobErases(j) PROVE ErasureInv' /\ (Deleted => Deleted')
    <2>1. /\ UNCHANGED deletion /\ job[j] = "claimed" /\ job' = [job EXCEPT ![j] = "erased"]
          /\ \A c \in Calls : archive'[c] = {}
      BY <1>9, Zenon DEF JobErases
    <2>2. \A k \in Jobs : job'[k] # "idle" => job[k] # "idle"
      BY <2>1, SMT DEF TypeOK
    <2>3. deletion'.passes >= 1 /\ deletion'.due => ~InFlight'
      BY <1>3, <1>15, <2>1
    <2> QED BY <1>14, <2>1, <2>2, <2>3 DEF ErasureInv, Deleted
  <1>10. ASSUME NEW j \in Jobs, JobSettles(j) PROVE ErasureInv' /\ (Deleted => Deleted')
    <2>1. job[j] = "erased" /\ job' = [job EXCEPT ![j] = "idle"] /\ UNCHANGED <<archive, late>>
      BY <1>10 DEF JobSettles, warehouse, calls
    <2>2. \A k \in Jobs : job'[k] = job[k] \/ job'[k] = "idle"
      BY <2>1, SMT DEF TypeOK
    <2>3. CASE Holds(j)
      <3>1. deletion' = [deletion EXCEPT !.passes = @ + 1, !.completed = LastPass, !.due = LastPass,
                                         !.lease = Nobody, !.lapsed = FALSE]
        BY <1>10, <2>3 DEF JobSettles
      <3>2. /\ deletion'.passes = deletion.passes + 1 /\ deletion'.completed = LastPass
            /\ deletion'.due = LastPass /\ deletion'.lease = Nobody
            /\ deletion'.asked = deletion.asked
        BY <1>1, <3>1, Zenon DEF DeletionType
      <3>3. deletion.lease = j /\ deletion.passes # 2 /\ deletion.due /\ Deleted
        BY <1>1, <2>1, <2>3 DEF Holds, ErasureInv
      <3>4. LastPass <=> deletion.passes = 1
        BY <1>2, <3>3, SMT DEF LastPass
      <3>5. LastPass <=> deletion'.passes = 2
        BY <1>2, <3>2, <3>4, SMT
      <3>6. LastPass => Quiet' /\ \A c \in Calls \ late' : archive'[c] = {}
        <4>1. deletion.passes = 1 => deletion.passes >= 1
          BY SMT
        <4> QED BY <1>3, <2>1, <3>3, <3>4, <4>1 DEF ErasureInv
      <3>7. LastPass => ~InFlight'
        BY <1>15, <3>6
      <3> QED BY <1>1, <1>14, <2>2, <3>2, <3>3, <3>5, <3>6, <3>7 DEF ErasureInv, Deleted
    <2>4. CASE ~Holds(j)
      BY <1>5, <1>10, <2>2, <2>4 DEF JobSettles
    <2> QED BY <2>3, <2>4
  <1>11. ASSUME NEW j \in Jobs, JobFails(j) \/ JobDies(j) PROVE ErasureInv' /\ (Deleted => Deleted')
    <2>1. \A k \in Jobs : job'[k] = job[k] \/ job'[k] = "idle"
      BY <1>11, SMT DEF TypeOK, JobFails, JobDies
    <2>2. \/ deletion' = deletion
          \/ Holds(j) /\ deletion' = [deletion EXCEPT !.lease = Nobody, !.lapsed = FALSE]
          \/ deletion.lease = j /\ deletion' = [deletion EXCEPT !.lease = Dead]
      BY <1>11 DEF JobFails, JobDies
    <2>3. /\ deletion'.passes = deletion.passes /\ deletion'.completed = deletion.completed
          /\ deletion'.due = deletion.due /\ deletion'.asked = deletion.asked
          /\ deletion'.lease = deletion.lease \/ deletion'.lease = Nobody
               \/ (deletion'.lease = Dead /\ deletion.lease = j)
      BY <1>1, <2>2, Zenon DEF DeletionType
    <2>4. \A k \in Jobs : k # Nobody /\ k # Dead
      BY ConstantsAssumption DEF ConstantsAssumption
    <2> QED BY <1>1, <1>5, <2>1, <2>3, <2>4
  <1>12. CASE DeletionLapses
    <2>1. deletion' = [deletion EXCEPT !.lapsed = TRUE] /\ job' = job
      BY <1>12 DEF DeletionLapses
    <2>2. /\ deletion'.passes = deletion.passes /\ deletion'.completed = deletion.completed
          /\ deletion'.due = deletion.due /\ deletion'.asked = deletion.asked
          /\ deletion'.lease = deletion.lease
      BY <1>1, <2>1, Zenon DEF DeletionType
    <2> QED BY <1>5, <2>1, <2>2
  <1>13. CASE ADayPasses
    <2>1. /\ deletion' = [deletion EXCEPT !.due = TRUE] /\ Deleted /\ ~deletion.due /\ ~InFlight
          /\ UNCHANGED <<calls, outbox, delivery, warehouse, job>>
      BY <1>13 DEF ADayPasses
    <2>2. /\ deletion'.passes = deletion.passes /\ deletion'.completed = deletion.completed
          /\ deletion'.due = TRUE /\ deletion'.asked = deletion.asked
          /\ deletion'.lease = deletion.lease
      BY <1>1, <2>1, Zenon DEF DeletionType
    <2>3. ~InFlight'
      BY <1>15, <2>1, QuietIs, QuietStays
    <2> QED BY <1>1, <1>14, <2>1, <2>2, <2>3 DEF ErasureInv, Deleted
  <1> QED
    <2>1. ASSUME NEW c \in Calls, Dispatch(c) \/ Work(c) \/ CallDies(c) \/ LeaseLapses(c) \/ Expire(c) \/ Sink(c)
          PROVE  UNCHANGED erasure
      BY <2>1 DEF Dispatch, Work, SendIntent, InsertIntent, Decide, Answered, SendOutcome, SaveOutcome,
                  UpdateRow, CallDies, LeaseLapses, Expire, Sink
    <2>2. ASSUME NEW f \in Flushes, Flush(f) \/ FlushDies(f) PROVE UNCHANGED erasure
      BY <2>2 DEF Flush, Claim, Deliver, Accept, BackOff, FlushDies
    <2>3. CASE Reconcile
      BY <1>6, <2>3 DEF Reconcile
    <2> QED BY <1>6, <1>7, <1>8, <1>9, <1>10, <1>11, <1>12, <1>13, <2>1, <2>2, <2>3 DEF Next, Job

LEMMA SentStays ==
  ASSUME TypeOK, ErasureInv, Next, NEW c \in Calls, Sent(c) \/ Deleted
  PROVE  (Sent(c) \/ Deleted)'
  <1>1. CASE Deleted
    BY <1>1, ErasureStep
  <1>2. CASE Sent(c) /\ ~Deleted
    <2>1. \A j \in Jobs : job[j] = "idle"
      BY <1>2 DEF ErasureInv
    <2> QED BY <1>2, <2>1, SentStep DEF SentMoves
  <1> QED BY <1>1, <1>2

LEMMA RecordStep ==
  ASSUME TypeOK, DeliveryInv, RecordInv, ErasureInv, Next
  PROVE  RecordInv'
  <1>1. ASSUME NEW c \in Calls, call'[c] \in {"ready", "running"} \/ c \in ran'
        PROVE  (Durable(c) \/ Deleted)'
    <2>1. CASE row'[c] # "none" \/ stream'[c] # {}
      BY <2>1 DEF Durable
    <2>2. CASE call[c] \in {"ready", "running"} \/ c \in ran
      <3>1. row[c] # "none" \/ Sent(c) \/ Deleted
        BY <2>2 DEF RecordInv, Durable, Sent
      <3>2. CASE Sent(c) \/ Deleted
        BY <3>2, SentStays DEF Sent, Durable
      <3>3. CASE row[c] # "none"
        <4>1. c \in accepted => Sent(c) \/ Deleted
          BY DEF DeliveryInv
        <4>2. row'[c] # "none" \/ c \in accepted \/ deletion'.asked = TRUE
          BY <3>3, SentStep DEF SentMoves
        <4> QED BY <3>2, <4>1, <4>2 DEF Durable, Deleted
      <3> QED BY <3>1, <3>2, <3>3
    <2> QED BY <1>1, <2>1, <2>2, SentStep DEF SentMoves
  <1> QED BY <1>1 DEF RecordInv

\* Who holds the lease of c.
Holding(f, c) ==
  /\ flush[f] # "idle"
  /\ \E e \in Events : <<c, e>> \in batch[f]
  /\ flush[f] = "sent" => Sent(c) \/ Deleted

LEMMA DeliveryStep ==
  ASSUME TypeOK, DeliveryInv, ErasureInv, Next
  PROVE  DeliveryInv'
  <1>1. \A f \in Flushes, c \in Calls : lease[c] = f => Holding(f, c)
    BY DEF DeliveryInv, Holding
  <1>2. \A c \in Calls : Sent(c) \/ Deleted => (Sent(c) \/ Deleted)'
    BY SentStays
  <1>3. ASSUME accepted' \subseteq accepted PROVE \A c \in accepted' : (Sent(c) \/ Deleted)'
    BY <1>2, <1>3 DEF DeliveryInv, TypeOK
  <1>4. ASSUME \A f \in Flushes, c \in Calls : lease'[c] = f => Holding(f, c)',
               \A c \in accepted' : (Sent(c) \/ Deleted)'
        PROVE  DeliveryInv'
    BY <1>4 DEF DeliveryInv, Holding
  <1>5. ASSUME NEW f \in Flushes, NEW c \in Calls, lease[c] = f,
               flush'[f] = flush[f], batch'[f] = batch[f]
        PROVE  Holding(f, c)'
    BY <1>1, <1>2, <1>5 DEF Holding
  <1>6. CASE UNCHANGED <<lease, flush, batch>> /\ accepted' \subseteq accepted
    BY <1>3, <1>4, <1>5, <1>6
  <1>7. ASSUME NEW g \in Flushes, Claim(g) PROVE DeliveryInv'
    <2>1. /\ lease' = [c \in Calls |-> IF c \in Claimable THEN g ELSE lease[c]]
          /\ batch' = [batch EXCEPT ![g] = {<<c, row[c]>> : c \in Claimable}]
          /\ flush' = [flush EXCEPT ![g] = "claimed"]
          /\ flush[g] = "idle" /\ accepted' = accepted
      BY <1>7 DEF Claim
    <2>2. /\ flush'[g] = "claimed" /\ batch'[g] = {<<c, row[c]>> : c \in Claimable}
          /\ \A f \in Flushes : f # g => flush'[f] = flush[f] /\ batch'[f] = batch[f]
      BY <2>1, SMT DEF TypeOK
    <2>3. ASSUME NEW f \in Flushes, NEW c \in Calls, lease'[c] = f PROVE Holding(f, c)'
      <3>1. CASE c \in Claimable
        <4>1. f = g /\ row[c] \in Events
          BY <2>1, <2>3, <3>1 DEF Claimable
        <4> QED BY <2>2, <3>1, <4>1 DEF Holding
      <3>2. CASE c \notin Claimable
        <4>1. lease[c] = f
          BY <2>1, <2>3, <3>2
        <4>2. f # g
          BY <1>1, <2>1, <4>1 DEF Holding
        <4> QED BY <1>5, <2>2, <4>1, <4>2
      <3> QED BY <3>1, <3>2
    <2> QED BY <1>3, <1>4, <2>1, <2>3
  <1>8. ASSUME NEW g \in Flushes, Deliver(g) PROVE DeliveryInv'
    <2>1. /\ UNCHANGED <<lease, batch, accepted, archive, deletion>>
          /\ \/ Arrive(batch[g]) /\ flush' = [flush EXCEPT ![g] = "sent"]
             \/ flush' = [flush EXCEPT ![g] = "failed"]
      BY <1>8 DEF Deliver, outbox, erasure
    <2>2. /\ \A f \in Flushes : f # g => flush'[f] = flush[f]
          /\ \/ flush'[g] = "sent" /\ Arrive(batch[g])
             \/ flush'[g] = "failed"
      BY <2>1, SMT DEF TypeOK
    <2>3. ASSUME NEW f \in Flushes, NEW c \in Calls, lease'[c] = f PROVE Holding(f, c)'
      <3>1. lease[c] = f /\ batch'[f] = batch[f]
        BY <2>1, <2>3
      <3>2. CASE f # g
        BY <1>5, <2>2, <3>1, <3>2
      <3>3. CASE f = g /\ flush'[g] = "failed"
        BY <1>1, <3>1, <3>3 DEF Holding
      <3>4. CASE f = g /\ Arrive(batch[g])
        <4>1. PICK e \in Events : <<c, e>> \in batch[g]
          BY <1>1, <3>1, <3>4 DEF Holding
        <4>2. e \in stream'[c]
          BY <3>4, <4>1 DEF Arrive
        <4> QED BY <2>2, <3>1, <3>4, <4>1, <4>2 DEF Holding, Sent
      <3> QED BY <2>2, <3>2, <3>3, <3>4
    <2> QED BY <1>3, <1>4, <2>1, <2>3
  <1>9. ASSUME NEW g \in Flushes, Release(g) PROVE \A f \in Flushes, c \in Calls : lease'[c] = f => Holding(f, c)'
    <2>1. /\ lease' = [c \in Calls |-> IF lease[c] = g THEN Nobody ELSE lease[c]]
          /\ flush' = [flush EXCEPT ![g] = "idle"] /\ batch' = [batch EXCEPT ![g] = {}]
      BY <1>9 DEF Release
    <2>2. \A f \in Flushes : f # g => flush'[f] = flush[f] /\ batch'[f] = batch[f]
      BY <2>1, SMT DEF TypeOK
    <2>3. ASSUME NEW f \in Flushes, NEW c \in Calls, lease'[c] = f PROVE lease[c] = f /\ f # g
      BY <2>1, <2>3, ConstantsAssumption DEF ConstantsAssumption
    <2> QED BY <1>5, <2>2, <2>3
  <1>10. ASSUME NEW g \in Flushes, Accept(g) PROVE DeliveryInv'
    <2>1. CASE Release(g) /\ accepted' = accepted \cup Held(g) /\ flush[g] = "sent"
      <3>1. \A c \in Held(g) : c \in Calls /\ (Sent(c) \/ Deleted)
        BY <1>1, <2>1 DEF Held, Holding
      <3>2. \A c \in accepted' : (Sent(c) \/ Deleted)'
        BY <1>2, <2>1, <3>1 DEF DeliveryInv, TypeOK
      <3> QED BY <1>4, <1>9, <2>1, <3>2
    <2>2. CASE flush' = [flush EXCEPT ![g] = "failed"] /\ UNCHANGED <<accepted, lease, batch>>
      <3>1. /\ flush'[g] = "failed"
            /\ \A f \in Flushes : f # g => flush'[f] = flush[f]
        BY <2>2, SMT DEF TypeOK
      <3>2. ASSUME NEW f \in Flushes, NEW c \in Calls, lease'[c] = f PROVE Holding(f, c)'
        <4>1. CASE f # g
          BY <1>5, <2>2, <3>1, <3>2, <4>1
        <4>2. CASE f = g
          BY <1>1, <2>2, <3>1, <3>2, <4>2 DEF Holding
        <4> QED BY <4>1, <4>2
      <3> QED BY <1>3, <1>4, <2>2, <3>2
    <2> QED BY <1>10, <2>1, <2>2 DEF Accept
  <1>11. ASSUME NEW g \in Flushes, BackOff(g) PROVE DeliveryInv'
    BY <1>3, <1>4, <1>9, <1>11 DEF BackOff
  <1>12. ASSUME NEW g \in Flushes, FlushDies(g) PROVE DeliveryInv'
    <2>1. /\ lease' = [c \in Calls |-> IF lease[c] = g THEN Dead ELSE lease[c]]
          /\ flush' = [flush EXCEPT ![g] = "idle"] /\ batch' = [batch EXCEPT ![g] = {}]
          /\ accepted' = accepted
      BY <1>12 DEF FlushDies
    <2>2. \A f \in Flushes : f # g => flush'[f] = flush[f] /\ batch'[f] = batch[f]
      BY <2>1, SMT DEF TypeOK
    <2>3. ASSUME NEW f \in Flushes, NEW c \in Calls, lease'[c] = f PROVE lease[c] = f /\ f # g
      BY <2>1, <2>3, ConstantsAssumption DEF ConstantsAssumption
    <2> QED BY <1>3, <1>4, <1>5, <2>1, <2>2, <2>3
  <1>13. CASE DeleteProject
    <2>1. lease' = [c \in Calls |-> Nobody] /\ accepted' = {}
      BY <1>13 DEF DeleteProject
    <2> QED BY <1>4, <2>1, ConstantsAssumption DEF ConstantsAssumption
  <1> USE <1>6 DEF calls, outbox, delivery
  <1>14. ASSUME NEW c \in Calls, Dispatch(c) \/ Work(c) \/ CallDies(c) PROVE DeliveryInv'
    BY <1>14 DEF Dispatch, Work, SendIntent, InsertIntent, Decide, Answered, SendOutcome, SaveOutcome,
                 UpdateRow, CallDies
  <1>15. ASSUME NEW c \in Calls, LeaseLapses(c) \/ Expire(c) \/ Sink(c) PROVE DeliveryInv'
    BY <1>15 DEF LeaseLapses, Expire, Sink
  <1>16. ASSUME NEW j \in Jobs, Job(j) \/ JobFails(j) \/ JobDies(j) PROVE DeliveryInv'
    BY <1>16 DEF Job, JobClaims, JobErases, JobSettles, JobFails, JobDies
  <1>17. CASE Reconcile \/ DeletionLapses \/ ADayPasses
    BY <1>17 DEF Reconcile, DeletionLapses, ADayPasses
  <1> QED BY <1>7, <1>8, <1>10, <1>11, <1>12, <1>13, <1>14, <1>15, <1>16, <1>17 DEF Next, Flush

----------------------------------------------------------------------------
(* What holds of every behaviour *)

LEMMA AuditInvariant == SafetySpec => []AuditInv
  <1>1. Init => AuditInv
    <2> SUFFICES ASSUME Init PROVE AuditInv
      OBVIOUS
    <2>1. faults \in 0 .. MaxFaults /\ deletion.passes = 0 /\ ~(0 >= 1)
      BY ConstantsAssumption, SMT DEF ConstantsAssumption, Init
    <2>2. deletion \in DeletionType
      <3>1. 0 \in 0 .. 2
        BY SMT
      <3> QED BY <3>1, Zenon DEF Init, DeletionType
    <2>3. TypeOK
      BY <2>1, <2>2, Zenon DEF Init, TypeOK, DeletionType
    <2>4. ~deletion.completed /\ deletion.lease = Nobody
      BY Zenon DEF Init
    <2>5. \A f \in Flushes : f # Nobody
      BY ConstantsAssumption DEF ConstantsAssumption
    <2>6. DeliveryInv
      BY <2>5 DEF Init, DeliveryInv
    <2>7. RecordInv
      BY DEF Init, RecordInv
    <2>8. ErasureInv
      BY <2>1, <2>4 DEF Init, ErasureInv
    <2> QED BY <2>3, <2>6, <2>7, <2>8 DEF AuditInv
  <1>2. AuditInv /\ [Next]_vars => AuditInv'
    <2>1. ASSUME AuditInv, UNCHANGED vars PROVE AuditInv'
      <3> USE <2>1 DEF vars, calls, outbox, delivery, warehouse, erasure
      <3>1. TypeOK'
        BY Zenon DEF AuditInv, TypeOK
      <3>2. DeliveryInv'
        BY Zenon DEF AuditInv, DeliveryInv, Holding, Sent, Deleted
      <3>3. RecordInv'
        BY Zenon DEF AuditInv, RecordInv, Durable, Sent, Deleted
      <3>4. ErasureInv'
        BY Zenon DEF AuditInv, ErasureInv, InFlight, Moving, Over, Deleted
      <3> QED BY <3>1, <3>2, <3>3, <3>4, Zenon DEF AuditInv
    <2> QED BY <2>1, TypeStep, DeliveryStep, RecordStep, ErasureStep DEF AuditInv
  <1> QED BY <1>1, <1>2, PTL DEF SafetySpec

\* The calls, the outbox, the stream and the deletion have the values that
\* audit.ts, audit-stream.ts and audit-deletions.ts give them.
THEOREM TypeCorrect == SafetySpec => []TypeOK
  BY AuditInvariant, PTL DEF AuditInv

\* However many calls, deliveries and failures there are, a tool that runs has
\* an intent in the outbox, the stream or the archive (audit.ts), although
\* leases lapse under the one that delivers and acknowledged rows are deleted.
THEOREM EveryRunRecorded == SafetySpec => []NothingRunsUnrecorded
  <1>1. AuditInv => NothingRunsUnrecorded
    BY DEF AuditInv, TypeOK, RecordInv, NothingRunsUnrecorded
  <1> QED BY <1>1, AuditInvariant, PTL

\* However many maintenance runs overlap and lose their leases, of what is
\* erased (audit-deletions.ts) nothing comes back, and nothing of it is on its
\* way, but for the calls whose outbox row was saved after the deletion.
THEOREM ErasedStaysErased == SafetySpec => []ErasedForGood
  <1>1. AuditInv => ErasedForGood
    <2> SUFFICES ASSUME AuditInv, deletion.completed
                 PROVE  Quiet /\ \A c \in Calls \ late : archive[c] = {}
      BY DEF ErasedForGood, Quiet, Moving
    <2>1. deletion.passes >= 1 /\ deletion.due
      <3>1. deletion.passes = 2
        BY DEF AuditInv, ErasureInv
      <3>2. deletion.passes >= 1
        BY <3>1, SMT
      <3> QED BY <3>2 DEF AuditInv, ErasureInv
    <2> QED BY <2>1, QuietIs DEF AuditInv, ErasureInv
  <1> QED BY <1>1, AuditInvariant, PTL
=============================================================================
