------------------------------- MODULE OneAnswer -------------------------------
(***************************************************************************)
(* What a question to a person promises the tool call that waits on it.    *)
(*                                                                         *)
(* A question is asked once.  People may say yes or no to it, in any       *)
(* number of places and as often as they like, but at most one of those    *)
(* answers becomes the verdict, and only while the question is open.  The  *)
(* call then ends once, and ends approved or declined only by the verdict. *)
(* Whoever answered in the dashboard is told "ok" only if the verdict is   *)
(* that very answer.                                                       *)
(*                                                                         *)
(* RelayApproval implements this module; see RelayApproval!Promise.        *)
(***************************************************************************)
EXTENDS Naturals

CONSTANTS
  Questions,  \* each asked by one call
  Answers,    \* what a person can say
  Outcomes,   \* what a call can be told: the answers, or that there was none
  None        \* not yet

VARIABLES
  asked,    \* questions put to the relay
  said,     \* <<question, answer>> that some person gave, anywhere
  verdict,  \* the one answer that counted
  told,     \* the answer a dashboard was told counted
  outcome   \* how each waiting call ended

vars == <<asked, said, verdict, told, outcome>>

Init ==
  /\ asked = {} /\ said = {}
  /\ verdict = [q \in Questions |-> None]
  /\ told = [q \in Questions |-> None]
  /\ outcome = [q \in Questions |-> None]

Ask(q) ==
  /\ q \notin asked
  /\ asked' = asked \cup {q}
  /\ UNCHANGED <<said, verdict, told, outcome>>

Say(q, a) ==
  /\ q \in asked
  /\ said' = said \cup {<<q, a>>}
  /\ UNCHANGED <<asked, verdict, told, outcome>>

Decide(q, a) ==
  /\ <<q, a>> \in said /\ verdict[q] = None
  /\ verdict' = [verdict EXCEPT ![q] = a]
  /\ UNCHANGED <<asked, said, told, outcome>>

\* The dashboard's answer is said, counted and confirmed in one request.
DecideInDashboard(q, a) ==
  /\ q \in asked /\ verdict[q] = None
  /\ said' = said \cup {<<q, a>>}
  /\ verdict' = [verdict EXCEPT ![q] = a]
  /\ told' = [told EXCEPT ![q] = a]
  /\ UNCHANGED <<asked, outcome>>

End(q, o) ==
  /\ q \in asked /\ outcome[q] = None
  /\ o \in Answers => o = verdict[q]
  /\ outcome' = [outcome EXCEPT ![q] = o]
  /\ UNCHANGED <<asked, said, verdict, told>>

Next ==
  \/ \E q \in Questions : Ask(q)
  \/ \E q \in Questions, a \in Answers : Say(q, a) \/ Decide(q, a) \/ DecideInDashboard(q, a)
  \/ \E q \in Questions, o \in Outcomes : End(q, o)

Spec == Init /\ [][Next]_vars
================================================================================
