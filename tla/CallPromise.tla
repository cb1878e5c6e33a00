------------------------------ MODULE CallPromise ------------------------------
(***************************************************************************)
(* What the device relay promises the rest of the gateway about one tool   *)
(* call, with no sockets, frames or clocks in it.                          *)
(*                                                                         *)
(* A Worker asks for a call, the relay may put it on the machine once, the *)
(* machine may run it once, and the Worker ends the call once with a       *)
(* single outcome.  The outcome "result" is only given for a call that did *)
(* run; every other outcome makes no promise either way, since a call that *)
(* was given up on may still be running on the machine.                    *)
(*                                                                         *)
(* DeviceRelay implements this module; see DeviceRelay!Promise.            *)
(***************************************************************************)
EXTENDS Naturals

CONSTANTS
  Callers,   \* the calls, each with its own request id
  Outcomes,  \* what a call can end with
  None       \* a call that has not ended

VARIABLES
  asked,    \* calls a Worker has opened
  sent,     \* calls the relay has put on the machine's socket
  runs,     \* how many times the machine took each call
  outcome   \* how each call ended, for whoever asked

vars == <<asked, sent, runs, outcome>>

Init ==
  /\ asked = {}
  /\ sent = {}
  /\ runs = [c \in Callers |-> 0]
  /\ outcome = [c \in Callers |-> None]

Ask(c) ==
  /\ c \notin asked
  /\ asked' = asked \cup {c}
  /\ UNCHANGED <<sent, runs, outcome>>

\* One wake of a sleeping machine releases every call that waited for it.
Send(C) ==
  /\ C \subseteq asked \ sent
  /\ sent' = sent \cup C
  /\ UNCHANGED <<asked, runs, outcome>>

Run(c) ==
  /\ c \in sent
  /\ runs[c] = 0
  /\ runs' = [runs EXCEPT ![c] = 1]
  /\ UNCHANGED <<asked, sent, outcome>>

End(c, o) ==
  /\ c \in asked
  /\ outcome[c] = None
  /\ o = "result" => runs[c] = 1
  /\ outcome' = [outcome EXCEPT ![c] = o]
  /\ UNCHANGED <<asked, sent, runs>>

Next ==
  \/ \E c \in Callers : Ask(c) \/ Run(c)
  \/ \E C \in SUBSET Callers : Send(C)
  \/ \E c \in Callers, o \in Outcomes : End(c, o)

Spec == Init /\ [][Next]_vars
================================================================================
