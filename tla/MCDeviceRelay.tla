----------------------------- MODULE MCDeviceRelay -----------------------------
(***************************************************************************)
(* DeviceRelay on a few calls, a few connections and one or two CLI        *)
(* processes of one machine.                                               *)
(***************************************************************************)
EXTENDS DeviceRelay, TLC

\* The order in which the runtime lists sockets: as they were accepted.
OldestFirst == [s \in 1 .. MaxSockets |-> s]

\* Nothing tells one CLI process from another but which sockets it dialled.
ProcessSymmetry == Permutations(Processes)
================================================================================
