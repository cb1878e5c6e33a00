---------------------------- MODULE MCRelayApproval ----------------------------
(***************************************************************************)
(* RelayApproval on one question and two connections.                      *)
(***************************************************************************)
EXTENDS RelayApproval

\* A first connection that differs from the next: it alone may have a terminal,
\* or fail before it closes.
FirstOnly == {1}

\* A machine whose every connection has a terminal.
Always == Sockets
================================================================================
