-------------------------- MODULE MCOperationEvents --------------------------
(***************************************************************************)
(* Two callers - a terminal and an HTTP request - and one SSE client.      *)
(***************************************************************************)
EXTENDS OperationEvents

CONSTANTS terminal, http, client

MCCallers == {terminal, http}
MCSubscribers == {client}
=============================================================================
