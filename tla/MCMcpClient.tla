---------------------------- MODULE MCMcpClient ----------------------------
(* A server with three tools. *)
EXTENDS McpClient

Offered == <<1, 2, 3>>
=============================================================================
