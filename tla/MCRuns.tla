------------------------------- MODULE MCRuns -------------------------------
(* A server and a penko run beside it, sharing one database.                 *)
EXTENDS Runs
CONSTANTS server, cli, s1, s2
MCProcs == {server, cli}
MCSessions == {s1, s2}
MCServers == {server}
=============================================================================
