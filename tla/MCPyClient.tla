----------------------------- MODULE MCPyClient -----------------------------
(* The daemon with its loops: write_health takes two commands, the other    *)
(* publications one.                                                        *)
EXTENDS PyClient

CONSTANTS health, telemetry, net, repo

MCCommands == [t \in Publishers |-> IF t = health THEN 2 ELSE 1]
=============================================================================
