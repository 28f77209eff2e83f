----------------------------- MODULE MCPipeline ------------------------------
(* Lines of four commands for TLC: more than exec_commands has pipes for. *)
EXTENDS Pipeline

FourCommands == {<<4>>, <<2, 2>>, <<1, 1, 1, 1>>}
=============================================================================
