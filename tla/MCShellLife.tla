---------------------------- MODULE MCShellLife ----------------------------
(***************************************************************************)
(* The registry of the program at the time of the first shell.             *)
(***************************************************************************)
EXTENDS ShellLife
RegistryAtStart == <<"mainThread", "idle", "DCMUpdate">>
=============================================================================
