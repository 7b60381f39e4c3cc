---------------------------- MODULE MCRemoteExec ----------------------------
(* One shell command and one Docker command.                                 *)
EXTENDS RemoteExec

CONSTANTS shell, docker
=============================================================================
