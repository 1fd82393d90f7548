---------------------------- MODULE MCSupervisor ----------------------------
(***************************************************************************)
(* Three CPUs, and one process number to spare: a replacement gets the     *)
(* number of the child it replaces, or another.                            *)
(***************************************************************************)
EXTENDS Supervisor

MCCpuCount == 3
MCPids     == 1..MCCpuCount + 1
=============================================================================
