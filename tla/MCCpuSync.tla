----------------------------- MODULE MCCpuSync -----------------------------
(* Three CPUs, not a power of two, that go through four synchronisations;   *)
(* the counter goes through six rounds.                                     *)
EXTENDS CpuSync

MCProgram == <<"barrier", "clear", "barrier", "clear">>

=============================================================================
