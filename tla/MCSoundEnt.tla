---------------------------- MODULE MCSoundEnt ----------------------------
(* A pool of three sounds and up to two monsters for TLC. *)
EXTENDS SoundEnt, TLC

Listeners == Permutations(Monster)
=============================================================================
