---- MODULE MCZoneLauncher ----
(* Two zones, which may be exchanged where no liveness is asked. *)
EXTENDS ZoneLauncher, TLC
CONSTANTS z1, z2
MCSymmetry == Permutations({z1, z2})
====
