------------------------------- MODULE MCBuildDb -------------------------------
(***************************************************************************)
(* Small instances of BuildDb for TLC: lib writes x, app writes y and z.   *)
(***************************************************************************)
EXTENDS BuildDb, TLC

CONSTANTS c1, c2, lib, app, x, y, z, v1, v2

OutsOfBoth == (lib :> {x}) @@ (app :> {y, z})

Symmetry == Permutations(Client) \cup Permutations(Version)
===============================================================================
