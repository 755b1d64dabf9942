---------------------------- MODULE MCTestClient -----------------------------
(* Values of the constants of TestClient for TLC. *)
EXTENDS TestClient

CONSTANTS c1, c2

TwoSockets == 3 .. 4
=============================================================================
