---------------------------- MODULE MCTestServer -----------------------------
(* Values of the constants of TestServer for TLC. *)
EXTENDS TestServer

CONSTANTS c1, c2, c3

ThreeSockets == 3 .. 5
=============================================================================
