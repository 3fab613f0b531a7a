----------------------------- MODULE MCInterface -----------------------------
(***************************************************************************)
(* A large terminal, the smallest the overlays fit, and one too low.       *)
(***************************************************************************)
EXTENDS Interface

SomeTerminals == {Size(120, 11), Size(42, 11), Size(120, 9)}

=============================================================================
