------------------------------ MODULE MCRewrite ------------------------------
(* A small instance of Rewrite: one disk with two filesystems.                *)
EXTENDS Rewrite, TLC

CONSTANTS d1, m1, m2
MCOneDisk == (m1 :> d1) @@ (m2 :> d1)
=============================================================================
