------------------------------ MODULE MCMemAp ------------------------------
(* A small target for MemAp: every word of memory starts out different.     *)
EXTENDS MemApImpl, MemApInv

CONSTANTS on, junk, n1, n2

MCVal      == (Aps \X Addr) \cup {n1, n2}
MCInitMem  == [w \in Aps \X Addr |-> w]
MCPayloads == {[k \in 1 .. MaxWords |-> IF k = 1 THEN n1 ELSE n2]}
=============================================================================
