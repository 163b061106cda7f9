------------------------------ MODULE MCFlash ------------------------------
(* Small descriptions of a small address space for FlashScript.             *)
EXTENDS FlashScript

CONSTANTS Bases, Shapes, Counts, MaxPieces

\* A shape is 1000 * eraseSz + writeSz.
MCPieces == {[base |-> b, eraseSz |-> s \div 1000, writeSz |-> s % 1000, numIdentical |-> n] :
               b \in Bases, s \in Shapes, n \in Counts}
MCLayouts == UNION {[1 .. n -> MCPieces] : n \in 0 .. MaxPieces}

\* Ranges start and end near blocks; unacknowledged writes go where they fit
\* best; where the pieces are not in order, only the largest area is erased.
MCAsked(r, o) == \/ o = NoOp
                 \/ /\ o.len <= 5 /\ o.addr <= 4 /\ (o.mode = "noack" => ~ o.have)
                    /\ \A i, j \in DOMAIN r : i < j => r[i].base < r[j].base
=============================================================================
