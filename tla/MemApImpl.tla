----------------------------- MODULE MemApImpl -----------------------------
(***************************************************************************)
(* MemAp implements TargetMemory as long as the SELECT writes reach the    *)
(* debug port.                                                             *)
(***************************************************************************)
EXTENDS MemAp

\* A SELECT write is retried or carried out; it is never refused or lost.
SelectHolds ==
  pc \in SelectLabels /\ pc' # pc => selAp' = mApSel /\ selBank' = mSelected

SelectSpec == Init /\ [][Next /\ SelectHolds]_vars

\* The call in progress as a request, how far it is, and the word on its way.
AsReq == [op   |-> IF kind \in {"read", "write"} THEN kind ELSE "other",
          num  |-> num,
          locs |-> [k \in 1 .. MaxWords |-> <<mApSel, WordAddr(k)>>],
          data |-> payload]
AsGiven  == IF InAccess /\ kind = "write" THEN done ELSE 0
AsFlying == IF pend.op = "write" /\ pend.reg = "DRW"
            THEN <<<<pend.ap, tar[pend.ap]>>, pend.val>> ELSE <<>>
AsFailed == sticky \/ pc \in AbortLabels
AsResult == IF Returned("read") THEN [k \in 1 .. num |-> buf[k]] ELSE <<>>

Promise == INSTANCE TargetMemory WITH
  Locs <- Aps \X Addr, req <- AsReq, busy <- InAccess, given <- AsGiven,
  flying <- AsFlying, failed <- AsFailed, resp <- ret, result <- AsResult

\* Every behaviour of the driver is one of TargetMemory: beyond the results of
\* the calls, no word of memory changes except those of a write in progress, in
\* order, or the one word a failed write left in flight.
ImplementsPromise == Promise!Spec
=============================================================================
