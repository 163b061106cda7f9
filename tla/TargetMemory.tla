--------------------------- MODULE TargetMemory ---------------------------
(***************************************************************************)
(* What the MEM-AP driver promises its callers: block transfers to and     *)
(* from the memories of the target.  A read that succeeds returns the      *)
(* words, a write that succeeds has stored them all.  A write that fails   *)
(* has stored a prefix of its words, in order, and may leave one word in   *)
(* flight that lands during a later call; no other word ever changes.      *)
(***************************************************************************)
EXTENDS Integers, Sequences

CONSTANTS
  Locs,         \* the words of the target memories
  Data,         \* what a word can hold
  MaxWords,     \* the longest transfer
  InitMem       \* what the memories hold at first

VARIABLES
  mem,          \* the memories
  req,          \* the transfer in progress or, when idle, the last one
  busy,         \* whether a call is in progress
  given,        \* words of the current write handed to the target
  flying,       \* the word on its way to memory, if any
  failed,       \* whether the call in progress can only fail
  resp, result  \* the outcome of the last call

vars == <<mem, req, busy, given, flying, failed, resp, result>>

Blocks == [1 .. MaxWords -> Locs]
Reqs == [op : {"read", "write", "other"}, num : 0 .. MaxWords, locs : Blocks,
         data : [1 .. MaxWords -> Data]]
Nothing == <<>>

Init ==
  /\ mem = InitMem
  /\ req \in Reqs
  /\ busy = FALSE /\ given = 0 /\ flying = Nothing /\ failed = FALSE
  /\ resp = "none" /\ result = <<>>

\* A word still in flight from a failed write may be dropped meanwhile.
KeepOrDrop == flying' \in {flying, Nothing}

Start ==
  /\ ~busy
  /\ busy' = TRUE /\ req' \in Reqs
  /\ given' = 0 /\ resp' = "none" /\ result' = <<>>
  /\ KeepOrDrop /\ failed' \in BOOLEAN
  /\ UNCHANGED mem

Give ==
  /\ busy /\ req.op = "write" /\ given < req.num /\ flying = Nothing
  /\ given' = given + 1
  /\ flying' = <<req.locs[given + 1], req.data[given + 1]>>
  /\ failed' \in {failed, TRUE}
  /\ UNCHANGED <<mem, req, busy, resp, result>>

Land ==
  /\ flying # Nothing
  /\ mem' = [mem EXCEPT ![flying[1]] = flying[2]]
  /\ flying' = Nothing
  /\ UNCHANGED <<req, busy, given, failed, resp, result>>

\* Something went wrong: the call in progress cannot succeed any more.
Spoil ==
  /\ failed' = TRUE
  /\ given' \in {given, given + 1}
  /\ KeepOrDrop
  /\ UNCHANGED <<mem, req, busy, resp, result>>

ReturnOk ==
  /\ busy
  /\ req.op # "other" => ~failed /\ flying = Nothing
  /\ req.op = "write" => given = req.num
  /\ result' = IF req.op = "read"
               THEN [k \in 1 .. req.num |-> mem[req.locs[k]]] ELSE <<>>
  /\ busy' = FALSE /\ resp' = "ok" /\ given' = 0
  /\ failed' \in BOOLEAN
  /\ UNCHANGED <<mem, req, flying>>

ReturnErr ==
  /\ busy
  /\ busy' = FALSE /\ resp' = "err" /\ result' = <<>> /\ given' = 0
  /\ failed' \in BOOLEAN /\ KeepOrDrop
  /\ UNCHANGED <<mem, req>>

Next == Start \/ Give \/ Land \/ Spoil \/ ReturnOk \/ ReturnErr

Spec == Init /\ [][Next]_vars
=============================================================================
