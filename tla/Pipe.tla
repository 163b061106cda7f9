-------------------------------- MODULE Pipe --------------------------------
(* What one direction of the UART bridge promises: a bounded queue of bytes. *)
(* A byte that finds no room is dropped; every other byte comes out once and  *)
(* in the order it went in.  "exact" says whether it also comes out with the  *)
(* value it went in with.                                                     *)
EXTENDS Naturals, Sequences

CONSTANTS Bytes,  (* the values of a byte                   *)
          Cap     (* how many bytes the pipe holds at most  *)

VARIABLES q,      (* the bytes on their way                 *)
          out,    (* the byte that came out last            *)
          exact   (* TRUE: values are kept                  *)

vars == <<q, out, exact>>

Init == q = <<>> /\ out \in Bytes /\ exact \in BOOLEAN

(* A byte is queued. *)
Put == /\ Len(q) < Cap
       /\ \E b \in Bytes : q' = Append(q, b)
       /\ UNCHANGED <<out, exact>>

(* The oldest byte comes out. *)
Take == /\ q # <<>>
        /\ q' = Tail(q)
        /\ out' \in IF exact THEN {Head(q)} ELSE Bytes
        /\ UNCHANGED exact

Next == Put \/ Take
Spec == Init /\ [][Next]_vars
=============================================================================
