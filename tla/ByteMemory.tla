----------------------------- MODULE ByteMemory -----------------------------
(* What the tool promises those who ask for bytes of the target's memory: gdb *)
(* with its packets m, M and X, the user with "read" and "upload".  Bytes     *)
(* move in order from the first on, a full success means that all have moved, *)
(* and no byte beside the range changes but by the target itself.             *)
EXTENDS Naturals, Sequences, FiniteSetsExt

CONSTANTS Top,     (* addresses there are: 2^32                               *)
          W,       (* bytes of a word: 4                                      *)
          MaxGdb,  (* GDB_MAX_READ_WRITE                                      *)
          Zero,    (* the byte that fills up a file                           *)
          Dma,     (* what the target itself writes to its memory             *)
          Askable  (* [op, addr, len, data]                                   *)

VARIABLES mem, req, resp,
          got,     (* bytes delivered                                         *)
          moved,   (* bytes stored                                            *)
          was      (* the memory when the request was made                    *)
vars == <<mem, req, resp, got, moved, was>>

Addr == 0 .. Top - 1
Reads == {"m", "read"}

(* How many bytes a request is about; 0 if it is refused.  gdb's reads are    *)
(* cut, an upload fills its last word up.                                     *)
Refused(r) == r.op = "M" /\ (r.len > MaxGdb \/ r.addr + r.len > Top)
Extent(r) == CASE r.op = "m" -> Min({r.len, MaxGdb, Top - r.addr})
               [] r.op = "upload" -> ((r.len + W - 1) \div W) * W
               [] Refused(r) -> 0
               [] OTHER -> r.len
DataByte(k) == IF k <= Len(req.data) THEN req.data[k] ELSE Zero

(* The rest of the words at the ends of what gdb writes: they are read and    *)
(* written back, so a change the target makes in between is undone.           *)
Beside(r) == {a \in Addr : /\ r.op = "M"
                           /\ \E b \in {r.addr, r.addr + Extent(r) - 1} : a \div W = b \div W
                           /\ a \notin r.addr .. r.addr + Extent(r) - 1}

Pending == resp = "none"

Ask(r) == /\ ~ Pending
          /\ req' = r /\ resp' = "none" /\ got' = <<>> /\ moved' = 0 /\ was' = mem
          /\ UNCHANGED mem

Deliver(n) == /\ Pending /\ req.op \in Reads
              /\ Len(got) + n <= Extent(req)
              /\ got' = got \o [k \in 1 .. n |-> mem[req.addr + Len(got) + k - 1]]
              /\ UNCHANGED <<mem, req, resp, moved, was>>

Store(n) == /\ Pending /\ req.op \notin Reads
            /\ moved' = moved + n /\ moved' <= Extent(req)
            /\ DOMAIN mem' = Addr
            /\ \A a \in Addr :
                 LET k == a - req.addr + 1 IN
                 IF a >= req.addr /\ k \in moved + 1 .. moved' THEN mem'[a] = DataByte(k)
                 ELSE mem'[a] \in {mem[a]} \cup IF a \in Beside(req) THEN {was[a]} ELSE {}
            /\ UNCHANGED <<req, resp, got, was>>

Touch(a) == mem' = [mem EXCEPT ![a] = Dma] /\ UNCHANGED <<req, resp, got, moved, was>>

Complete == (IF req.op = "read" THEN Len(got) ELSE moved) = Extent(req)
Answers == CASE req.op = "m" -> {IF got = <<>> THEN "error" ELSE "data"}
             [] Refused(req) -> {"nak"}
             [] OTHER -> {"error"} \cup IF Complete THEN {"ok"} ELSE {}
Answer == /\ Pending
          /\ resp' \in Answers
          /\ UNCHANGED <<mem, req, got, moved, was>>

Init == /\ mem \in [Addr -> {<<0, a>> : a \in Addr}]
        /\ req \in Askable /\ resp = "idle"
        /\ got = <<>> /\ moved = 0 /\ was = mem

Next == \/ \E r \in Askable : Ask(r)
        \/ \E n \in 0 .. Top : Deliver(n) \/ Store(n)
        \/ \E a \in Addr : Touch(a)
        \/ Answer

Spec == Init /\ [][Next]_vars
=============================================================================
