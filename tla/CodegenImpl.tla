----------------------------- MODULE CodegenImpl -----------------------------
(* The uploaded code and its interpreter implement the script that the host  *)
(* asked for, ScriptMachine.                                                 *)
EXTENDS Codegen

CONSTANT Everything   (* TRUE: RunsAsAsked is claimed of every script        *)

(* The instruction that starts at or contains position p. *)
Containing(p) == CHOOSE k \in DOMAIN start : /\ start[k] <= p
                                             /\ \A j \in DOMAIN start : start[j] <= p => j <= k

(* The cells that a jump to cell c passes through, the instruction or the    *)
(* end of the code they lead to, and with that what a label stands for.      *)
Passes(S) == \A d \in S : \A l \in cells[d].to : "cell" \in DOMAIN l => l.cell \in S
Passed(c) == {d \in DOMAIN cells : \A S \in SUBSET DOMAIN cells : c \in S /\ Passes(S) => d \in S}
Ends(c) == {n \in 1 .. Len(asked) + 1 : \E d \in Passed(c) : [at |-> n] \in cells[d].to}
Resolve(l) ==
  IF "at" \in DOMAIN l THEN l.at
  ELSE IF Ends(l.cell) = {} THEN 0     \* cells that lead to each other
  ELSE CHOOSE n \in Ends(l.cell) : TRUE

(* Position p as the number of an instruction. *)
CellAt(p) == CHOOSE c \in DOMAIN cells : cells[c].pos = p
AtOf(p) ==
  IF p < head THEN Containing(p)
  ELSE IF p < tail \/ p >= M THEN Len(asked) + 1
  ELSE Resolve([cell |-> CellAt(p)])

(* Between the two opcodes of a load by way of an 8-bit value. *)
Loading == /\ phase = "run" /\ vpc < head /\ vpc > start[Containing(vpc)]
           /\ asked[Containing(vpc)].op = "alu"

(* The script the host asked for, with every label traced to an instruction. *)
Traced(i) == IF "to" \in DOMAIN i THEN [i EXCEPT !.to = Resolve(@)] ELSE i
Meant == [k \in DOMAIN asked |-> Traced(asked[k])]

(* The instructions that do not do what swdCommsPacket.h:204-244 says: four   *)
(* kinds, and a load of 24 or 32 bits in the last opcodes of the array.      *)
Broken(k) ==
  LET i == asked[k] IN
  \/ i.op \in {"push", "pop"}
  \/ i.op = "br" /\ i.f \in {"neg", "notNeg"}
  \/ i.op = "alu" /\ i.f = "orr"
  \/ i.op = "alu" /\ \E w \in Range(Encode(i, 0)) : w.op = "alu" /\ w.f = "lsl" /\ w.imm
  \/ ops[start[k]].op \in {"mov24", "mov32"} /\ start[k] + Len(Encode(i, 0)) = M

Claimed == Everything \/ \A k \in DOMAIN asked : ~ Broken(k)

(* The state of the script.  A load is done with its first opcode. *)
AsPhase == IF Claimed THEN phase ELSE "build"
AsProg == IF phase = "run" THEN Meant ELSE <<>>
AsAt == IF phase # "run" THEN 1 ELSE IF Loading THEN AtOf(vpc) + 1 ELSE AtOf(vpc)
AsRegs == IF Loading THEN LET i == asked[Containing(vpc)] IN [regs EXCEPT ![i.dst] = i.src] ELSE regs
AsCalls == [k \in 1 .. Len(recur) |-> AtOf(recur[k])]

Script == INSTANCE ScriptMachine WITH
  phase <- AsPhase, prog <- AsProg, at <- AsAt, regs <- AsRegs, calls <- AsCalls, stack <- data

(* The uploaded code does what the host's instructions say: encoding, label  *)
(* cells, skips and the interpreter's limits implement the script; of scripts *)
(* with a broken instruction it is claimed only if Everything is TRUE.       *)
RunsAsAsked == Script!Spec
=============================================================================
