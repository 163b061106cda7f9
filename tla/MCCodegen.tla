------------------------------ MODULE MCCodegen ------------------------------
(* Small programs for Codegen.                                               *)
EXTENDS CodegenImpl

Ins(op, f, dst, src, imm) == [op |-> op, f |-> f, dst |-> dst, src |-> src, imm |-> imm]

MCInitRegs == {[r \in Regs |-> IF r = 0 THEN 6 ELSE 2]}
MCNativeRets == 1 :> {0 :> 0, (0 :> 3) @@ (1 :> 1)}

(* Every way to load a value, jumps, calls, and the rest of the kinds.       *)
MCSource ==
  {Ins("alu", "mov", 1, v, TRUE) : v \in {1, 5, 8, 9, 14}}
    \cup {Ins("alu", f, 0, 1, FALSE) : f \in {"sub", "orr"}}
    \cup {Ins("push", "", 0, 0, TRUE), Ins("pop", "", 1, 0, TRUE)}
    \cup {Ins("native", "", 0, n, TRUE) : n \in {1, 2}}
    \cup {Ins("br", "gt", 0, 1, FALSE), Ins("br", "neg", 0, 0, TRUE), Ins("br", "al", 0, 0, TRUE)}
    \cup {Ins(op, "", 0, 0, TRUE) : op \in {"call", "ret", "exit"}}

(* Scripts that subtract and or.                                             *)
MCDocSource == {s \in MCSource : s.f \in {"sub", "orr"} \/ s.op = "exit"}
=============================================================================
