---------------------------- MODULE ScriptMachine ----------------------------
(* What an uploaded script means (swdCommsPacket.h, SWD_UPLOAD_OPCODE_...): a *)
(* program whose instructions are what the host asked for, one by one, whose  *)
(* labels are instructions, run on registers, a stack and a call stack of     *)
(* bounded depth until it exits, does something illegal or runs out of time.  *)
EXTENDS Integers, Sequences, SequencesExt

CONSTANTS Regs, Words,              (* registers, values of a word                        *)
          NativeRets,               (* what each native function may leave in registers   *)
          Alu(_, _, _), Negative(_),(* arithmetic, and the sign of a word                 *)
          MaxCalls, MaxStack,       (* depth of calls and of the stack                      *)
          Failed                    (* the code of a script that did not exit by itself     *)

VARIABLES phase,    (* "build", "run"; "done" once it has ended                *)
          prog,     (* the program, with its labels as numbers of instructions *)
          at,       (* the instruction to run next                             *)
          regs, calls, stack,
          expired,  (* its half second is over                                 *)
          code      (* what it returned                                        *)

vars == <<phase, prog, at, regs, calls, stack, expired, code>>

(* Whether a branch is taken. *)
Holds(cc, a, b) ==
  CASE cc = "al" -> TRUE
    [] cc \in {"eq", "eqImm"} -> a = b
    [] cc \in {"ne", "neImm"} -> a # b
    [] cc = "ge" -> a >= b
    [] cc = "gt" -> a > b
    [] cc = "le" -> a <= b
    [] cc = "lt" -> a < b
    [] cc = "neg" -> Negative(a)
    [] cc = "notNeg" -> ~ Negative(a)

Instr == prog[at]
Doing(op) == phase = "run" /\ at \in DOMAIN prog /\ Instr.op = op

End(c) == phase' = "done" /\ code' = c /\ UNCHANGED <<regs, expired>>
Goto(n) == at' = n /\ UNCHANGED <<phase, prog, expired, code>>
Put(r, v) == regs' = [regs EXCEPT ![r] = v] /\ Goto(at + 1) /\ UNCHANGED <<calls, stack>>

Operand(i) == IF i.imm THEN i.src ELSE regs[i.src]

Compute == Doing("alu") /\ Put(Instr.dst, Alu(Instr.f, regs[Instr.dst], Operand(Instr)))
Branch == /\ Doing("br")
          /\ Goto(IF Holds(Instr.f, regs[Instr.dst], Operand(Instr)) THEN Instr.to ELSE at + 1)
          /\ UNCHANGED <<regs, calls, stack>>
Call == /\ Doing("call")
        /\ IF Len(calls) = MaxCalls
           THEN End(Failed)
           ELSE calls' = Append(calls, at + 1) /\ Goto(Instr.to) /\ UNCHANGED <<regs, stack>>
Return == /\ Doing("ret")
          /\ IF calls = <<>>
             THEN End(Failed)
             ELSE calls' = Front(calls) /\ Goto(Last(calls)) /\ UNCHANGED <<regs, stack>>
Push == /\ Doing("push")
        /\ IF Len(stack) = MaxStack
           THEN End(Failed)
           ELSE stack' = Append(stack, regs[Instr.dst]) /\ Goto(at + 1) /\ UNCHANGED <<regs, calls>>
Pop == /\ Doing("pop")
       /\ IF stack = <<>>
          THEN End(Failed)
          ELSE /\ regs' = [regs EXCEPT ![Instr.dst] = Last(stack)] /\ stack' = Front(stack)
               /\ Goto(at + 1) /\ UNCHANGED calls
Native == /\ Doing("native")
          /\ IF Instr.src \in DOMAIN NativeRets
             THEN /\ \E v \in NativeRets[Instr.src] :
                       regs' = [r \in Regs |-> IF r \in DOMAIN v THEN v[r] ELSE regs[r]]
                  /\ Goto(at + 1) /\ UNCHANGED <<calls, stack>>
             ELSE End(Failed)
Exit == Doing("exit") /\ End(Instr.src)
RunOff == phase = "run" /\ at \notin DOMAIN prog /\ End(Failed)
(* Out of time, perhaps in the middle of an instruction. *)
TimeOut == phase = "run" /\ expired /\ phase' = "done" /\ code' = Failed /\ UNCHANGED expired

Tick == expired' = TRUE /\ UNCHANGED <<phase, prog, at, regs, calls, stack, code>>

(* The host gets the result, builds a program and starts it. *)
Build == phase # "run" /\ phase' = "build"
Start == /\ phase = "build" /\ phase' = "run"
         /\ at' = 1 /\ calls' = <<>> /\ stack' = <<>> /\ expired' = FALSE
         /\ regs' \in [Regs -> Words]

Next == \/ Compute \/ Branch \/ Call \/ Return \/ Push \/ Pop \/ Native
        \/ Exit \/ RunOff \/ TimeOut \/ Tick \/ Start \/ Build

Spec == phase = "build" /\ [][Next]_vars
=============================================================================
