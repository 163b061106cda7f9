------------------------------- MODULE Codegen -------------------------------
(* Uploaded code: the host adds instructions one packet at a time, codegen.c  *)
(* encodes them into one array that code fills from the front and the cells   *)
(* of predeclared labels from the rear, and codegen-run-generic.c interprets  *)
(* the array.  A word of 32 bits is scaled to four quarters of one bit.       *)
EXTENDS Integers, Sequences, FiniteSets, FiniteSetsExt, SequencesExt

CONSTANTS
  M,           (* MAX_OPCODES: 256                                           *)
  MaxCalls,    (* CODEGEN_MAX_RECUR_DEPTH: 8                                 *)
  MaxStack,    (* CODEGEN_MAX_STACK_DEPTH: 16                                *)
  CheckEvery,  (* turns of the interpreter per look at the clock: 256        *)
  Regs,        (* registers; 0 is the first parameter and the result         *)
  Quarter,     (* values of an 8-bit quarter of a word: 2^8                  *)
  InitRegs,    (* what the host passes                                       *)
  NativeRets,  (* what native functions may leave in the registers           *)
  Source,      (* the instructions the host asks for, labels apart           *)
  MaxCells,    (* predeclared labels of one program                          *)
  MaxPlain,    (* instructions of one program other than jumps and exits     *)
  MaxJumps     (* branches and calls of one program                          *)

Half == Quarter * Quarter
Size == Half * Half
Words == 0 .. Size - 1
Failed == Quarter - 1     \* 0xFF, what an erased opcode exits with as well

ASSUME CodegenAssumption ==
  /\ M \in Nat \ {0} /\ MaxCalls \in Nat /\ MaxStack \in Nat /\ CheckEvery \in Nat \ {0}
  /\ Quarter \in Nat \ {0, 1} /\ 0 \in Regs
  /\ InitRegs \subseteq [Regs -> Words]
  /\ \A i \in Source :                    (* the operands that fit into a packet *)
       /\ i.op \in {"alu", "br", "call", "ret", "exit", "native", "push", "pop"}
       /\ "to" \notin DOMAIN i /\ i.imm \in BOOLEAN
       /\ i.op = "alu" => /\ i.f \in {"mov", "not", "add", "sub", "and", "orr", "xor", "lsl", "lsr"}
                          /\ i.dst \in Regs /\ i.src \in IF i.imm THEN Words ELSE Regs
       /\ i.op = "br" => /\ i.f \in {"al", "eq", "ne", "ge", "gt", "le", "lt", "eqImm", "neImm", "neg", "notNeg"}
                         /\ i.f \in {"eq", "ne", "ge", "gt", "le", "lt"} => ~ i.imm
                         /\ i.f \in {"eqImm", "neImm"} => i.imm
       /\ i.op = "exit" => i.src \in 0 .. Failed

VARIABLES
  ops, head, tail,   (* mOpcodes, mOutputPosHead, mOutputPosTail             *)
  ok,                (* what the last codegen call returned                  *)
  asked, start,      (* history: the instructions so far and where each starts *)
  cells,             (* history: predeclared labels, their cells and targets *)
  phase,             (* "build", "run", "done": a run has ended              *)
  vpc, regs, recur, data, ofst,   (* locals of codegenRunInternal            *)
  expired,           (* half a second has passed since the run started       *)
  code               (* what codegenRun returned                             *)

genVars == <<ops, head, tail, ok, asked, start, cells>>
runVars == <<vpc, regs, recur, data, ofst>>
vars == <<genVars, phase, runVars, expired, code>>

-----------------------------------------------------------------------------
(* Arithmetic on words, in two's complement. *)

PowerOfTwo[n \in Nat] == IF n = 0 THEN 1 ELSE 2 * PowerOfTwo[n - 1]         \* 1 << n

\* The last bit first.
Bit(f, a, b) == CASE f = "and" -> a * b [] f = "orr" -> a + b - a * b [] f = "xor" -> (a + b) % 2
BitByBit(f, dst, src) ==
  LET word[p \in Words \X Words] ==
        IF p = <<0, 0>> THEN 0
        ELSE 2 * word[<<p[1] \div 2, p[2] \div 2>>] + Bit(f, p[1] % 2, p[2] % 2)
  IN word[<<dst, src>>]

\* dst after "dst f src".
Alu(f, dst, src) ==
  CASE f = "mov" -> src
    [] f = "not" -> Size - 1 - src
    [] f = "add" -> (dst + src) % Size
    [] f = "sub" -> (dst - src) % Size
    [] f \in {"and", "orr", "xor"} -> BitByBit(f, dst, src)
    [] f = "lsl" -> (dst * PowerOfTwo[src]) % Size
    [] f = "lsr" -> dst \div PowerOfTwo[src]

Negative(a) == 2 * a >= Size

\* A word has a number of bits, can hold a place in the array, and is what a
\* native function leaves in a register.
ASSUME WordAssumption ==
  /\ \E n \in 1 .. Size : Size = PowerOfTwo[n]
  /\ M < Size
  /\ \A f \in DOMAIN NativeRets : \A v \in NativeRets[f] : \A r \in DOMAIN v : v[r] \in Words

-----------------------------------------------------------------------------
(* codegen.c *)

Erased == [op |-> "exit", v |-> Failed]
Unfilled == [op |-> "bl", to |-> 0]       \* the opcode 0

(* codegenAllocFront and codegenEmit, word for word: what fits is written. *)
EmitOverCells(ws, legal) ==                        \* mutant: the room ends at M
  LET n == IF Len(ws) <= M - head THEN Len(ws) ELSE M - head IN
  /\ ops' = [p \in 0 .. M - 1 |-> IF p \in head .. head + n - 1 THEN ws[p - head + 1] ELSE ops[p]]
  /\ head' = head + n
  /\ ok' = (legal /\ n = Len(ws))
  /\ UNCHANGED tail
EmitUpTo(ws, legal) ==
  LET n == IF Len(ws) <= tail - head THEN Len(ws) ELSE tail - head IN
  /\ ops' = [p \in 0 .. M - 1 |-> IF p \in head .. head + n - 1 THEN ws[p - head + 1] ELSE ops[p]]
  /\ head' = head + n
  /\ ok' = (legal /\ n = Len(ws))
  /\ UNCHANGED tail

VerifyLabelOfCodeOnly(lbl) == lbl <= head          \* mutant: refuses predeclared labels
VerifyLabel(lbl) == lbl <= head \/ lbl \in tail .. M - 1
VerifyPredeclared(lbl) == lbl \in tail .. M - 1

(* The shortest way to load a value: 8 bits, 24 bits, 8 bits inverted, 8     *)
(* bits shifted, 32 bits.                                                    *)
LoadImm(r, v) ==
  LET Shifts == {i \in 1 .. Size - 1 : LET p == PowerOfTwo[i] IN p < Size /\ v % p = 0 /\ v \div p < Quarter}
      Mov8(x) == [op |-> "mov8", r |-> r, v |-> x] IN
  CASE v < Quarter -> <<Mov8(v)>>
    [] v >= Quarter /\ v < Half * Quarter ->
         <<[op |-> "mov24", r |-> r, v |-> v % Quarter], [op |-> "word", v |-> v \div Quarter]>>
    [] v >= Half * Quarter /\ Size - 1 - v < Quarter ->
         <<Mov8(Size - 1 - v), [op |-> "alu", f |-> "not", dst |-> r, src |-> r, imm |-> FALSE]>>
    [] v >= Half * Quarter /\ Size - 1 - v >= Quarter /\ Shifts # {} ->
         <<Mov8(v \div PowerOfTwo[Min(Shifts)]),
           [op |-> "alu", f |-> "lsl", dst |-> r, src |-> Min(Shifts), imm |-> TRUE]>>
    [] OTHER ->
         <<[op |-> "mov32", r |-> r],
           [op |-> "word", v |-> v % Half], [op |-> "word", v |-> v \div Half]>>

(* The opcode before a conditional branch: it skips the branch unless cc. *)
SkipUnswapped(i) == [op |-> "sk", cc |-> IF i.f = "gt" THEN "lt" ELSE "eq",   \* mutant
                     a |-> i.dst, b |-> i.src, imm |-> i.imm]
Skip(i) ==
  LET Sk(cc, a, b) == [op |-> "sk", cc |-> cc, a |-> a, b |-> b, imm |-> i.imm] IN
  CASE i.f \in {"eq", "ne", "ge", "lt"} -> Sk(i.f, i.dst, i.src)
    [] i.f = "gt" -> Sk("lt", i.src, i.dst)
    [] i.f = "le" -> Sk("ge", i.src, i.dst)
    [] i.f = "eqImm" -> Sk("eq", i.dst, i.src)
    [] i.f = "neImm" -> Sk("ne", i.dst, i.src)
    [] i.f = "neg" -> Sk("lt", i.dst, 0)
    [] i.f = "notNeg" -> Sk("ge", i.dst, 0)

(* The opcodes of an instruction whose label, if it has one, is at lbl. *)
Encode(i, lbl) ==
  CASE i.op = "alu" /\ i.f = "mov" /\ i.imm -> LoadImm(i.dst, i.src)
    [] i.op = "alu" /\ ~ (i.f = "mov" /\ i.imm) -> <<i>>
    [] i.op = "br" -> (IF i.f = "al" THEN <<>> ELSE <<Skip(i)>>)
                        \o (IF VerifyLabel(lbl) THEN <<[op |-> "b", to |-> lbl]>> ELSE <<>>)
    [] i.op = "call" -> IF VerifyLabel(lbl) THEN <<[op |-> "bl", to |-> lbl]>> ELSE <<>>
    [] i.op = "exit" -> <<[op |-> "exit", v |-> i.src]>>
    [] i.op \in {"ret", "native", "push", "pop"} -> <<i>>

Building == phase = "build" /\ ok /\ UNCHANGED <<phase, runVars, expired, code>>

(* History: what the host asked for, as long as nothing failed. *)
Remember(i) == IF ok' THEN asked' = Append(asked, i) /\ start' = Append(start, head)
                      ELSE asked' = <<>> /\ start' = <<>>

Labelled(i, l) == [op |-> i.op, f |-> i.f, dst |-> i.dst, src |-> i.src, imm |-> i.imm, to |-> l]
Plain(i) == i.op \in {"alu", "push", "pop", "native"}
Jump(i) == i.op \in {"br", "call"}
Asked(Kind(_)) == Cardinality({k \in DOMAIN asked : Kind(asked[k])})

(* The host adds an instruction without a label. *)
AddOpcode ==
  /\ Building
  /\ \E i \in {s \in Source : ~ Jump(s)} :
       /\ Plain(i) => Asked(Plain) < MaxPlain
       /\ EmitUpTo(Encode(i, 0), TRUE)
       /\ Remember(i)
  /\ UNCHANGED cells

(* A label is what codegenLabelGetCur returned when instruction k was the    *)
(* next one, or a predeclared one.                                           *)
Labels == [at : 1 .. Len(asked) + 1] \cup [cell : DOMAIN cells]
Position(l) ==
  IF "cell" \in DOMAIN l THEN cells[l.cell].pos
  ELSE IF l.at \in DOMAIN start THEN start[l.at] ELSE head

AddBranch ==
  /\ Building /\ Asked(Jump) < MaxJumps
  /\ \E i \in {s \in Source : Jump(s)}, l \in Labels :
       /\ EmitUpTo(Encode(i, Position(l)), VerifyLabel(Position(l)))
       /\ Remember(Labelled(i, l))
  /\ UNCHANGED cells

(* codegenAllocPredeclaredLabel *)
Predeclare ==
  /\ Building /\ Len(cells) < MaxCells
  /\ IF tail = head
     THEN ok' = FALSE /\ UNCHANGED <<ops, tail, cells>>
     ELSE /\ tail' = tail - 1
          /\ ops' = [ops EXCEPT ![tail - 1] = Unfilled]
          /\ cells' = Append(cells, [pos |-> tail - 1, to |-> {}])
          /\ UNCHANGED ok
  /\ UNCHANGED <<head, asked, start>>

(* codegenGetPredeclaredLabelFillTarget: refuses a cell that is filled. *)
Fill ==
  /\ Building
  /\ \E c \in DOMAIN cells, l \in Labels :
       IF VerifyPredeclared(cells[c].pos) /\ VerifyLabel(Position(l)) /\ ops[cells[c].pos] = Unfilled
       THEN /\ ops' = [ops EXCEPT ![cells[c].pos] = [op |-> "b", to |-> Position(l)]]
            /\ cells' = [cells EXCEPT ![c].to = @ \cup {l}]
            /\ UNCHANGED ok
       ELSE cells[c].to = {} /\ ok' = FALSE /\ UNCHANGED <<ops, cells>>
  /\ UNCHANGED <<head, tail, asked, start>>

(* codegenInit, also after any call that failed. *)
GenInit ==
  /\ phase = "build"
  /\ ops' = [p \in 0 .. M - 1 |-> Erased] /\ head' = 0 /\ tail' = M /\ ok' = TRUE
  /\ asked' = <<>> /\ start' = <<>> /\ cells' = <<>>
  /\ UNCHANGED <<phase, runVars, expired, code>>

-----------------------------------------------------------------------------
(* The host runs a program it has finished: every label leads somewhere, and *)
(* one that fills the array up to the label cells does not run into them.    *)
FallsThrough(i) == ~ (i.op \in {"ret", "exit"} \/ (i.op = "br" /\ i.f = "al"))
Closed == /\ asked # <<>> /\ ~ FallsThrough(Last(asked))
          /\ \A i \in DOMAIN asked : "to" \in DOMAIN asked[i] => asked[i].to # [at |-> Len(asked) + 1]
          /\ \A c \in DOMAIN cells : cells[c].to # {[at |-> Len(asked) + 1]}
Finished == /\ \A c \in DOMAIN cells : cells[c].to # {}
            /\ head < tail \/ tail = M \/ Closed

Run ==
  /\ phase = "build" /\ ok /\ Finished
  /\ phase' = "run" /\ expired' = FALSE
  /\ vpc' = 0 /\ recur' = <<>> /\ data' = <<>> /\ ofst' = 0
  /\ regs' \in InitRegs
  /\ UNCHANGED <<genVars, code>>

(* The answer is on its way and the interpreter's locals are gone. *)
Answered ==
  /\ phase = "done" /\ phase' = "build"
  /\ regs' = [r \in Regs |-> 0] /\ code' = Failed /\ expired' = FALSE
  /\ UNCHANGED <<genVars, vpc, recur, data, ofst>>

Tick == phase = "run" /\ ~ expired /\ expired' = TRUE /\ UNCHANGED <<genVars, phase, runVars, code>>

-----------------------------------------------------------------------------
(* codegen-run-generic.c *)

Out(c) == /\ phase' = "done" /\ code' = c
          /\ vpc' = 0 /\ recur' = <<>> /\ data' = <<>> /\ ofst' = 0
          /\ UNCHANGED <<genVars, regs, expired>>

(* The clock is looked at in every CheckEvery-th turn. *)
SeesTimeOutNever == FALSE                          \* mutant
SeesTimeOut == ofst = 0 /\ expired

Fetch(op) == phase = "run" /\ ~ SeesTimeOut /\ vpc < M /\ ops[vpc].op = op
Go(pc) == /\ vpc' = pc /\ ofst' = (ofst + 1) % CheckEvery
          /\ UNCHANGED <<genVars, phase, expired, code>>
Word == ops[vpc]
Load(r, v, n) == regs' = [regs EXCEPT ![r] = v] /\ Go(vpc + n) /\ UNCHANGED <<recur, data>>

RunB == Fetch("b") /\ Go(Word.to) /\ UNCHANGED <<regs, recur, data>>
RunBl == /\ Fetch("bl")
         /\ IF Len(recur) = MaxCalls THEN Out(Failed)
            ELSE recur' = Append(recur, vpc + 1) /\ Go(Word.to) /\ UNCHANGED <<regs, data>>
RunRet == /\ Fetch("ret")
          /\ IF recur = <<>> THEN Out(Failed)
             ELSE recur' = Front(recur) /\ Go(Last(recur)) /\ UNCHANGED <<regs, data>>

EvalCc(cc, a, b) == CASE cc = "eq" -> a = b [] cc = "ne" -> a # b [] cc = "lt" -> a < b [] cc = "ge" -> a >= b
RunSkip == /\ Fetch("sk")
           /\ Go(IF EvalCc(Word.cc, regs[Word.a], IF Word.imm THEN Word.b ELSE regs[Word.b])
                 THEN vpc + 1 ELSE vpc + 2)
           /\ UNCHANGED <<regs, recur, data>>

RunMov8 == Fetch("mov8") /\ Load(Word.r, Word.v, 1)
RunMov24 == /\ Fetch("mov24")
            /\ IF vpc + 2 >= M THEN Out(Failed)
               ELSE Load(Word.r, Word.v + ops[vpc + 1].v * Quarter, 2)
RunMov32 == /\ Fetch("mov32")
            /\ IF vpc + 3 >= M THEN Out(Failed)
               ELSE Load(Word.r, ops[vpc + 1].v + ops[vpc + 2].v * Half, 3)

(* The orr case ands.  lsl by an immediate shifts and then ends the run. *)
AluDo(f, dst, src) == Alu(IF f = "orr" THEN "and" ELSE f, dst, src)
RunAlu ==
  /\ Fetch("alu")
  /\ LET v == AluDo(Word.f, regs[Word.dst], IF Word.imm THEN Word.src ELSE regs[Word.src]) IN
     IF Word.f = "lsl" /\ Word.imm
     THEN /\ phase' = "done" /\ code' = Failed /\ regs' = [regs EXCEPT ![Word.dst] = v]
          /\ vpc' = 0 /\ recur' = <<>> /\ data' = <<>> /\ ofst' = 0
          /\ UNCHANGED <<genVars, expired>>
     ELSE Load(Word.dst, v, 1)

(* Push stores the address of the next opcode. *)
RunPush == /\ Fetch("push")
           /\ IF Len(data) = MaxStack THEN Out(Failed)
              ELSE data' = Append(data, vpc + 1) /\ Go(vpc + 1) /\ UNCHANGED <<regs, recur>>
RunPop == /\ Fetch("pop")
          /\ IF data = <<>> THEN Out(Failed)
             ELSE /\ regs' = [regs EXCEPT ![Word.dst] = Last(data)] /\ data' = Front(data)
                  /\ Go(vpc + 1) /\ UNCHANGED recur

(* A native function leaves its results in registers; an unknown one fails.  *)
With(results) == [r \in Regs |-> IF r \in DOMAIN results THEN results[r] ELSE regs[r]]
RunNative == /\ Fetch("native")
             /\ IF Word.src \in DOMAIN NativeRets
                THEN /\ \E v \in NativeRets[Word.src] : regs' = With(v)
                     /\ Go(vpc + 1) /\ UNCHANGED <<recur, data>>
                ELSE Out(Failed)
RunExit == Fetch("exit") /\ Out(Word.v)
RunTimeOut == phase = "run" /\ SeesTimeOut /\ Out(Failed)
RunEnd == phase = "run" /\ ~ SeesTimeOut /\ vpc >= M /\ Out(Failed)

Interpret == \/ RunB \/ RunBl \/ RunRet \/ RunSkip \/ RunMov8 \/ RunMov24 \/ RunMov32 \/ RunAlu
             \/ RunPush \/ RunPop \/ RunNative \/ RunExit \/ RunTimeOut \/ RunEnd

-----------------------------------------------------------------------------
Init ==
  /\ ops = [p \in 0 .. M - 1 |-> Erased] /\ head = 0 /\ tail = M /\ ok = TRUE
  /\ asked = <<>> /\ start = <<>> /\ cells = <<>>
  /\ phase = "build" /\ vpc = 0 /\ regs = [r \in Regs |-> 0] /\ recur = <<>> /\ data = <<>>
  /\ ofst = 0 /\ expired = FALSE /\ code = Failed

Next == \/ AddOpcode \/ AddBranch \/ Predeclare \/ Fill \/ GenInit
        \/ Run \/ Interpret \/ Answered \/ Tick
Spec == Init /\ [][Next]_vars

(* Time passes, and the interpreter is never kept from its next turn. *)
FairSpec == Spec /\ WF_vars(Interpret) /\ WF_vars(Tick)

-----------------------------------------------------------------------------
(* Properties. *)

(* Types and ranges. *)
TypeOK ==
  /\ DOMAIN ops = 0 .. M - 1
  /\ head \in 0 .. M /\ tail \in 0 .. M
  /\ ok \in BOOLEAN /\ phase \in {"build", "run", "done"} /\ expired \in BOOLEAN
  /\ regs \in [Regs -> Words] /\ code \in 0 .. Quarter - 1
  /\ vpc \in 0 .. M + 1 /\ Len(recur) <= MaxCalls /\ Len(data) <= MaxStack /\ ofst \in 0 .. CheckEvery - 1

(* Code and label cells share an array without touching: every instruction   *)
(* keeps the opcodes it was given, every predeclared label its cell, and a   *)
(* cell is unfilled or branches to the one label it was filled with.         *)
Intact ==
  /\ TypeOK
  /\ head <= tail
  /\ ok => /\ \A k \in DOMAIN asked : LET i == asked[k] IN
                LET ws == Encode(i, IF "to" \in DOMAIN i THEN Position(i.to) ELSE 0) IN
                \A j \in DOMAIN ws : start[k] + j - 1 < head /\ ops[start[k] + j - 1] = ws[j]
           /\ \A c \in DOMAIN cells :
                /\ cells[c].pos \in tail .. M - 1 /\ Cardinality(cells[c].to) <= 1
                /\ ops[cells[c].pos] \in IF cells[c].to = {} THEN {Unfilled}
                                         ELSE {[op |-> "b", to |-> Position(l)] : l \in cells[c].to}

(* Whatever came in between, labels stay valid: a legal request fails only   *)
(* for want of room.                                                         *)
FailsOnlyWhenFull == ~ ok => head = tail

(* A script that loops, also one that loops within its label cells, ends by  *)
(* its time limit.                                                           *)
RunEnds == phase = "run" ~> phase = "done"
=============================================================================
