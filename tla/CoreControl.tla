----------------------------- MODULE CoreControl -----------------------------
(* Run control and registers of one core: cortex.c and the commands of main.c *)
(* that call it, access by access, with the host's cpuSimpleCmd, cpuResetStop *)
(* and cpuRegsGetSet (tool/cpu.c), against a core that runs, halts and is     *)
(* reset meanwhile, by the probe or by its pin or a watchdog.  An access may  *)
(* fail with or without its effect, an answer may be lost on the way to the   *)
(* host.  A byte is the set of its bits.                                      *)
EXTENDS Naturals, Sequences

CONSTANTS Regs,      (* registers of a set, read and written in order         *)
          Values,    (* their values                                          *)
          Polls,     (* retryCtr's first value: 64 in the code                *)
          CtrSize,   (* values of retryCtr's type: 256                        *)
          MaxOps,    (* operations the host asks for: a bound of the model    *)
          MaxLost    (* answers lost: a bound of the model                    *)

ASSUME CoreAssumption == /\ {Regs, Polls, CtrSize, MaxOps, MaxLost} \subseteq Nat
                         /\ 0 < Regs /\ 0 < Polls /\ Polls < CtrSize
                         /\ 0 \in Values

VARIABLES
  halted,   (* S_HALT                                                         *)
  ctl,      (* C_HALT and C_STEP of DHCSR                                     *)
  dfsr,     (* the core's sticky stop reasons                                 *)
  vc,       (* DEMCR.VC_CORERESET                                             *)
  resetReq, (* a reset has been asked for                                     *)
  xfer,     (* the register transfer the core has not yet made, or None       *)
  regs, dcrdr,
  cmd, pc,  (* the command the probe is at, and its next access               *)
  val,      (* the handler's val                                              *)
  ctr, i,   (* retryCtr, and the loop over the registers                      *)
  buf, res, (* the reply: registers; the byte, for registers whether all went *)
  op, todo, (* the host's operation, and the commands left of it              *)
  saved,    (* cpuResetStop's demcr                                           *)
  ops, losses,
  untold,   (* history: stop reasons that arose and were neither told nor lost *)
  again,    (* history: those of the answer on its way that arose once more   *)
  fresh,    (* history: nothing has been executed since the last reset        *)
  ranOut,   (* history: retryCtr ran out in this operation                    *)
  steady,   (* history: a register command found the core halted and at rest, *)
            (* and it has not been reset since                                *)
  sure,     (* history: every command of this operation was answered, and     *)
            (* vector catch was on whenever the core was reset unasked        *)
  freed     (* history: a reset unasked has let the core go since the probe   *)
            (* last saw S_HALT                                                *)

core == <<halted, ctl, dfsr, vc, resetReq, xfer, regs, dcrdr>>
probe == <<cmd, pc, val, ctr, i, buf, res>>
host == <<op, todo, saved, ops, losses>>
history == <<untold, again, fresh, ranOut, steady, sure, freed>>
vars == <<core, probe, host, history>>

Bits == {"HALT", "BKPT", "VCATCH", "OTHER"}  \* CORTEX_W_*
Fail == Bits                                 \* 0xFF: CORTEX_W_FAIL, and no answer
Yes == {"HALT"}                              \* 1
No == {}                                     \* 0
RegSet == 1 .. Regs
None == [reg |-> 0, write |-> FALSE]
Blank == [r \in RegSet |-> 0]
Xfers == [reg : RegSet, write : BOOLEAN] \cup {None}
Stopping == {"stop", "step", "status"}
Cmds == Stopping \cup {"go", "reset", "catch", "restore", "read", "write"}

(* The stop reasons the host learns from an answer, and those on their way.   *)
Told == IF cmd \in Stopping /\ res # Fail THEN res ELSE {}
Carried == IF pc = "answer" THEN Told ELSE {}

-----------------------------------------------------------------------------
(* The core. *)

Executes == /\ ~ halted /\ "STEP" \notin ctl
            /\ fresh' = FALSE
            /\ regs' \in [RegSet -> Values]
            /\ UNCHANGED <<halted, ctl, dfsr, vc, resetReq, xfer, dcrdr, probe, host,
                           untold, again, ranOut, steady, sure, freed>>

(* Reasons that arise; one that DFSR already holds is one with it.            *)
Arise == LET new == dfsr' \ dfsr IN
           untold' = untold \cup new /\ again' = again \cup (new \cap Carried)

Halts == /\ ~ halted
         /\ \/ "STEP" \in ctl /\ fresh' = FALSE /\ regs' \in [RegSet -> Values]
               /\ dfsr' = dfsr \cup {"HALT"}
            \/ "HALT" \in ctl /\ dfsr' = dfsr \cup {"HALT"} /\ UNCHANGED <<fresh, regs>>
            \/ dfsr' = dfsr \cup {"BKPT"} /\ UNCHANGED <<fresh, regs>>
         /\ halted' = TRUE
         /\ ctl' = ctl \cup {"HALT"}
         /\ Arise
         /\ UNCHANGED <<vc, resetReq, xfer, dcrdr, probe, host, ranOut, steady, sure, freed>>

StartsAnew == /\ resetReq' = FALSE
              /\ halted' = vc
              /\ ctl' = IF vc THEN {"HALT"} ELSE {}
              /\ dfsr' = IF vc THEN dfsr \cup {"VCATCH"} ELSE dfsr
              /\ Arise
              /\ regs' = [r \in RegSet |-> 0] /\ xfer' = None
              /\ fresh' = TRUE
              /\ UNCHANGED <<vc, dcrdr, probe, host, ranOut>>

Resets == resetReq /\ StartsAnew /\ UNCHANGED <<steady, sure, freed>>

(* The core's reset pin, or a watchdog of the target.                         *)
ResetsUnasked == /\ ~ resetReq
                 /\ StartsAnew
                 /\ steady' = FALSE /\ sure' = (sure /\ vc) /\ freed' = ~ vc

Transfers == /\ halted /\ xfer # None
             /\ IF xfer.write THEN /\ regs' = [regs EXCEPT ![xfer.reg] = dcrdr]
                                   /\ UNCHANGED dcrdr
                              ELSE dcrdr' = regs[xfer.reg] /\ UNCHANGED regs
             /\ xfer' = None
             /\ UNCHANGED <<halted, ctl, dfsr, vc, resetReq, probe, host, history>>

(* A write of DCRSR asks for a transfer.  While the core runs, or makes       *)
(* another, it may be ignored.                                                *)
Asked(r, w) == /\ xfer' \in {[reg |-> r, write |-> w]} \cup
                            (IF halted /\ xfer = None THEN {} ELSE {xfer})
               /\ UNCHANGED <<halted, ctl, dfsr, vc, resetReq, regs, dcrdr>>

-----------------------------------------------------------------------------
(* The probe.  Effects of its accesses on the core: *)

WritesCtl(c) == /\ ctl' = c
                /\ halted' = (halted /\ "HALT" \in c)
                /\ UNCHANGED <<dfsr, vc, resetReq, xfer, regs, dcrdr>>
WritesVc(b) == vc' = b /\ UNCHANGED <<halted, ctl, dfsr, resetReq, xfer, regs, dcrdr>>
AsksReset == resetReq' = TRUE /\ UNCHANGED <<halted, ctl, dfsr, vc, xfer, regs, dcrdr>>
ClearsAll(bits) == /\ dfsr' = {}              \* mutant: clears more than was read
                   /\ UNCHANGED <<halted, ctl, vc, resetReq, xfer, regs, dcrdr>>
Clears(bits) == /\ dfsr' = dfsr \ bits
                /\ UNCHANGED <<halted, ctl, vc, resetReq, xfer, regs, dcrdr>>
WritesDcrdr(v) == dcrdr' = v /\ UNCHANGED <<halted, ctl, dfsr, vc, resetReq, xfer, regs>>

Answers(r) == pc' = "answer" /\ res' = r
Goes(p) == pc' = p /\ UNCHANGED res

(* cortexStep, cortexStop and cortexGo change what they have read of DHCSR.   *)
NewCtl == CASE cmd = "go" -> val \ {"HALT", "STEP"}
            [] cmd = "stop" -> val \cup {"HALT"}
            [] cmd = "step" -> (val \ {"HALT"}) \cup {"STEP"}
NotStarted == IF cmd = "go" THEN No ELSE Fail

ReadCtl == /\ pc = "readCtl"
           /\ \/ val' = ctl /\ Goes("writeCtl")
              \/ Answers(NotStarted) /\ UNCHANGED val
           /\ UNCHANGED <<core, cmd, ctr, i, buf, host, history>>
WriteCtl == /\ pc = "writeCtl"
            /\ \/ /\ WritesCtl(NewCtl)
                  /\ IF cmd = "go" THEN Answers(Yes) ELSE Goes("isHalted")
               \/ /\ WritesCtl(NewCtl) \/ UNCHANGED core
                  /\ Answers(NotStarted)
            /\ val' = {}
            /\ UNCHANGED <<cmd, ctr, i, buf, host, history>>

(* cortexReset; its result is kept while the stop reason is read.             *)
WriteAircr == /\ pc = "aircr"
              /\ \/ AsksReset /\ res' = Yes
                 \/ (AsksReset \/ UNCHANGED core) /\ res' = No
              /\ pc' = "isHalted"
              /\ UNCHANGED <<cmd, val, ctr, i, buf, host, history>>

(* cortexGetStopReason.  RESET makes nothing of its result.                   *)
Reason(r) == Answers(IF cmd = "reset" THEN res ELSE r)
LooksAlwaysHalted == TRUE                     \* mutant: S_HALT is not looked at
LooksHalted == halted
IsHalted == /\ pc = "isHalted"
            /\ \/ LooksHalted /\ Goes("readDfsr") /\ freed' = FALSE
               \/ ~ LooksHalted /\ Reason(Fail) /\ UNCHANGED freed
               \/ Reason(Fail) /\ UNCHANGED freed
            /\ UNCHANGED <<core, cmd, val, ctr, i, buf, host,
                           untold, again, fresh, ranOut, steady, sure>>
ReadDfsr == /\ pc = "readDfsr"
            /\ \/ val' = dfsr /\ Goes("clearDfsr")
               \/ Reason(Fail) /\ UNCHANGED val
            /\ UNCHANGED <<core, cmd, ctr, i, buf, host, history>>
ClearDfsr == /\ pc = "clearDfsr"
             /\ \/ /\ Clears(val) /\ Reason(val)
                   /\ untold' = IF cmd = "reset" THEN untold \ val ELSE untold
                \/ /\ Clears(val) /\ Reason(Fail)
                   /\ untold' = untold \ val
                \/ UNCHANGED <<core, untold>> /\ Reason(Fail)
             /\ val' = {}
             /\ UNCHANGED <<cmd, ctr, i, buf, host, again, fresh, ranOut, steady, sure, freed>>

(* The two writes of DEMCR by which cpuResetStop has the reset caught; the    *)
(* read before them, when it fails, leaves as little as a write that does.    *)
NewVc == cmd = "catch" \/ saved
WriteDemcr == /\ pc = "demcr"
              /\ \/ WritesVc(NewVc) /\ Answers(Yes)
                 \/ (WritesVc(NewVc) \/ UNCHANGED core) /\ Answers(No)
              /\ UNCHANGED <<cmd, val, ctr, i, buf, host, history>>

(* REGS_READ and REGS_WRITE: a register that failed ends the control set, the *)
(* other sets go on; regSet remembers it.                                     *)
NextReg(good) == /\ res' = IF good THEN res ELSE No
                 /\ i' = i + 1
                 /\ \/ (i = Regs \/ ~ good) /\ pc' = "answer"
                    \/ i < Regs /\ pc' = IF cmd = "read" THEN "dcrsr" ELSE "dcrdr"
WriteDcrdr == /\ pc = "dcrdr"
              /\ \/ WritesDcrdr(buf[i]) /\ Goes("dcrsr") /\ UNCHANGED i
                 \/ (WritesDcrdr(buf[i]) \/ UNCHANGED core) /\ NextReg(FALSE)
              /\ UNCHANGED <<cmd, val, ctr, buf, host, history>>
WriteDcrsr == /\ pc = "dcrsr"
              /\ \/ /\ Asked(i, cmd = "write")
                    /\ ctr' = Polls
                    /\ Goes("poll") /\ UNCHANGED i
                 \/ /\ Asked(i, cmd = "write") \/ UNCHANGED core
                    /\ NextReg(FALSE) /\ UNCHANGED ctr
              /\ UNCHANGED <<cmd, val, buf, host, history>>

(* cortexRegAccessWait: retryCtr is tested, then decremented, and wraps.      *)
DecrementedTwice == (ctr + CtrSize - 2) % CtrSize  \* mutant: misses 0
Decremented == (ctr + CtrSize - 1) % CtrSize
ReadyAtOnce == TRUE                           \* mutant: does not wait
Ready == xfer = None
Waited(c) == IF c # 0 /\ cmd = "read" THEN Goes("fetch") /\ UNCHANGED i
                                      ELSE NextReg(c # 0)
Poll == /\ pc = "poll"
        /\ \/ Ready /\ Waited(ctr) /\ UNCHANGED <<ctr, ranOut>>
           \/ /\ ~ Ready /\ ctr # 0
              /\ ctr' = Decremented
              /\ UNCHANGED <<pc, res, i, ranOut>>
           \/ /\ ~ Ready /\ ctr = 0
              /\ ctr' = Decremented
              /\ Waited(ctr') /\ ranOut' = TRUE
           \/ NextReg(FALSE) /\ UNCHANGED <<ctr, ranOut>>
        /\ UNCHANGED <<core, cmd, val, buf, host, untold, again, fresh, steady, sure, freed>>
Fetch == /\ pc = "fetch"
         /\ \/ buf' = [buf EXCEPT ![i] = dcrdr] /\ NextReg(TRUE)
            \/ UNCHANGED buf /\ NextReg(FALSE)
         /\ UNCHANGED <<core, cmd, val, ctr, host, history>>

-----------------------------------------------------------------------------
(* The host. *)

FirstAccess(c) == CASE c \in {"go", "stop", "step"} -> "readCtl"
                    [] c = "status" -> "isHalted"
                    [] c = "reset" -> "aircr"
                    [] c \in {"catch", "restore"} -> "demcr"
                    [] c = "read" -> "dcrsr"
                    [] c = "write" -> "dcrdr"

(* A command takes longer to arrive than a core takes to be reset.            *)
Begins(c) == /\ ~ resetReq
             /\ cmd' = c /\ pc' = FirstAccess(c)
             /\ res' = Yes /\ i' = 1
             /\ steady' = (c \in {"read", "write"} /\ halted /\ xfer = None)

ResetStopInOneGo == <<"catch", "restore", "reset", "status">> \* mutant: restored too early
ResetStop == <<"catch", "reset", "restore", "status">>
Operations == {<<c>> : c \in Cmds \ {"catch", "restore"}} \cup {ResetStop}

Operate == /\ pc = "idle" /\ ops < MaxOps
           /\ \E o \in Operations :
                /\ o = <<"step">> => halted
                /\ Begins(o[1])
                /\ op' = o /\ todo' = Tail(o)
                /\ buf' \in IF o = <<"write">> THEN [RegSet -> Values] ELSE {Blank}
           /\ ops' = ops + 1
           /\ saved' = (vc /\ Len(op') > 1)
           /\ ranOut' = FALSE /\ sure' = TRUE
           /\ UNCHANGED <<core, val, ctr, losses, untold, again, fresh, freed>>

(* cpuResetStop goes on while its steps succeed.                              *)
GoesOn == res # No
Taken == untold' = untold \ (Told \ again) /\ again' = {}
Answered == /\ pc = "answer"
            /\ IF todo # <<>> /\ GoesOn
               THEN Begins(Head(todo)) /\ todo' = Tail(todo)
               ELSE /\ pc' = "idle" /\ todo' = <<>>
                    /\ res' = IF todo # <<>> THEN Fail ELSE res
                    /\ UNCHANGED <<cmd, i, steady>>
            /\ Taken
            /\ UNCHANGED <<core, val, ctr, buf, op, saved, ops, losses,
                           fresh, ranOut, sure, freed>>

(* An answer that is lost makes the host send the command again.              *)
AnswerLost == /\ pc = "answer" /\ losses < MaxLost
              /\ losses' = losses + 1
              /\ Begins(cmd)
              /\ Taken
              /\ UNCHANGED <<core, val, ctr, buf, op, todo, saved, ops,
                             fresh, ranOut, sure, freed>>

(* No answer at all: cpuSimpleCmd returns 0xFF, which cpuReset and cpuGo take *)
(* for success; the memory and register commands know better.                 *)
Unanswered == /\ pc = "answer" /\ losses < MaxLost
              /\ losses' = losses + 1
              /\ Taken
              /\ sure' = FALSE
              /\ IF todo # <<>> /\ cmd = "reset"
                 THEN Begins(Head(todo)) /\ todo' = Tail(todo)
                 ELSE /\ pc' = "idle" /\ todo' = <<>>
                      /\ res' = IF cmd \in {"read", "write"} THEN No ELSE Fail
                      /\ UNCHANGED <<cmd, i, steady>>
              /\ UNCHANGED <<core, val, ctr, buf, op, saved, ops, fresh, ranOut, freed>>

-----------------------------------------------------------------------------

Init == /\ halted = FALSE /\ ctl = {} /\ dfsr = {} /\ vc = FALSE /\ resetReq = FALSE
        /\ xfer = None /\ regs = [r \in RegSet |-> 0] /\ dcrdr = 0
        /\ cmd = "status" /\ pc = "idle" /\ val = {} /\ ctr = 0 /\ i = 1
        /\ buf = Blank /\ res = Fail
        /\ op = <<"status">> /\ todo = <<>> /\ saved = FALSE /\ ops = 0 /\ losses = 0
        /\ untold = {} /\ again = {} /\ fresh = FALSE /\ ranOut = FALSE
        /\ steady = FALSE /\ sure = TRUE /\ freed = FALSE

Core == Executes \/ Halts \/ Resets \/ ResetsUnasked \/ Transfers
Probe == \/ ReadCtl \/ WriteCtl \/ WriteAircr \/ IsHalted \/ ReadDfsr \/ ClearDfsr
         \/ WriteDemcr \/ WriteDcrdr \/ WriteDcrsr \/ Poll \/ Fetch
Host == Operate \/ Answered \/ AnswerLost \/ Unanswered
Next == Core \/ Probe \/ Host

Spec == Init /\ [][Next]_vars

(* Straight-line code in the probe, a host that waits with a timeout, and a   *)
(* reset that takes place once asked for.  The core need not halt or transfer *)
(* anything.                                                                  *)
FairSpec == Spec /\ WF_vars(Probe) /\ WF_vars(Answered) /\ WF_vars(Resets)

-----------------------------------------------------------------------------
(* Properties. *)

TypeOK ==
  /\ {halted, vc, resetReq, saved, fresh, ranOut, steady, sure, freed} \subseteq BOOLEAN
  /\ ctl \subseteq {"HALT", "STEP"} /\ dfsr \subseteq Bits
  /\ untold \subseteq Bits /\ again \subseteq Bits
  /\ xfer \in Xfers /\ regs \in [RegSet -> Values] /\ buf \in [RegSet -> Values]
  /\ dcrdr \in Values /\ cmd \in Cmds
  /\ pc \in {"idle", "answer", "readCtl", "writeCtl", "isHalted", "readDfsr", "clearDfsr",
            "aircr", "demcr", "dcrdr", "dcrsr", "poll", "fetch"}
  /\ val \subseteq Bits \cup {"STEP"} /\ res \subseteq Bits
  /\ ctr \in 0 .. CtrSize - 1 /\ i \in 1 .. Regs + 1
  /\ pc \in {"dcrdr", "dcrsr", "poll", "fetch"} => i \in RegSet
  /\ op \in Operations /\ ops \in 0 .. MaxOps /\ losses \in 0 .. MaxLost

(* cortex.h:55: reading the stop reason clears it.  A reason that arose is in *)
(* the core until the answer that tells it is on its way: it is lost with an  *)
(* access or an answer that fails, never by a stop that comes in between.     *)
(* None is told twice, unless it arose once more, and none that did not arise. *)
ReasonsToldOnce == TypeOK /\ untold = dfsr \cup Carried /\ again = dfsr \cap Carried

(* An answer to STOP, SINGLE_STEP or IS_STOPPED other than 0xFF means that the *)
(* core stands still, whatever it did between the accesses: run, halt at a    *)
(* breakpoint, be reset by its pin with vector catch on, or with vector catch *)
(* off before the probe looked.  Only such a reset after the look makes the   *)
(* answer untrue.                                                             *)
HonestAnswer == (pc = "answer" /\ cmd \in Stopping /\ res # Fail) => halted \/ freed

(* cpuResetStop that does not fail leaves the core at the reset vector, no    *)
(* instruction executed, and vector catch as it was, even when commands had   *)
(* to be sent again, and the core was reset unasked while it was being caught. *)
(* Only a RESET without any answer goes unnoticed, and a reset unasked after  *)
(* vector catch is off again.                                                 *)
CaughtAtReset ==
  (pc = "idle" /\ op = ResetStop /\ res # Fail /\ sure) =>
    halted /\ fresh /\ vc = saved

(* Registers read from a core at rest are its registers, those written are in *)
(* it, unless it was reset meanwhile or the wait gave up: a counter that ran  *)
(* out is not 0 but 255, and cortexRegAccessWait takes that for success.      *)
RegsRight ==
  (pc = "idle" /\ op \in {<<"read">>, <<"write">>} /\ res = Yes /\ steady /\ ~ ranOut) =>
    buf = regs

(* Every operation comes to an end, though the core never gets ready.         *)
OpEnds == pc # "idle" ~> pc = "idle"
==============================================================================
