-------------------------- MODULE CoreControlProofs --------------------------
(* Proofs about run control and the registers of one core, for register sets, *)
(* retry counters and numbers of operations of every size.                   *)
EXTENDS CoreControl, TLAPS

LEMMA Sizes == /\ Regs \in Nat /\ Regs > 0 /\ 0 \in Values
               /\ Polls \in Nat /\ CtrSize \in Nat /\ 0 < Polls /\ Polls < CtrSize
               /\ MaxOps \in Nat /\ MaxLost \in Nat
BY CoreAssumption

LEMMA WrapsInRange ==
  ASSUME NEW c \in Nat, NEW n \in Nat, n > 0 PROVE (c + n - 1) % n \in 0 .. n - 1
OBVIOUS

LEMMA DecrementedType == ctr \in 0 .. CtrSize - 1 => Decremented \in 0 .. CtrSize - 1
BY Sizes, WrapsInRange DEF Decremented

-----------------------------------------------------------------------------
(* The inductive invariant. *)

Stood == halted /\ fresh                        \* caught at the reset vector

(* Which command is at which access, and for how long a reset is on its way.  *)
Placed ==
  /\ pc \in {"readCtl", "writeCtl"} => cmd \in {"go", "stop", "step"}
  /\ pc \in {"isHalted", "readDfsr", "clearDfsr"} => cmd \in Stopping \cup {"reset"}
  /\ pc = "aircr" => cmd = "reset"
  /\ pc = "demcr" => cmd \in {"catch", "restore"}
  /\ pc = "dcrdr" => cmd = "write"
  /\ pc \in {"dcrsr", "poll"} => cmd \in {"read", "write"}
  /\ pc = "fetch" => cmd = "read"
  /\ pc = "writeCtl" => val \subseteq {"HALT", "STEP"}
  /\ resetReq => cmd = "reset" /\ pc # "aircr"

(* What the probe has read of DFSR and will clear is still there, and what an *)
(* answer carries is there only where it has arisen once more.                *)
Reasons ==
  /\ "OTHER" \notin dfsr
  /\ pc = "clearDfsr" => val \subseteq dfsr
  /\ again = dfsr \cap Carried
  /\ untold = dfsr \cup Carried

(* From the look at S_HALT to the end of the command nothing lets the core go *)
(* but a reset that nobody asked for.                                         *)
Stands == /\ pc \in {"readDfsr", "clearDfsr"} /\ cmd \in Stopping => halted \/ freed
          /\ HonestAnswer

(* The commands still to come. *)
Route ==
  /\ op # ResetStop \/ pc = "idle" => todo = <<>>
  /\ op = ResetStop /\ pc # "idle" =>
       \/ cmd = "catch" /\ todo = <<"reset", "restore", "status">>
       \/ cmd = "reset" /\ todo = <<"restore", "status">>
       \/ cmd = "restore" /\ todo = <<"status">>
       \/ cmd = "status" /\ todo = <<>>

(* How far cpuResetStop has got at each of its commands. *)
Caught ==
  op = ResetStop =>
    /\ cmd = "catch" /\ pc = "answer" /\ res # No => vc
    /\ cmd = "reset" => vc
    /\ cmd = "reset" /\ pc \notin {"aircr", "idle"} /\ res # No => resetReq \/ Stood
    /\ cmd \in {"restore", "status"} /\ sure => Stood
    /\ cmd = "restore" /\ pc = "answer" /\ res # No => vc = saved
    /\ cmd = "status" /\ sure => vc = saved
    /\ pc = "idle" /\ res # Fail /\ sure => cmd = "status"

(* How far a register command that found the core at rest has got.            *)
Good == res = Yes /\ ~ ranOut
Moved ==
  steady =>
    /\ halted /\ cmd \in {"read", "write"}
    /\ Good =>
         /\ pc # "poll" => xfer = None
         /\ pc = "poll" => xfer \in {None, [reg |-> i, write |-> cmd = "write"]}
         /\ cmd = "read" /\ (pc = "fetch" \/ (pc = "poll" /\ xfer = None)) => dcrdr = regs[i]
         /\ cmd = "write" /\ (pc = "dcrsr" \/ (pc = "poll" /\ xfer # None)) => dcrdr = buf[i]
         /\ cmd = "write" /\ pc = "poll" /\ xfer = None => regs[i] = buf[i]
         /\ \A r \in RegSet : r < i => buf[r] = regs[r]
         /\ pc \in {"answer", "idle"} => i = Regs + 1

IInv == TypeOK /\ Placed /\ Reasons /\ Stands /\ Route /\ Caught /\ Moved

LEMMA InitIInv == Init => IInv
<1> SUFFICES ASSUME Init PROVE IInv
  OBVIOUS
<1> USE DEF Init
<1>a. op \in Operations
  BY DEF Operations, Cmds, Stopping
<1>b. /\ regs \in [RegSet -> Values] /\ buf \in [RegSet -> Values]
      /\ xfer \in Xfers /\ cmd \in Cmds /\ res \subseteq Bits
  BY Sizes DEF Xfers, Blank, Cmds, Stopping, Fail
<1>c. /\ ctl \subseteq {"HALT", "STEP"} /\ dfsr \subseteq Bits /\ untold \subseteq Bits
      /\ val \subseteq Bits \cup {"STEP"}
  OBVIOUS
<1>d. ctr \in 0 .. CtrSize - 1 /\ i \in 1 .. Regs + 1 /\ ops \in 0 .. MaxOps /\ losses \in 0 .. MaxLost
  BY Sizes
<1>1. TypeOK
  BY <1>a, <1>b, <1>c, <1>d, Sizes DEF TypeOK
<1>2. Placed /\ Reasons /\ Stands
  BY DEF Placed, Reasons, Stands, HonestAnswer, Carried
<1>3. op # ResetStop
  BY DEF ResetStop
<1> QED
  BY <1>1, <1>2, <1>3 DEF IInv, Route, Caught, Moved

-----------------------------------------------------------------------------
(* The core. *)

LEMMA ExecutesStep == IInv /\ Executes => IInv'
<1> SUFFICES ASSUME IInv, Executes PROVE IInv'
  OBVIOUS
<1> USE DEF IInv, Executes, probe, host
<1>1. TypeOK'
  BY DEF TypeOK
<1>2. Placed' /\ Reasons' /\ Stands' /\ Route'
  BY DEF Placed, Reasons, Stands, HonestAnswer, Route, Carried, Told
<1>3. Caught'
  BY DEF Caught, Stood
<1>4. Moved'
  BY DEF Moved
<1> QED
  BY <1>1, <1>2, <1>3, <1>4

(* Reasons that arise are in DFSR and to be told, once more if need be.       *)
LEMMA ArisenReasons ==
  ASSUME IInv, Arise, UNCHANGED probe, dfsr \subseteq dfsr', dfsr' \subseteq dfsr \cup {"HALT", "BKPT", "VCATCH"}
  PROVE  Reasons' /\ untold' \subseteq Bits /\ again' \subseteq Bits
<1> DEFINE new == dfsr' \ dfsr
<1>1. Carried' = Carried /\ pc' = pc /\ val' = val
  BY DEF probe, Carried, Told
<1>2. Reasons /\ Carried \subseteq Bits /\ dfsr \subseteq Bits
  BY DEF IInv, TypeOK, Carried, Told
<1>3. untold' = untold \cup new /\ again' = again \cup (new \cap Carried)
  BY DEF Arise
<1>4. dfsr' = dfsr \cup new /\ new \subseteq {"HALT", "BKPT", "VCATCH"}
  OBVIOUS
<1>5. again' = dfsr' \cap Carried' /\ untold' = dfsr' \cup Carried'
  BY <1>1, <1>2, <1>3, <1>4 DEF Reasons
<1>6. "OTHER" \notin dfsr' /\ (pc' = "clearDfsr" => val' \subseteq dfsr')
  BY <1>1, <1>2, <1>4 DEF Reasons
<1>7. untold' \subseteq Bits /\ again' \subseteq Bits
  BY <1>2, <1>3, <1>4 DEF Reasons, Bits
<1> QED
  BY <1>5, <1>6, <1>7 DEF Reasons

LEMMA HaltsStep == IInv /\ Halts => IInv'
<1> SUFFICES ASSUME IInv, Halts PROVE IInv'
  OBVIOUS
<1> USE DEF IInv, Halts, probe, host
<1>0. dfsr \subseteq dfsr' /\ dfsr' \subseteq dfsr \cup {"HALT", "BKPT"}
  OBVIOUS
<1>1. TypeOK'
  BY <1>0, ArisenReasons DEF TypeOK, Bits
<1>2. Placed' /\ Route'
  BY DEF Placed, Route
<1>3. Reasons'
  BY <1>0, ArisenReasons
<1>4. Stands'
  BY DEF Stands, HonestAnswer
<1>5. Caught'
  BY DEF Caught, Stood
<1>6. Moved'
  BY DEF Moved
<1> QED
  BY <1>1, <1>2, <1>3, <1>4, <1>5, <1>6

(* The core starts anew: what a reset leaves, whoever asked for it.           *)
LEMMA StartsAnewStep ==
  ASSUME IInv, StartsAnew, {steady', sure', freed'} \subseteq BOOLEAN
  PROVE  /\ TypeOK' /\ Placed' /\ Route' /\ Reasons'
         /\ halted' = vc /\ fresh' = TRUE /\ xfer' = None /\ UNCHANGED <<vc, probe, host, ranOut>>
<1> USE DEF StartsAnew
<1>0. /\ dfsr \subseteq dfsr' /\ dfsr' \subseteq dfsr \cup {"HALT", "BKPT", "VCATCH"}
      /\ ctl' \subseteq {"HALT", "STEP"}
  OBVIOUS
<1>1. Reasons' /\ untold' \subseteq Bits /\ again' \subseteq Bits
  BY <1>0, ArisenReasons
<1>2. halted' \in BOOLEAN /\ xfer' \in Xfers /\ regs' \in [RegSet -> Values] /\ dfsr' \subseteq Bits
  BY <1>0, Sizes DEF IInv, TypeOK, Xfers, Bits
<1>3. TypeOK'
  BY <1>0, <1>1, <1>2 DEF IInv, TypeOK, probe, host
<1>4. Placed' /\ Route'
  BY DEF IInv, Placed, Route, probe, host
<1> QED
  BY <1>1, <1>3, <1>4

LEMMA ResetsStep == IInv /\ Resets => IInv'
<1> SUFFICES ASSUME IInv, Resets PROVE IInv'
  OBVIOUS
<1>0. /\ resetReq /\ StartsAnew /\ UNCHANGED <<steady, sure, freed>> /\ cmd = "reset"
      /\ {steady', sure', freed'} \subseteq BOOLEAN
  BY DEF Resets, IInv, Placed, TypeOK
<1>1. /\ TypeOK' /\ Placed' /\ Route' /\ Reasons'
      /\ halted' = vc /\ fresh' = TRUE /\ xfer' = None /\ UNCHANGED <<vc, probe, host, ranOut>>
  BY <1>0, StartsAnewStep
<1> USE DEF IInv, probe, host
<1>2. Stands'
  BY <1>0, <1>1 DEF Stands, HonestAnswer, Stopping
<1>3. Caught'
  BY <1>0, <1>1 DEF Caught, Stood
<1>4. Moved'
  BY <1>0, <1>1 DEF Moved
<1> QED
  BY <1>1, <1>2, <1>3, <1>4

(* With vector catch on the core stands at its reset vector as it would have  *)
(* after the reset that was asked for; with vector catch off nothing is said. *)
LEMMA ResetsUnaskedStep == IInv /\ ResetsUnasked => IInv'
<1> SUFFICES ASSUME IInv, ResetsUnasked PROVE IInv'
  OBVIOUS
<1>0. /\ ~ resetReq /\ StartsAnew /\ steady' = FALSE /\ sure' = (sure /\ vc) /\ freed' = ~ vc
  BY DEF ResetsUnasked
<1>a. {steady', sure', freed'} \subseteq BOOLEAN
  BY <1>0 DEF IInv, TypeOK
<1>1. /\ TypeOK' /\ Placed' /\ Route' /\ Reasons'
      /\ halted' = vc /\ fresh' = TRUE /\ xfer' = None /\ UNCHANGED <<vc, probe, host, ranOut>>
  BY <1>0, <1>a, StartsAnewStep
<1>b. /\ halted' \/ freed'
      /\ (sure' => sure /\ vc) /\ (vc => halted' /\ fresh')
  BY <1>0, <1>1, Zenon
<1> USE DEF IInv, probe, host
<1>2. Stands'
  BY <1>1, <1>b DEF Stands, HonestAnswer
<1>3. Caught'
  BY <1>1, <1>b DEF Caught, Stood
<1>4. Moved'
  BY <1>0 DEF Moved
<1> QED
  BY <1>1, <1>2, <1>3, <1>4

LEMMA TransfersStep == IInv /\ Transfers => IInv'
<1> SUFFICES ASSUME IInv, Transfers PROVE IInv'
  OBVIOUS
<1> USE DEF IInv, Transfers, probe, host, history
<1>1. xfer \in [reg : RegSet, write : BOOLEAN]
  BY DEF TypeOK, Xfers
<1>2. TypeOK'
  BY <1>1 DEF TypeOK, Xfers
<1>3. Placed' /\ Reasons' /\ Stands' /\ Route'
  BY DEF Placed, Reasons, Stands, HonestAnswer, Route, Carried, Told
<1>4. Caught'
  BY DEF Caught, Stood
<1>5. Moved'
  <2> SUFFICES ASSUME steady, Good PROVE Moved'
    BY DEF Moved, Good
  <2>1. pc = "poll" /\ xfer = [reg |-> i, write |-> cmd = "write"] /\ i \in RegSet
    BY DEF Moved, TypeOK
  <2>2. \A r \in RegSet : r < i => r # i
    BY DEF RegSet
  <2> QED
    BY <1>1, <2>1, <2>2 DEF Moved, TypeOK, Good
<1> QED
  BY <1>2, <1>3, <1>4, <1>5

-----------------------------------------------------------------------------
(* The probe: run control. *)

LEMMA ReadCtlStep == IInv /\ ReadCtl => IInv'
<1> SUFFICES ASSUME IInv, ReadCtl PROVE IInv'
  OBVIOUS
<1> USE DEF IInv, ReadCtl, Answers, Goes, NotStarted, core, host, history
<1>0. cmd \in {"go", "stop", "step"} /\ pc # "answer"
  BY DEF Placed
<1>1. TypeOK'
  BY DEF TypeOK, No, Fail, Bits
<1>2. Placed'
  BY <1>0 DEF Placed, TypeOK
<1>3. Carried = {} /\ Carried' = {}
  BY <1>0 DEF Carried, Told, Stopping
<1>4. Reasons' /\ Stands'
  BY <1>0, <1>3 DEF Reasons, Stands, HonestAnswer, Stopping
<1>5. Route' /\ Caught' /\ Moved'
  BY <1>0 DEF Route, Caught, Moved, Stood
<1> QED
  BY <1>1, <1>2, <1>4, <1>5

LEMMA NewCtlType ==
  ASSUME IInv, pc = "writeCtl" PROVE NewCtl \subseteq {"HALT", "STEP"}
<1>1. cmd \in {"go", "stop", "step"} /\ val \subseteq {"HALT", "STEP"}
  BY DEF IInv, Placed
<1> QED
  BY <1>1 DEF NewCtl

LEMMA WriteCtlStep == IInv /\ WriteCtl => IInv'
<1> SUFFICES ASSUME IInv, WriteCtl PROVE IInv'
  OBVIOUS
<1> USE DEF IInv, WriteCtl, WritesCtl, Answers, Goes, NotStarted, core, host, history
<1>0. cmd \in {"go", "stop", "step"} /\ pc # "answer"
  BY DEF Placed
<1>a. halted' \in BOOLEAN
  BY DEF TypeOK
<1>b. ctl' \subseteq {"HALT", "STEP"}
  BY NewCtlType DEF TypeOK
<1>1. TypeOK'
  BY <1>a, <1>b DEF TypeOK, No, Yes, Fail, Bits
<1>2. Placed'
  BY <1>0 DEF Placed, Stopping
<1>3. Carried = {} /\ Carried' = {}
  BY <1>0 DEF Carried, Told, Stopping
<1>4. Reasons'
  BY <1>3 DEF Reasons
<1>5. Stands'
  BY <1>0 DEF Stands, HonestAnswer, Stopping
<1>6. Route' /\ Caught' /\ Moved'
  BY <1>0 DEF Route, Caught, Moved
<1> QED
  BY <1>1, <1>2, <1>4, <1>5, <1>6

LEMMA WriteAircrStep == IInv /\ WriteAircr => IInv'
<1> SUFFICES ASSUME IInv, WriteAircr PROVE IInv'
  OBVIOUS
<1> USE DEF IInv, WriteAircr, AsksReset, core, host, history
<1>0. cmd = "reset" /\ pc # "answer"
  BY DEF Placed
<1>1. TypeOK'
  BY DEF TypeOK, No, Yes, Bits
<1>2. Placed' /\ Route'
  BY <1>0 DEF Placed, Route
<1>3. Carried = {} /\ Carried' = {}
  BY <1>0 DEF Carried
<1>4. Reasons' /\ Stands'
  BY <1>0, <1>3 DEF Reasons, Stands, HonestAnswer, Stopping
<1>5. Caught' /\ Moved'
  BY <1>0 DEF Caught, Moved, No, Yes
<1> QED
  BY <1>1, <1>2, <1>4, <1>5

LEMMA IsHaltedStep == IInv /\ IsHalted => IInv'
<1> SUFFICES ASSUME IInv, IsHalted PROVE IInv'
  OBVIOUS
<1> USE DEF IInv, IsHalted, Reason, Answers, Goes, LooksHalted, core, host, history
<1>0. cmd \in Stopping \cup {"reset"} /\ pc # "answer"
  BY DEF Placed
<1>1. TypeOK'
  BY DEF TypeOK, Fail
<1>2. Placed' /\ Route'
  BY <1>0 DEF Placed, Route
<1>3. Carried = {} /\ Carried' = {}
  BY <1>0 DEF Carried, Told, Stopping
<1>4. Reasons' /\ Stands'
  BY <1>0, <1>3 DEF Reasons, Stands, HonestAnswer, Stopping
<1>5. Caught'
  BY <1>0 DEF Caught, Stood, Stopping
<1>6. Moved'
  BY <1>0 DEF Moved, Stopping
<1> QED
  BY <1>1, <1>2, <1>4, <1>5, <1>6

LEMMA ReadDfsrStep == IInv /\ ReadDfsr => IInv'
<1> SUFFICES ASSUME IInv, ReadDfsr PROVE IInv'
  OBVIOUS
<1> USE DEF IInv, ReadDfsr, Reason, Answers, Goes, core, host, history
<1>0. cmd \in Stopping \cup {"reset"} /\ pc # "answer"
  BY DEF Placed
<1>1. TypeOK'
  BY DEF TypeOK, Fail
<1>2. Placed' /\ Route'
  BY <1>0 DEF Placed, Route
<1>3. Carried = {} /\ Carried' = {}
  BY <1>0 DEF Carried, Told, Stopping
<1>4. Reasons' /\ Stands'
  BY <1>0, <1>3 DEF Reasons, Stands, HonestAnswer, Stopping
<1>5. Caught'
  BY <1>0 DEF Caught, Stood, Stopping
<1>6. Moved'
  BY <1>0 DEF Moved, Stopping
<1> QED
  BY <1>1, <1>2, <1>4, <1>5, <1>6

(* What is told is what is cleared: the bits read are still the core's, and   *)
(* are not all of a byte's, which would read as a failure.                    *)
LEMMA ClearDfsrStep == IInv /\ ClearDfsr => IInv'
<1> SUFFICES ASSUME IInv, ClearDfsr PROVE IInv'
  OBVIOUS
<1> USE DEF IInv, ClearDfsr, Clears, Reason, Answers, core, host
<1>0. cmd \in Stopping \cup {"reset"} /\ pc # "answer"
  BY DEF Placed
<1>1. val \subseteq dfsr /\ val # Fail /\ untold = dfsr /\ again = {} /\ again' = {}
  BY <1>0 DEF Reasons, Carried, Fail, Bits
<1>2. TypeOK'
  BY <1>1 DEF TypeOK, Fail
<1>3. Placed' /\ Route'
  BY <1>0 DEF Placed, Route
<1>4. Carried' = IF cmd \in Stopping /\ res' # Fail THEN res' ELSE {}
  BY DEF Carried, Told
<1>5. Reasons'
  <2>1. "OTHER" \notin dfsr' /\ pc' # "clearDfsr"
    BY DEF Reasons
  <2>2. CASE UNCHANGED <<core, untold>> /\ Reason(Fail)
    <3>1. Carried' = {} /\ untold' = dfsr'
      BY <1>0, <1>1, <1>4, <2>2 DEF Stopping
    <3> QED
      BY <1>1, <2>1, <3>1 DEF Reasons
  <2>3. CASE Clears(val) /\ Reason(Fail) /\ untold' = untold \ val
    <3>1. Carried' = {} /\ untold' = dfsr'
      BY <1>0, <1>1, <1>4, <2>3 DEF Stopping
    <3> QED
      BY <1>1, <2>1, <3>1 DEF Reasons
  <2>4. CASE Clears(val) /\ Reason(val) /\ untold' = IF cmd = "reset" THEN untold \ val ELSE untold
    <3>1. Carried' = IF cmd = "reset" THEN {} ELSE val
      BY <1>0, <1>1, <1>4, <2>4 DEF Stopping
    <3>2. dfsr' \cap Carried' = {} /\ untold' = dfsr' \cup Carried'
      BY <1>1, <2>4, <3>1
    <3> QED
      BY <1>1, <2>1, <3>2 DEF Reasons
  <2> QED
    BY <2>2, <2>3, <2>4
<1>6. Stands'
  BY <1>0 DEF Stands, HonestAnswer, Stopping
<1>7. Caught'
  BY <1>0 DEF Caught, Stood, Stopping
<1>8. Moved'
  BY <1>0 DEF Moved, Stopping
<1> QED
  BY <1>2, <1>3, <1>5, <1>6, <1>7, <1>8

LEMMA WriteDemcrStep == IInv /\ WriteDemcr => IInv'
<1> SUFFICES ASSUME IInv, WriteDemcr PROVE IInv'
  OBVIOUS
<1> USE DEF IInv, WriteDemcr, WritesVc, NewVc, Answers, core, host, history
<1>0. cmd \in {"catch", "restore"} /\ pc # "answer"
  BY DEF Placed
<1>a. vc' \in BOOLEAN
  BY DEF TypeOK
<1>1. TypeOK'
  BY <1>a DEF TypeOK, No, Yes, Bits
<1>2. Placed' /\ Route'
  BY <1>0 DEF Placed, Route
<1>3. Carried = {} /\ Carried' = {}
  BY <1>0 DEF Carried, Told, Stopping
<1>4. Reasons' /\ Stands'
  BY <1>0, <1>3 DEF Reasons, Stands, HonestAnswer, Stopping
<1>b. cmd = "restore" /\ saved \in BOOLEAN => NewVc = saved
  OBVIOUS
<1>5. Caught'
  <2> SUFFICES ASSUME op = ResetStop PROVE Caught'
    BY DEF Caught
  <2>1. CASE cmd = "catch"
    BY <2>1 DEF Caught, Stood, No, Yes
  <2>2. CASE cmd = "restore"
    BY <2>2, <1>0, <1>b DEF Caught, Stood, No, Yes, TypeOK
  <2> QED
    BY <1>0, <2>1, <2>2
<1>6. Moved'
  BY <1>0 DEF Moved
<1> QED
  BY <1>1, <1>2, <1>4, <1>5, <1>6

-----------------------------------------------------------------------------
(* The probe: registers. *)

LEMMA NextRegType ==
  ASSUME NEW good, IInv, i \in RegSet, NextReg(good)
  PROVE  /\ i' = i + 1 /\ i' \in 1 .. Regs + 1 /\ res' \subseteq Bits
         /\ pc' \in {"answer", IF cmd = "read" THEN "dcrsr" ELSE "dcrdr"}
         /\ pc' # "answer" => i' \in RegSet
         /\ pc' = "answer" /\ good => i' = Regs + 1
         /\ pc' = "answer" => i = Regs \/ ~ good
         /\ ~ good => res' = No
         /\ good => res' = res
BY Sizes DEF NextReg, RegSet, IInv, TypeOK, No

(* A register command has nothing to do with what the other properties are    *)
(* about.                                                                    *)
LEMMA RegisterFrame ==
  ASSUME IInv, cmd \in {"read", "write"}, pc # "answer", pc # "idle",
         UNCHANGED <<halted, dfsr, vc, resetReq, cmd, op, todo, saved, untold, again, fresh, sure, freed>>,
         pc' \in {"answer", "dcrdr", "dcrsr", "poll", "fetch"}
  PROVE  Reasons' /\ Stands' /\ Route' /\ Caught'
<1> USE DEF IInv
<1>1. Carried = {} /\ Carried' = {}
  BY DEF Carried, Told, Stopping
<1>2. Reasons' /\ Stands'
  BY <1>1 DEF Reasons, Stands, HonestAnswer, Stopping
<1>3. Route' /\ Caught'
  BY DEF Route, Caught, Stood
<1> QED
  BY <1>2, <1>3

(* Once a register has failed, nothing is promised of the others. *)
LEMMA FailedMoved ==
  ASSUME IInv, UNCHANGED <<halted, cmd, steady>>, res' = No PROVE Moved'
BY DEF IInv, Moved, Good, Yes, No

LEMMA WriteDcrdrStep == IInv /\ WriteDcrdr => IInv'
<1> SUFFICES ASSUME IInv, WriteDcrdr PROVE IInv'
  OBVIOUS
<1> USE DEF IInv, WriteDcrdr, WritesDcrdr, Goes, core, host, history
<1>0. cmd = "write" /\ i \in RegSet /\ buf[i] \in Values /\ ~ resetReq
  BY DEF Placed, TypeOK
<1>1. CASE WritesDcrdr(buf[i]) /\ Goes("dcrsr") /\ UNCHANGED i
  <2>1. TypeOK'
    BY <1>0, <1>1 DEF TypeOK
  <2>2. Placed'
    BY <1>0, <1>1 DEF Placed
  <2>3. Moved'
    BY <1>0, <1>1 DEF Moved, Good
  <2> QED
    BY <1>0, <1>1, <2>1, <2>2, <2>3, RegisterFrame
<1>2. CASE (WritesDcrdr(buf[i]) \/ UNCHANGED core) /\ NextReg(FALSE)
  <2>0. res' = No /\ i' \in 1 .. Regs + 1 /\ pc' \in {"answer", "dcrdr"}
        /\ (pc' # "answer" => i' \in RegSet) /\ res' \subseteq Bits
    BY <1>0, <1>2, NextRegType
  <2>1. TypeOK'
    BY <1>0, <1>2, <2>0 DEF TypeOK
  <2>2. Placed'
    BY <1>0, <1>2, <2>0 DEF Placed
  <2>3. Moved'
    BY <1>2, <2>0, FailedMoved
  <2> QED
    BY <1>0, <1>2, <2>0, <2>1, <2>2, <2>3, RegisterFrame
<1> QED
  BY <1>1, <1>2

LEMMA WriteDcrsrStep == IInv /\ WriteDcrsr => IInv'
<1> SUFFICES ASSUME IInv, WriteDcrsr PROVE IInv'
  OBVIOUS
<1> USE DEF IInv, WriteDcrsr, Asked, Goes, core, host, history
<1>0. cmd \in {"read", "write"} /\ i \in RegSet /\ ~ resetReq
  BY DEF Placed, TypeOK
<1>a. [reg |-> i, write |-> cmd = "write"] \in Xfers
  BY <1>0 DEF Xfers
<1>1. CASE Asked(i, cmd = "write") /\ ctr' = Polls /\ Goes("poll") /\ UNCHANGED i
  <2>1. TypeOK'
    <3>1. xfer' \in Xfers
      BY <1>1, <1>a DEF TypeOK
    <3>2. ctr' \in 0 .. CtrSize - 1
      BY <1>1, Sizes
    <3> QED
      BY <1>0, <1>1, <3>1, <3>2 DEF TypeOK
  <2>2. Placed'
    BY <1>0, <1>1 DEF Placed
  <2>3. Moved'
    <3> SUFFICES ASSUME steady, Good PROVE Moved'
      BY <1>0, <1>1 DEF Moved, Good
    <3>1. xfer' = [reg |-> i, write |-> cmd = "write"]
      BY <1>1 DEF Moved
    <3>2. xfer' # None
      BY <3>1, <1>0, Sizes DEF None, RegSet
    <3> QED
      BY <1>0, <1>1, <3>1, <3>2 DEF Moved, Good
  <2> QED
    BY <1>0, <1>1, <2>1, <2>2, <2>3, RegisterFrame
<1>2. CASE (Asked(i, cmd = "write") \/ UNCHANGED core) /\ NextReg(FALSE) /\ UNCHANGED ctr
  <2>0. res' = No /\ i' \in 1 .. Regs + 1 /\ pc' \in {"answer", IF cmd = "read" THEN "dcrsr" ELSE "dcrdr"}
        /\ (pc' # "answer" => i' \in RegSet) /\ res' \subseteq Bits
    BY <1>0, <1>2, NextRegType
  <2>1. TypeOK'
    <3>1. xfer' \in Xfers
      BY <1>2, <1>a DEF TypeOK
    <3> QED
      BY <1>0, <1>2, <2>0, <3>1 DEF TypeOK
  <2>2. Placed'
    BY <1>0, <1>2, <2>0 DEF Placed
  <2>3. Moved'
    BY <1>2, <2>0, FailedMoved
  <2> QED
    BY <1>0, <1>2, <2>0, <2>1, <2>2, <2>3, RegisterFrame
<1> QED
  BY <1>1, <1>2

(* A register that is found ready, while the counter had not run out, has     *)
(* been transferred: a counter that ran out never reads as that.              *)
LEMMA PollStep == IInv /\ Poll => IInv'
<1> SUFFICES ASSUME IInv, Poll PROVE IInv'
  OBVIOUS
<1> USE DEF IInv, Poll, Goes, core, host
<1>0. cmd \in {"read", "write"} /\ i \in RegSet /\ ~ resetReq /\ pc = "poll"
  BY DEF Placed, TypeOK
<1>1. CASE NextReg(FALSE)
  <2>0. res' = No /\ i' \in 1 .. Regs + 1 /\ pc' \in {"answer", IF cmd = "read" THEN "dcrsr" ELSE "dcrdr"}
        /\ (pc' # "answer" => i' \in RegSet) /\ res' \subseteq Bits
    BY <1>0, <1>1, NextRegType
  <2>1. TypeOK'
    BY <1>0, <1>1, <2>0, DecrementedType DEF TypeOK
  <2>2. Placed'
    BY <1>0, <1>1, <2>0 DEF Placed
  <2>3. Moved'
    BY <1>1, <2>0, FailedMoved
  <2> QED
    BY <1>0, <1>1, <2>0, <2>1, <2>2, <2>3, RegisterFrame
<1>2. CASE Goes("fetch") /\ UNCHANGED i /\ cmd = "read"
  <2>1. TypeOK'
    BY <1>0, <1>2, DecrementedType DEF TypeOK
  <2>2. Placed'
    BY <1>0, <1>2 DEF Placed
  <2>3. Moved'
    <3>1. CASE ranOut'
      BY <1>0, <1>2, <3>1 DEF Moved, Good
    <3>2. CASE ~ ranOut'
      <4>1. Ready /\ UNCHANGED ranOut
        BY <1>0, <1>2, <3>2 DEF NextReg
      <4> QED
        BY <1>0, <1>2, <4>1 DEF Moved, Good, Ready
    <3> QED
      BY <3>1, <3>2
  <2> QED
    BY <1>0, <1>2, <2>1, <2>2, <2>3, RegisterFrame
<1>3. CASE NextReg(TRUE) /\ cmd = "write"
  <2>0. res' = res /\ i' = i + 1 /\ i' \in 1 .. Regs + 1 /\ pc' \in {"answer", "dcrdr"}
        /\ (pc' # "answer" => i' \in RegSet) /\ (pc' = "answer" => i' = Regs + 1)
    BY <1>0, <1>3, NextRegType
  <2>1. TypeOK'
    BY <1>0, <1>3, <2>0, DecrementedType DEF TypeOK
  <2>2. Placed'
    BY <1>0, <1>3, <2>0 DEF Placed
  <2>3. Moved'
    <3>1. CASE ranOut'
      BY <1>0, <1>3, <2>0, <3>1 DEF Moved, Good
    <3>2. CASE res' = No
      BY <1>3, <3>2, FailedMoved
    <3>3. CASE ~ ranOut' /\ res' # No
      <4>0. ~ NextReg(FALSE)
        BY <1>0, <3>3, NextRegType
      <4>1. Ready /\ UNCHANGED ranOut
        BY <1>0, <1>3, <2>0, <3>3, <4>0
      <4>2. \A r \in RegSet : r < i + 1 => r < i \/ r = i
        BY <1>0 DEF RegSet
      <4> QED
        BY <1>0, <1>3, <2>0, <4>1, <4>2 DEF Moved, Good, Ready
    <3> QED
      BY <3>1, <3>2, <3>3
  <2> QED
    BY <1>0, <1>3, <2>0, <2>1, <2>2, <2>3, RegisterFrame
<1>4. CASE ~ Ready /\ ctr' = Decremented /\ UNCHANGED <<pc, res, i, ranOut>>
  <2>1. TypeOK'
    BY <1>0, <1>4, DecrementedType DEF TypeOK
  <2>2. Placed'
    BY <1>0, <1>4 DEF Placed
  <2>3. Moved'
    BY <1>0, <1>4 DEF Moved, Good
  <2> QED
    BY <1>0, <1>4, <2>1, <2>2, <2>3, RegisterFrame
<1>5. Waited(ctr) \/ Waited(ctr') => (Goes("fetch") /\ UNCHANGED i /\ cmd = "read")
                                  \/ NextReg(FALSE) \/ (NextReg(TRUE) /\ cmd = "write")
  BY <1>0 DEF Waited, NextReg
<1> QED
  BY <1>1, <1>2, <1>3, <1>4, <1>5

LEMMA FetchStep == IInv /\ Fetch => IInv'
<1> SUFFICES ASSUME IInv, Fetch PROVE IInv'
  OBVIOUS
<1> USE DEF IInv, Fetch, core, host, history
<1>0. cmd = "read" /\ i \in RegSet /\ ~ resetReq /\ pc = "fetch" /\ dcrdr \in Values
  BY DEF Placed, TypeOK
<1>1. CASE buf' = [buf EXCEPT ![i] = dcrdr] /\ NextReg(TRUE)
  <2>0. res' = res /\ i' = i + 1 /\ i' \in 1 .. Regs + 1 /\ pc' \in {"answer", "dcrsr"}
        /\ (pc' # "answer" => i' \in RegSet) /\ (pc' = "answer" => i' = Regs + 1)
    BY <1>0, <1>1, NextRegType
  <2>a. buf' \in [RegSet -> Values]
    BY <1>0, <1>1 DEF TypeOK
  <2>1. TypeOK'
    BY <1>0, <1>1, <2>0, <2>a DEF TypeOK
  <2>2. Placed'
    BY <1>0, <1>1, <2>0 DEF Placed
  <2>3. \A r \in RegSet : r < i + 1 => r < i \/ r = i
    BY <1>0 DEF RegSet
  <2>4. Moved'
    BY <1>0, <1>1, <2>0, <2>3 DEF Moved, Good, TypeOK
  <2> QED
    BY <1>0, <1>1, <2>0, <2>1, <2>2, <2>4, RegisterFrame
<1>2. CASE UNCHANGED buf /\ NextReg(FALSE)
  <2>0. res' = No /\ i' \in 1 .. Regs + 1 /\ pc' \in {"answer", "dcrsr"}
        /\ (pc' # "answer" => i' \in RegSet) /\ res' \subseteq Bits
    BY <1>0, <1>2, NextRegType
  <2>1. TypeOK'
    BY <1>0, <1>2, <2>0 DEF TypeOK
  <2>2. Placed'
    BY <1>0, <1>2, <2>0 DEF Placed
  <2>3. Moved'
    BY <1>2, <2>0, FailedMoved
  <2> QED
    BY <1>0, <1>2, <2>0, <2>1, <2>2, <2>3, RegisterFrame
<1> QED
  BY <1>1, <1>2

-----------------------------------------------------------------------------
(* The host. *)

(* A command that is begun finds no reset on its way, and promises nothing yet. *)
LEMMA BeginsStep ==
  ASSUME NEW c \in Cmds, IInv, Begins(c), UNCHANGED core
  PROVE  /\ cmd' = c /\ i' = 1 /\ i' \in RegSet /\ res' = Yes /\ steady' \in BOOLEAN
         /\ pc' \in {"readCtl", "isHalted", "aircr", "demcr", "dcrsr", "dcrdr"}
         /\ c = "reset" <=> pc' = "aircr"
         /\ Placed' /\ Stands' /\ Moved' /\ Carried' = {}
<1> USE DEF Begins, core
<1>1. /\ cmd' = c /\ i' = 1 /\ i' \in RegSet /\ res' = Yes
      /\ pc' \in {"readCtl", "isHalted", "aircr", "demcr", "dcrsr", "dcrdr"}
      /\ c = "reset" <=> pc' = "aircr"
  BY Sizes DEF FirstAccess, RegSet, Cmds, Stopping
<1>2. steady' \in BOOLEAN
  BY DEF IInv, TypeOK
<1>3. Placed'
  BY <1>1 DEF Placed, FirstAccess, Cmds, Stopping
<1>4. Stands' /\ Carried' = {}
  BY <1>1 DEF Stands, HonestAnswer, Carried
<1>5. Moved'
  <2> SUFFICES ASSUME steady' PROVE Moved'
    BY DEF Moved
  <2>1. c \in {"read", "write"} /\ halted /\ xfer = None /\ pc' \in {"dcrsr", "dcrdr"}
        /\ (c = "write" => pc' = "dcrdr")
    BY DEF FirstAccess, Stopping
  <2>2. \A r \in RegSet : ~ (r < 1)
    BY Sizes DEF RegSet
  <2> QED
    BY <1>1, <2>1, <2>2 DEF Moved
<1> QED
  BY <1>1, <1>2, <1>3, <1>4, <1>5

(* An answer is taken, or lost: in either case it is no longer on its way.    *)
LEMMA TakenReasons ==
  ASSUME IInv, pc = "answer", UNCHANGED dfsr, Taken, Carried' = {},
         pc' # "clearDfsr"
  PROVE  Reasons'
<1>1. untold = dfsr \cup Told /\ again = dfsr \cap Told
  BY DEF IInv, Reasons, Carried
<1>2. untold' = dfsr /\ again' = {}
  BY <1>1 DEF Taken
<1> QED
  BY <1>2 DEF IInv, Reasons

LEMMA RouteTypes ==
  /\ ResetStop \in Seq(Cmds) /\ Len(ResetStop) = 4 /\ ResetStop[1] = "catch"
  /\ Tail(ResetStop) = <<"reset", "restore", "status">>
  /\ \A c \in Cmds : /\ <<c>> # ResetStop /\ Len(<<c>>) = 1
                     /\ <<c>>[1] = c /\ Tail(<<c>>) = <<>>
BY DEF ResetStop, Cmds, Stopping

LEMMA OperateStep == IInv /\ Operate => IInv'
<1> SUFFICES ASSUME IInv, Operate PROVE IInv'
  OBVIOUS
<1> USE DEF Operate
<1>1. PICK o \in Operations :
        /\ Begins(o[1]) /\ op' = o /\ todo' = Tail(o)
        /\ buf' \in IF o = <<"write">> THEN [RegSet -> Values] ELSE {Blank}
  OBVIOUS
<1>2. \/ o = ResetStop /\ o[1] = "catch" /\ Tail(o) = <<"reset", "restore", "status">>
      \/ o # ResetStop /\ Tail(o) = <<>> /\ o[1] \in Cmds
  BY RouteTypes DEF Operations
<1>3. o[1] \in Cmds
  BY <1>2 DEF Cmds
<1>4. UNCHANGED core /\ pc = "idle" /\ ops' = ops + 1 /\ ops < MaxOps /\ sure' = TRUE
      /\ ranOut' = FALSE /\ UNCHANGED <<val, ctr, losses, untold, again, fresh, freed>>
  OBVIOUS
<1>5. /\ cmd' = o[1] /\ i' = 1 /\ i' \in RegSet /\ res' = Yes /\ steady' \in BOOLEAN
      /\ pc' \in {"readCtl", "isHalted", "aircr", "demcr", "dcrsr", "dcrdr"}
      /\ Placed' /\ Stands' /\ Moved' /\ Carried' = {}
  BY <1>1, <1>3, <1>4, BeginsStep
<1>6. TypeOK'
  <2>1. buf' \in [RegSet -> Values]
    BY <1>1, Sizes DEF Blank
  <2>2. saved' \in BOOLEAN
    BY DEF IInv, TypeOK
  <2>3. ops' \in 0 .. MaxOps
    BY <1>4, Sizes DEF IInv, TypeOK
  <2>4. res' \subseteq Bits /\ i' \in 1 .. Regs + 1
    BY <1>5, Sizes DEF Yes, Bits
  <2> QED
    BY <1>1, <1>3, <1>4, <1>5, <2>1, <2>2, <2>3, <2>4 DEF IInv, TypeOK, core
<1>7. Reasons'
  BY <1>4, <1>5 DEF IInv, Reasons, Carried, core
<1>8. Route'
  BY <1>1, <1>2, <1>5 DEF Route
<1>9. Caught'
  BY <1>1, <1>2, <1>5 DEF Caught
<1> QED
  BY <1>5, <1>6, <1>7, <1>8, <1>9 DEF IInv

(* The next command of cpuResetStop. *)
LEMMA NextCommand ==
  ASSUME IInv, pc = "answer", todo # <<>>, Begins(Head(todo)), todo' = Tail(todo),
         UNCHANGED <<core, op, saved, fresh>>, sure' => sure,
         res # No \/ ~ sure', cmd = "reset" \/ res # No
  PROVE  Head(todo) \in Cmds /\ Route' /\ Caught'
<1> USE DEF IInv
<1>1. op = ResetStop
  BY DEF Route
<1>2. ~ resetReq
  BY DEF Begins
<1>3. Head(todo) \in {"reset", "restore", "status"}
  BY <1>1 DEF Route
<1>4. /\ cmd' = Head(todo) /\ res' = Yes
      /\ pc' \in {"readCtl", "isHalted", "aircr", "demcr", "dcrsr", "dcrdr"}
      /\ Head(todo) = "reset" => pc' = "aircr"
  BY <1>3, BeginsStep DEF Cmds, Stopping
<1>5. CASE cmd = "catch" /\ todo = <<"reset", "restore", "status">>
  <2>1. Head(todo) = "reset" /\ Tail(todo) = <<"restore", "status">> /\ vc
    BY <1>1, <1>5 DEF Caught
  <2>2. Route'
    BY <1>1, <1>4, <2>1 DEF Route
  <2>3. Caught'
    BY <1>1, <1>4, <2>1 DEF Caught, core
  <2> QED
    BY <1>3, <2>2, <2>3 DEF Cmds, Stopping
<1>6. CASE cmd = "reset" /\ todo = <<"restore", "status">>
  <2>1. Head(todo) = "restore" /\ Tail(todo) = <<"status">> /\ (sure' => Stood)
    BY <1>1, <1>2, <1>6 DEF Caught
  <2>2. Route'
    BY <1>1, <1>4, <2>1 DEF Route
  <2>3. Caught'
    BY <1>1, <1>4, <2>1 DEF Caught, core, Stood
  <2> QED
    BY <1>3, <2>2, <2>3 DEF Cmds, Stopping
<1>7. CASE cmd = "restore" /\ todo = <<"status">>
  <2>1. Head(todo) = "status" /\ Tail(todo) = <<>> /\ (sure' => Stood /\ vc = saved)
    BY <1>1, <1>7 DEF Caught
  <2>2. Route'
    BY <1>1, <1>4, <2>1 DEF Route
  <2>3. Caught'
    BY <1>1, <1>4, <2>1 DEF Caught, core, Stood
  <2> QED
    BY <1>3, <2>2, <2>3 DEF Cmds, Stopping
<1> QED
  BY <1>1, <1>5, <1>6, <1>7 DEF Route

LEMMA AnsweredStep == IInv /\ Answered => IInv'
<1> SUFFICES ASSUME IInv, Answered PROVE IInv'
  OBVIOUS
<1> USE DEF Answered
<1>0. /\ pc = "answer" /\ UNCHANGED <<core, val, ctr, buf, op, saved, ops, losses, fresh, ranOut, sure, freed>>
      /\ Taken
  OBVIOUS
<1>a. UNCHANGED <<dfsr, freed>> /\ untold' \subseteq Bits /\ again' \subseteq Bits
  BY <1>0 DEF core, IInv, TypeOK, Taken
<1>1. CASE todo # <<>> /\ GoesOn
  <2>1. Begins(Head(todo)) /\ todo' = Tail(todo) /\ res # No
    BY <1>1 DEF GoesOn
  <2>2. Head(todo) \in Cmds /\ Route' /\ Caught'
    BY <1>0, <1>1, <2>1, NextCommand
  <2>3. /\ cmd' \in Cmds /\ i' \in RegSet /\ i' \in 1 .. Regs + 1 /\ res' \subseteq Bits /\ steady' \in BOOLEAN
        /\ pc' \in {"readCtl", "isHalted", "aircr", "demcr", "dcrsr", "dcrdr"}
        /\ Placed' /\ Stands' /\ Moved' /\ Carried' = {}
    BY <1>0, <2>1, <2>2, BeginsStep, Sizes DEF Yes, Bits
  <2>4. TypeOK'
    BY <1>0, <1>a, <2>3 DEF IInv, TypeOK, core
  <2>5. Reasons'
    BY <1>0, <1>a, <2>3, TakenReasons
  <2> QED
    BY <2>2, <2>3, <2>4, <2>5 DEF IInv
<1>2. CASE ~ (todo # <<>> /\ GoesOn)
  <2>1. /\ pc' = "idle" /\ todo' = <<>> /\ res' = IF todo # <<>> THEN Fail ELSE res
        /\ UNCHANGED <<cmd, i, steady>>
    BY <1>2
  <2>2. TypeOK'
    BY <1>0, <1>a, <2>1 DEF IInv, TypeOK, core, Fail
  <2>3. Reasons'
    BY <1>0, <1>a, <2>1, TakenReasons DEF Carried
  <2>4. Placed' /\ Route'
    BY <1>0, <2>1 DEF IInv, Placed, Route, core
  <2>5. Stands'
    BY <2>1 DEF Stands, HonestAnswer
  <2>6. Caught'
    BY <1>0, <2>1 DEF IInv, Route, Caught, Stood, core
  <2>7. Moved'
    BY <1>0, <2>1 DEF IInv, Moved, Good, core, Yes, Fail, Bits
  <2> QED
    BY <2>2, <2>3, <2>4, <2>5, <2>6, <2>7 DEF IInv
<1> QED
  BY <1>1, <1>2

LEMMA AnswerLostStep == IInv /\ AnswerLost => IInv'
<1> SUFFICES ASSUME IInv, AnswerLost PROVE IInv'
  OBVIOUS
<1> USE DEF AnswerLost
<1>0. /\ pc = "answer" /\ Begins(cmd) /\ Taken
      /\ UNCHANGED <<core, val, ctr, buf, op, todo, saved, ops, fresh, ranOut, sure, freed>>
  OBVIOUS
<1>a. UNCHANGED <<dfsr, freed>> /\ untold' \subseteq Bits /\ again' \subseteq Bits
  BY <1>0 DEF core, IInv, TypeOK, Taken
<1>b. cmd \in Cmds /\ ~ resetReq
  BY DEF IInv, TypeOK, Begins
<1>1. /\ cmd' = cmd /\ i' \in RegSet /\ i' \in 1 .. Regs + 1 /\ res' \subseteq Bits /\ steady' \in BOOLEAN
      /\ pc' \in {"readCtl", "isHalted", "aircr", "demcr", "dcrsr", "dcrdr"}
      /\ (cmd = "reset" => pc' = "aircr")
      /\ Placed' /\ Stands' /\ Moved' /\ Carried' = {}
  BY <1>0, <1>b, BeginsStep, Sizes DEF Yes, Bits
<1>2. TypeOK'
  <2>1. losses' \in 0 .. MaxLost
    BY Sizes DEF IInv, TypeOK
  <2> QED
    BY <1>0, <1>a, <1>b, <1>1, <2>1 DEF IInv, TypeOK, core
<1>3. Reasons'
  BY <1>0, <1>a, <1>1, TakenReasons
<1>4. Route'
  BY <1>0, <1>1 DEF IInv, Route
<1>5. Caught'
  BY <1>0, <1>1 DEF IInv, Caught, Stood, core
<1> QED
  BY <1>1, <1>2, <1>3, <1>4, <1>5 DEF IInv

LEMMA UnansweredStep == IInv /\ Unanswered => IInv'
<1> SUFFICES ASSUME IInv, Unanswered PROVE IInv'
  OBVIOUS
<1> USE DEF Unanswered
<1>0. /\ pc = "answer" /\ UNCHANGED <<core, val, ctr, buf, op, saved, ops, fresh, ranOut, freed>>
      /\ Taken /\ sure' = FALSE
  OBVIOUS
<1>a. UNCHANGED <<dfsr, freed>> /\ untold' \subseteq Bits /\ again' \subseteq Bits
  BY <1>0 DEF core, IInv, TypeOK, Taken
<1>b. losses' \in 0 .. MaxLost
  BY Sizes DEF IInv, TypeOK
<1>1. CASE todo # <<>> /\ cmd = "reset"
  <2>1. Begins(Head(todo)) /\ todo' = Tail(todo)
    BY <1>1
  <2>2. Head(todo) \in Cmds /\ Route' /\ Caught'
    BY <1>0, <1>1, <2>1, NextCommand
  <2>3. /\ cmd' \in Cmds /\ i' \in RegSet /\ i' \in 1 .. Regs + 1 /\ res' \subseteq Bits /\ steady' \in BOOLEAN
        /\ pc' \in {"readCtl", "isHalted", "aircr", "demcr", "dcrsr", "dcrdr"}
        /\ Placed' /\ Stands' /\ Moved' /\ Carried' = {}
    BY <1>0, <2>1, <2>2, BeginsStep, Sizes DEF Yes, Bits
  <2>4. TypeOK'
    BY <1>0, <1>a, <1>b, <2>3 DEF IInv, TypeOK, core
  <2>5. Reasons'
    BY <1>0, <1>a, <2>3, TakenReasons
  <2> QED
    BY <2>2, <2>3, <2>4, <2>5 DEF IInv
<1>2. CASE ~ (todo # <<>> /\ cmd = "reset")
  <2>1. /\ pc' = "idle" /\ todo' = <<>> /\ res' = IF cmd \in {"read", "write"} THEN No ELSE Fail
        /\ UNCHANGED <<cmd, i, steady>>
    BY <1>2
  <2>2. TypeOK'
    BY <1>0, <1>a, <1>b, <2>1 DEF IInv, TypeOK, core, Fail, No
  <2>3. Reasons'
    BY <1>0, <1>a, <2>1, TakenReasons DEF Carried
  <2>4. Placed' /\ Route'
    BY <1>0, <2>1 DEF IInv, Placed, Route, core
  <2>5. Stands'
    BY <2>1 DEF Stands, HonestAnswer
  <2>6. Caught'
    BY <1>0, <2>1 DEF IInv, Caught, core
  <2>7. Moved'
    BY <1>0, <2>1 DEF IInv, Moved, Good, core, Yes, No, Fail, Bits
  <2> QED
    BY <2>2, <2>3, <2>4, <2>5, <2>6, <2>7 DEF IInv
<1> QED
  BY <1>1, <1>2

-----------------------------------------------------------------------------

LEMMA StepIInv == IInv /\ [Next]_vars => IInv'
<1> SUFFICES ASSUME IInv, [Next]_vars PROVE IInv'
  OBVIOUS
<1>1. CASE Core
  BY <1>1, ExecutesStep, HaltsStep, ResetsStep, ResetsUnaskedStep, TransfersStep DEF Core
<1>2. CASE Probe
  BY <1>2, ReadCtlStep, WriteCtlStep, WriteAircrStep, IsHaltedStep, ReadDfsrStep, ClearDfsrStep,
     WriteDemcrStep, WriteDcrdrStep, WriteDcrsrStep, PollStep, FetchStep DEF Probe
<1>3. CASE Host
  BY <1>3, OperateStep, AnsweredStep, AnswerLostStep, UnansweredStep DEF Host
<1>4. CASE UNCHANGED vars
  <2> USE <1>4 DEF IInv, vars, core, probe, host, history
  <2>1. TypeOK'
    BY DEF TypeOK
  <2>2. Placed' /\ Reasons' /\ Stands' /\ Route'
    BY DEF Placed, Reasons, Stands, HonestAnswer, Route, Carried, Told
  <2>3. Caught' /\ Moved'
    BY DEF Caught, Moved, Good, Stood
  <2> QED
    BY <2>1, <2>2, <2>3
<1> QED
  BY <1>1, <1>2, <1>3, <1>4 DEF Next

THEOREM Inductive == Spec => []IInv
<1> QED
  BY InitIInv, StepIInv, PTL DEF Spec

(* A stop reason that arose is told once, or lost with an access or an answer *)
(* that fails: cortexGetStopReason clears what it has read and no more,       *)
(* wherever the core stops in between (cortex.c:204).                        *)
THEOREM ReasonsSafe == Spec => []ReasonsToldOnce
<1>1. IInv => ReasonsToldOnce
  BY DEF IInv, Reasons, ReasonsToldOnce
<1> QED
  BY <1>1, Inductive, PTL

(* STOP, SINGLE_STEP and IS_STOPPED say of a core that it stands only when it *)
(* does (main.c:514), though it may run, halt and be reset by its pin or a    *)
(* watchdog between any two accesses: the one answer that is untrue is that   *)
(* of a core which such a reset, with vector catch off, let go after the      *)
(* probe had seen S_HALT.                                                     *)
THEOREM AnswersHonest == Spec => []HonestAnswer
<1>1. IInv => HonestAnswer
  BY DEF IInv, Stands
<1> QED
  BY <1>1, Inductive, PTL

(* cpuResetStop that reports success has caught the core at its reset vector  *)
(* and left vector catch as it was (tool/cpu.c:542), a reset of the core's    *)
(* own in between included, unless that comes after vector catch is off.      *)
THEOREM ResetCaught == Spec => []CaughtAtReset
<1>1. IInv => CaughtAtReset
  BY DEF IInv, Caught, Stood, CaughtAtReset
<1> QED
  BY <1>1, Inductive, PTL

(* A register command that found the core at rest, saw no reset and never ran *)
(* out of tries has moved every register of the set (cortex.c:155).          *)
THEOREM RegistersRight == Spec => []RegsRight
<1>1. IInv => RegsRight
  <2> SUFFICES ASSUME IInv, steady, Good, pc = "idle" PROVE buf = regs
    BY DEF RegsRight, Good
  <2>1. \A r \in RegSet : buf[r] = regs[r]
    BY Sizes DEF IInv, Moved, RegSet
  <2> QED
    BY <2>1 DEF IInv, TypeOK
<1> QED
  BY <1>1, Inductive, PTL
==============================================================================
