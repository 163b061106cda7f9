---------------------------- MODULE MemApProofs ----------------------------
(***************************************************************************)
(* Proofs about the MEM-AP driver, for every address space, page size,     *)
(* transfer length and number of APs; and about the byte access on top of  *)
(* its transfers (MemBytes), for every memory, word and chunk.             *)
(***************************************************************************)
EXTENDS MemApInv, MemApImpl, SequenceTheorems, TLAPS

\* What the proofs use of the constants.
LEMMA Sizes ==
  /\ NumWords \in Nat \ {0} /\ MaxWords \in 1 .. NumWords
  /\ MaxTries \in Nat \ {0}
  /\ ReadNums \subseteq 1 .. MaxWords /\ WriteNums \subseteq 1 .. MaxWords
  /\ Payloads \subseteq [1 .. MaxWords -> Val]
  /\ CswWordIncr # Junk
BY MemApAssumption

USE Sizes DEF Addr, Data, Banks, Regs, Labels, SelectLabels,
    AbortLabels, RdbuffLabels, Plus

-----------------------------------------------------------------------------
(* The shape of a step                                                      *)

\* What an attempt at a transaction can do.
LEMMA AttemptCases ==
  ASSUME Attempt
  PROVE  /\ pc # "idle"
         /\ UNCHANGED <<mApSel, kind, addr, num, payload, chain>>
         /\ UNCHANGED <<csw, tar, mem, rdbuf>>
         /\ \/ /\ UNCHANGED <<selAp, selBank, pend, sticky, mSelected,
                              mCurAddr, pc, acc, done, buf, ret, ready>>
               /\ tryNo + 1 < MaxTries /\ tryNo' = tryNo + 1
            \/ /\ tryNo' = 0
               /\ Succeed /\ Accepts
               /\ \/ TargetTakes
                  \/ IsWrite /\ sticky' = TRUE /\ UNCHANGED <<selAp, selBank, pend>>
            \/ /\ tryNo' = 0
               /\ Fail
               /\ \/ Accepts /\ TargetTakes
                  \/ UNCHANGED <<selAp, selBank, pend, sticky>>
BY DEF Attempt, Wait, GiveUp, Accepted, Faulted, Lost, Garbled, Damaged,
       InAccess, target, Caller, call, TargetTakes

\* What a call can do.
LEMMA CallCases ==
  ASSUME Call
  PROVE  /\ pc = "idle" /\ pc' # "idle" /\ tryNo' = 0 /\ ret' = "none"
         /\ UNCHANGED <<csw, tar, mem, rdbuf, ready>>
         /\ \/ \E ap \in Aps :
                 /\ pc' = "reselect" /\ mApSel' = ap /\ mSelected' = "ctl"
                 /\ UNCHANGED <<addr, num, payload, chain, mCurAddr, acc, done, buf>>
                 /\ \/ /\ kind' = "init"
                       /\ selAp' = ap /\ selBank' = "id" /\ sticky' = FALSE
                       /\ pend' = NoAccess
                    \/ /\ kind' = "reselect" /\ ap \in ready
                       /\ UNCHANGED <<selAp, selBank, sticky, pend>>
            \/ /\ kind' \in {"read", "write"}
               /\ mApSel \in ready /\ addr' \in Addr /\ num' \in 1 .. MaxWords
               /\ chain' \in BOOLEAN
               /\ payload' = payload \/ payload' \in Payloads
               /\ mApSel' = mApSel /\ mSelected' = "ctl" /\ mCurAddr' = addr'
               /\ pc' \in {"access", "select"} /\ acc' = "TAR" /\ done' = 0
               /\ pc' = "access" => mSelected = "ctl"
               /\ buf' = [w \in 1 .. MaxWords |-> Junk]
               /\ UNCHANGED <<selAp, selBank, sticky, pend>>
<1>1. CASE \E ap \in Aps : CallInit(ap) \/ CallReselect(ap)
  BY <1>1 DEF CallInit, CallReselect, BeginReselect, target
<1>2. CASE \E a \in Addr, n \in ReadNums, c \in BOOLEAN : CallRead(a, n, c)
  BY <1>2 DEF CallRead, BeginTransfer, target
<1>3. CASE \E a \in Addr, n \in WriteNums, p \in Payloads, c \in BOOLEAN :
             CallWrite(a, n, p, c)
  BY <1>3 DEF CallWrite, BeginTransfer, target
<1>4. QED
  BY <1>1, <1>2, <1>3 DEF Call

-----------------------------------------------------------------------------
(* Types                                                                    *)

LEMMA PlusType ==
  ASSUME NEW a \in Addr, NEW n \in 0 .. NumWords
  PROVE  Plus(a, n) \in Addr
OBVIOUS

LEMMA PlusZero ==
  ASSUME NEW a \in Addr
  PROVE  Plus(a, 0) = a
OBVIOUS

LEMMA NumBound ==
  ASSUME NEW n \in 1 .. MaxWords
  PROVE  n > 0 /\ 0 <= n /\ n \in 0 .. MaxWords
OBVIOUS

LEMMA TargetTakesType ==
  ASSUME TypeOK, Progress, TargetTakes
  PROVE  TargetTypeOK'
<1>1. UNCHANGED <<csw, tar, mem, rdbuf>>
  BY DEF TargetTakes
<1>2. CASE pc \in SelectLabels \cup AbortLabels \cup RdbuffLabels
  BY <1>1, <1>2 DEF TargetTakes, TypeOK, TargetTypeOK, DriverTypeOK
<1>3. CASE pc = "access"
  <2>1. UNCHANGED <<selAp, selBank, sticky>>
    BY <1>3 DEF TargetTakes
  <2>2. CASE acc = "TAR"
    BY <1>1, <1>3, <2>1, <2>2
       DEF TargetTakes, Issue, Reached, TypeOK, TargetTypeOK, DriverTypeOK
  <2>3. CASE acc # "TAR"
    BY <1>1, <1>3, <2>1, <2>3
       DEF TargetTakes, Issue, Reached, TypeOK, TargetTypeOK, DriverTypeOK
  <2>4. QED
    BY <2>2, <2>3
<1>4. CASE pc \in {"post", "next", "put"}
  <2>1. pc = "put" => payload[done + 1] \in Val
    BY DEF TypeOK, CallTypeOK, DriverTypeOK, Progress
  <2>2. QED
    BY <1>1, <1>4, <2>1
       DEF TargetTakes, Issue, Reached, TypeOK, TargetTypeOK, DriverTypeOK
<1>5. QED
  BY <1>2, <1>3, <1>4 DEF TargetTakes

LEMMA CompleteType ==
  ASSUME TypeOK, Complete
  PROVE  TargetTypeOK'
<1>1. UNCHANGED <<selAp, selBank>> /\ pend' = NoAccess
  BY DEF Complete
<1>2. pend.ap \in Aps /\ pend.op \in {"read", "write"}
  BY DEF TypeOK, TargetTypeOK, Complete, NoAccess
<1>3. CASE pend.reg # "DRW"
  <2>1. tar' \in [Aps -> Addr]
    <3>1. pend.reg = "TAR" => pend.val \in Addr
      BY <1>2 DEF TypeOK, TargetTypeOK, NoAccess
    <3>2. tar' = tar \/ (pend.reg = "TAR" /\ tar' = [tar EXCEPT ![pend.ap] = pend.val])
      BY <1>3 DEF Complete
    <3>3. QED
      BY <1>2, <3>1, <3>2 DEF TypeOK, TargetTypeOK
  <2>2. csw' \in [Aps -> Data]
    <3>1. csw' = csw \/ csw' = [csw EXCEPT ![pend.ap] = CswWordIncr]
      BY <1>3 DEF Complete
    <3>2. QED
      BY <1>2, <3>1 DEF TypeOK, TargetTypeOK
  <2>3. rdbuf' \in {rdbuf, csw[pend.ap], Junk}
    BY <1>3 DEF Complete
  <2>4. csw[pend.ap] \in Data
    BY <1>2 DEF TypeOK, TargetTypeOK
  <2>5. UNCHANGED <<mem, sticky>>
    BY <1>3 DEF Complete
  <2>6. QED
    BY <1>1, <2>1, <2>2, <2>3, <2>4, <2>5 DEF TypeOK, TargetTypeOK
<1>4. CASE pend.reg = "DRW"
  <2>1. pend.val \in Data /\ tar[pend.ap] \in Addr
    BY <1>2, <1>4 DEF TypeOK, TargetTypeOK, NoAccess
  <2>2. AutoIncr(tar[pend.ap]) \subseteq Addr
    BY <2>1 DEF AutoIncr
  <2>3. tar' \in [Aps -> Addr]
    <3>1. tar' = tar \/ \E t \in Addr : tar' = [tar EXCEPT ![pend.ap] = t]
      BY <1>4, <2>1, <2>2 DEF Complete
    <3>2. QED
      BY <1>2, <3>1 DEF TypeOK, TargetTypeOK
  <2>4. mem' \in [Aps \X Addr -> Data] /\ rdbuf' \in Data
    BY <1>2, <1>4, <2>1 DEF Complete, TypeOK, TargetTypeOK
  <2>5. csw' \in [Aps -> Data] /\ sticky' \in BOOLEAN
    BY <1>4 DEF Complete, TypeOK, TargetTypeOK
  <2>6. QED
    BY <1>1, <2>3, <2>4, <2>5 DEF TypeOK, TargetTypeOK
<1>5. QED
  BY <1>3, <1>4

-----------------------------------------------------------------------------
(* Control: the types of the driver, Progress and CurAddrInv                *)

Control == DriverTypeOK /\ CallTypeOK /\ Progress /\ CurAddrInv

LEMMA NextWord ==
  ASSUME TypeOK, Transfer, Progress, NEW n \in 0 .. num,
         mCurAddr = WordAddr(n)
  PROVE  NextAddr = WordAddr(n + 1)
BY DEF TypeOK, DriverTypeOK, CallTypeOK, Progress, NextAddr, WordAddr

LEMMA SucceedControl ==
  ASSUME TypeOK, Control, tryNo' = 0, Succeed,
         UNCHANGED <<mApSel, kind, addr, num, payload, chain>>
  PROVE  Control'
<1> USE DEF Control, TypeOK, DriverTypeOK, CallTypeOK, Transfer
<1>1. NextAddr \in Addr /\ tryNo' \in 0 .. MaxTries - 1
  BY DEF NextAddr
<1>2. CallTypeOK'
  OBVIOUS
<1>3. ASSUME NEW r \in Regs, BeginAccess(r), UNCHANGED mCurAddr, UNCHANGED <<done, buf>>,
             kind = "init", r # "TAR", pc # "idle"
      PROVE  Control'
  BY <1>1, <1>3 DEF BeginAccess, Progress, CurAddrInv, TarLabels, ReadWait, Bank
<1>4. CASE AfterReselect
  BY <1>1, <1>3, <1>4 DEF AfterReselect, Return, Progress, CurAddrInv, Live,
     TarLabels, Loops, ReadWait
<1>5. CASE AfterSelect
  BY <1>1, <1>5 DEF AfterSelect, Goto, Progress, CurAddrInv, Live, TarLabels,
     Loops, ReadWait, WordAddr
<1>6. CASE AfterAccess
  BY <1>1, <1>6 DEF AfterAccess, Goto, Progress, CurAddrInv, Live, TarLabels,
     Loops, ReadWait, WordAddr
<1>7. CASE AfterInitCycle
  <2>1. kind = "init"
    BY <1>7 DEF AfterInitCycle, Progress, TarLabels
  <2>2. CASE \E r \in {"err", "ok"} : ReturnInit(r)
    BY <1>1, <1>7, <2>1, <2>2 DEF AfterInitCycle, ReturnInit, Return, Progress,
       CurAddrInv, Live, TarLabels, Loops, ReadWait
  <2>3. QED
    BY <1>3, <1>7, <2>1, <2>2 DEF AfterInitCycle
<1>8. CASE AfterTarCycle
  BY <1>1, <1>8 DEF AfterTarCycle, Goto, Return, Progress, CurAddrInv, Live,
     TarLabels, Loops, ReadWait, WordAddr
<1>9. ASSUME pc \in {"post", "next"}, NEW n \in {done, done + 1}, done' = n,
             n < num, buf' \in [1 .. MaxWords -> Data], LoopRead(n),
             mCurAddr = WordAddr(n + 1)
      PROVE  Control'
  <2>1. kind = "read" /\ Transfer
    BY <1>9 DEF Progress, ReadWait
  <2>2. NextAddr = WordAddr(n + 2)
    BY <1>9, <2>1, NextWord
  <2>3. QED
    BY <1>1, <1>9, <2>1, <2>2 DEF LoopRead, Goto, Progress, CurAddrInv, Live,
       TarLabels, Loops, ReadWait, WordAddr
<1>10. CASE AfterPost
  BY <1>9, <1>10 DEF AfterPost, Progress, CurAddrInv, Live, Loops, ReadWait
<1>11. CASE AfterNext
  BY <1>9, <1>11 DEF AfterNext, Deliver, TargetTypeOK, Progress, CurAddrInv, Live,
     Loops, ReadWait
<1>12. CASE AfterFlush
  <2>1. kind = "read" /\ Transfer /\ done < num - 1 /\ mCurAddr = WordAddr(done + 1)
    BY <1>12 DEF AfterFlush, Progress, CurAddrInv, Live, Loops, ReadWait
  <2>2. NextAddr = WordAddr(done + 2)
    BY <2>1, NextWord
  <2>3. buf' \in [1 .. MaxWords -> Data]
    BY <1>12 DEF AfterFlush, Deliver, TargetTypeOK
  <2>4. QED
    BY <1>1, <1>12, <2>1, <2>2, <2>3 DEF AfterFlush, Deliver, SetAddr, BeginAccess,
       Bank, Progress, CurAddrInv, Live, TarLabels, Loops, ReadWait, WordAddr
<1>13. CASE AfterLast
  <2>1. kind = "read" /\ Transfer /\ done = num - 1 /\ mCurAddr = WordAddr(done + 1)
    BY <1>13 DEF AfterLast, Progress, CurAddrInv, Live, Loops, ReadWait
  <2>2. NextAddr = WordAddr(done + 2)
    BY <2>1, NextWord
  <2>3. buf' \in [1 .. MaxWords -> Data]
    BY <1>13 DEF AfterLast, Deliver, TargetTypeOK
  <2>4. QED
    BY <1>1, <1>13, <2>1, <2>2, <2>3 DEF AfterLast, Deliver, SetAddr, BeginAccess,
       Return, Bank, Progress, CurAddrInv, Live, TarLabels, Loops, ReadWait, WordAddr
<1>14. CASE AfterPut
  <2>1. kind = "write" /\ Transfer /\ done < num /\ mCurAddr = WordAddr(done + 1)
    BY <1>14 DEF AfterPut, Progress, CurAddrInv, Live, Loops, ReadWait
  <2>2. NextAddr = WordAddr(done + 2)
    BY <2>1, NextWord
  <2>3. QED
    BY <1>1, <1>14, <2>1, <2>2 DEF AfterPut, BeginAccess, Goto,
       Bank, Progress, CurAddrInv, Live, TarLabels, Loops, ReadWait, WordAddr
<1>15. CASE AfterDrain
  BY <1>1, <1>15 DEF AfterDrain, Return, Progress, CurAddrInv, Live, TarLabels,
     Loops, ReadWait
<1>16. CASE AfterAbort
  BY <1>1, <1>16 DEF AfterAbort, Goto, FailCall, Return, Progress, CurAddrInv, Live,
     TarLabels, Loops, ReadWait
<1>17. QED
  BY <1>4, <1>5, <1>6, <1>7, <1>8, <1>10, <1>11, <1>12, <1>13, <1>14, <1>15, <1>16
     DEF Succeed

LEMMA FailControl ==
  ASSUME TypeOK, Control, tryNo' = 0, Fail,
         UNCHANGED <<mApSel, kind, addr, num, payload, chain>>
  PROVE  Control'
<1> USE DEF Control, TypeOK, DriverTypeOK, CallTypeOK, Transfer
<1>1. CASE AfterReselect \/ AfterAbort
  BY <1>1, SucceedControl DEF Succeed
<1>2. CASE FailAccess
  BY <1>2 DEF FailAccess, Goto, ReturnInit, Return, Progress, CurAddrInv, Live,
     TarLabels, Loops, ReadWait
<1>3. CASE FailTransfer
  BY <1>3 DEF FailTransfer, Goto, Progress, CurAddrInv, Live, TarLabels, Loops,
     ReadWait
<1>4. QED
  BY <1>1, <1>2, <1>3 DEF Fail

LEMMA CallControl ==
  ASSUME TypeOK, Control, Call
  PROVE  Control'
<1> USE DEF Control, TypeOK, DriverTypeOK, CallTypeOK, Transfer
<1>1. CASE kind' \in {"init", "reselect"} /\ pc' = "reselect"
  <2>1. /\ pc = "idle" /\ mApSel' \in Aps /\ mSelected' = "ctl"
        /\ UNCHANGED <<addr, num, payload, chain, mCurAddr, acc, done, buf, ready>>
        /\ tryNo' = 0 /\ ret' = "none"
    BY <1>1, CallCases
  <2>2. QED
    BY <1>1, <2>1 DEF Progress, CurAddrInv, Live, TarLabels, Loops, ReadWait, Bank
<1>2. CASE kind' \in {"read", "write"}
  <2>1. /\ addr' \in Addr /\ num' \in 1 .. MaxWords /\ payload' \in Payloads
        /\ chain' \in BOOLEAN /\ mCurAddr' = addr' /\ mSelected' = "ctl"
        /\ mApSel' \in ready' /\ mApSel' = mApSel
        /\ pc' \in {"access", "select"} /\ acc' = "TAR" /\ done' = 0
        /\ buf' \in [1 .. MaxWords -> Data] /\ tryNo' = 0 /\ ret' = "none"
        /\ ready' = ready
    BY <1>2, CallCases
  <2>2. DriverTypeOK' /\ CallTypeOK'
    BY <1>2, <2>1
  <2>3. Progress'
    <3>1. num' > 0 /\ done' <= num'
      BY <2>1, NumBound
    <3>2. Bank(acc') = "ctl"
      BY <2>1 DEF Bank
    <3>3. QED
      BY <1>2, <2>1, <3>1, <3>2 DEF Progress, TarLabels, ReadWait
  <2>4. WordAddr(1)' = addr'
    <3> HIDE DEF Plus, Addr
    <3>1. WordAddr(1)' = Plus(addr', 0)
      BY 1 - 1 = 0 DEF WordAddr
    <3>2. QED
      BY <2>1, <3>1, PlusZero
  <2>5. CurAddrInv'
    BY <1>2, <2>1, <2>4 DEF CurAddrInv
  <2>6. QED
    BY <2>2, <2>3, <2>5
<1>3. QED
  BY <1>1, <1>2, CallCases

LEMMA ControlNext ==
  ASSUME TypeOK, Control, [Next]_vars
  PROVE  TypeOK' /\ Control'
<1>1. CASE Complete
  <2>1. TargetTypeOK'
    BY <1>1, CompleteType
  <2>2. Control'
    BY <1>1 DEF Control, Complete, call, DriverTypeOK, CallTypeOK, Progress,
       CurAddrInv, Transfer, WordAddr, vars
  <2>3. QED
    BY <2>1, <2>2 DEF TypeOK, Control
<1>2. CASE Attempt
  <2>1. TargetTypeOK'
    BY <1>2, AttemptCases, TargetTakesType DEF TypeOK, TargetTypeOK, Control
  <2>2. Control'
    <3>1. CASE UNCHANGED <<mSelected, mCurAddr, pc, acc, done, buf, ret, ready>>
      <4>1. UNCHANGED <<mApSel, kind, addr, num, payload, chain>>
        BY <1>2, AttemptCases
      <4>2. tryNo' \in 0 .. MaxTries - 1
        <5>1. tryNo \in 0 .. MaxTries - 1
          BY DEF Control, DriverTypeOK
        <5>2. tryNo' = 0 \/ (tryNo + 1 < MaxTries /\ tryNo' = tryNo + 1)
          BY <1>2 DEF Attempt, Wait, GiveUp, Accepted, Faulted, Lost, Garbled, Damaged
        <5>3. QED
          BY <5>1, <5>2
      <4>3. QED
        BY <3>1, <4>1, <4>2 DEF Control, DriverTypeOK, CallTypeOK, Progress,
           CurAddrInv, Transfer, WordAddr
    <3>2. QED
      BY <1>2, <3>1, AttemptCases, SucceedControl, FailControl
  <2>3. QED
    BY <2>1, <2>2 DEF TypeOK, Control
<1>3. CASE Call
  <2>1. TargetTypeOK'
    BY <1>3, CallCases DEF TypeOK, TargetTypeOK
  <2>2. QED
    BY <1>3, <2>1, CallControl DEF TypeOK, Control
<1>4. CASE UNCHANGED vars
  BY <1>4 DEF vars, target, call, Control, TypeOK, TargetTypeOK, DriverTypeOK,
     CallTypeOK, Progress, CurAddrInv, Transfer, WordAddr
<1>5. QED
  BY <1>1, <1>2, <1>3, <1>4 DEF Next

-----------------------------------------------------------------------------
(* memapInit configures the AP it reports usable                            *)

LEMMA InitNext ==
  ASSUME IInv, [Next]_vars
  PROVE  InitInv' /\ ReadyConfigured'
<1> USE DEF IInv, InitInv, ReadyConfigured, InAccess
<1>1. CASE Complete
  <2>1. UNCHANGED <<selAp, mApSel, kind, pc, acc, ready>> /\ pend' = NoAccess
    BY <1>1 DEF Complete, call
  <2>2. csw' = csw \/ csw' = [csw EXCEPT ![pend.ap] = CswWordIncr]
    BY <1>1 DEF Complete
  <2>3. \A ap \in Aps : csw'[ap] \in {csw[ap], CswWordIncr}
    BY <2>2 DEF TypeOK, TargetTypeOK
  <2>4. pend.op = "read" /\ pend.reg \in {"CSWcheck", "none"} =>
          rdbuf' \in {csw'[pend.ap], Junk}
    BY <1>1 DEF Complete
  <2>5. QED
    BY <1>1, <2>1, <2>3, <2>4 DEF TypeOK, TargetTypeOK, DriverTypeOK, NoAccess, Complete
<1>2. CASE Attempt
  <2>1. UNCHANGED <<csw, rdbuf, mApSel, kind>>
    BY <1>2, AttemptCases
  <2>2. \/ ready' \subseteq ready
        \/ /\ kind = "init" /\ pc = "cycle" /\ acc = "BASE"
           /\ ready' \subseteq ready \cup {mApSel}
    <3>1. Succeed => \/ ready' \subseteq ready
                     \/ /\ pc = "cycle" /\ acc = "BASE"
                        /\ ready' \subseteq ready \cup {mApSel}
      BY DEF Succeed, AfterReselect, AfterSelect, AfterAccess, AfterInitCycle,
         AfterTarCycle, AfterPost, AfterNext, AfterFlush, AfterLast, AfterPut,
         AfterDrain, AfterAbort, LoopRead, SetAddr, BeginAccess, Goto, Return,
         ReturnInit, FailCall
    <3>2. Fail => ready' \subseteq ready
      BY DEF Fail, AfterReselect, FailAccess, FailTransfer, AfterAbort, BeginAccess,
         Goto, Return, ReturnInit, FailCall
    <3>3. pc = "cycle" /\ acc = "BASE" => kind = "init"
      BY DEF Progress, TarLabels, Transfer, TypeOK, CallTypeOK
    <3>4. QED
      BY <1>2, <3>1, <3>2, <3>3, AttemptCases
  <2>3. ReadyConfigured'
    BY <2>1, <2>2
  <2>4. ASSUME kind = "init", pc' # "idle"
        PROVE  InitInv'
    <3>1. pc # "idle" /\ selAp = mApSel /\ (pend.op # "none" => pend.ap = mApSel)
      BY <1>2, <2>4, AttemptCases
    <3>2. pc \in {"reselect", "select", "access", "cycle"}
      BY <2>4, <3>1 DEF Progress, TarLabels
    <3>3. selAp' = mApSel /\ (pend'.op # "none" => pend'.ap = mApSel)
      <4>1. TargetTakes => /\ selAp' \in {selAp, mApSel}
                           /\ pend' \in {pend, NoAccess} \/ pend'.ap = selAp
        BY DEF TargetTakes, Issue
      <4>2. /\ selAp' \in {selAp, mApSel}
            /\ pend' \in {pend, NoAccess} \/ pend'.ap = selAp
        BY <1>2, <4>1, AttemptCases
      <4>3. QED
        BY <3>1, <4>2 DEF NoAccess
    <3>4. ASSUME pc' = "cycle", acc' = "CSWcheck"
          PROVE  \/ pend'.op = "read" /\ pend'.reg \in {"CSWcheck", "none"}
                 \/ pend' = NoAccess /\ rdbuf \in {csw[mApSel], Junk}
      <4>1. CASE UNCHANGED <<pc, acc, pend>>
        BY <2>1, <2>4, <3>1, <3>4, <4>1
      <4>2. CASE Succeed /\ Accepts
        <5>1. pc = "access" /\ acc = "CSWcheck"
          BY <3>2, <3>4, <4>2 DEF Succeed, AfterReselect, AfterSelect, AfterAccess,
             AfterInitCycle, AfterTarCycle, AfterPost, AfterNext, AfterFlush,
             AfterLast, AfterPut, AfterDrain, AfterAbort, BeginAccess, Goto,
             Return, ReturnInit
        <5>2. ~IsWrite /\ ~Fail
          BY <3>4, <5>1 DEF IsWrite, Fail, AfterReselect, AfterAbort, FailAccess,
             FailTransfer, ReturnInit, Return
        <5>3. UNCHANGED <<pc, acc, pend>> \/ TargetTakes
          BY <1>2, <5>2, AttemptCases
        <5>4. TargetTakes => pend'.op = "read" /\ pend'.reg \in {"CSWcheck", "none"}
          BY <5>1 DEF TargetTakes, Issue, Reached
        <5>5. QED
          BY <4>1, <5>3, <5>4
      <4>3. ~Fail
        BY <2>4, <3>2, <3>4 DEF Fail, AfterReselect, AfterAbort, FailAccess,
           FailTransfer, ReturnInit, Return, BeginAccess, Goto
      <4>4. QED
        BY <1>2, <4>1, <4>2, <4>3, AttemptCases
    <3>5. ASSUME pc' # "reselect", acc' = "BASE"
          PROVE  csw[mApSel] = CswWordIncr
      <4>1. CASE UNCHANGED <<pc, acc>>
        BY <2>4, <3>1, <3>5, <4>1
      <4>2. CASE Succeed /\ Accepts
        <5>1. \/ pc # "reselect" /\ acc = "BASE"
              \/ pc = "cycle" /\ acc = "CSWcheck" /\ rdbuf = CswWordIncr
          BY <3>2, <3>5, <4>2, <2>4 DEF Succeed, AfterReselect, AfterSelect,
             AfterAccess, AfterInitCycle, AfterTarCycle, AfterPost, AfterNext,
             AfterFlush, AfterLast, AfterPut, AfterDrain, AfterAbort, BeginAccess,
             Goto, Return, ReturnInit
        <5>2. pc = "cycle" => pend.op = "none"
          BY <4>2 DEF Accepts, Answers
        <5>3. QED
          BY <2>4, <3>1, <5>1, <5>2
      <4>3. CASE Fail
        BY <2>4, <3>1, <3>2, <3>5, <4>3 DEF Fail, AfterReselect, AfterAbort,
           FailAccess, FailTransfer, ReturnInit, Return, BeginAccess, Goto
      <4>4. QED
        BY <1>2, <4>1, <4>2, <4>3, AttemptCases
    <3>6. QED
      BY <2>1, <3>3, <3>4, <3>5
  <2>5. QED
    BY <2>1, <2>3, <2>4
<1>3. CASE Call
  <2>1. ReadyConfigured'
    BY <1>3, CallCases
  <2>2. kind' = "init" => pc' = "reselect" /\ selAp' = mApSel' /\ pend' = NoAccess
    BY <1>3, CallCases
  <2>3. QED
    BY <2>1, <2>2 DEF NoAccess
<1>4. CASE UNCHANGED vars
  BY <1>4 DEF vars, target, call
<1>5. QED
  BY <1>1, <1>2, <1>3, <1>4 DEF Next

-----------------------------------------------------------------------------
(* The transfers                                                            *)

\* The page boundary: TAR autoincrements to the next word unless the access
\* was at the last word of a page.
LEMMA AutoIncrement ==
  ASSUME NEW a \in Addr, NEW t \in AutoIncr(a), ~LastOfPage(a)
  PROVE  t = Plus(a, 1)
BY DEF AutoIncr

LEMMA WordStep ==
  ASSUME TypeOK, NEW n \in 1 .. num
  PROVE  /\ WordAddr(n) \in Addr
         /\ Plus(WordAddr(n), 1) = WordAddr(n + 1)
BY DEF TypeOK, CallTypeOK, WordAddr

\* The words of one transfer are different words.
LEMMA WordsDiffer ==
  ASSUME TypeOK, NEW i \in 1 .. num, NEW k \in 1 .. num, i # k
  PROVE  WordAddr(i) # WordAddr(k)
BY DEF TypeOK, CallTypeOK, WordAddr

\* The access port completes an access during a transfer.
LEMMA DataComplete ==
  ASSUME IInv, Complete
  PROVE  DataInv'
<1> USE DEF IInv, DataInv
<1>1. /\ UNCHANGED <<selAp, selBank, mApSel, mSelected, mCurAddr, kind, addr, num,
                     payload, chain, pc, acc, done, buf, tryNo, ret, ready>>
      /\ pend.op # "none" /\ pend # NoAccess /\ pend' = NoAccess
  BY DEF Complete, call, NoAccess
<1>2. Coherent' = Coherent /\ \A n \in Int : WordAddr(n)' = WordAddr(n)
  BY <1>1 DEF Coherent, WordAddr
<1>4. ~Writing => mem' = mem
  BY DEF Complete, Writing
<1>5. ASSUME Coherent, Transfer, pend.reg = "DRW", pend.ap = mApSel
      PROVE  \/ sticky' /\ mem' = mem
             \/ /\ tar'[mApSel] \in AutoIncr(tar[mApSel])
                /\ sticky' = sticky
                /\ pend.op = "write" =>
                     mem' = [mem EXCEPT ![<<mApSel, tar[mApSel]>>] = pend.val]
                /\ pend.op = "read" =>
                     mem' = mem /\ rdbuf' = mem[<<mApSel, tar[mApSel]>>]
  <2>1. csw[mApSel] = CswWordIncr /\ mApSel \in Aps
    BY <1>5 DEF Progress, ReadyConfigured, TypeOK, DriverTypeOK
  <2>2. QED
    BY <1>1, <1>5, <2>1 DEF Complete, TypeOK, TargetTypeOK
<1>6. TarInv'
  <2>1. ASSUME Coherent, Transfer, pc = "cycle"
        PROVE  sticky' \/ tar'[mApSel] = mCurAddr
    <3>1. CASE pend = TarWrite
      <4>1. tar' = [tar EXCEPT ![mApSel] = mCurAddr]
        BY <3>1 DEF Complete, TarWrite
      <4>2. QED
        BY <4>1 DEF TypeOK, TargetTypeOK, DriverTypeOK
    <3>2. CASE sticky
      BY <3>2 DEF Complete
    <3>3. QED
      BY <1>1, <2>1, <3>1, <3>2 DEF TarInv
  <2>2. ASSUME Coherent, Transfer, pc \in {"put", "drain"}
        PROVE  sticky' \/ tar'[mApSel] = mCurAddr
    <3>1. kind = "write" /\ done \in 1 .. num /\ mCurAddr = WordAddr(done + 1)
      BY <1>1, <2>2 DEF Progress, FlightInv, Live, Loops, CurAddrInv, TypeOK,
         DriverTypeOK, CallTypeOK
    <3>2. CASE sticky
      BY <3>2 DEF Complete
    <3>3. CASE /\ pend = DrwWrite(payload[done]) /\ tar[mApSel] = WordAddr(done)
               /\ ~LastOfPage(WordAddr(done))
      <4>1. sticky' \/ tar'[mApSel] \in AutoIncr(WordAddr(done))
        BY <1>5, <2>2, <3>3 DEF DrwWrite
      <4>2. WordAddr(done) \in Addr /\ Plus(WordAddr(done), 1) = mCurAddr
        BY <3>1, WordStep
      <4>3. QED
        BY <3>3, <4>1, <4>2, AutoIncrement
    <3>4. QED
      BY <1>1, <2>2, <3>1, <3>2, <3>3 DEF WriteInv, Live, Loops
  <2>3. QED
    BY <1>1, <1>2, <2>1, <2>2 DEF TarInv, FlightInv, Live, Loops, Transfer
<1>7. FlightInv'
  BY <1>1 DEF FlightInv, Transfer, Writing, NoAccess
<1>8. ReadInv'
  <2>1. SUFFICES ASSUME kind = "read", Coherent, pc \in Live
                 PROVE  ReadInv'
    BY <1>1, <1>2 DEF ReadInv
  <2>2. Delivered(done)'
    <3>1. CASE done = 0
      BY <1>1, <3>1 DEF Delivered
    <3>2. CASE done > 0
      <4>1. mem' = mem
        BY <1>4, <2>1, <3>2 DEF FlightInv, Transfer
      <4>2. QED
        BY <1>1, <1>2, <2>1, <4>1 DEF ReadInv, Delivered, TypeOK, DriverTypeOK
    <3>3. QED
      BY <3>1, <3>2 DEF TypeOK, DriverTypeOK
  <2>3. ASSUME pc \in ReadWait
        PROVE  \/ sticky'
               \/ /\ rdbuf' = mem'[<<mApSel, WordAddr(done + 1)>>]
                  /\ tar'[mApSel] \in AutoIncr(WordAddr(done + 1))
    <3>1. CASE sticky
      BY <3>1 DEF Complete
    <3>2. CASE pend = DrwRead /\ tar[mApSel] = WordAddr(done + 1)
      BY <1>5, <2>1, <3>2 DEF DrwRead, Transfer
    <3>3. QED
      BY <1>1, <2>1, <2>3, <3>1, <3>2 DEF ReadInv
  <2>4. WordAddr(done + 1)' = WordAddr(done + 1)
    BY <1>1 DEF WordAddr
  <2>5. pc = "next" => ~LastOfPage(WordAddr(done + 1))
    BY <2>1 DEF ReadInv
  <2>6. QED
    BY <1>1, <2>2, <2>3, <2>4, <2>5 DEF ReadInv
<1>9. WriteInv'
  <2>1. SUFFICES ASSUME kind = "write", Coherent, pc \in Live, done > 0, ~sticky'
                 PROVE  WriteInv'
    BY <1>1, <1>2 DEF WriteInv
  <2>2. ~sticky /\ done \in 1 .. num /\ num \in 0 .. MaxWords
    BY <2>1 DEF Complete, Progress, Transfer, TypeOK, DriverTypeOK, CallTypeOK
  <2>3. CASE Stored(done) /\ ~Writing /\ (pc \in {"put", "drain"} => pend = NoAccess)
    <3>1. Stored(done)'
      BY <1>1, <1>2, <1>4, <2>3 DEF Stored, TypeOK, DriverTypeOK
    <3>2. QED
      BY <1>1, <3>1 DEF WriteInv, Writing, NoAccess
  <2>4. CASE /\ Stored(done - 1)
             /\ pend = DrwWrite(payload[done])
             /\ tar[mApSel] = WordAddr(done)
    <3>1. mem' = [mem EXCEPT ![<<mApSel, WordAddr(done)>>] = payload[done]]
      BY <1>5, <2>1, <2>4 DEF DrwWrite, Transfer
    <3>2. <<mApSel, WordAddr(done)>> \in Aps \X Addr
      BY <2>2, WordStep DEF TypeOK, DriverTypeOK
    <3>3. ASSUME NEW k \in 1 .. done
          PROVE  mem'[<<mApSel, WordAddr(k)>>] = payload[k]
      <4>1. k \in 1 .. num
        BY <2>2
      <4>2. CASE k = done
        BY <3>1, <3>2, <4>2 DEF TypeOK, TargetTypeOK
      <4>3. CASE k # done
        <5>1. WordAddr(k) # WordAddr(done)
          BY <2>2, <4>1, <4>3, WordsDiffer
        <5>2. mem[<<mApSel, WordAddr(k)>>] = payload[k]
          BY <2>2, <2>4, <4>3 DEF Stored
        <5>3. QED
          BY <3>1, <3>2, <5>1, <5>2 DEF TypeOK, TargetTypeOK
      <4>4. QED
        BY <4>2, <4>3
    <3>4. Stored(done)'
      BY <1>1, <1>2, <3>3 DEF Stored
    <3>5. QED
      BY <1>1, <3>4 DEF WriteInv, Writing, NoAccess
  <2>5. QED
    BY <2>1, <2>2, <2>3, <2>4 DEF WriteInv
<1>10. ReadReturnsMemory' /\ WriteStored' /\ TarTracksCurAddr'
  BY <1>1, <1>2 DEF ReadReturnsMemory, WriteStored, TarTracksCurAddr, Returned,
     Coherent
<1>11. QED
  BY <1>6, <1>7, <1>8, <1>9, <1>10
\* A transfer that goes wrong, or is over, promises nothing about the data.
LEMMA DataFail ==
  ASSUME IInv, UNCHANGED kind,
         Transfer => pc' \notin Live /\ ret' # "ok"
  PROVE  DataInv'
BY DEF DataInv, TarInv, FlightInv, ReadInv, WriteInv, Transfer, Live, TarLabels,
   Loops, ReadWait, ReadReturnsMemory, WriteStored, TarTracksCurAddr, Returned

\* Nothing but the try counter changes.
LEMMA DataSame ==
  ASSUME IInv,
         UNCHANGED <<selAp, selBank, csw, tar, mem, pend, rdbuf, sticky, mApSel,
                     mSelected, mCurAddr, kind, addr, num, payload, chain, pc, acc,
                     done, buf, ret, ready>>
  PROVE  DataInv'
BY DEF IInv, DataInv, TarInv, FlightInv, ReadInv, WriteInv, Transfer,
   ReadReturnsMemory, WriteStored, TarTracksCurAddr, Returned, Coherent, WordAddr,
   Delivered, Stored, TarWrite, DrwRead, DrwWrite, Writing

\* A transfer starts, or a call that is not a transfer.
LEMMA DataCall ==
  ASSUME IInv, Call
  PROVE  DataInv'
<1>1. /\ ret' = "none" /\ mem' = mem
      /\ kind' \in {"read", "write"} => pc' \in {"access", "select"} /\ done' = 0
  BY CallCases
<1>2. TarInv' /\ FlightInv'
  BY <1>1 DEF TarInv, FlightInv, Transfer, Loops, ReadWait
<1>3. ReadInv' /\ WriteInv'
  BY <1>1 DEF ReadInv, WriteInv, Delivered, ReadWait
<1>4. ReadReturnsMemory' /\ WriteStored' /\ TarTracksCurAddr'
  BY <1>1 DEF ReadReturnsMemory, WriteStored, TarTracksCurAddr, Returned
<1>5. QED
  BY <1>2, <1>3, <1>4 DEF DataInv
\* A transaction of a transfer succeeds, or so the driver believes.
LEMMA DataSucceed ==
  ASSUME IInv, Transfer, Succeed, Accepts,
         UNCHANGED <<mApSel, kind, addr, num, payload, csw, tar, mem, rdbuf>>,
         \/ TargetTakes
         \/ IsWrite /\ sticky' = TRUE /\ UNCHANGED <<selAp, selBank, pend>>
  PROVE  DataInv'
<1> DEFINE Damage == IsWrite /\ sticky' = TRUE /\ UNCHANGED <<selAp, selBank, pend>>
<1>1. /\ acc = "TAR" /\ mSelected = "ctl" /\ pc # "reselect" /\ pc # "idle"
      /\ done \in 0 .. num /\ num \in 1 .. MaxWords
      /\ buf \in [1 .. MaxWords -> Data]
  <2>1. pc # "idle"
    BY DEF Succeed, AfterReselect, AfterSelect, AfterAccess, AfterInitCycle,
       AfterTarCycle, AfterPost, AfterNext, AfterFlush, AfterLast, AfterPut,
       AfterDrain, AfterAbort
  <2>2. QED
    BY <2>1 DEF IInv, Progress, TypeOK, DriverTypeOK, CallTypeOK
<1>2. CASE pc \in AbortLabels
  <2>1. AfterAbort
    BY <1>1, <1>2 DEF Succeed, AfterReselect, AfterSelect, AfterAccess,
       AfterInitCycle, AfterTarCycle, AfterPost, AfterNext, AfterFlush, AfterLast,
       AfterPut, AfterDrain
  <2>2. pc' \notin Live /\ ret' # "ok"
    BY <1>1, <2>1 DEF AfterAbort, FailCall, Goto, Return, Live, TarLabels, Loops,
       ReadWait, IInv, Progress
  <2>3. QED
    BY <2>2, DataFail
<1>3. CASE pc \notin AbortLabels
  <2>1. pend = NoAccess /\ ~sticky
    BY <1>3 DEF Accepts, Answers, IInv, TypeOK, TargetTypeOK
  <2>2. \A n \in Int : WordAddr(n)' = WordAddr(n)
    BY DEF WordAddr
  <2>3. pc \in Live => mCurAddr = WordAddr(IF pc = "next" THEN done + 2 ELSE done + 1)
    BY DEF IInv, CurAddrInv
  <2>4. pc # "select" /\ mSelected' = "ctl" => Coherent' = Coherent
    BY <1>1 DEF Coherent, TargetTakes
  <2>5. CASE AfterSelect
    BY <1>1, <2>5 DEF AfterSelect, Goto, IInv, Progress, Transfer, DataInv, TarInv,
       FlightInv, ReadInv, WriteInv, Delivered, ReadWait, Loops, ReadReturnsMemory,
       WriteStored, TarTracksCurAddr, Returned
  <2>6. CASE AfterAccess
    <3>1. /\ pc = "access" /\ pc' = "cycle"
          /\ UNCHANGED <<mSelected, acc, ret, mCurAddr, done, buf>>
      BY <2>6 DEF AfterAccess, Goto
    <3>2. Coherent' = Coherent
      BY <1>1, <2>4, <3>1
    <3>3. Coherent => sticky' \/ pend' = TarWrite'
      BY <1>1, <2>1, <3>1, <3>2
         DEF TargetTakes, Issue, Reached, Bank, TarWrite, Coherent
    <3>4. ~Writing'
      BY <1>1, <2>1, <3>1 DEF TargetTakes, Issue, Reached, Writing, NoAccess
    <3>5. kind = "read" /\ Coherent => Delivered(done)'
      BY <1>1, <2>2, <3>1 DEF IInv, DataInv, ReadInv, Delivered, Live, TarLabels
    <3>6. kind = "write" /\ Coherent /\ done > 0 => Stored(done)'
      BY <1>1, <2>1, <2>2, <3>1 DEF IInv, DataInv, WriteInv, Stored, Live, TarLabels,
         DrwWrite, NoAccess
    <3>7. QED
      BY <3>1, <3>2, <3>3, <3>4, <3>5, <3>6 DEF DataInv, TarInv, FlightInv, ReadInv,
         WriteInv, ReadWait, ReadReturnsMemory, WriteStored, TarTracksCurAddr, Returned
  <2>7. CASE AfterTarCycle
    <3>1. /\ pc = "cycle"
          /\ UNCHANGED <<mSelected, mCurAddr, done, buf, selAp, selBank, pend, sticky>>
          /\ \/ kind = "read" /\ pc' = "post" /\ done < num
             \/ kind = "read" /\ pc' = "idle" /\ done = num
             \/ kind = "write" /\ pc' = "put" /\ done < num
             \/ kind = "write" /\ pc' = "drain" /\ done = num
      BY <2>7 DEF AfterTarCycle, Goto, Return, TargetTakes, IsWrite
    <3>2. Coherent' = Coherent
      BY <1>1, <2>4, <3>1
    <3>3. Coherent => tar'[mApSel'] = mCurAddr'
      BY <2>1, <3>1 DEF IInv, DataInv, TarInv, TarWrite, NoAccess
    <3>4. kind = "read" /\ Coherent => Delivered(done)'
      BY <1>1, <2>2, <3>1 DEF IInv, DataInv, ReadInv, Delivered, Live, TarLabels
    <3>5. kind = "write" /\ Coherent /\ done > 0 => Stored(done)'
      BY <1>1, <2>1, <2>2, <3>1 DEF IInv, DataInv, WriteInv, Stored, Live, TarLabels,
         DrwWrite, NoAccess
    <3>6. TarInv' /\ FlightInv'
      BY <2>1, <3>1, <3>2, <3>3 DEF TarInv, FlightInv, Writing, NoAccess
    <3>7. ReadInv' /\ WriteInv'
      BY <2>1, <3>1, <3>2, <3>4, <3>5 DEF ReadInv, WriteInv, Writing, NoAccess, ReadWait
    <3>8. ReadReturnsMemory' /\ WriteStored' /\ TarTracksCurAddr'
      BY <2>1, <3>1, <3>2, <3>3, <3>4 DEF ReadReturnsMemory, WriteStored,
         TarTracksCurAddr, Returned, Delivered
    <3>9. QED
      BY <3>6, <3>7, <3>8 DEF DataInv
  <2>8. ASSUME pc \in {"post", "next"}, NEW n \in {done, done + 1}, done' = n,
               n < num, LoopRead(n), mCurAddr = WordAddr(n + 1),
               Coherent => tar[mApSel] = mCurAddr /\ Delivered(done)'
        PROVE  DataInv'
    <3>1. /\ kind = "read" /\ TargetTakes /\ UNCHANGED mSelected
          /\ pc' \in ReadWait
          /\ pc' = "next" => ~LastOfPage(WordAddr(n + 1))
      BY <2>8, <1>1 DEF LoopRead, Goto, Crosses, ReadWait, IsWrite, IInv, Progress
    <3>2. Coherent' = Coherent
      BY <1>1, <2>4, <2>8, <3>1
    <3>3. Coherent => pend' = DrwRead'
      BY <1>1, <2>8, <3>1 DEF TargetTakes, Issue, Reached, Bank, DrwRead, Coherent
    <3>4. ~Writing'
      BY <2>8, <3>1 DEF TargetTakes, Issue, Writing
    <3>5. TarInv' /\ FlightInv' /\ WriteInv'
      BY <3>1, <3>4 DEF TarInv, FlightInv, WriteInv, ReadWait
    <3>6. ReadInv'
      <4>1. WordAddr(n + 1)' = WordAddr(n + 1)
        BY <1>1, <2>2, <2>8
      <4>2. QED
        BY <1>1, <2>8, <3>1, <3>2, <3>3, <4>1 DEF ReadInv
    <3>7. QED
      BY <3>1, <3>5, <3>6 DEF DataInv, ReadReturnsMemory, WriteStored,
         TarTracksCurAddr, Returned, ReadWait
  <2>9. CASE AfterPost
    <3>1. /\ pc = "post" /\ kind = "read" /\ done' = done /\ buf' = buf /\ done < num
          /\ LoopRead(done) /\ mCurAddr = WordAddr(done + 1)
      BY <2>3, <2>9 DEF AfterPost, IInv, Progress, Live, Loops
    <3>2. Coherent => tar[mApSel] = mCurAddr /\ Delivered(done)
      BY <3>1 DEF IInv, DataInv, TarInv, ReadInv, Transfer, Live, Loops
    <3>3. Coherent => Delivered(done)'
      BY <1>1, <2>2, <3>1, <3>2 DEF Delivered
    <3>4. QED
      BY <2>8, <3>1, <3>2, <3>3
  \* The read buffer holds the word that Deliver stores.
  <2>10. ASSUME pc \in ReadWait, Deliver
         PROVE  /\ kind = "read" /\ done < num /\ done' = done + 1
                /\ done + 1 \in 1 .. num
                /\ Coherent => /\ Delivered(done)'
                               /\ tar[mApSel] \in AutoIncr(WordAddr(done + 1))
    <3>1. kind = "read" /\ done < num /\ done' = done + 1 /\ done + 1 \in 1 .. num
      BY <1>1, <2>10 DEF Deliver, IInv, Progress
    <3>2. Coherent => /\ Delivered(done)
                      /\ rdbuf = mem[<<mApSel, WordAddr(done + 1)>>]
                      /\ tar[mApSel] \in AutoIncr(WordAddr(done + 1))
      BY <2>1, <2>10, <3>1 DEF IInv, DataInv, ReadInv, Live, Loops, DrwRead, NoAccess
    <3>3. Coherent => Delivered(done)'
      <4>1. ASSUME Coherent, NEW k \in 1 .. done + 1
            PROVE  buf'[k] = mem[<<mApSel, WordAddr(k)>>]
        <5>1. buf' = [buf EXCEPT ![done + 1] = rdbuf]
          BY <2>10 DEF Deliver
        <5>2. done + 1 \in 1 .. MaxWords /\ k \in 1 .. MaxWords
          BY <1>1, <3>1
        <5>3. k # done + 1 => buf[k] = mem[<<mApSel, WordAddr(k)>>]
          BY <1>1, <3>2, <4>1 DEF Delivered
        <5>4. QED
          BY <1>1, <3>2, <4>1, <5>1, <5>2, <5>3
      <4>2. QED
        BY <1>1, <2>2, <3>1, <4>1 DEF Delivered
    <3>4. QED
      BY <3>1, <3>2, <3>3
  <2>11. CASE AfterNext
    <3>1. pc = "next" /\ Deliver /\ LoopRead(done + 1)
      BY <2>11 DEF AfterNext
    <3>2. /\ done' = done + 1 /\ done + 1 < num /\ mCurAddr = WordAddr(done + 2)
      BY <1>1, <2>3, <2>10, <3>1 DEF IInv, Progress, Live, Loops, ReadWait
    <3>3. Coherent => tar[mApSel] = mCurAddr
      <4>1. SUFFICES ASSUME Coherent PROVE tar[mApSel] = mCurAddr
        OBVIOUS
      <4>2. ~LastOfPage(WordAddr(done + 1)) /\ tar[mApSel] \in AutoIncr(WordAddr(done + 1))
        BY <2>10, <3>1, <4>1 DEF IInv, DataInv, ReadInv, Live, Loops, ReadWait
      <4>3. WordAddr(done + 1) \in Addr /\ Plus(WordAddr(done + 1), 1) = WordAddr(done + 2)
        BY <2>10, <3>1, WordStep, <1>1 DEF IInv, ReadWait
      <4>4. QED
        BY <3>2, <4>2, <4>3, AutoIncrement
    <3>4. Coherent => Delivered(done)'
      BY <2>10, <3>1 DEF ReadWait
    <3>5. QED
      <4>1. mCurAddr = WordAddr((done + 1) + 1)
        BY <1>1, <3>2
      <4>2. QED
        BY <2>8, <3>1, <3>2, <3>3, <3>4, <4>1
  <2>12. CASE (AfterFlush \/ AfterLast) /\ pc' # "idle"
    <3>1. /\ pc \in ReadWait /\ Deliver /\ kind = "read" /\ pc' = "access"
          /\ mSelected' = "ctl" /\ done' = done + 1
          /\ UNCHANGED <<selAp, selBank, pend, sticky>>
      BY <1>1, <2>10, <2>12 DEF AfterFlush, AfterLast, SetAddr, BeginAccess, Bank,
         Return, ReadWait, TargetTakes, IsWrite
    <3>2. Coherent' = Coherent
      BY <1>1, <2>4, <3>1 DEF ReadWait
    <3>3. ReadInv'
      BY <2>10, <3>1, <3>2 DEF ReadInv, ReadWait
    <3>4. QED
      BY <2>1, <3>1, <3>3 DEF DataInv, TarInv, FlightInv, WriteInv, Writing, NoAccess,
         ReadReturnsMemory, WriteStored, TarTracksCurAddr, Returned
  <2>13. CASE AfterLast /\ pc' = "idle"
    <3>1. /\ pc = "last" /\ Deliver /\ ~Crosses /\ mCurAddr' = NextAddr
          /\ UNCHANGED <<selAp, selBank, pend, sticky, mSelected>>
      BY <1>1, <2>13 DEF AfterLast, SetAddr, BeginAccess, Return, TargetTakes, IsWrite
    <3>2. kind = "read" /\ done + 1 = num /\ mCurAddr = WordAddr(done + 1)
      BY <1>1, <2>3, <3>1 DEF IInv, Progress, Live, Loops, ReadWait
    <3>3. Coherent' = Coherent
      BY <1>1, <2>4, <3>1
    <3>4. Coherent => Delivered(num)' /\ tar[mApSel] = mCurAddr'
      <4>1. Coherent => Delivered(num)' /\ tar[mApSel] \in AutoIncr(mCurAddr)
        BY <2>10, <3>1, <3>2 DEF ReadWait
      <4>2. mCurAddr \in Addr
        BY DEF IInv, TypeOK, DriverTypeOK
      <4>3. QED
        BY <3>1, <4>1, <4>2, AutoIncrement DEF Crosses, NextAddr
    <3>5. QED
      BY <2>1, <2>13, <3>1, <3>2, <3>3, <3>4 DEF DataInv, TarInv, FlightInv, ReadInv,
         WriteInv, Live, TarLabels, Loops, ReadWait, ReadReturnsMemory, WriteStored,
         TarTracksCurAddr, Returned, Delivered
  <2>14. CASE AfterPut
    <3>1. /\ pc = "put" /\ kind = "write" /\ done' = done + 1
          /\ mCurAddr = WordAddr(done + 1) /\ mSelected' = "ctl"
          /\ pc' \in {"access", "drain", "put"}
          /\ pc' # "access" => ~LastOfPage(WordAddr(done + 1))
          /\ done + 1 \in 1 .. num
      BY <1>1, <2>3, <2>14 DEF AfterPut, BeginAccess, Goto, Bank, Crosses, IInv,
         Progress, Live, Loops
    <3>2. Coherent' = Coherent
      BY <1>1, <2>4, <3>1
    <3>3. Coherent => /\ tar'[mApSel'] = WordAddr(done)'
                      /\ sticky' \/ pend' = DrwWrite(payload[done])'
      <4>1. Coherent => tar[mApSel] = mCurAddr
        BY <2>1, <3>1 DEF IInv, DataInv, TarInv, Transfer
      <4>2. Coherent => sticky' \/ pend' = DrwWrite(payload[done])'
        BY <1>1, <3>1 DEF TargetTakes, Issue, Reached, Bank, DrwWrite, Coherent
      <4>3. QED
        BY <2>2, <3>1, <4>1, <4>2
    <3>4. Coherent => Stored(done - 1)'
      <4>1. CASE done = 0
        BY <3>1, <4>1 DEF Stored
      <4>2. CASE done > 0
        <5>1. Coherent => Stored(done)
          BY <2>1, <3>1, <4>2 DEF IInv, DataInv, WriteInv, Live, Loops, DrwWrite, NoAccess
        <5>2. QED
          BY <1>1, <2>2, <3>1, <5>1 DEF Stored
      <4>3. QED
        BY <1>1, <4>1, <4>2
    <3>5. sticky' \/ pend' # NoAccess
      BY <3>1 DEF TargetTakes, Issue, NoAccess
    <3>6. WriteInv'
      BY <1>1, <2>2, <3>1, <3>2, <3>3, <3>4 DEF WriteInv
    <3>7. QED
      BY <1>1, <3>1, <3>5, <3>6 DEF DataInv, TarInv, FlightInv, ReadInv,
         ReadReturnsMemory, WriteStored, TarTracksCurAddr, Returned
  <2>15. CASE AfterDrain
    <3>1. /\ pc = "drain" /\ kind = "write" /\ done = num /\ pc' = "idle"
          /\ UNCHANGED <<mSelected, mCurAddr, done, buf, selAp, selBank, pend, sticky>>
      BY <2>15 DEF AfterDrain, Return, TargetTakes, IsWrite, IInv, Progress
    <3>2. Coherent' = Coherent
      BY <1>1, <2>4, <3>1
    <3>3. Coherent => Stored(num) /\ tar[mApSel] = mCurAddr
      BY <1>1, <2>1, <3>1 DEF IInv, DataInv, WriteInv, TarInv, Transfer, Live, Loops,
         DrwWrite, NoAccess
    <3>4. Coherent => Stored(num)'
      BY <1>1, <2>2, <3>3 DEF Stored
    <3>5. QED
      BY <2>1, <3>1, <3>2, <3>3, <3>4 DEF DataInv, TarInv, FlightInv, ReadInv, WriteInv,
         Live, TarLabels, Loops, ReadWait, ReadReturnsMemory, WriteStored,
         TarTracksCurAddr, Returned, Stored
  <2>16. QED
    BY <1>1, <1>3, <2>5, <2>6, <2>7, <2>9, <2>11, <2>12, <2>13, <2>14, <2>15
       DEF Succeed, AfterReselect, AfterInitCycle, AfterAbort, AfterFlush, SetAddr,
           BeginAccess
<1>4. QED
  BY <1>2, <1>3
-----------------------------------------------------------------------------
(* The theorems                                                             *)

\* The invariant holds at reset: no AP is usable and no call has been made.
LEMMA IInvInit == Init => IInv
<1> SUFFICES ASSUME Init PROVE IInv
  OBVIOUS
<1>1. InitMem \in [Aps \X Addr -> Val] /\ 0 \in Addr
  BY MemApAssumption
<1>2. TypeOK
  <2>1. TargetTypeOK
    BY <1>1 DEF Init, TargetTypeOK
  <2>2. DriverTypeOK
    BY <1>1 DEF Init, DriverTypeOK
  <2>3. CallTypeOK
    <3>1. kind = "none" /\ addr = 0 /\ num = 0 /\ chain = FALSE /\ payload \in Payloads
      BY DEF Init
    <3>2. 0 \in 0 .. MaxWords
      OBVIOUS
    <3>3. QED
      BY <1>1, <3>1, <3>2, Zenon DEF CallTypeOK
  <2>4. QED
    BY <2>1, <2>2, <2>3 DEF TypeOK
<1>3. Progress /\ CurAddrInv /\ InitInv /\ ReadyConfigured
  BY DEF Init, Progress, CurAddrInv, InitInv, InAccess, ReadyConfigured, Transfer,
     TarLabels, ReadWait
<1>4. DataInv
  BY DEF Init, DataInv, TarInv, FlightInv, ReadInv, WriteInv, Transfer,
     ReadReturnsMemory, WriteStored, TarTracksCurAddr, Returned
<1>5. QED
  BY <1>2, <1>3, <1>4 DEF IInv

\* Every step keeps it.
LEMMA IInvNext == IInv /\ [Next]_vars => IInv'
<1> SUFFICES ASSUME IInv, [Next]_vars PROVE IInv'
  OBVIOUS
<1>1. TypeOK' /\ Control'
  BY ControlNext DEF IInv, Control, TypeOK
<1>2. InitInv' /\ ReadyConfigured'
  BY InitNext
<1>3. DataInv'
  <2>1. CASE Complete
    BY <2>1, DataComplete
  <2>2. CASE Attempt
    <3>1. /\ UNCHANGED <<mApSel, kind, addr, num, payload, chain, csw, tar, mem, rdbuf>>
          /\ pc # "idle"
      BY <2>2, AttemptCases
    <3>2. CASE ~Transfer
      BY <3>1, <3>2, DataFail
    <3>3. CASE Fail /\ Transfer
      <4>1. pc' \notin Live /\ ret' # "ok"
        BY <3>1, <3>3 DEF Fail, AfterReselect, AfterAbort, FailAccess, FailTransfer,
           FailCall, Goto, Return, Live, TarLabels, Loops, ReadWait, IInv, Progress
      <4>2. QED
        BY <3>1, <4>1, DataFail
    <3>4. CASE Transfer /\ Succeed /\ Accepts
               /\ \/ TargetTakes
                  \/ IsWrite /\ sticky' = TRUE /\ UNCHANGED <<selAp, selBank, pend>>
      BY <3>1, <3>4, DataSucceed
    <3>5. CASE UNCHANGED <<selAp, selBank, pend, sticky, mSelected,
                           mCurAddr, pc, acc, done, buf, ret, ready>>
      BY <3>1, <3>5, DataSame
    <3>6. QED
      BY <2>2, <3>2, <3>3, <3>4, <3>5, AttemptCases
  <2>3. CASE Call
    BY <2>3, DataCall
  <2>4. CASE UNCHANGED vars
    BY <2>4, DataSame DEF vars, target, call
  <2>5. QED
    BY <2>1, <2>2, <2>3, <2>4 DEF Next
<1>4. QED
  BY <1>1, <1>2, <1>3 DEF IInv, Control

\* The invariant holds in every reachable state.
THEOREM Inductive == Spec => []IInv
BY IInvInit, IInvNext, PTL DEF Spec

\* Every variable keeps its type: in particular mCurAddr stays inside the
\* address space, and done inside the buffer of the caller.
THEOREM TypeCorrect == Spec => []TypeOK
<1>1. IInv => TypeOK
  BY DEF IInv
<1>2. QED
  BY <1>1, Inductive, PTL

\* A memapRead or memapReadAddr that reports success has returned the words of
\* the target memory, whatever was retried and wherever pages end.
THEOREM ReadCorrect == Spec => []ReadReturnsMemory
<1>1. IInv => ReadReturnsMemory
  BY DEF IInv, DataInv
<1>2. QED
  BY <1>1, Inductive, PTL

\* A memapWrite or memapWriteAddr that reports success has stored every word.
THEOREM WriteCorrect == Spec => []WriteStored
<1>1. IInv => WriteStored
  BY DEF IInv, DataInv
<1>2. QED
  BY <1>1, Inductive, PTL

\* After a transfer that reports success mCurAddr is what TAR holds, which is
\* what the next transfer without memapSetAddr relies on.
THEOREM AddressTracked == Spec => []TarTracksCurAddr
<1>1. IInv => TarTracksCurAddr
  BY DEF IInv, DataInv
<1>2. QED
  BY <1>1, Inductive, PTL

\* memapInit accepts an AP only when its CSW is set to 32-bit autoincrement.
THEOREM Configured == Spec => []ReadyConfigured
<1>1. IInv => ReadyConfigured
  BY DEF IInv
<1>2. QED
  BY <1>1, Inductive, PTL

-----------------------------------------------------------------------------
(* The driver implements TargetMemory                                       *)

\* A word in flight is written as a whole.
WideInv == Writing => csw[pend.ap] = CswWordIncr

\* SELECT is what the statics say, except while it is being written.
CohInv == /\ pc \notin SelectLabels => Coherent
          /\ pc # "reselect" => selAp = mApSel

\* What the steps towards TargetMemory rely on.
RInv == IInv /\ WideInv /\ CohInv

\* Only a SELECT write changes SELECT.
LEMMA TakesSelect ==
  ASSUME TargetTakes, pc \notin SelectLabels
  PROVE  UNCHANGED <<selAp, selBank>>
BY DEF TargetTakes

\* While a call goes on, the bank is selected anew before it is relied on.
LEMMA SelectedAnew ==
  ASSUME CohInv, pc \notin SelectLabels, UNCHANGED <<selAp, selBank, mApSel>>, Succeed \/ Fail
  PROVE  CohInv'
<1>1. Coherent
  BY DEF CohInv
<1>2. \/ mSelected' = mSelected /\ pc' \notin SelectLabels
      \/ \E r \in Regs : BeginAccess(r)
  <2>1. CASE Fail
    BY <2>1 DEF Fail, AfterReselect, AfterAbort, FailAccess, FailTransfer, FailCall,
                Goto, Return, ReturnInit
  <2>2. CASE Succeed
    <3>1. CASE AfterInitCycle
      BY <3>1 DEF AfterInitCycle, Return, ReturnInit
    <3>2. CASE AfterFlush \/ AfterLast \/ AfterPut
      BY <3>2 DEF AfterFlush, AfterLast, AfterPut, SetAddr, Goto, Return
    <3>3. CASE ~ (AfterInitCycle \/ AfterFlush \/ AfterLast \/ AfterPut)
      BY <2>2, <3>3 DEF Succeed, AfterReselect, AfterSelect, AfterAccess, AfterTarCycle,
                        AfterPost, AfterNext, AfterDrain, AfterAbort, LoopRead, FailCall, Goto, Return
    <3>4. QED
      BY <3>1, <3>2, <3>3
  <2>3. QED
    BY <2>1, <2>2
<1>3. CASE mSelected' = mSelected /\ pc' \notin SelectLabels
  BY <1>1, <1>3 DEF CohInv, Coherent
<1>4. CASE \E r \in Regs : BeginAccess(r)
  BY <1>1, <1>4 DEF CohInv, Coherent, BeginAccess
<1>5. QED
  BY <1>2, <1>3, <1>4

\* While the SELECT writes hold, the statics stay right.
LEMMA CohNext ==
  ASSUME CohInv, Next, SelectHolds
  PROVE  CohInv'
<1>1. CASE Complete
  BY <1>1 DEF Complete, CohInv, Coherent
<1>2. CASE Call
  <2>1. pc = "idle" /\ Coherent
    BY <1>2, CallCases DEF CohInv
  <2>2. QED
    BY <1>2, <2>1, CallCases DEF CohInv, Coherent
<1>3. CASE Attempt /\ pc \notin SelectLabels
  <2>1. UNCHANGED <<selAp, selBank, mApSel>>
    BY <1>3, AttemptCases, TakesSelect
  <2>2. CASE UNCHANGED <<mSelected, pc>>
    BY <1>3, <2>1, <2>2 DEF CohInv, Coherent
  <2>3. CASE Succeed \/ Fail
    BY <1>3, <2>1, <2>3, SelectedAnew
  <2>4. QED
    BY <1>3, <2>2, <2>3, AttemptCases
<1>4. CASE Attempt /\ pc \in SelectLabels
  <2>1. UNCHANGED mApSel
    BY <1>4, AttemptCases
  <2>2. CASE pc' = pc /\ mSelected' = mSelected
    <3>1. selAp' = selAp \/ selAp' = mApSel
      BY <1>4, AttemptCases DEF TargetTakes
    <3>2. QED
      BY <1>4, <2>1, <2>2, <3>1 DEF CohInv
  <2>3. CASE Succeed \/ Fail
    <3>1. pc' # pc => selAp' = mApSel /\ selBank' = mSelected
      BY <1>4 DEF SelectHolds
    <3>2. CASE pc = "reselect"
      <4>1. \/ BeginAccess("CFG")
            \/ Return("ok")
        BY <2>3, <3>2 DEF Succeed, Fail, AfterReselect, AfterSelect, AfterAccess, AfterInitCycle,
                          AfterTarCycle, AfterPost, AfterNext, AfterFlush, AfterLast, AfterPut,
                          AfterDrain, AfterAbort, FailAccess, FailTransfer
      <4>2. QED
        BY <2>1, <3>1, <3>2, <4>1 DEF BeginAccess, Return, CohInv, Coherent, Bank
    <3>3. CASE pc = "select"
      <4>1. /\ mSelected' = mSelected
            /\ pc' \notin SelectLabels
        BY <2>3, <3>3 DEF Succeed, Fail, AfterReselect, AfterSelect, AfterAccess, AfterInitCycle,
                          AfterTarCycle, AfterPost, AfterNext, AfterFlush, AfterLast, AfterPut,
                          AfterDrain, AfterAbort, FailAccess, FailTransfer, Goto, Return, ReturnInit
      <4>2. QED
        BY <2>1, <3>1, <3>3, <4>1 DEF CohInv, Coherent
    <3>4. QED
      BY <1>4, <3>2, <3>3
  <2>4. QED
    BY <1>4, <2>2, <2>3, AttemptCases
<1>5. QED
  BY <1>1, <1>2, <1>3, <1>4 DEF Next

\* Words are put only to an AP that memapInit has configured.
LEMMA WideNext ==
  ASSUME IInv, WideInv, CohInv, Next
  PROVE  WideInv'
<1>1. CASE Complete
  BY <1>1 DEF Complete, WideInv, Writing, NoAccess
<1>2. CASE Call
  <2>1. csw' = csw /\ pend' \in {pend, NoAccess}
    BY <1>2, CallCases
  <2>2. QED
    BY <2>1 DEF WideInv, Writing, NoAccess
<1>3. CASE Attempt
  <2>1. csw' = csw /\ (pend' = pend \/ TargetTakes)
    BY <1>3, AttemptCases
  <2>2. CASE pend' = pend
    BY <2>1, <2>2 DEF WideInv, Writing
  <2>3. CASE TargetTakes /\ pc # "put"
    <3>1. pend' = pend \/ ~Writing'
      BY <2>3 DEF TargetTakes, Issue, Reached, Writing, NoAccess
    <3>2. QED
      BY <2>1, <3>1 DEF WideInv, Writing
  <2>4. CASE TargetTakes /\ pc = "put"
    <3>1. pend'.ap = selAp
      BY <2>4 DEF TargetTakes, Issue
    <3>2. selAp = mApSel /\ mApSel \in ready
      BY <2>4 DEF CohInv, IInv, Progress, Transfer
    <3>3. QED
      BY <2>1, <3>1, <3>2 DEF WideInv, IInv, ReadyConfigured
  <2>5. QED
    BY <2>1, <2>2, <2>3, <2>4
<1>4. QED
  BY <1>1, <1>2, <1>3 DEF Next

\* The request is one of TargetMemory's, and a call keeps it.
LEMMA ReqType ==
  ASSUME TypeOK
  PROVE  AsReq \in Promise!Reqs
<1>1. \A k \in 1 .. MaxWords : WordAddr(k) \in Addr
  BY PlusType DEF WordAddr, TypeOK, CallTypeOK
<1>2. [k \in 1 .. MaxWords |-> <<mApSel, WordAddr(k)>>] \in Promise!Blocks
  BY <1>1 DEF Promise!Blocks, TypeOK, DriverTypeOK
<1>3. payload \in [1 .. MaxWords -> Data] /\ num \in 0 .. MaxWords
  BY DEF TypeOK, CallTypeOK
<1>4. (IF kind \in {"read", "write"} THEN kind ELSE "other") \in {"read", "write", "other"}
  OBVIOUS
<1>5. QED
  BY <1>2, <1>3, <1>4 DEF AsReq, Promise!Reqs

\* The request depends on nothing but the arguments of the call.
LEMMA ReqKept ==
  ASSUME UNCHANGED <<mApSel, kind, addr, num, payload>>
  PROVE  AsReq' = AsReq
BY DEF AsReq, WordAddr

\* Its fields.
LEMMA ReqIs ==
  /\ AsReq.op = IF kind \in {"read", "write"} THEN kind ELSE "other"
  /\ AsReq.num = num /\ AsReq.data = payload
  /\ AsReq.locs = [k \in 1 .. MaxWords |-> <<mApSel, WordAddr(k)>>]
BY DEF AsReq

\* Inside a call there is no outcome yet.
LEMMA Inside ==
  ASSUME IInv, pc # "idle"
  PROVE  InAccess /\ ret = "none" /\ AsResult = <<>>
BY DEF IInv, Progress, InAccess, AsResult, Returned

\* What a step within a call leaves alone.
Within ==
  /\ IInv /\ IInv' /\ pc # "idle" /\ pc' # "idle"
  /\ UNCHANGED <<mApSel, kind, addr, num, payload, mem>>

\* Such a step keeps the request, the memory and the outcome.
LEMMA WithinIs ==
  ASSUME Within
  PROVE  /\ AsReq' = AsReq /\ mem' = mem /\ InAccess /\ InAccess' /\ ret' = ret
         /\ AsResult' = AsResult
<1>1. AsReq' = AsReq
  BY ReqKept DEF Within
<1>2. InAccess /\ ret = "none" /\ AsResult = <<>>
  BY Inside DEF Within
<1>3. InAccess' /\ ret' = "none" /\ AsResult' = <<>>
  BY DEF Within, IInv, Progress, InAccess, AsResult, Returned
<1>4. QED
  BY <1>1, <1>2, <1>3 DEF Within

\* A step TargetMemory does not see.
LEMMA Quietly ==
  ASSUME Within, AsFlying' = AsFlying, AsGiven' = AsGiven, AsFailed' = AsFailed
  PROVE  UNCHANGED Promise!vars
BY WithinIs DEF Promise!vars

\* A step after which the call can only fail.
LEMMA Spoils ==
  ASSUME Within, AsFailed', AsGiven' \in {AsGiven, AsGiven + 1}, AsFlying' \in {AsFlying, <<>>}
  PROVE  Promise!Spoil
<1>1. AsFailed' = TRUE
  BY DEF AsFailed, Within, IInv, TypeOK, TargetTypeOK
<1>2. QED
  BY <1>1, WithinIs DEF Promise!Spoil, Promise!KeepOrDrop, Promise!Nothing

\* A step that hands the next word of a write to the target.
LEMMA Gives ==
  ASSUME Within, kind = "write", done < num, AsFlying = <<>>, AsFailed = FALSE, AsFailed' \in BOOLEAN,
         AsGiven = done, AsGiven' = done + 1,
         AsFlying' = <<<<mApSel, WordAddr(done + 1)>>, payload[done + 1]>>
  PROVE  Promise!Give
<1>1. done + 1 \in 1 .. MaxWords
  BY DEF Within, IInv, TypeOK, DriverTypeOK, CallTypeOK
<1>2. AsReq.op = "write" /\ AsReq.num = num /\ AsReq.locs[done + 1] = <<mApSel, WordAddr(done + 1)>>
      /\ AsReq.data[done + 1] = payload[done + 1]
  BY <1>1, ReqIs
<1>3. AsFailed' \in {AsFailed, TRUE}
  OBVIOUS
<1>4. QED
  BY <1>2, <1>3, WithinIs DEF Promise!Give, Promise!Nothing

\* The word on its way is the same, or none, unless a word is put.
LEMMA FlyingStep ==
  ASSUME tar' = tar, pend' = pend \/ (TargetTakes /\ pc # "put")
  PROVE  AsFlying' \in {AsFlying, <<>>}
<1>1. pend' = pend \/ ~ (pend'.op = "write" /\ pend'.reg = "DRW")
  BY DEF TargetTakes, Issue, Reached, NoAccess
<1>2. QED
  BY <1>1 DEF AsFlying

\* A word is put: it is on its way now, or the call can only fail.
LEMMA Puts ==
  ASSUME RInv, Within, Attempt, pc = "put"
  PROVE  Promise!Give \/ Promise!Spoil \/ UNCHANGED Promise!vars
<1>1. /\ kind = "write" /\ done < num /\ mApSel \in ready /\ Coherent /\ mSelected = "ctl"
      /\ done \in 0 .. MaxWords /\ payload[done + 1] \in Val
  BY DEF RInv, IInv, Progress, CohInv, Transfer, TypeOK, DriverTypeOK, CallTypeOK
<1>2. /\ UNCHANGED <<mApSel, kind, addr, num, payload, tar, mem>>
      /\ InAccess /\ InAccess' /\ AsGiven = done /\ AsGiven' = done'
  BY <1>1, AttemptCases DEF AsGiven, InAccess, Within
<1>3. CASE UNCHANGED <<pend, sticky, pc, done>>
  BY <1>2, <1>3, Quietly DEF AsFlying, AsFailed, AsGiven
<1>4. CASE /\ Succeed /\ Accepts
           /\ \/ TargetTakes
              \/ IsWrite /\ sticky' = TRUE /\ UNCHANGED <<selAp, selBank, pend>>
  <2>1. done' = done + 1 /\ pc' \notin AbortLabels
    BY <1>4 DEF Succeed, AfterReselect, AfterSelect, AfterAccess, AfterInitCycle,
                AfterTarCycle, AfterPost, AfterNext, AfterFlush, AfterLast, AfterPut,
                AfterDrain, AfterAbort, BeginAccess, Goto
  <2>2. CASE sticky' = TRUE /\ UNCHANGED pend
    BY <1>2, <2>1, <2>2, Spoils DEF AsFailed, AsFlying
  <2>3. CASE TargetTakes
    <3>1. pend = NoAccess /\ ~ sticky
      BY <1>4 DEF Accepts, Answers, RInv, IInv, TypeOK, TargetTypeOK
    <3>2. pend' = DrwWrite(payload[done + 1]) /\ sticky' = sticky
      BY <1>1, <2>3 DEF TargetTakes, Issue, Reached, Coherent, Bank, DrwWrite
    <3>3. tar[mApSel] = WordAddr(done + 1)
      BY <1>1, <3>1 DEF RInv, IInv, DataInv, TarInv, CurAddrInv, Transfer, Live, Loops
    <3>4. AsFlying = <<>> /\ AsFlying' = <<<<mApSel, WordAddr(done + 1)>>, payload[done + 1]>>
      BY <1>2, <3>1, <3>2, <3>3 DEF AsFlying, NoAccess, DrwWrite
    <3>5. AsFailed = FALSE /\ AsFailed' = FALSE
      BY <2>1, <3>1, <3>2 DEF AsFailed
    <3>6. QED
      BY <1>1, <1>2, <2>1, <3>4, <3>5, Gives
  <2>4. QED
    BY <1>4, <2>2, <2>3
<1>5. CASE /\ Fail
           /\ \/ Accepts /\ TargetTakes
              \/ UNCHANGED <<selAp, selBank, pend, sticky>>
  <2>1. done' = done + 1 /\ pc' = "abort"
    BY <1>5 DEF Fail, AfterReselect, AfterAbort, FailAccess, FailTransfer, Goto
  <2>2. AsFailed'
    BY <2>1 DEF AsFailed
  <2>3. CASE UNCHANGED pend
    BY <1>2, <2>1, <2>2, <2>3, Spoils DEF AsFlying
  <2>4. CASE Accepts /\ TargetTakes
    <3>1. pend = NoAccess /\ ~ sticky
      BY <2>4 DEF Accepts, Answers, RInv, IInv, TypeOK, TargetTypeOK
    <3>2. pend' = DrwWrite(payload[done + 1])
      BY <1>1, <2>4 DEF TargetTakes, Issue, Reached, Coherent, Bank, DrwWrite
    <3>3. tar[mApSel] = WordAddr(done + 1)
      BY <1>1, <3>1 DEF RInv, IInv, DataInv, TarInv, CurAddrInv, Transfer, Live, Loops
    <3>4. AsFlying = <<>> /\ AsFlying' = <<<<mApSel, WordAddr(done + 1)>>, payload[done + 1]>>
      BY <1>2, <3>1, <3>2, <3>3 DEF AsFlying, NoAccess, DrwWrite
    <3>5. AsFailed = FALSE /\ AsFailed' = TRUE
      BY <2>1, <3>1 DEF AsFailed
    <3>6. QED
      BY <1>1, <1>2, <2>1, <3>4, <3>5, Gives
  <2>5. QED
    BY <1>5, <2>3, <2>4
<1>6. QED
  BY <1>3, <1>4, <1>5, AttemptCases

\* Any other transaction within a call hands no word to the target.
LEMMA NoWordGiven ==
  ASSUME IInv, pc # "put", Succeed \/ Fail, kind = "write"
  PROVE  done' = done
<1>1. pc \notin {"next", "flush", "last"}
  BY DEF IInv, Progress, ReadWait
<1>2. CASE Fail
  BY <1>2 DEF Fail, AfterReselect, AfterAbort, FailAccess, FailTransfer
<1>3. CASE Succeed
  BY <1>1, <1>3 DEF Succeed, AfterReselect, AfterSelect, AfterAccess, AfterInitCycle,
                    AfterTarCycle, AfterPost, AfterNext, AfterFlush, AfterLast, AfterPut,
                    AfterDrain, AfterAbort
<1>4. QED
  BY <1>2, <1>3

\* The other transactions within a call go unseen, or spoil it.
LEMMA GoesOn ==
  ASSUME RInv, Within, Attempt, pc # "put"
  PROVE  Promise!Spoil \/ UNCHANGED Promise!vars
<1>1. UNCHANGED <<mApSel, kind, addr, num, payload, tar, mem>>
  BY AttemptCases
<1>2. pend' = pend \/ TargetTakes
  BY AttemptCases
<1>3. AsFlying' \in {AsFlying, <<>>}
  BY <1>1, <1>2, FlyingStep
<1>4. kind = "write" => done' = done
  BY AttemptCases, NoWordGiven DEF Within
<1>5. AsGiven' = AsGiven
  BY <1>1, <1>4 DEF AsGiven, InAccess, Within
<1>6. CASE AsFailed'
  BY <1>3, <1>5, <1>6, Spoils
<1>7. CASE ~ AsFailed'
  <2>1. pc \notin AbortLabels
    <3>1. ASSUME pc \in AbortLabels, pc' # pc
          PROVE  FALSE
      <4>1. Succeed \/ Fail
        BY <3>1, AttemptCases
      <4>2. AfterAbort
        BY <3>1, <4>1 DEF Succeed, Fail, AfterReselect, AfterSelect, AfterAccess, AfterInitCycle,
                          AfterTarCycle, AfterPost, AfterNext, AfterFlush, AfterLast, AfterPut,
                          AfterDrain, FailAccess, FailTransfer
      <4>3. pc' \in AbortLabels
        BY <4>2 DEF AfterAbort, FailCall, Goto, Return, Within
      <4>4. QED
        BY <1>7, <4>3 DEF AsFailed
    <3>2. pc' \notin AbortLabels
      BY <1>7 DEF AsFailed
    <3>3. QED
      BY <3>1, <3>2
  <2>2. sticky' = sticky \/ sticky' = TRUE
    BY <2>1, AttemptCases DEF TargetTakes
  <2>3. ~ sticky /\ ~ sticky'
    BY <1>7, <2>2 DEF AsFailed, Within, IInv, TypeOK, TargetTypeOK
  <2>4. AsFailed = FALSE /\ AsFailed' = FALSE
    BY <1>7, <2>1, <2>3 DEF AsFailed
  <2>5. AsFlying' = AsFlying
    <3>1. CASE pend' = pend
      BY <1>1, <3>1 DEF AsFlying
    <3>2. CASE pend' # pend
      <4>1. Accepts
        BY <3>2, AttemptCases
      <4>2. AsFlying = <<>>
        BY <2>1, <4>1 DEF Accepts, Answers, AsFlying
      <4>3. QED
        BY <1>3, <4>2
    <3>3. QED
      BY <3>1, <3>2
  <2>6. QED
    BY <1>5, <2>4, <2>5, Quietly
<1>8. QED
  BY <1>6, <1>7

\* A step that ends a call: what it does to the request.
Ending == RInv /\ RInv' /\ Attempt /\ pc' = "idle"

\* It keeps the request and the memory, and has an outcome.
LEMMA EndingIs ==
  ASSUME Ending
  PROVE  /\ AsReq' = AsReq /\ mem' = mem /\ InAccess /\ InAccess' = FALSE
         /\ AsGiven' = 0 /\ AsFailed' \in BOOLEAN /\ AsFlying' \in {AsFlying, <<>>}
         /\ ret' \in {"ok", "err"} /\ pc # "put"
         /\ UNCHANGED <<mApSel, kind, addr, num, payload, tar>>
<1>1. pc # "idle" /\ UNCHANGED <<mApSel, kind, addr, num, payload, tar, mem>>
  BY AttemptCases DEF Ending
<1>2. Succeed \/ Fail
  BY <1>1, AttemptCases DEF Ending
<1>3. pc # "put"
  BY <1>1, <1>2 DEF Ending, Succeed, Fail, AfterReselect, AfterSelect, AfterAccess,
                    AfterInitCycle, AfterTarCycle, AfterPost, AfterNext, AfterFlush, AfterLast,
                    AfterPut, AfterDrain, AfterAbort, FailAccess, FailTransfer, BeginAccess, Goto
<1>4. pend' = pend \/ TargetTakes
  BY AttemptCases DEF Ending
<1>5. AsFlying' \in {AsFlying, <<>>}
  BY <1>1, <1>3, <1>4, FlyingStep
<1>6. ret' \in {"ok", "err"}
  <2>1. kind # "none" /\ kind' # "none"
    BY <1>1 DEF Ending, RInv, IInv, Progress
  <2>2. Progress' /\ DriverTypeOK'
    BY DEF Ending, RInv, IInv, TypeOK
  <2>3. QED
    BY <2>1, <2>2 DEF Ending, Progress, DriverTypeOK
<1>7. AsReq' = AsReq
  BY <1>1, ReqKept
<1>8. InAccess /\ InAccess' = FALSE /\ AsGiven' = 0
  BY <1>1 DEF InAccess, AsGiven, Ending
<1>9. AsFailed' \in BOOLEAN
  BY DEF AsFailed
<1>10. QED
  BY <1>1, <1>3, <1>5, <1>6, <1>7, <1>8, <1>9

\* The transactions a call can succeed at, and that the target answered them.
LEMMA EndingOk ==
  ASSUME Ending, ret' = "ok"
  PROVE  \/ pc = "reselect" /\ ~ Transfer /\ pend' = pend
         \/ pc = "cycle" /\ ~ Transfer /\ pend' = pend
         \/ /\ Transfer /\ pend' = pend /\ pend.op = "none" /\ ~ sticky /\ pc \notin AbortLabels
            /\ kind = "write" => done = num
<1>1. /\ pc # "idle" /\ pc # "put" /\ ret = "none" /\ IInv /\ kind' = kind
  BY EndingIs, Inside DEF Ending, InAccess, RInv
<1>2. CASE pc = "reselect"
  <2>1. ~ Transfer
    BY <1>1, <1>2 DEF IInv, Progress
  <2>2. pend' = pend
    BY <1>2, AttemptCases DEF Ending, TargetTakes
  <2>3. QED
    BY <1>2, <2>1, <2>2
<1>3. CASE pc # "reselect"
  <2>1. ~ Fail
    BY <1>1, <1>3 DEF Ending, Fail, AfterReselect, AfterAbort, FailAccess, FailTransfer, FailCall,
                      Goto, Return, ReturnInit
  <2>2. Succeed /\ Accepts
    BY <1>1, <2>1, AttemptCases DEF Ending
  <2>3. /\ pc \in {"cycle", "last", "drain"}
        /\ pc = "cycle" => ~ Transfer \/ (kind = "read" /\ done = num)
    <3>1. CASE pc = "cycle"
      <4>1. AfterInitCycle \/ AfterTarCycle
        BY <2>2, <3>1 DEF Succeed, AfterReselect, AfterSelect, AfterAccess, AfterPost, AfterNext,
                          AfterFlush, AfterLast, AfterPut, AfterDrain, AfterAbort
      <4>2. CASE AfterInitCycle
        BY <1>1, <3>1, <4>2 DEF AfterInitCycle, IInv, Progress
      <4>3. CASE AfterTarCycle
        BY <1>1, <3>1, <4>3 DEF Ending, AfterTarCycle, Goto
      <4>4. QED
        BY <3>1, <4>1, <4>2, <4>3
    <3>2. CASE pc # "cycle"
      BY <1>1, <1>3, <2>2, <3>2
         DEF Ending, Succeed, AfterReselect, AfterSelect, AfterAccess, AfterInitCycle,
             AfterTarCycle, AfterPost, AfterNext, AfterFlush, AfterLast, AfterPut, AfterDrain,
             AfterAbort, LoopRead, SetAddr, BeginAccess, Goto, Return, FailCall
    <3>3. QED
      BY <3>1, <3>2
  <2>4. pend' = pend
    BY <2>3, AttemptCases DEF Ending, TargetTakes
  <2>5. CASE Transfer
    <3>1. pend.op = "none" /\ ~ sticky /\ pc \notin AbortLabels
      BY <2>2, <2>3 DEF Accepts, Answers
    <3>2. kind = "write" => done = num
      BY <1>1, <2>3, <2>5 DEF IInv, Progress, ReadWait
    <3>3. QED
      BY <2>4, <2>5, <3>1, <3>2
  <2>6. CASE ~ Transfer
    <3>1. pc = "cycle"
      BY <1>1, <2>3, <2>6 DEF IInv, Progress, ReadWait, Transfer
    <3>2. QED
      BY <2>4, <2>6, <3>1
  <2>7. QED
    BY <2>5, <2>6
<1>4. QED
  BY <1>2, <1>3

\* The words a successful read returns are those of the memory.
ResultRight ==
  pc = "idle" /\ ret = "ok" =>
    AsResult = IF AsReq.op = "read"
               THEN [k \in 1 .. AsReq.num |-> mem[AsReq.locs[k]]] ELSE <<>>

\* As ReadReturnsMemory says.
LEMMA ReadsAsPromised == RInv => ResultRight
<1> SUFFICES ASSUME RInv, pc = "idle", ret = "ok"
             PROVE  AsResult = IF AsReq.op = "read"
                               THEN [k \in 1 .. AsReq.num |-> mem[AsReq.locs[k]]] ELSE <<>>
  BY DEF ResultRight
<1>1. CASE kind # "read"
  <2>1. AsReq.op # "read"
    BY <1>1, ReqIs
  <2>2. QED
    BY <1>1, <2>1 DEF AsResult, Returned
<1>2. CASE kind = "read"
  <2>1. Coherent
    BY DEF RInv, CohInv
  <2>2. \A k \in 1 .. num : buf[k] = mem[<<mApSel, WordAddr(k)>>]
    BY <1>2, <2>1 DEF RInv, IInv, DataInv, ReadReturnsMemory, Returned
  <2>3. 1 .. num \subseteq 1 .. MaxWords
    BY DEF RInv, IInv, TypeOK, CallTypeOK
  <2>4. \A k \in 1 .. num : AsReq.locs[k] = <<mApSel, WordAddr(k)>>
    BY <2>3, ReqIs
  <2>5. AsReq.op = "read" /\ AsReq.num = num
    BY <1>2, ReqIs
  <2>6. AsResult = [k \in 1 .. num |-> buf[k]]
    BY <1>2 DEF AsResult, Returned
  <2>7. QED
    BY <2>2, <2>4, <2>5, <2>6
<1>3. QED
  BY <1>1, <1>2

\* The end of a call is one of the two returns of TargetMemory.
LEMMA Returns ==
  ASSUME Ending
  PROVE  Promise!ReturnOk \/ Promise!ReturnErr
<1>1. CASE ret' = "err"
  <2>1. AsResult' = <<>>
    BY <1>1 DEF AsResult, Returned
  <2>2. QED
    BY <1>1, <2>1, EndingIs DEF Promise!ReturnErr, Promise!KeepOrDrop, Promise!Nothing
<1>2. CASE ret' = "ok"
  <2>1. AsFlying' = AsFlying
    BY <1>2, EndingIs, EndingOk DEF AsFlying
  <2>2. AsReq.op # "other" => ~ AsFailed /\ AsFlying = <<>>
    <3>1. AsReq.op # "other" => Transfer
      BY ReqIs DEF Transfer
    <3>2. QED
      BY <1>2, <3>1, EndingOk DEF AsFailed, AsFlying
  <2>3. AsReq.op = "write" => AsGiven = AsReq.num
    <3>1. AsReq.op = "write" => kind = "write"
      BY ReqIs
    <3>2. kind = "write" => AsGiven = done /\ done = num
      BY <1>2, EndingOk, EndingIs DEF AsGiven, Transfer
    <3>3. QED
      BY <3>1, <3>2, ReqIs
  <2>4. AsResult' = IF AsReq.op = "read"
                    THEN [k \in 1 .. AsReq.num |-> mem[AsReq.locs[k]]] ELSE <<>>
    <3>1. RInv'
      BY DEF Ending
    <3>2. ResultRight'
      BY <3>1, ReadsAsPromised, PTL
    <3>3. AsResult' = IF AsReq'.op = "read"
                      THEN [k \in 1 .. AsReq'.num |-> mem'[AsReq'.locs[k]]] ELSE <<>>
      BY <1>2, <3>2 DEF ResultRight, Ending
    <3>4. QED
      BY <3>3, EndingIs
  <2>5. QED
    BY <1>2, <2>1, <2>2, <2>3, <2>4, EndingIs DEF Promise!ReturnOk, Promise!Nothing
<1>3. QED
  BY <1>1, <1>2, EndingIs

\* The same as a fact about states.
LEMMA ReqTyped == TypeOK => AsReq \in Promise!Reqs
BY ReqType

\* A call starts a request.
LEMMA Starts ==
  ASSUME RInv, RInv', Call
  PROVE  Promise!Start
<1>1. pc = "idle" /\ pc' # "idle" /\ ret' = "none" /\ mem' = mem /\ tar' = tar
  BY CallCases
<1>2. AsReq' \in Promise!Reqs
  <2>1. TypeOK'
    BY DEF RInv, IInv
  <2>2. (AsReq \in Promise!Reqs)'
    BY <2>1, ReqTyped, PTL
  <2>3. QED
    BY <2>2 DEF Promise!Reqs, Promise!Blocks
<1>3. InAccess = FALSE /\ InAccess' = TRUE
  BY <1>1 DEF InAccess
<1>4. AsGiven' = 0
  BY <1>1, CallCases DEF AsGiven
<1>5. AsFlying' \in {AsFlying, <<>>}
  <2>1. pend' = pend \/ pend' = NoAccess
    BY CallCases
  <2>2. CASE pend' = pend
    BY <1>1, <2>2 DEF AsFlying
  <2>3. CASE pend' = NoAccess
    BY <2>3 DEF AsFlying, NoAccess
  <2>4. QED
    BY <2>1, <2>2, <2>3
<1>6. AsResult' = <<>> /\ AsFailed' \in BOOLEAN
  BY <1>1 DEF AsResult, Returned, AsFailed
<1>7. QED
  BY <1>1, <1>2, <1>3, <1>4, <1>5, <1>6 DEF Promise!Start, Promise!KeepOrDrop, Promise!Nothing

\* The access port stores the word in flight, or meets a bus fault.
LEMMA Completes ==
  ASSUME RInv, RInv', Complete
  PROVE  Promise!Land \/ Promise!Spoil \/ UNCHANGED Promise!vars
<1>1. /\ pend' = NoAccess
      /\ UNCHANGED <<mApSel, kind, addr, num, payload, pc, done, buf, ret>>
  BY DEF Complete, call
<1>2. /\ AsReq' = AsReq /\ InAccess' = InAccess /\ AsGiven' = AsGiven /\ AsResult' = AsResult
      /\ AsFlying' = <<>>
  BY <1>1, ReqKept DEF InAccess, AsGiven, AsResult, Returned, AsFlying, NoAccess
<1>3. CASE sticky' = TRUE /\ mem' = mem
  BY <1>1, <1>2, <1>3 DEF AsFailed, Promise!Spoil, Promise!KeepOrDrop, Promise!Nothing
<1>4. CASE sticky' = sticky /\ mem' = mem /\ ~ Writing
  BY <1>1, <1>2, <1>4 DEF AsFailed, AsFlying, Writing, Promise!vars
<1>5. CASE sticky' = sticky /\ Writing /\ mem' = [mem EXCEPT ![<<pend.ap, tar[pend.ap]>>] = pend.val]
  <2>1. AsFlying = <<<<pend.ap, tar[pend.ap]>>, pend.val>>
    BY <1>5 DEF AsFlying, Writing
  <2>2. AsFailed' = AsFailed
    BY <1>1, <1>5 DEF AsFailed
  <2>3. AsFlying[1] = <<pend.ap, tar[pend.ap]>> /\ AsFlying[2] = pend.val /\ AsFlying # <<>>
    BY <2>1
  <2>4. QED
    BY <1>1, <1>2, <1>5, <2>2, <2>3 DEF Promise!Land, Promise!Nothing
<1>6. \/ sticky' = TRUE /\ mem' = mem
      \/ sticky' = sticky /\ mem' = mem /\ ~ Writing
      \/ sticky' = sticky /\ Writing /\ mem' = [mem EXCEPT ![<<pend.ap, tar[pend.ap]>>] = pend.val]
  BY DEF Complete, RInv, WideInv, Writing
<1>7. QED
  BY <1>3, <1>4, <1>5, <1>6

\* What the refinement relies on holds at reset, and every step keeps it.
LEMMA RInvInit == Init => RInv
BY IInvInit DEF Init, RInv, WideInv, CohInv, Coherent, Writing, NoAccess

LEMMA RInvNext == RInv /\ [Next /\ SelectHolds]_vars => RInv'
<1> SUFFICES ASSUME RInv, [Next /\ SelectHolds]_vars PROVE RInv'
  OBVIOUS
<1>1. IInv'
  BY IInvNext DEF RInv
<1>2. CASE Next /\ SelectHolds
  BY <1>1, <1>2, CohNext, WideNext DEF RInv
<1>3. CASE UNCHANGED vars
  <2>1. UNCHANGED <<pc, selAp, selBank, mApSel, mSelected, csw, pend>>
    BY <1>3 DEF vars, target
  <2>2. WideInv' /\ CohInv'
    BY <2>1 DEF RInv, WideInv, CohInv, Coherent, Writing
  <2>3. QED
    BY <1>1, <2>2 DEF RInv
<1>4. QED
  BY <1>2, <1>3

\* Reset is an initial state of TargetMemory, and every step is one of its steps.
LEMMA PromiseInit == Init => Promise!Init
<1> SUFFICES ASSUME Init PROVE Promise!Init
  OBVIOUS
<1>1. AsReq \in Promise!Reqs
  BY IInvInit, ReqType DEF IInv
<1>2. InAccess = FALSE /\ AsGiven = 0 /\ AsFlying = <<>> /\ AsFailed = FALSE /\ AsResult = <<>>
  BY DEF Init, InAccess, AsGiven, AsFlying, NoAccess, AsFailed, AsResult, Returned
<1>3. QED
  BY <1>1, <1>2 DEF Init, Promise!Init, Promise!Nothing

LEMMA PromiseNext == RInv /\ RInv' /\ [Next /\ SelectHolds]_vars => [Promise!Next]_(Promise!vars)
<1> SUFFICES ASSUME RInv, RInv', [Next /\ SelectHolds]_vars
             PROVE  Promise!Next \/ UNCHANGED Promise!vars
  OBVIOUS
<1>1. CASE Complete
  BY <1>1, Completes DEF Promise!Next
<1>2. CASE Call
  BY <1>2, Starts DEF Promise!Next
<1>3. CASE Attempt /\ pc' = "idle"
  BY <1>3, Returns DEF Promise!Next, Ending
<1>4. CASE Attempt /\ pc' # "idle"
  <2>1. Within
    BY <1>4, AttemptCases DEF Within, RInv
  <2>2. QED
    BY <1>4, <2>1, Puts, GoesOn DEF Promise!Next
<1>5. CASE UNCHANGED vars
  <2>1. UNCHANGED <<mem, mApSel, kind, addr, num, payload, pc, done, pend, tar, sticky, buf, ret>>
    BY <1>5 DEF vars, target, call
  <2>2. QED
    BY <2>1, ReqKept DEF Promise!vars, InAccess, AsGiven, AsFlying, AsFailed, AsResult, Returned
<1>6. QED
  BY <1>1, <1>2, <1>3, <1>4, <1>5 DEF Next

\* The driver keeps what TargetMemory promises to its callers as long as the
\* SELECT writes reach the debug port: a read returns the words of the memory, a
\* write stores its words in order or a prefix of them, one word more may still
\* be in flight when it fails, and no other word ever changes.
THEOREM PromiseKept == SelectSpec => ImplementsPromise
BY RInvInit, RInvNext, PromiseInit, PromiseNext, PTL DEF SelectSpec, ImplementsPromise, Promise!Spec

-----------------------------------------------------------------------------
(* Byte access, on top of the driver's transfers of words: MemBytes keeps the *)
(* safety part of ByteMemory.  Its memory, program counter and address are    *)
(* called bytes, at and from here.                                            *)
HIDE Sizes DEF Addr, Data, Banks, Regs, Labels, SelectLabels,
     AbortLabels, RdbuffLabels, Plus

CONSTANTS Top, W, Chunk, MaxGdb, FileLen, Zero, Dma, MaxReqs, MaxTouches
VARIABLES bytes, req, resp, got, at, from, len, wordsDone, nowBuf, moved, was, asked, touches
Mem == INSTANCE MemBytes WITH mem <- bytes, pc <- at, addr <- from
memVars == <<bytes, req, resp, got, moved, was>>

LEMMA ByteSizes ==
  ASSUME Mem!MemBytesAssumption
  PROVE  /\ Top \in Nat \ {0} /\ W \in Nat \ {0} /\ Chunk \in Nat \ {0} /\ Top % W = 0
         /\ MaxGdb \in Nat /\ FileLen \in Nat /\ MaxReqs \in Nat
         /\ Mem!Addr = 0 .. Top - 1 /\ Mem!Promise!Addr = 0 .. Top - 1
BY DEF Mem!MemBytesAssumption, Mem!Addr, Mem!Promise!Addr

\* Numbers and words of w bytes.
LEMMA Dividing ==
  ASSUME NEW w \in Nat \ {0}, NEW x \in Nat
  PROVE  /\ x \div w \in Nat /\ x % w \in 0 .. w - 1 /\ x = w * (x \div w) + (x % w)
         /\ x - (x % w) \in Nat /\ x - (x % w) = w * (x \div w)
<1> DEFINE q == x \div w
           r == x % w
           k == w * q
<1>1. q \in Nat /\ r \in 0 .. w - 1 /\ x = w * q + r
  OBVIOUS
<1>2. k \in Nat
  <2> HIDE DEF q, r
  <2>1. QED
    BY <1>1
<1>3. x - r \in Nat /\ x - r = k
  <2>1. x = k + r /\ r \in Nat
    BY <1>1
  <2> HIDE DEF k, q, r
  <2>2. QED
    BY <1>2, <2>1
<1>4. QED
  BY <1>1, <1>3

LEMMA Divided ==
  ASSUME NEW w \in Nat \ {0}, NEW q \in Nat, NEW r \in 0 .. w - 1
  PROVE  (w * q + r) \div w = q /\ (w * q + r) % w = r
OBVIOUS

LEMMA Scaling ==
  ASSUME NEW w \in Nat \ {0}, NEW i \in Nat, NEW j \in Nat, i <= j
  PROVE  i * w <= j * w /\ w * i <= w * j
<1> DEFINE d == j - i
           x == i * w
           y == d * w
<1>1. d \in Nat /\ j = i + d
  OBVIOUS
<1> HIDE DEF d
<1>2. (i + d) * w = x + y /\ x \in Nat /\ y \in Nat
  BY <1>1
<1>3. j * w = x + y /\ w * j = j * w /\ w * i = x
  BY <1>1, <1>2
<1> HIDE DEF x, y
<1>4. x <= x + y
  BY <1>2
<1>5. QED
  BY <1>3, <1>4 DEF x

\* What is below a border of words, and begins at one, is a word below it.
LEMMA Borders ==
  ASSUME NEW w \in Nat \ {0}, NEW a \in Nat, NEW b \in Nat, w * a < w * b + w
  PROVE  a <= b
<1> SUFFICES ASSUME a >= b + 1
             PROVE  FALSE
  OBVIOUS
<1>1. w * a >= w * (b + 1)
  <2>1. b + 1 \in Nat /\ b + 1 <= a
    OBVIOUS
  <2>2. QED
    BY <2>1, Scaling
<1>2. w * (b + 1) = w * b + w
  OBVIOUS
<1> DEFINE x == w * a
           y == w * b
<1>3. x \in Nat /\ y \in Nat /\ x >= y + w /\ x < y + w
  BY <1>1, <1>2
<1> HIDE DEF x, y
<1>4. QED
  BY <1>3

\* The least of some numbers.
LEMMA LeastTwo ==
  ASSUME NEW a \in Nat, NEW b \in Nat
  PROVE  Mem!Min({a, b}) = IF a <= b THEN a ELSE b
BY DEF Mem!Min

LEMMA LeastThree ==
  ASSUME NEW a \in Nat, NEW b \in Nat, NEW c \in Nat
  PROVE  /\ Mem!Min({a, b, c}) \in Nat
         /\ Mem!Min({a, b, c}) <= a /\ Mem!Min({a, b, c}) <= b /\ Mem!Min({a, b, c}) <= c
         /\ Mem!Promise!Min({a, b, c}) = Mem!Min({a, b, c})
<1>1. \E x \in {a, b, c} : x <= a /\ x <= b /\ x <= c
  <2>1. CASE a <= b /\ a <= c
    BY <2>1
  <2>2. CASE b <= a /\ b <= c
    BY <2>2
  <2>3. CASE c <= a /\ c <= b
    BY <2>3
  <2>4. QED
    BY <2>1, <2>2, <2>3
<1>2. QED
  BY <1>1 DEF Mem!Min, Mem!Promise!Min

\* The number of words that n bytes take.
LEMMA Rounding ==
  ASSUME NEW w \in Nat \ {0}, NEW n \in Nat, NEW c, c = (n + w - 1) \div w
  PROVE  c \in Nat /\ c * w \in Nat /\ n <= c * w /\ c * w <= n + w - 1
<1> DEFINE r == (n + w - 1) % w
           k == w * c
<1>1. c \in Nat /\ r \in 0 .. w - 1 /\ n + w - 1 = w * c + r
  <2>1. n + w - 1 \in Nat
    OBVIOUS
  <2> DEFINE m == n + w - 1
  <2> HIDE DEF m
  <2>2. m \div w \in Nat /\ m % w \in 0 .. w - 1 /\ m = w * (m \div w) + (m % w)
    BY <2>1, Dividing DEF m
  <2>3. QED
    BY <2>2 DEF m
<1> HIDE DEF r
<1>2. k \in Nat /\ n + w - 1 = k + r /\ c * w = k
  BY <1>1
<1> HIDE DEF k
<1>3. QED
  BY <1>1, <1>2

-----------------------------------------------------------------------------
(* What is asked for                                                         *)

ByteVals == (Nat \X Nat) \cup {Zero, Dma}
ReadOps == {"m", "read"}
IsRequest(r) ==
  /\ r.op \in {"m", "M", "read", "upload"} /\ r.addr \in 0 .. Top - 1 /\ r.len \in 0 .. Top
  /\ r.data \in Seq(ByteVals)
  /\ r.op = "M" => Len(r.data) = r.len
  /\ r.op = "upload" => Len(r.data) = FileLen
  /\ r.op \in {"read", "upload"} => r.addr + r.len < Top
  /\ r.op = "upload" => r.addr % W = 0 /\ r.len <= Top - W

LEMMA RequestIs ==
  ASSUME Mem!MemBytesAssumption, NEW n \in Nat, NEW r \in Mem!Requests(n)
  PROVE  IsRequest(r)
<1>1. PICK p \in Mem!Packets \cup Mem!Ranges :
        r = [op |-> p.op, addr |-> p.addr, len |-> p.len, data |-> Mem!Data(p, n)]
  BY DEF Mem!Requests
<1>2. /\ p.op \in {"m", "M", "read", "upload"} /\ p.addr \in 0 .. Top - 1 /\ p.len \in 0 .. Top
      /\ p.op \in {"read", "upload"} => p.addr + p.len < Top
      /\ p.op = "upload" => p.addr % W = 0 /\ p.len <= Top - W
  BY <1>1, ByteSizes DEF Mem!Packets, Mem!Ranges
<1> DEFINE k == CASE p.op = "M" -> p.len [] p.op = "upload" -> FileLen [] OTHER -> 0
<1>3. k \in Nat /\ (p.op = "M" => k = p.len) /\ (p.op = "upload" => k = FileLen)
  BY <1>2, ByteSizes
<1>4. Mem!Data(p, n) = [j \in 1 .. k |-> <<n, j>>]
  BY DEF Mem!Data
<1> HIDE DEF k
<1>5. [j \in 1 .. k |-> <<n, j>>] \in Seq(ByteVals) /\ Len([j \in 1 .. k |-> <<n, j>>]) = k
  <2>1. \A j \in 1 .. k : <<n, j>> \in ByteVals
    BY <1>3 DEF ByteVals
  <2>2. QED
    BY <1>3, <2>1
<1>6. QED
  BY <1>1, <1>2, <1>3, <1>4, <1>5 DEF IsRequest

LEMMA AskableIs ==
  ASSUME Mem!MemBytesAssumption, NEW r \in Mem!Askable
  PROVE  IsRequest(r)
<1>1. PICK n \in 0 .. MaxReqs : r \in Mem!Requests(n)
  BY DEF Mem!Askable
<1>2. n \in Nat
  BY <1>1, ByteSizes
<1>3. QED
  BY <1>1, <1>2, RequestIs

\* How much a request is about.
Extents(r) == Mem!Promise!Extent(r)
LEMMA ExtentIs ==
  ASSUME Mem!MemBytesAssumption, NEW r, IsRequest(r)
  PROVE  /\ Extents(r) \in 0 .. Top
         /\ r.op \in ReadOps => Extents(r) <= r.len /\ r.addr + Extents(r) <= Top
         /\ r.op = "m" => Extents(r) = Mem!Min({r.len, MaxGdb, Top - r.addr})
         /\ r.op = "read" => Extents(r) = r.len
         /\ r.op = "M" /\ ~ Mem!Promise!Refused(r) => Extents(r) = r.len
         /\ r.op = "upload" => Extents(r) = ((r.len + W - 1) \div W) * W
<1>0. /\ Top \in Nat \ {0} /\ W \in Nat \ {0} /\ MaxGdb \in Nat
      /\ r.addr \in 0 .. Top - 1 /\ r.len \in 0 .. Top /\ r.addr \in Nat /\ r.len \in Nat
      /\ r.op \in {"m", "M", "read", "upload"}
  BY ByteSizes DEF IsRequest
<1>1. CASE r.op = "m"
  <2>1. Top - r.addr \in Nat
    BY <1>0
  <2>2. Extents(r) = Mem!Promise!Min({r.len, MaxGdb, Top - r.addr})
    BY <1>1 DEF Extents, Mem!Promise!Extent, Mem!Promise!Refused
  <2> DEFINE z == Mem!Min({r.len, MaxGdb, Top - r.addr})
  <2>3. z \in Nat /\ z <= r.len /\ z <= Top - r.addr /\ Extents(r) = z
    BY <1>0, <2>1, <2>2, LeastThree
  <2>4. z \in 0 .. Top /\ r.addr + z <= Top
    <3> HIDE DEF z
    <3>1. QED
      BY <1>0, <2>3
  <2>5. QED
    BY <1>1, <2>3, <2>4
<1>2. CASE r.op = "upload"
  <2> DEFINE c == (r.len + W - 1) \div W
             k == c * W
  <2>1. k \in Nat /\ k <= r.len + W - 1
    BY <1>0, Rounding
  <2>2. Extents(r) = k
    BY <1>2 DEF Extents, Mem!Promise!Extent, Mem!Promise!Refused
  <2>3. r.len <= Top - W
    BY <1>2 DEF IsRequest
  <2> HIDE DEF c
  <2>4. k \in 0 .. Top
    <3> HIDE DEF k
    <3>1. QED
      BY <1>0, <2>1, <2>3
  <2>5. QED
    BY <1>2, <2>2, <2>4 DEF c, ReadOps
<1>3. CASE r.op \in {"M", "read"}
  <2>1. Extents(r) = IF Mem!Promise!Refused(r) THEN 0 ELSE r.len
    BY <1>3 DEF Extents, Mem!Promise!Extent
  <2>2. r.op = "read" => ~ Mem!Promise!Refused(r) /\ r.addr + r.len <= Top
    BY <1>0 DEF Mem!Promise!Refused, IsRequest
  <2>3. QED
    BY <1>0, <1>3, <2>1, <2>2 DEF ReadOps
<1>4. QED
  BY <1>0, <1>1, <1>2, <1>3

-----------------------------------------------------------------------------
(* The invariant                                                             *)

Types ==
  /\ Mem!MemBytesAssumption
  /\ bytes \in [0 .. Top - 1 -> ByteVals] /\ was \in [0 .. Top - 1 -> ByteVals]
  /\ req \in Mem!Askable /\ IsRequest(req) /\ got \in Seq(ByteVals)
  /\ moved \in Nat /\ from \in Nat /\ len \in Nat /\ wordsDone \in Nat /\ asked \in Nat
  /\ at \in {"idle", "m", "read", "readLoop", "M", "partial", "merged", "writeLoop", "failed", "upload", "spin"}
  /\ at = "idle" <=> resp # "none"

\* A request as it was asked for: nothing is done yet.
Untouched(op) ==
  /\ req.op = op /\ from = req.addr /\ len = req.len /\ wordsDone = 0 /\ got = <<>> /\ moved = 0

\* A read has got what is in the words that it has passed.
ReadSoFar ==
  IF wordsDone = 0 THEN 0 ELSE IF wordsDone = Mem!readWords THEN len ELSE wordsDone * W - Mem!skipFront
ReadsOn ==
  /\ req.op \in ReadOps /\ from = req.addr /\ len = Extents(req)
  /\ wordsDone <= Mem!readWords /\ Len(got) = ReadSoFar

\* A write has stored the first bytes, and begins a word with each further one.
WritesOn ==
  /\ req.op = "M" /\ ~ Mem!Promise!Refused(req)
  /\ from = req.addr + moved /\ moved + len = req.len
Front0 == moved = 0 /\ from % W # 0
Back0 == from % W = 0 /\ 0 < len /\ len < W
Word0 == from - (from % W)
MergeRight ==
  /\ Front0 \/ Back0
  /\ nowBuf \in [1 .. W -> ByteVals]
  /\ \A k \in 1 .. W : nowBuf[k] \in {bytes[Word0 + k - 1], was[Word0 + k - 1]}

UploadsOn ==
  /\ req.op = "upload" /\ from = req.addr /\ len = req.len
  /\ wordsDone <= Mem!wordsTotal /\ moved = wordsDone * W

\* What the request has not reached changes only by the target's own hand.
Beyond ==
  req.op = "M" => \A a \in 0 .. Top - 1 :
    a < req.addr \/ a >= req.addr + moved => bytes[a] \in {was[a], Dma}

ByteInv ==
  /\ Types
  /\ at = "m" => Untouched("m")
  /\ at = "read" => Untouched("read")
  /\ at = "M" => Untouched("M")
  /\ at = "readLoop" => ReadsOn
  /\ at = "partial" => WritesOn /\ Front0
  /\ at = "merged" => WritesOn /\ MergeRight
  /\ at = "writeLoop" => WritesOn /\ (len = 0 \/ from % W = 0)
  /\ at = "failed" => req.op \in {"M", "upload"} /\ ~ Mem!Promise!Refused(req)
  /\ at = "upload" => UploadsOn
  /\ Beyond

Served == ByteInv' /\ [Mem!Promise!Next]_memVars

-----------------------------------------------------------------------------
(* Requests and the target's own writes                                      *)

LEMMA BytesInit == Mem!MemBytesAssumption /\ Mem!Init => ByteInv /\ Mem!Promise!Init
<1> SUFFICES ASSUME Mem!MemBytesAssumption, Mem!Init
             PROVE  ByteInv /\ Mem!Promise!Init
  OBVIOUS
<1>0. /\ Top \in Nat \ {0} /\ Mem!Addr = 0 .. Top - 1 /\ Mem!Promise!Addr = 0 .. Top - 1
      /\ MaxReqs \in Nat
  BY ByteSizes
<1>1. /\ bytes = [a \in 0 .. Top - 1 |-> <<0, a>>] /\ was = bytes
      /\ req = [op |-> "m", addr |-> 0, len |-> 0, data |-> <<>>] /\ resp = "idle"
      /\ got = <<>> /\ at = "idle" /\ from = 0 /\ len = 0 /\ wordsDone = 0
      /\ moved = 0 /\ asked = 0
  BY <1>0 DEF Mem!Init
<1>2. bytes \in [0 .. Top - 1 -> ByteVals]
  BY <1>0, <1>1 DEF ByteVals
<1>3. bytes \in [Mem!Promise!Addr -> {<<0, a>> : a \in Mem!Promise!Addr}]
  BY <1>0, <1>1
<1>4. Mem!Data([op |-> "m", addr |-> 0, len |-> 0], 0) = <<>>
  <2> DEFINE s == [k \in 1 .. 0 |-> <<0, k>>]
  <2>1. Mem!Data([op |-> "m", addr |-> 0, len |-> 0], 0) = s
    BY DEF Mem!Data
  <2>2. s \in Seq(ByteVals) /\ Len(s) = 0
    OBVIOUS
  <2> HIDE DEF s
  <2>3. s = <<>>
    BY <2>2, EmptySeq
  <2>4. QED
    BY <2>1, <2>3
<1>5. req \in Mem!Requests(0)
  <2> DEFINE p == [op |-> "m", addr |-> 0, len |-> 0]
  <2>1. p \in Mem!Packets
    BY <1>0 DEF Mem!Packets
  <2>2. req = [op |-> p.op, addr |-> p.addr, len |-> p.len, data |-> Mem!Data(p, 0)]
    BY <1>1, <1>4
  <2> HIDE DEF p
  <2>3. QED
    BY <2>1, <2>2 DEF Mem!Requests
<1>6. req \in Mem!Askable
  BY <1>0, <1>5 DEF Mem!Askable
<1>7. IsRequest(req)
  BY <1>6, AskableIs
<1>8. Types
  BY <1>1, <1>2, <1>6, <1>7 DEF Types
<1>9. QED
  BY <1>1, <1>3, <1>6, <1>8 DEF ByteInv, Beyond, Mem!Promise!Init

\* The words that some bytes take, and where a read of them begins.
LEMMA WordCounts ==
  ASSUME Mem!MemBytesAssumption, NEW a \in Nat, NEW n \in Nat
  PROVE  ((n + (a % W) + W - 1) % Top) \div W \in Nat
<1> DEFINE x == n + (a % W) + W - 1
           y == x % Top
<1>1. W \in Nat \ {0} /\ Top \in Nat \ {0}
  BY ByteSizes
<1>2. x \in Nat
  BY <1>1, Dividing
<1> HIDE DEF x
<1>3. y \in Nat
  BY <1>1, <1>2
<1> HIDE DEF y
<1>4. y \div W \in Nat
  BY <1>1, <1>3, Dividing
<1>5. QED
  BY <1>4 DEF x, y

LEMMA UploadCounts ==
  ASSUME Mem!MemBytesAssumption, NEW n \in Nat
  PROVE  ((n + W - 1) % Top) \div W \in Nat
<1> DEFINE x == n + W - 1
           y == x % Top
<1>1. W \in Nat \ {0} /\ Top \in Nat \ {0}
  BY ByteSizes
<1>2. x \in Nat
  BY <1>1
<1> HIDE DEF x
<1>3. y \in Nat
  BY <1>1, <1>2
<1> HIDE DEF y
<1>4. y \div W \in Nat
  BY <1>1, <1>3, Dividing
<1>5. QED
  BY <1>4 DEF x, y

LEMMA AskServes == ASSUME ByteInv, Mem!Ask PROVE Served
<1>0. Types /\ MaxReqs \in Nat /\ Mem!MemBytesAssumption
  BY ByteSizes DEF ByteInv, Types
<1>1. /\ at = "idle" /\ asked' \in 0 .. MaxReqs /\ req' \in Mem!Requests(asked')
      /\ at' = req'.op /\ from' = req'.addr /\ len' = req'.len
      /\ resp' = "none" /\ got' = <<>> /\ wordsDone' = 0 /\ moved' = 0 /\ was' = bytes
      /\ bytes' = bytes
  BY <1>0 DEF Mem!Ask, Types
<1>2. req' \in Mem!Askable
  BY <1>1 DEF Mem!Askable
<1>3. IsRequest(req')
  BY <1>0, <1>2, AskableIs
<1>4. /\ from' \in Nat /\ len' \in Nat
      /\ at' \in {"m", "M", "read", "upload"}
  BY <1>0, <1>1, <1>3, ByteSizes DEF IsRequest
<1>5. Types'
  BY <1>0, <1>1, <1>2, <1>3, <1>4 DEF Types, IsRequest
<1>6. (at' = "upload" => UploadsOn')
  <2>1. Mem!wordsTotal' \in Nat
    BY <1>0, <1>4, UploadCounts DEF Mem!wordsTotal
  <2>2. W \in Nat
    BY <1>0, ByteSizes
  <2>3. QED
    BY <1>1, <2>1, <2>2 DEF UploadsOn
<1>7. Beyond'
  BY <1>0, <1>1, <1>3 DEF Beyond, Types
<1>8. ByteInv'
  BY <1>1, <1>4, <1>5, <1>6, <1>7 DEF ByteInv, Untouched
<1>9. Mem!Promise!Next
  <2>1. ~ Mem!Promise!Pending
    BY <1>0, <1>1 DEF Types, Mem!Promise!Pending
  <2>2. Mem!Promise!Ask(req')
    BY <1>1, <2>1 DEF Mem!Promise!Ask
  <2>3. QED
    BY <1>2, <2>2 DEF Mem!Promise!Next
<1>10. QED
  BY <1>8, <1>9 DEF Served

\* The word around an address is a word of the memory.
LEMMA WordIn ==
  ASSUME Mem!MemBytesAssumption, NEW a \in 0 .. Top - 1
  PROVE  /\ a - (a % W) \in Nat /\ a % W \in 0 .. W - 1 /\ W \in Nat \ {0}
         /\ a - (a % W) + W <= Top
         /\ \A b \in 0 .. Top - 1 : b - (a - (a % W)) \in 0 .. W - 1 => b \div W = a \div W
<1> DEFINE q == a \div W
           r == a % W
           t == Top \div W
           x == W * q
           y == W * t
<1>1. Top \in Nat \ {0} /\ W \in Nat \ {0} /\ Top % W = 0 /\ a \in Nat
  BY ByteSizes
<1>2. q \in Nat /\ r \in 0 .. W - 1 /\ a = x + r /\ a - r \in Nat /\ a - r = x
  BY <1>1, Dividing
<1>3. t \in Nat /\ Top = y + (Top % W)
  BY <1>1, Dividing
<1>4. x \in Nat /\ y \in Nat /\ Top = y
  <2>1. x \in Nat /\ y \in Nat
    BY <1>1, <1>2, <1>3
  <2> HIDE DEF x, y, q, r, t
  <2>2. QED
    BY <2>1, <1>1, <1>3
<1>5. x + W <= y
  <2>1. CASE q + 1 <= t
    <3>1. W * (q + 1) <= W * t
      <4>1. q \in Nat /\ t \in Nat /\ q + 1 <= t
        BY <1>2, <1>3, <2>1
      <4> HIDE DEF q, t
      <4>2. q + 1 \in Nat
        BY <4>1
      <4>3. QED
        BY <1>1, <4>1, <4>2, Scaling
    <3>2. W * (q + 1) = x + W
      BY <1>1, <1>2
    <3>3. QED
      BY <3>1, <3>2
  <2>2. CASE t <= q
    <3>1. y <= x
      <4>1. W * t <= W * q
        <5> HIDE DEF q, t
        <5>1. QED
          BY <1>1, <1>2, <1>3, <2>2, Scaling
      <4>2. QED
        BY <4>1
    <3> HIDE DEF x, y, q, r, t
    <3>2. QED
      BY <1>2, <1>4, <3>1, <1>1
  <2>3. QED
    BY <1>2, <1>3, <2>1, <2>2
<1>6. ASSUME NEW b \in 0 .. Top - 1, b - (a - r) \in 0 .. W - 1
      PROVE  b \div W = q
  <2> DEFINE k == b - (a - r)
  <2>1. k \in 0 .. W - 1
    BY <1>6
  <2>2. b = x + k
    <3> HIDE DEF x, r, q
    <3>1. QED
      BY <1>1, <1>2, <1>4, <1>6
  <2> HIDE DEF k, r
  <2>3. (W * q + k) \div W = q
    BY <1>1, <1>2, <2>1, Divided
  <2>4. QED
    BY <2>2, <2>3
<1>7. a - r + W <= Top
  <2> HIDE DEF x, y, q, r, t
  <2>1. QED
    BY <1>1, <1>2, <1>4, <1>5
<1>8. QED
  BY <1>1, <1>2, <1>6, <1>7

\* The word that a write merges: it lies in the memory, and nothing of it is
\* the request's before the merge.
LEMMA MergeWord ==
  ASSUME Types, WritesOn, Front0 \/ Back0
  PROVE  /\ from \in 0 .. Top - 1
         /\ \A k \in 1 .. W : /\ Word0 + k - 1 \in 0 .. Top - 1
                              /\ Word0 + k - 1 < req.addr \/ Word0 + k - 1 >= req.addr + moved
<1>0. /\ Mem!MemBytesAssumption /\ Top \in Nat \ {0} /\ W \in Nat \ {0}
      /\ from \in Nat /\ len \in Nat /\ moved \in Nat
      /\ req.addr \in 0 .. Top - 1 /\ req.len \in 0 .. Top
      /\ from = req.addr + moved /\ moved + len = req.len
      /\ req.op = "M" /\ req.addr + req.len <= Top
  BY ByteSizes DEF Types, IsRequest, WritesOn, Mem!Promise!Refused
<1>1. from \in 0 .. Top - 1
  <2>1. moved = 0 \/ 0 < len
    BY DEF Front0, Back0
  <2>2. QED
    BY <1>0, <2>1
<1> DEFINE r == from % W
<1>2. from - r \in Nat /\ r \in 0 .. W - 1 /\ from - r + W <= Top
  BY <1>0, <1>1, WordIn
<1>3. Word0 = from - r /\ (moved = 0 \/ r = 0)
  BY DEF Word0, Front0, Back0
<1> HIDE DEF r
<1>4. QED
  BY <1>0, <1>1, <1>2, <1>3

LEMMA TouchServes == ASSUME ByteInv, Mem!Touch PROVE Served
<1>0. Types /\ Mem!MemBytesAssumption /\ Mem!Addr = 0 .. Top - 1 /\ Mem!Promise!Addr = 0 .. Top - 1
  BY ByteSizes DEF ByteInv, Types
<1>1. PICK a \in 0 .. Top - 1 : bytes' = [bytes EXCEPT ![a] = Dma]
  BY <1>0 DEF Mem!Touch
<1>2. UNCHANGED <<req, resp, got, at, from, len, wordsDone, nowBuf, moved, was, asked>>
  BY DEF Mem!Touch
<1>3. bytes \in [0 .. Top - 1 -> ByteVals] /\ bytes' \in [0 .. Top - 1 -> ByteVals]
  BY <1>0, <1>1 DEF Types, ByteVals
<1>4. \A b \in 0 .. Top - 1 : bytes'[b] = IF b = a THEN Dma ELSE bytes[b]
  BY <1>1, <1>3
<1>5. Types'
  BY <1>0, <1>2, <1>3 DEF Types
<1>6. Beyond'
  BY <1>2, <1>4 DEF ByteInv, Beyond
<1>7. ASSUME at = "merged"
      PROVE  MergeRight'
  <2>1. WritesOn /\ MergeRight /\ Beyond
    BY <1>7 DEF ByteInv
  <2>2. Word0' = Word0 /\ Front0' = Front0 /\ Back0' = Back0
    BY <1>2 DEF Word0, Front0, Back0
  <2>3. ASSUME NEW k \in 1 .. W
        PROVE  nowBuf'[k] \in {bytes'[Word0 + k - 1], was'[Word0 + k - 1]}
    <3> DEFINE b == Word0 + k - 1
    <3>1. b \in 0 .. Top - 1 /\ (b < req.addr \/ b >= req.addr + moved)
      BY <1>0, <2>1, MergeWord DEF MergeRight
    <3>2. bytes[b] \in {was[b], Dma}
      BY <2>1, <3>1 DEF Beyond, WritesOn
    <3>3. nowBuf[k] \in {bytes[b], was[b]}
      BY <2>1 DEF MergeRight
    <3> HIDE DEF b
    <3>4. nowBuf'[k] \in {bytes'[b], was'[b]}
      BY <1>2, <1>4, <3>1, <3>2, <3>3
    <3>5. QED
      BY <3>4 DEF b
  <2>4. QED
    BY <1>2, <2>1, <2>2, <2>3 DEF MergeRight
<1>8. /\ \A op : Untouched(op)' = Untouched(op)
      /\ ReadsOn' = ReadsOn /\ WritesOn' = WritesOn /\ Front0' = Front0 /\ UploadsOn' = UploadsOn
  BY <1>2 DEF Untouched, ReadsOn, ReadSoFar, WritesOn, Front0, UploadsOn, Extents, Mem!Promise!Extent,
     Mem!Promise!Refused, Mem!readWords, Mem!skipFront, Mem!wordsTotal
<1>9. Mem!Promise!Refused(req)' = Mem!Promise!Refused(req)
  BY <1>2 DEF Mem!Promise!Refused
<1>10. ByteInv'
  BY <1>2, <1>5, <1>6, <1>7, <1>8, <1>9 DEF ByteInv
<1>11. Mem!Promise!Next
  BY <1>0, <1>1, <1>2 DEF Mem!Promise!Next, Mem!Promise!Touch
<1>12. QED
  BY <1>10, <1>11 DEF Served

LEMMA Same ==
  ASSUME UNCHANGED memVars
  PROVE  /\ Extents(req)' = Extents(req) /\ Mem!Promise!Refused(req)' = Mem!Promise!Refused(req)
         /\ Beyond' = Beyond
BY DEF memVars, Extents, Mem!Promise!Extent, Mem!Promise!Refused, Beyond

-----------------------------------------------------------------------------
(* Reads                                                                     *)

\* What changes nothing but the place in the tool.
LEMMA TypesKept ==
  ASSUME Types, UNCHANGED <<bytes, req, got, moved, was, asked>>,
         from' \in Nat, len' \in Nat, wordsDone' \in Nat,
         at' \in {"idle", "m", "read", "readLoop", "M", "partial", "merged", "writeLoop", "failed", "upload"},
         at' = "idle" <=> resp' # "none"
  PROVE  Types'
BY DEF Types

LEMMA ReadBegins ==
  ASSUME Types, req.op \in ReadOps, wordsDone = 0, got = <<>>, UNCHANGED <<req, from, wordsDone, got>>,
         len' \in Nat, from = req.addr, len' = Extents(req)
  PROVE  ReadsOn'
<1>1. Mem!MemBytesAssumption /\ from \in Nat /\ Len(got) = 0
  BY DEF Types
<1>2. Mem!readWords' \in Nat
  <2>1. ((len' + (from' % W) + W - 1) % Top) \div W \in Nat
    BY <1>1, WordCounts
  <2>2. QED
    BY <2>1 DEF Mem!readWords, Mem!skipFront
<1>3. Extents(req)' = Extents(req)
  BY DEF Extents, Mem!Promise!Extent, Mem!Promise!Refused
<1>4. QED
  BY <1>1, <1>2, <1>3 DEF ReadsOn, ReadSoFar

LEMMA HandleMServes == ASSUME ByteInv, Mem!HandleM PROVE Served
<1>0. Types /\ Mem!MemBytesAssumption /\ at = "m" /\ Untouched("m") /\ IsRequest(req)
  BY DEF ByteInv, Types, Mem!HandleM
<1>1. /\ at' = "readLoop" /\ len' = Mem!Min({len, MaxGdb, Top - from})
      /\ UNCHANGED memVars /\ UNCHANGED <<bytes, req, resp, got, from, wordsDone, nowBuf, moved, was, asked>>
  BY DEF Mem!HandleM, memVars
<1>2. len' = Extents(req)
  BY <1>0, <1>1, ExtentIs DEF Untouched
<1>3. len' \in Nat
  <2>1. Extents(req) \in 0 .. Top
    BY <1>0, ExtentIs
  <2>2. QED
    BY <1>0, <1>2, <2>1, ByteSizes
<1>4. Types'
  <2>1. from' \in Nat /\ wordsDone' \in Nat /\ resp' = "none"
    BY <1>0, <1>1 DEF Types
  <2>2. QED
    BY <1>0, <1>1, <1>3, <2>1, TypesKept
<1>5. ReadsOn'
  <2>1. req.op \in ReadOps /\ wordsDone = 0 /\ got = <<>> /\ from = req.addr
    BY <1>0 DEF Untouched, ReadOps
  <2>2. QED
    BY <1>0, <1>1, <1>2, <1>3, <2>1, ReadBegins
<1>6. Beyond'
  BY <1>1, Same DEF ByteInv
<1>7. QED
  BY <1>1, <1>4, <1>5, <1>6 DEF Served, ByteInv

LEMMA ReadStartsServes == ASSUME ByteInv, Mem!ReadStarts PROVE Served
<1>0. Types /\ Mem!MemBytesAssumption /\ at = "read" /\ Untouched("read") /\ IsRequest(req)
  BY DEF ByteInv, Types, Mem!ReadStarts
<1>1. /\ at' = "readLoop" /\ UNCHANGED memVars
      /\ UNCHANGED <<bytes, req, resp, got, from, len, wordsDone, nowBuf, moved, was, asked>>
  BY DEF Mem!ReadStarts, memVars
<1>2. len' = Extents(req)
  BY <1>0, <1>1, ExtentIs DEF Untouched
<1>3. len' \in Nat
  <2>1. Extents(req) \in 0 .. Top
    BY <1>0, ExtentIs
  <2>2. QED
    BY <1>0, <1>2, <2>1, ByteSizes
<1>4. Types'
  <2>1. from' \in Nat /\ wordsDone' \in Nat /\ resp' = "none"
    BY <1>0, <1>1 DEF Types
  <2>2. QED
    BY <1>0, <1>1, <1>3, <2>1, TypesKept
<1>5. ReadsOn'
  <2>1. req.op \in ReadOps /\ wordsDone = 0 /\ got = <<>> /\ from = req.addr
    BY <1>0 DEF Untouched, ReadOps
  <2>2. QED
    BY <1>0, <1>1, <1>2, <1>3, <2>1, ReadBegins
<1>6. Beyond'
  BY <1>1, Same DEF ByteInv
<1>7. QED
  BY <1>1, <1>4, <1>5, <1>6 DEF Served, ByteInv

\* An answer ends a request.
LEMMA Ends ==
  ASSUME ByteInv, at # "idle", NEW r, Mem!ReplyWith(r), r # "none", r \in Mem!Promise!Answers
  PROVE  Served
<1>0. Types /\ resp = "none"
  BY DEF ByteInv, Types
<1>1. /\ resp' = r /\ at' = "idle" /\ UNCHANGED <<bytes, req, got, moved, was>>
      /\ UNCHANGED <<bytes, req, got, from, len, wordsDone, moved, was, asked>>
  BY DEF Mem!ReplyWith
<1>2. Types'
  <2>1. from' \in Nat /\ len' \in Nat /\ wordsDone' \in Nat
    BY <1>0, <1>1 DEF Types
  <2>2. QED
    BY <1>0, <1>1, <2>1, TypesKept
<1>3. Beyond'
  BY <1>1 DEF ByteInv, Beyond
<1>4. Mem!Promise!Next
  BY <1>0, <1>1 DEF Mem!Promise!Next, Mem!Promise!Answer, Mem!Promise!Pending
<1>5. QED
  BY <1>1, <1>2, <1>3, <1>4 DEF Served, ByteInv

LEMMA ReadReturnsServes == ASSUME ByteInv, Mem!ReadReturns PROVE Served
<1>0. /\ Types /\ Mem!MemBytesAssumption /\ at = "readLoop" /\ ReadsOn /\ IsRequest(req)
      /\ req.op \in ReadOps /\ len = Extents(req)
  BY DEF ByteInv, Types, Mem!ReadReturns, ReadsOn
<1> DEFINE r == IF req.op = "m" THEN IF got = <<>> THEN "error" ELSE "data"
                ELSE IF Len(got) = len THEN "ok" ELSE "error"
<1>1. Mem!ReplyWith(r)
  BY DEF Mem!ReadReturns
<1>2. r \in Mem!Promise!Answers
  <2>1. CASE req.op = "m"
    BY <2>1 DEF Mem!Promise!Answers, Mem!Promise!Refused
  <2>2. CASE req.op = "read"
    BY <1>0, <2>2 DEF Mem!Promise!Answers, Mem!Promise!Complete, Mem!Promise!Refused, Extents
  <2>3. QED
    BY <1>0, <2>1, <2>2 DEF ReadOps
<1>3. at # "idle" /\ r # "none"
  BY <1>0
<1> HIDE DEF r
<1>4. QED
  BY <1>1, <1>2, <1>3, Ends

\* A chunk of a read: which bytes of its words are handed over.
LEMMA ReadRange ==
  ASSUME Mem!MemBytesAssumption, NEW a \in 0 .. Top - 1, NEW n \in Nat, a + n <= Top,
         NEW s, s = a % W, NEW c, c = ((n + s + W - 1) % Top) \div W, c > 0
  PROVE  /\ c \in Nat /\ c * W \in Nat /\ n + s <= c * W /\ c * W <= n + s + W - 1
         /\ a - s \in Nat /\ a - s + c * W <= Top
<1>0. Top \in Nat \ {0} /\ W \in Nat \ {0} /\ Top % W = 0 /\ a \in Nat
  BY ByteSizes
<1> DEFINE q == a \div W
           t == Top \div W
           x == n + s + W - 1
           e == W * q
           y == W * t
<1>1. /\ q \in Nat /\ s \in 0 .. W - 1 /\ a = e + s /\ a - s = e /\ t \in Nat
      /\ Top = y + (Top % W)
  BY <1>0, Dividing
<1>2. e \in Nat /\ y \in Nat /\ Top = y
  <2>1. e \in Nat /\ y \in Nat
    BY <1>0, <1>1
  <2> HIDE DEF e, y, q, t
  <2>2. QED
    BY <2>1, <1>0, <1>1
<1>3. x \in Nat /\ x < Top + W /\ e + n + s <= Top
  <2> HIDE DEF e, y, q, t
  <2>1. QED
    BY <1>0, <1>1, <1>2
<1>4. x < Top
  <2> SUFFICES ASSUME x >= Top
               PROVE  FALSE
    BY <1>0, <1>3
  <2> HIDE DEF x, e, y, q, t
  <2>1. x - Top \in 0 .. W - 1
    BY <1>0, <1>3
  <2>2. W <= Top
    <3>1. t # 0
      BY <1>0, <1>1, <1>2 DEF y
    <3>2. W * t >= W * 1
      <4>1. 1 <= t /\ t \in Nat /\ 1 \in Nat
        BY <3>1, <1>1
      <4> HIDE DEF t
      <4>2. QED
        BY <4>1, <1>0, Scaling
    <3>3. QED
      BY <3>2, <1>2, <1>0 DEF y
  <2>3. x % Top = x - Top
    <3> DEFINE z == x - Top
    <3>1. z \in 0 .. Top - 1 /\ x = Top * 1 + z
      BY <2>1, <2>2, <1>0, <1>3
    <3> HIDE DEF z
    <3>2. (Top * 1 + z) % Top = z
      BY <3>1, <1>0, Divided
    <3>3. QED
      BY <3>1, <3>2 DEF z
  <2>4. (x - Top) \div W = 0
    <3> DEFINE z == x - Top
    <3>1. z \in 0 .. W - 1
      BY <2>1
    <3> HIDE DEF z
    <3>2. z = W * 0 + z
      BY <3>1, <1>0
    <3>3. (W * 0 + z) \div W = 0
      BY <3>1, <1>0, Divided
    <3>4. QED
      BY <3>2, <3>3 DEF z
  <2>5. QED
    BY <2>3, <2>4 DEF x
<1>5. x % Top = x
  <2> HIDE DEF x
  <2>1. x = Top * 0 + x /\ x \in 0 .. Top - 1
    BY <1>0, <1>3, <1>4
  <2>2. (Top * 0 + x) % Top = x
    BY <2>1, <1>0, Divided
  <2>3. QED
    BY <2>1, <2>2
<1>6. /\ c \in Nat /\ c * W \in Nat /\ n + s <= c * W /\ c * W <= n + s + W - 1
  <2>1. c = (n + s + W - 1) \div W /\ n + s \in Nat
    BY <1>0, <1>1, <1>5
  <2> DEFINE m == n + s
  <2>2. c = (m + W - 1) \div W /\ m \in Nat
    BY <2>1
  <2> HIDE DEF m
  <2>3. c \in Nat /\ c * W \in Nat /\ m <= c * W /\ c * W <= m + W - 1
    BY <1>0, <2>2, Rounding
  <2>4. QED
    BY <2>3 DEF m
<1>7. e + c * W <= Top
  <2> SUFFICES ASSUME e + c * W > Top
               PROVE  FALSE
    <3>1. e + c * W \in Nat
      BY <1>2, <1>6
    <3>2. QED
      BY <3>1, <1>0
  <2> DEFINE k == c * W
             u == q + c
  <2>1. W * u = e + k /\ u \in Nat
    BY <1>0, <1>1, <1>6
  <2>2. W * u < W * t + W
    <3> HIDE DEF u
    <3>1. e + k < y + W
      <4> HIDE DEF e, y, q, t
      <4>1. k \in Nat /\ k <= n + s + W - 1
        BY <1>6
      <4> HIDE DEF k
      <4>2. QED
        BY <1>0, <1>1, <1>2, <1>3, <4>1
    <3>2. QED
      BY <2>1, <3>1
  <2>3. u <= t
    <3> HIDE DEF u, t, k
    <3>1. QED
      BY <1>0, <1>1, <2>1, <2>2, Borders
  <2>4. W * u <= y
    <3>1. W * u <= W * t
      <4> HIDE DEF u, t
      <4>1. QED
        BY <2>3, <1>0, <1>1, <2>1, Scaling
    <3>2. QED
      BY <3>1
  <2>5. QED
    <3> HIDE DEF u
    <3>1. e + k <= Top
      BY <2>1, <2>4, <1>2
    <3>2. k \in Nat
      BY <1>6
    <3> HIDE DEF e, y, q, t
    <3>3. e + k > Top
      OBVIOUS
    <3> HIDE DEF k
    <3>4. QED
      BY <3>1, <3>2, <3>3, <1>0, <1>2
<1>8. QED
  BY <1>1, <1>2, <1>6, <1>7

LEMMA Pieces ==
  ASSUME NEW S, NEW s \in Seq(S), NEW i \in Nat \ {0}, NEW j \in Nat, i <= j + 1, j <= Len(s),
         NEW t, t = SubSeq(s, i, j)
  PROVE  /\ t \in Seq(S) /\ Len(t) = j - i + 1
         /\ \A k \in 1 .. j - i + 1 : t[k] = s[k + i - 1]
<1>1. \A k \in i .. j : s[k] \in S
  <2>1. \A k \in 1 .. Len(s) : s[k] \in S
    BY ElementOfSeq
  <2>2. QED
    BY <2>1
<1>2. Len(s) \in Nat
  OBVIOUS
<1>3. QED
  BY <1>1, <1>2

\* The chunk that memioRead hands over after wd words, of wn words.
ChunkFrom == IF wordsDone = 0 THEN Mem!skipFront + 1 ELSE 1
ChunkLen == Mem!ChunkEnd - ChunkFrom + 1
LEMMA ChunkSpan ==
  ASSUME Types, ReadsOn, wordsDone < Mem!readWords
  PROVE  /\ Mem!wordsNow \in Nat \ {0} /\ wordsDone + Mem!wordsNow <= Mem!readWords
         /\ Mem!readBase + W * wordsDone \in Nat
         /\ Mem!readBase + W * wordsDone + Mem!wordsNow * W <= Top
         /\ Mem!wordsNow * W \in Nat
         /\ ChunkFrom \in Nat \ {0} /\ Mem!ChunkEnd \in Nat
         /\ ChunkFrom <= Mem!ChunkEnd + 1 /\ Mem!ChunkEnd <= Mem!wordsNow * W
         /\ ChunkLen \in Nat
         /\ Mem!readBase + W * wordsDone + ChunkFrom - 1 = from + Len(got)
         /\ Len(got) + ChunkLen
              = IF wordsDone + Mem!wordsNow = Mem!readWords THEN len
                ELSE (wordsDone + Mem!wordsNow) * W - Mem!skipFront
         /\ Len(got) + ChunkLen <= len
<1>0. /\ Mem!MemBytesAssumption /\ Top \in Nat \ {0} /\ W \in Nat \ {0} /\ Chunk \in Nat \ {0}
      /\ from \in 0 .. Top - 1 /\ len \in Nat /\ wordsDone \in Nat /\ from + len <= Top
      /\ Len(got) = ReadSoFar
  <2>1. req.addr \in 0 .. Top - 1 /\ req.op \in ReadOps /\ Mem!MemBytesAssumption
    BY DEF Types, ReadsOn, IsRequest
  <2>2. req.addr + Extents(req) <= Top
    BY <2>1, ExtentIs DEF Types
  <2>3. QED
    BY <2>1, <2>2, ByteSizes DEF ReadsOn, Types
<1> DEFINE s == Mem!skipFront
           c == Mem!readWords
           n == Mem!wordsNow
<1>1. /\ c \in Nat /\ c * W \in Nat /\ len + s <= c * W /\ c * W <= len + s + W - 1
      /\ from - s \in Nat /\ from - s + c * W <= Top
  <2>1. s = from % W
    BY DEF Mem!skipFront
  <2>2. c = ((len + s + W - 1) % Top) \div W /\ c > 0
    <3>1. c = ((len + s + W - 1) % Top) \div W
      BY DEF Mem!readWords
    <3>2. c \in Nat
      BY <1>0, WordCounts DEF Mem!readWords, Mem!skipFront
    <3>3. QED
      BY <1>0, <3>1, <3>2
  <2> HIDE DEF s, c
  <2>3. QED
    BY <1>0, <2>1, <2>2, ReadRange
<1>2. s \in 0 .. W - 1
  BY <1>0, Dividing DEF Mem!skipFront
<1>3. n \in Nat \ {0} /\ wordsDone + n <= c
  <2>1. c - wordsDone \in Nat \ {0}
    BY <1>0, <1>1
  <2>2. n = IF c - wordsDone <= Chunk THEN c - wordsDone ELSE Chunk
    BY <1>0, <2>1, LeastTwo DEF Mem!wordsNow
  <2> HIDE DEF c, n
  <2>3. QED
    BY <1>0, <1>1, <2>1, <2>2
<1> DEFINE x == wordsDone * W
           y == n * W
           z == c * W
<1>4. /\ x \in Nat /\ y \in Nat /\ z \in Nat /\ W * wordsDone = x /\ (wordsDone + n) * W = x + y
      /\ y >= W /\ x + y <= z /\ x + W <= z
      /\ wordsDone = 0 => x = 0
      /\ wordsDone # 0 => x >= W
      /\ wordsDone + n # c => x + y + W <= z
      /\ wordsDone + n = c => x + y = z
  <2> HIDE DEF s, c, n
  <2>1. /\ x \in Nat /\ y \in Nat /\ z \in Nat /\ W * wordsDone = x /\ (wordsDone + n) * W = x + y
        /\ wordsDone = 0 => x = 0
    BY <1>0, <1>1, <1>3
  <2>2. \A i, j \in Nat : i <= j => i * W <= j * W
    BY <1>0, Scaling
  <2>3. y >= W
    <3>1. 1 * W <= n * W
      BY <1>3, <2>2
    <3>2. QED
      BY <3>1, <1>0
  <2>4. wordsDone # 0 => x >= W
    <3>1. wordsDone # 0 => 1 * W <= wordsDone * W
      BY <1>0, <2>2
    <3>2. QED
      BY <3>1, <1>0
  <2>5. x + y <= z
    BY <1>0, <1>1, <1>3, <2>1, <2>2
  <2>6. x + W <= z
    <3> HIDE DEF x, y, z
    <3>1. QED
      BY <2>1, <2>3, <2>5, <1>0
  <2>7. wordsDone + n # c => x + y + W <= z
    <3> SUFFICES ASSUME wordsDone + n # c PROVE x + y + W <= z
      OBVIOUS
    <3>1. (wordsDone + n + 1) * W <= c * W
      BY <1>0, <1>1, <1>3, <2>2
    <3>2. (wordsDone + n + 1) * W = (wordsDone + n) * W + W
      BY <1>0, <1>3
    <3>3. QED
      BY <2>1, <3>1, <3>2
  <2>8. wordsDone + n = c => x + y = z
    BY <2>1
  <2>9. QED
    BY <2>1, <2>3, <2>4, <2>5, <2>6, <2>7, <2>8
<1>5. /\ Mem!readBase = from - s
      /\ Mem!ChunkEnd = y - IF wordsDone + n = c THEN z - s - len ELSE 0
      /\ ChunkFrom = IF wordsDone = 0 THEN s + 1 ELSE 1
      /\ ChunkLen = Mem!ChunkEnd - ChunkFrom + 1
      /\ Len(got) = IF wordsDone = 0 THEN 0 ELSE x - s
  <2>1. wordsDone # c
    BY <1>0, <1>1
  <2>2. Mem!readBase = from - s
    BY DEF Mem!readBase
  <2>3. Mem!ChunkEnd = y - IF wordsDone + n = c THEN z - s - len ELSE 0
    BY DEF Mem!ChunkEnd, Mem!skipEnd
  <2>4. ChunkFrom = (IF wordsDone = 0 THEN s + 1 ELSE 1) /\ ChunkLen = Mem!ChunkEnd - ChunkFrom + 1
    BY DEF ChunkFrom, ChunkLen
  <2>5. Len(got) = IF wordsDone = 0 THEN 0 ELSE x - s
    <3>1. Len(got) = IF wordsDone = 0 THEN 0 ELSE IF wordsDone = c THEN len ELSE x - s
      BY <1>0 DEF ReadSoFar
    <3>2. QED
      BY <2>1, <3>1
  <2> HIDE DEF s, c, n, x, y, z
  <2>6. QED
    BY <2>2, <2>3, <2>4, <2>5
<1> HIDE DEF s, c, n, x, y, z
<1>6. (wordsDone + n) * W = x + y
  BY <1>4
<1>7. z = c * W /\ y = n * W /\ s = Mem!skipFront /\ c = Mem!readWords /\ n = Mem!wordsNow
  BY DEF s, c, n, x, y, z
<1> DEFINE E == Mem!ChunkEnd
           F == ChunkFrom
           L == ChunkLen
           G == Len(got)
<1>8. /\ E = y - IF wordsDone + n = c THEN z - s - len ELSE 0
      /\ F = IF wordsDone = 0 THEN s + 1 ELSE 1
      /\ L = E - F + 1
      /\ G = IF wordsDone = 0 THEN 0 ELSE x - s
      /\ len + s <= z /\ z <= len + s + W - 1 /\ from - s \in Nat /\ from - s + z <= Top
  BY <1>1, <1>5, <1>7
<1> HIDE DEF E, F, L, G
<1>9. /\ F \in Nat \ {0} /\ E \in Nat /\ F <= E + 1 /\ E <= y /\ L \in Nat
      /\ (from - s) + x \in Nat /\ (from - s) + x + y <= Top
      /\ (from - s) + x + F - 1 = from + G
      /\ G + L = (IF wordsDone + n = c THEN len ELSE x + y - s)
      /\ G + L <= len
  <2>1. F \in Nat \ {0}
    BY <1>0, <1>2, <1>8
  <2>2. E \in Nat /\ E <= y
    BY <1>0, <1>2, <1>4, <1>8
  <2>3. F <= E + 1
    BY <1>0, <1>2, <1>4, <1>8
  <2>4. L \in Nat
    BY <2>1, <2>2, <2>3, <1>8
  <2>5. (from - s) + x \in Nat /\ (from - s) + x + y <= Top
    BY <1>0, <1>2, <1>4, <1>8
  <2>6. (from - s) + x + F - 1 = from + G
    BY <1>0, <1>2, <1>4, <1>8
  <2>7. G + L = (IF wordsDone + n = c THEN len ELSE x + y - s)
    BY <1>0, <1>2, <1>4, <1>8
  <2>8. G + L <= len
    BY <1>0, <1>2, <1>4, <1>8, <2>7
  <2>9. QED
    BY <2>1, <2>2, <2>3, <2>4, <2>5, <2>6, <2>7, <2>8
<1>10. G + L = IF wordsDone + n = c THEN len ELSE (wordsDone + n) * W - s
  <2> DEFINE u == (wordsDone + n) * W
  <2>1. u = x + y
    BY <1>6
  <2> HIDE DEF u
  <2>2. G + L = IF wordsDone + n = c THEN len ELSE u - s
    BY <1>0, <1>2, <1>4, <1>9, <2>1
  <2>3. QED
    BY <2>2 DEF u
<1>11. QED
  <2>1. /\ n \in Nat \ {0} /\ wordsDone + n <= c
        /\ Mem!readBase + W * wordsDone = (from - s) + x /\ n * W = y /\ y \in Nat
    BY <1>3, <1>4, <1>5, <1>7
  <2>2. QED
    BY <2>1, <1>7, <1>9, <1>10 DEF E, F, L, G

LEMMA ReadChunkServes == ASSUME ByteInv, Mem!ReadChunk PROVE Served
<1>0. /\ Types /\ Mem!MemBytesAssumption /\ at = "readLoop" /\ ReadsOn /\ IsRequest(req)
      /\ req.op \in ReadOps /\ len = Extents(req) /\ wordsDone < Mem!readWords
      /\ Top \in Nat \ {0} /\ W \in Nat \ {0} /\ resp = "none"
  BY ByteSizes DEF ByteInv, Types, Mem!ReadChunk, ReadsOn
<1>1. UNCHANGED <<bytes, req, resp, at, from, len, nowBuf, moved, was, asked>>
  BY DEF Mem!ReadChunk
<1> DEFINE b == Mem!readBase + W * wordsDone
           ws == Mem!Words(b, Mem!wordsNow)
           m == Mem!wordsNow * W
           i == ChunkFrom
           j == Mem!ChunkEnd
           t == SubSeq(ws, i, j)
<1>2. got' = got \o t /\ wordsDone' = wordsDone + Mem!wordsNow
  BY DEF Mem!ReadChunk, ChunkFrom
<1>3. /\ b \in Nat /\ b + m <= Top /\ m \in Nat /\ i \in Nat \ {0} /\ j \in Nat
      /\ i <= j + 1 /\ j <= m /\ ChunkLen = j - i + 1 /\ ChunkLen \in Nat
      /\ b + i - 1 = from + Len(got) /\ Len(got) + ChunkLen <= len
      /\ Len(got) + ChunkLen = IF wordsDone + Mem!wordsNow = Mem!readWords THEN len
                               ELSE (wordsDone + Mem!wordsNow) * W - Mem!skipFront
      /\ Mem!wordsNow \in Nat \ {0} /\ wordsDone + Mem!wordsNow <= Mem!readWords
  BY <1>0, ChunkSpan DEF ChunkLen
<1>4. ws \in Seq(ByteVals) /\ Len(ws) = m /\ \A k \in 1 .. m : ws[k] = bytes[b + k - 1]
  <2>1. ws = [k \in 1 .. m |-> bytes[b + k - 1]]
    BY DEF Mem!Words
  <2> HIDE DEF ws, m, b
  <2>2. \A k \in 1 .. m : b + k - 1 \in 0 .. Top - 1
    <3>1. b \in Nat /\ m \in Nat /\ b + m <= Top /\ Top \in Nat
      BY <1>0, <1>3
    <3>2. QED
      BY <3>1
  <2>3. \A k \in 1 .. m : bytes[b + k - 1] \in ByteVals
    BY <1>0, <2>2 DEF Types
  <2>4. QED
    BY <1>3, <2>1, <2>3
<1>5. /\ t \in Seq(ByteVals) /\ Len(t) = ChunkLen
      /\ \A k \in 1 .. ChunkLen : t[k] = ws[k + i - 1]
  <2> HIDE DEF ws, m, b, i, j
  <2>1. QED
    BY <1>3, <1>4, Pieces
<1>6. \A k \in 1 .. ChunkLen : t[k] = bytes[req.addr + Len(got) + k - 1]
  <2> SUFFICES ASSUME NEW k \in 1 .. ChunkLen
               PROVE  t[k] = bytes[req.addr + Len(got) + k - 1]
    OBVIOUS
  <2> HIDE DEF ws, m, b, i, j, t
  <2>1. k + i - 1 \in 1 .. m
    BY <1>3
  <2>2. t[k] = bytes[b + (k + i - 1) - 1]
    BY <1>4, <1>5, <2>1
  <2>3. Len(got) \in Nat /\ from \in Nat /\ from = req.addr
    BY <1>0 DEF Types, ReadsOn
  <2>4. b + (k + i - 1) - 1 = req.addr + Len(got) + k - 1
    BY <1>3, <2>3
  <2>5. QED
    BY <2>2, <2>4
<1>7. t = [k \in 1 .. ChunkLen |-> bytes[req.addr + Len(got) + k - 1]]
  <2> HIDE DEF ws, m, b, i, j, t
  <2> DEFINE u == [k \in 1 .. ChunkLen |-> bytes[req.addr + Len(got) + k - 1]]
  <2>1. u \in Seq(ByteVals) /\ Len(u) = ChunkLen /\ \A k \in 1 .. ChunkLen : u[k] = t[k]
    <3>1. \A k \in 1 .. ChunkLen : t[k] \in ByteVals
      BY <1>5, ElementOfSeq
    <3>2. \A k \in 1 .. ChunkLen : bytes[req.addr + Len(got) + k - 1] \in ByteVals
      BY <3>1, <1>6
    <3>3. QED
      BY <1>3, <1>6, <3>2
  <2> HIDE DEF u
  <2>2. t = u
    BY <1>5, <2>1, <1>3, SeqEqual
  <2>3. QED
    BY <2>2 DEF u
<1> HIDE DEF t, ws, m, b, i, j
<1>8. got' \in Seq(ByteVals) /\ Len(got') = Len(got) + ChunkLen
  <2>1. got \in Seq(ByteVals)
    BY <1>0 DEF Types
  <2>2. QED
    BY <2>1, <1>2, <1>5, ConcatProperties
<1>9. Types'
  <2>1. wordsDone' \in Nat
    BY <1>0, <1>2, <1>3 DEF Types
  <2>2. QED
    BY <1>0, <1>1, <1>8, <2>1 DEF Types
<1>10. ReadsOn'
  <2>1. Mem!readWords' = Mem!readWords /\ Mem!skipFront' = Mem!skipFront /\ Extents(req)' = Extents(req)
    BY <1>1 DEF Mem!readWords, Mem!skipFront, Extents, Mem!Promise!Extent, Mem!Promise!Refused
  <2>2. wordsDone' # 0
    BY <1>0, <1>2, <1>3 DEF Types
  <2>3. Len(got)' = ReadSoFar'
    BY <1>1, <1>2, <1>3, <1>8, <2>1, <2>2 DEF ReadSoFar
  <2>4. QED
    BY <1>0, <1>1, <1>2, <1>3, <2>1, <2>3 DEF ReadsOn
<1>11. Beyond'
  BY <1>1 DEF ByteInv, Beyond
<1>12. Mem!Promise!Next
  <2>1. Len(got) + ChunkLen <= Mem!Promise!Extent(req)
    BY <1>0, <1>3 DEF Extents
  <2>2. Mem!Promise!Deliver(ChunkLen)
    BY <1>0, <1>1, <1>2, <1>7, <2>1 DEF Mem!Promise!Deliver, Mem!Promise!Pending, Mem!Promise!Reads, ReadOps
  <2>3. ChunkLen \in 0 .. Top
    <3>1. len \in 0 .. Top /\ Len(got) \in Nat
      <4>1. Extents(req) \in 0 .. Top
        BY <1>0, ExtentIs
      <4>2. QED
        BY <1>0, <4>1 DEF Types
    <3>2. QED
      BY <1>0, <1>3, <3>1
  <2>4. QED
    BY <2>2, <2>3 DEF Mem!Promise!Next
<1>13. QED
  BY <1>0, <1>1, <1>9, <1>10, <1>11, <1>12 DEF Served, ByteInv

LEMMA ReadingServes == ASSUME ByteInv, Mem!Reading PROVE Served
BY HandleMServes, ReadStartsServes, ReadChunkServes, ReadReturnsServes DEF Mem!Reading

-----------------------------------------------------------------------------
(* Writes                                                                    *)

\* Some bytes of the request are in the memory, and what stands beside them is
\* as it was.
StoredBytes(n) == \A a \in 0 .. Top - 1 :
  IF a >= req.addr /\ a - req.addr + 1 \in moved + 1 .. moved + n
  THEN bytes'[a] = Mem!Promise!DataByte(a - req.addr + 1)
  ELSE bytes'[a] \in {bytes[a]} \cup IF a \in Mem!Promise!Beside(req) THEN {was[a]} ELSE {}

LEMMA Stores ==
  ASSUME Types, Beyond, resp = "none", req.op \notin ReadOps, NEW n \in Nat, moved' = moved + n,
         moved + n <= Extents(req), bytes' \in [0 .. Top - 1 -> ByteVals], StoredBytes(n),
         UNCHANGED <<req, resp, got, was>>
  PROVE  Mem!Promise!Next /\ Beyond'
<1>0. Mem!MemBytesAssumption /\ Mem!Promise!Addr = 0 .. Top - 1 /\ Top \in Nat /\ moved \in Nat
      /\ Extents(req) \in 0 .. Top /\ IsRequest(req)
  BY ByteSizes, ExtentIs DEF Types
<1>1. Mem!Promise!Store(n)
  <2>1. moved' <= Mem!Promise!Extent(req)
    BY DEF Extents
  <2>2. DOMAIN bytes' = Mem!Promise!Addr
    BY <1>0
  <2>3. ASSUME NEW a \in Mem!Promise!Addr
        PROVE  LET k == a - req.addr + 1 IN
                 IF a >= req.addr /\ k \in moved + 1 .. moved' THEN bytes'[a] = Mem!Promise!DataByte(k)
                 ELSE bytes'[a] \in {bytes[a]} \cup IF a \in Mem!Promise!Beside(req) THEN {was[a]} ELSE {}
    BY <1>0, <2>3 DEF StoredBytes
  <2>4. Mem!Promise!Pending /\ req.op \notin Mem!Promise!Reads
    BY DEF Mem!Promise!Pending, Mem!Promise!Reads, ReadOps
  <2>5. QED
    BY <2>1, <2>2, <2>3, <2>4 DEF Mem!Promise!Store
<1>2. n \in 0 .. Top
  BY <1>0
<1>3. ASSUME req.op = "M", NEW a \in 0 .. Top - 1, a < req.addr \/ a >= req.addr + moved'
      PROVE  bytes'[a] \in {was[a], Dma}
  <2>1. req.addr \in Nat
    BY <1>0 DEF IsRequest
  <2>2. bytes[a] \in {was[a], Dma}
    BY <1>0, <1>3, <2>1 DEF Beyond
  <2>3. ~ (a >= req.addr /\ a - req.addr + 1 \in moved + 1 .. moved + n)
    <3> DEFINE d == req.addr
    <3>1. d \in Nat /\ a \in Nat /\ moved \in Nat /\ (a < d \/ a >= d + (moved + n))
      BY <1>0, <1>3, <2>1
    <3> HIDE DEF d
    <3>2. ~ (a >= d /\ a - d + 1 \in moved + 1 .. moved + n)
      BY <3>1
    <3>3. QED
      BY <3>2 DEF d
  <2>4. QED
    BY <2>2, <2>3 DEF StoredBytes
<1>4. QED
  BY <1>1, <1>2, <1>3 DEF Mem!Promise!Next, Beyond

LEMMA Overwrites ==
  ASSUME Types, NEW a \in Nat, NEW s \in Seq(ByteVals), bytes' = Mem!Overwritten(a, s)
  PROVE  /\ bytes' \in [0 .. Top - 1 -> ByteVals]
         /\ \A b \in 0 .. Top - 1 : bytes'[b] = IF b >= a /\ b - a < Len(s) THEN s[b - a + 1] ELSE bytes[b]
<1>1. bytes \in [0 .. Top - 1 -> ByteVals] /\ Mem!Addr = 0 .. Top - 1
  BY ByteSizes DEF Types
<1>2. bytes' = [b \in 0 .. Top - 1 |-> IF b >= a /\ b - a < Len(s) THEN s[b - a + 1] ELSE bytes[b]]
  BY <1>1 DEF Mem!Overwritten
<1>3. \A b \in 0 .. Top - 1 : (IF b >= a /\ b - a < Len(s) THEN s[b - a + 1] ELSE bytes[b]) \in ByteVals
  <2> SUFFICES ASSUME NEW b \in 0 .. Top - 1, b >= a, b - a < Len(s)
               PROVE  s[b - a + 1] \in ByteVals
    BY <1>1
  <2>1. b - a + 1 \in 1 .. Len(s)
    OBVIOUS
  <2>2. QED
    BY <2>1, ElementOfSeq
<1>4. QED
  BY <1>2, <1>3

\* The next n bytes of the request.
DataPiece(s, n) ==
  s \in Seq(ByteVals) /\ Len(s) = n /\ \A j \in 1 .. n : s[j] = Mem!Promise!DataByte(moved + j)

LEMMA PlainStores ==
  ASSUME Types, Beyond, resp = "none", req.op \notin ReadOps, NEW n \in Nat, NEW s, DataPiece(s, n),
         moved + n <= Extents(req), Mem!Stored(req.addr + moved, s, n), UNCHANGED <<req, resp, got, was>>
  PROVE  Mem!Promise!Next /\ Beyond' /\ bytes' \in [0 .. Top - 1 -> ByteVals] /\ moved' = moved + n
<1> DEFINE a == req.addr + moved
<1>0. req.addr \in Nat /\ moved \in Nat /\ a \in Nat /\ Top \in Nat
  BY ByteSizes DEF Types, IsRequest
<1>1. bytes' = Mem!Overwritten(a, s) /\ moved' = moved + n
  BY DEF Mem!Stored
<1>2. /\ bytes' \in [0 .. Top - 1 -> ByteVals]
      /\ \A b \in 0 .. Top - 1 : bytes'[b] = IF b >= a /\ b - a < n THEN s[b - a + 1] ELSE bytes[b]
  <2> HIDE DEF a
  <2>1. s \in Seq(ByteVals) /\ Len(s) = n
    BY DEF DataPiece
  <2>2. QED
    BY <1>0, <1>1, <2>1, Overwrites
<1>3. StoredBytes(n)
  <2> SUFFICES ASSUME NEW b \in 0 .. Top - 1
               PROVE  IF b >= req.addr /\ b - req.addr + 1 \in moved + 1 .. moved + n
                      THEN bytes'[b] = Mem!Promise!DataByte(b - req.addr + 1)
                      ELSE bytes'[b] \in {bytes[b]}
    BY DEF StoredBytes
  <2>1. CASE b >= req.addr /\ b - req.addr + 1 \in moved + 1 .. moved + n
    <3>1. b >= a /\ b - a < n /\ b - a + 1 \in 1 .. n /\ moved + (b - a + 1) = b - req.addr + 1
      BY <1>0, <2>1
    <3> HIDE DEF a
    <3>2. bytes'[b] = s[b - a + 1]
      BY <1>2, <3>1
    <3>3. s[b - a + 1] = Mem!Promise!DataByte(moved + (b - a + 1))
      BY <3>1 DEF DataPiece
    <3>4. QED
      BY <2>1, <3>1, <3>2, <3>3
  <2>2. CASE ~ (b >= req.addr /\ b - req.addr + 1 \in moved + 1 .. moved + n)
    <3>1. ~ (b >= a /\ b - a < n)
      BY <1>0, <2>2
    <3> HIDE DEF a
    <3>2. bytes'[b] = bytes[b]
      BY <1>2, <3>1
    <3>3. QED
      BY <2>2, <3>2
  <2>3. QED
    BY <2>1, <2>2
<1> HIDE DEF a
<1>4. Mem!Promise!Next /\ Beyond'
  BY <1>1, <1>2, <1>3, Stores
<1>5. QED
  BY <1>1, <1>2, <1>4

\* Where gdb's write stands.
LEMMA Written ==
  ASSUME Types, WritesOn
  PROVE  /\ Mem!MemBytesAssumption /\ Top \in Nat \ {0} /\ W \in Nat \ {0} /\ Chunk \in Nat \ {0}
         /\ from \in Nat /\ len \in Nat /\ moved \in Nat /\ req.len \in 0 .. Top
         /\ req.addr \in 0 .. Top - 1 /\ req.addr + req.len <= Top
         /\ req.op = "M" /\ req.op \notin ReadOps /\ Extents(req) = req.len
         /\ from = req.addr + moved /\ moved + len = req.len
         /\ DataPiece(Mem!Remaining, len)
<1>1. /\ Mem!MemBytesAssumption /\ Top \in Nat \ {0} /\ W \in Nat \ {0} /\ Chunk \in Nat \ {0}
      /\ from \in Nat /\ len \in Nat /\ moved \in Nat /\ req.len \in 0 .. Top
      /\ req.addr \in 0 .. Top - 1 /\ req.addr + req.len <= Top
      /\ req.op = "M" /\ req.op \notin ReadOps
      /\ from = req.addr + moved /\ moved + len = req.len
      /\ req.data \in Seq(ByteVals) /\ Len(req.data) = req.len
  BY ByteSizes DEF Types, WritesOn, IsRequest, ReadOps, Mem!Promise!Refused
<1>2. Extents(req) = req.len
  BY <1>1, ExtentIs DEF Types, WritesOn
<1>3. CASE len = 0
  <2>1. Mem!Remaining = <<>>
    BY <1>3 DEF Mem!Remaining
  <2>2. <<>> \in Seq(ByteVals) /\ Len(<<>>) = 0
    OBVIOUS
  <2>3. DataPiece(<<>>, 0)
    BY <2>2 DEF DataPiece
  <2>4. QED
    BY <1>1, <1>2, <1>3, <2>1, <2>3
<1>4. CASE len # 0
  <2> DEFINE s == req.data
             i == Len(s) - len + 1
             t == Mem!Remaining
  <2>1. t = SubSeq(s, i, Len(s))
    BY <1>4 DEF Mem!Remaining
  <2>2. i = moved + 1 /\ i \in Nat \ {0} /\ i <= Len(s) + 1 /\ Len(s) - i + 1 = len /\ Len(s) \in Nat
    <3>1. Len(s) = moved + len
      BY <1>1
    <3> DEFINE l == Len(s)
    <3>2. l = moved + len /\ i = l - len + 1
      BY <3>1
    <3> HIDE DEF l, i
    <3>3. i = moved + 1 /\ i \in Nat \ {0} /\ i <= l + 1 /\ l - i + 1 = len /\ l \in Nat
      BY <1>1, <3>2
    <3>4. QED
      BY <3>3 DEF l
  <2>3. t \in Seq(ByteVals) /\ Len(t) = len /\ \A k \in 1 .. len : t[k] = s[k + i - 1]
    <3> HIDE DEF t, i
    <3>1. s \in Seq(ByteVals)
      BY <1>1
    <3> HIDE DEF s
    <3>2. QED
      BY <2>1, <2>2, <3>1, Pieces
  <2>4. ASSUME NEW k \in 1 .. len
        PROVE  t[k] = Mem!Promise!DataByte(moved + k)
    <3> HIDE DEF t, i
    <3>1. t[k] = s[moved + k]
      <4>1. k + i - 1 = moved + k
        BY <1>1, <2>2
      <4> HIDE DEF s
      <4>2. t[k] = s[k + i - 1]
        BY <2>3
      <4>3. QED
        BY <4>1, <4>2
    <3>2. moved + k <= Len(req.data)
      BY <1>1
    <3>3. QED
      BY <3>1, <3>2 DEF Mem!Promise!DataByte
  <2> HIDE DEF t
  <2>5. DataPiece(t, len)
    BY <2>3, <2>4 DEF DataPiece
  <2>6. QED
    BY <1>1, <1>2, <2>5 DEF t
<1>5. QED
  BY <1>3, <1>4

LEMMA FirstPiece ==
  ASSUME NEW n \in Nat, NEW s, DataPiece(s, n), NEW m \in 0 .. n
  PROVE  DataPiece(SubSeq(s, 1, m), m)
<1> DEFINE t == SubSeq(s, 1, m)
<1>1. s \in Seq(ByteVals) /\ Len(s) = n /\ 1 \in Nat \ {0} /\ m \in Nat /\ 1 <= m + 1 /\ m <= Len(s)
  BY DEF DataPiece
<1>2. t \in Seq(ByteVals) /\ Len(t) = m - 1 + 1 /\ \A k \in 1 .. m - 1 + 1 : t[k] = s[k + 1 - 1]
  <2> HIDE DEF t
  <2>1. t = SubSeq(s, 1, m)
    BY DEF t
  <2>2. QED
    BY <1>1, <2>1, Pieces
<1> HIDE DEF t
<1>3. m - 1 + 1 = m
  BY <1>1
<1>4. \A k \in 1 .. m : t[k] = Mem!Promise!DataByte(moved + k)
  BY <1>1, <1>2, <1>3 DEF DataPiece
<1>5. DataPiece(t, m)
  BY <1>2, <1>3, <1>4 DEF DataPiece
<1>6. QED
  BY <1>5 DEF t

LEMMA HandleRefusedMServes == ASSUME ByteInv, Mem!HandleRefusedM PROVE Served
<1>0. Types /\ at = "M" /\ Untouched("M")
  BY DEF ByteInv, Mem!HandleRefusedM
<1>1. Mem!ReplyWith("nak") /\ (len > MaxGdb \/ from + len > Top)
  BY DEF Mem!HandleRefusedM
<1>2. Mem!Promise!Refused(req) /\ req.op = "M"
  BY <1>0, <1>1 DEF Untouched, Mem!Promise!Refused
<1>3. "nak" \in Mem!Promise!Answers
  BY <1>2 DEF Mem!Promise!Answers
<1>4. QED
  BY <1>0, <1>1, <1>3, Ends

LEMMA HandleWriteServes == ASSUME ByteInv, Mem!HandleWrite PROVE Served
<1>0. Types /\ at = "M" /\ Untouched("M") /\ IsRequest(req) /\ Mem!MemBytesAssumption
  BY DEF ByteInv, Mem!HandleWrite, Types
<1>1. /\ len <= MaxGdb /\ from + len <= Top
      /\ at' = (IF from % W # 0 THEN "partial" ELSE "writeLoop")
      /\ UNCHANGED memVars
      /\ UNCHANGED <<bytes, req, resp, got, from, len, wordsDone, nowBuf, moved, was, asked>>
  BY DEF Mem!HandleWrite, memVars
<1>2. Types'
  <2>1. from' \in Nat /\ len' \in Nat /\ wordsDone' \in Nat /\ resp' = "none"
    BY <1>0, <1>1 DEF Types
  <2>2. QED
    BY <1>0, <1>1, <2>1, TypesKept
<1>3. WritesOn'
  <2>1. ~ Mem!Promise!Refused(req)
    <3>1. len \in Nat /\ from \in Nat /\ MaxGdb \in Nat /\ Top \in Nat
      BY <1>0, ByteSizes DEF Types
    <3>2. QED
      BY <1>0, <1>1, <3>1 DEF Untouched, Mem!Promise!Refused
  <2>2. ~ Mem!Promise!Refused(req)'
    BY <1>1, <2>1, Same
  <2>3. req.op = "M" /\ from = req.addr + moved /\ moved + len = req.len
    BY <1>0 DEF Untouched, IsRequest
  <2>4. QED
    BY <1>1, <2>2, <2>3 DEF WritesOn
<1>4. Beyond'
  BY <1>1, Same DEF ByteInv
<1>5. IF at' = "partial" THEN Front0' ELSE from' % W = 0 /\ at' = "writeLoop"
  BY <1>0, <1>1 DEF Untouched, Front0
<1>6. QED
  BY <1>1, <1>2, <1>3, <1>4, <1>5 DEF Served, ByteInv

LEMMA PartialReadsServes == ASSUME ByteInv, Mem!PartialReads PROVE Served
<1>0. /\ Types /\ at \in {"partial", "writeLoop"} /\ WritesOn /\ (Front0 \/ Back0)
      /\ Mem!MemBytesAssumption /\ len \in Nat /\ W \in Nat \ {0} /\ Top \in Nat
  BY ByteSizes DEF ByteInv, Mem!PartialReads, Types, Back0
<1>1. /\ at' = "merged" /\ nowBuf' = Mem!Words(Word0, 1) /\ UNCHANGED memVars
      /\ UNCHANGED <<bytes, req, resp, got, from, len, wordsDone, moved, was, asked>>
  BY DEF Mem!PartialReads, memVars, Word0
<1>2. Types'
  <2>1. from' \in Nat /\ len' \in Nat /\ wordsDone' \in Nat /\ resp' = "none"
    BY <1>0, <1>1 DEF Types
  <2>2. QED
    BY <1>0, <1>1, <2>1, TypesKept
<1>3. WritesOn'
  BY <1>0, <1>1, Same DEF WritesOn
<1>4. Beyond'
  BY <1>1, Same DEF ByteInv
<1>5. nowBuf' = [k \in 1 .. W |-> bytes[Word0 + k - 1]]
  <2>1. 1 * W = W
    BY <1>0
  <2>2. QED
    BY <1>1, <2>1 DEF Mem!Words
<1>6. \A k \in 1 .. W : bytes[Word0 + k - 1] \in ByteVals
  <2>1. \A k \in 1 .. W : Word0 + k - 1 \in 0 .. Top - 1
    BY <1>0, MergeWord
  <2>2. bytes \in [0 .. Top - 1 -> ByteVals]
    BY <1>0 DEF Types
  <2>3. QED
    BY <2>1, <2>2
<1>7. MergeRight'
  <2>1. Word0' = Word0 /\ Front0' = Front0 /\ Back0' = Back0
    BY <1>1 DEF Word0, Front0, Back0
  <2>2. QED
    BY <1>0, <1>1, <1>5, <1>6, <2>1 DEF MergeRight
<1>8. QED
  BY <1>1, <1>2, <1>3, <1>4, <1>7 DEF Served, ByteInv

LEMMA WriteGoesOn ==
  ASSUME Types, WritesOn, at # "idle", NEW n \in Nat, n <= len, Mem!Promise!Next, Beyond',
         bytes' \in [0 .. Top - 1 -> ByteVals], moved' = moved + n,
         UNCHANGED <<req, resp, got, wordsDone, nowBuf, was, asked>>,
         Mem!Fail \/ (Mem!Advance(n) /\ (len - n = 0 \/ (from + n) % W = 0))
  PROVE  Served
<1>0. resp = "none" /\ from \in Nat /\ len \in Nat /\ moved \in Nat /\ wordsDone \in Nat
  BY DEF Types
<1>1. CASE Mem!Fail
  <2>1. at' = "failed" /\ from' = from /\ len' = len
    BY <1>1 DEF Mem!Fail
  <2>2. Types'
    BY <1>0, <2>1 DEF Types
  <2>3. req'.op = "M" /\ ~ Mem!Promise!Refused(req)'
    BY DEF WritesOn, Mem!Promise!Refused
  <2>4. QED
    BY <2>1, <2>2, <2>3 DEF Served, ByteInv
<1>2. CASE Mem!Advance(n) /\ (len - n = 0 \/ (from + n) % W = 0)
  <2>1. at' = "writeLoop" /\ from' = from + n /\ len' = len - n
    BY <1>2 DEF Mem!Advance
  <2>2. from' \in Nat /\ len' \in Nat /\ moved' \in Nat /\ (len' = 0 \/ from' % W = 0)
    BY <1>0, <1>2, <2>1
  <2>3. Types'
    BY <1>0, <2>1, <2>2 DEF Types
  <2>4. WritesOn'
    <3>1. req'.op = "M" /\ ~ Mem!Promise!Refused(req)'
      BY DEF WritesOn, Mem!Promise!Refused
    <3>2. from' = req'.addr + moved' /\ moved' + len' = req'.len
      <4>1. req.addr \in Nat
        BY ByteSizes DEF Types, IsRequest
      <4>2. QED
        BY <1>0, <2>1, <4>1 DEF WritesOn
    <3>3. QED
      BY <3>1, <3>2 DEF WritesOn
  <2>5. QED
    BY <2>1, <2>2, <2>3, <2>4 DEF Served, ByteInv
<1>3. QED
  BY <1>1, <1>2

LEMMA Aligned ==
  ASSUME NEW w \in Nat \ {0}, NEW a \in Nat, a % w = 0, NEW n \in Nat
  PROVE  (a + n * w) % w = 0
<1> DEFINE q == a \div w
<1>1. q \in Nat /\ a = w * q + (a % w)
  BY Dividing
<1>2. a = w * q
  <2> DEFINE k == w * q
  <2>1. k \in Nat
    BY <1>1
  <2> HIDE DEF q, k
  <2>2. a = k
    <3>1. a = k + (a % w)
      BY <1>1 DEF k
    <3>2. QED
      BY <2>1, <3>1
  <2>3. QED
    BY <2>2 DEF k
<1> HIDE DEF q
<1>3. a + n * w = w * (q + n) + 0 /\ q + n \in Nat
  BY <1>1, <1>2
<1>4. (w * (q + n) + 0) % w = 0
  BY <1>3, Divided
<1>5. QED
  BY <1>3, <1>4

LEMMA WriteWordsServes == ASSUME ByteInv, Mem!WriteWords PROVE Served
<1>0. /\ Types /\ WritesOn /\ at = "writeLoop" /\ len >= W /\ Beyond /\ resp = "none"
  BY DEF ByteInv, Mem!WriteWords, Types
<1>1. /\ Top \in Nat \ {0} /\ W \in Nat \ {0} /\ Chunk \in Nat \ {0}
      /\ from \in Nat /\ len \in Nat /\ moved \in Nat
      /\ req.op \notin ReadOps /\ Extents(req) = req.len
      /\ from = req.addr + moved /\ moved + len = req.len
      /\ DataPiece(Mem!Remaining, len)
  BY <1>0, Written
<1>2. from % W = 0
  BY <1>0, <1>1 DEF ByteInv
<1>3. UNCHANGED <<req, resp, got, wordsDone, nowBuf, was, asked>>
  BY DEF Mem!WriteWords
<1> DEFINE c == Mem!Min({len \div W, Chunk})
<1>4. c \in Nat /\ \A n \in 0 .. c : n * W \in 0 .. len
  <2> DEFINE q == len \div W
             r == len % W
  <2>1. q \in Nat /\ r \in 0 .. W - 1 /\ len = W * q + r
    BY <1>1, Dividing
  <2>2. c = IF q <= Chunk THEN q ELSE Chunk
    <3> HIDE DEF q
    <3>1. c = Mem!Min({q, Chunk})
      BY DEF q
    <3> HIDE DEF c
    <3>2. QED
      BY <1>1, <2>1, <3>1, LeastTwo
  <2> HIDE DEF c, q, r
  <2>3. c \in Nat /\ c <= q
    BY <1>1, <2>1, <2>2
  <2>4. ASSUME NEW n \in 0 .. c
        PROVE  n * W \in 0 .. len
    <3> DEFINE x == n * W
               y == W * q
    <3>1. x \in Nat /\ y \in Nat /\ x <= y
      <4>1. n \in Nat /\ n <= q
        BY <2>1, <2>3
      <4>2. n * W <= q * W
        BY <1>1, <2>1, <4>1, Scaling
      <4>3. q * W = y /\ x \in Nat /\ y \in Nat
        BY <1>1, <2>1, <4>1
      <4>4. QED
        BY <4>2, <4>3
    <3>2. len = y + r
      BY <2>1
    <3> HIDE DEF x, y
    <3>3. x \in 0 .. len
      BY <1>1, <2>1, <3>1, <3>2
    <3>4. QED
      BY <3>3 DEF x
  <2>5. QED
    BY <2>3, <2>4
<1>5. ASSUME NEW n \in 0 .. c, Mem!Stored(from, SubSeq(Mem!Remaining, 1, n * W), n * W),
             Mem!Fail \/ Mem!Advance(n * W)
      PROVE  Served
  <2> DEFINE m == n * W
             s == SubSeq(Mem!Remaining, 1, m)
  <2>1. m \in 0 .. len /\ m \in Nat /\ n \in Nat
    BY <1>4
  <2>2. (from + m) % W = 0
    BY <1>1, <1>2, <2>1, Aligned
  <2>3. Mem!Stored(req.addr + moved, s, m) /\ (Mem!Fail \/ Mem!Advance(m))
    BY <1>1, <1>5
  <2> HIDE DEF m, c
  <2>4. DataPiece(s, m)
    BY <1>1, <2>1, FirstPiece
  <2> HIDE DEF s
  <2>5. moved + m <= Extents(req) /\ m <= len
    BY <1>1, <2>1
  <2>6. Mem!Promise!Next /\ Beyond' /\ bytes' \in [0 .. Top - 1 -> ByteVals] /\ moved' = moved + m
    BY <1>0, <1>1, <1>3, <2>1, <2>3, <2>4, <2>5, PlainStores
  <2>7. QED
    BY <1>0, <1>3, <2>1, <2>2, <2>3, <2>5, <2>6, WriteGoesOn
<1>6. \/ Mem!Stored(from, SubSeq(Mem!Remaining, 1, c * W), c * W) /\ Mem!Advance(c * W)
      \/ \E n \in 1 .. (c * W) \div W :
           Mem!Stored(from, SubSeq(Mem!Remaining, 1, n * W), n * W) /\ Mem!Fail
  BY DEF Mem!WriteWords
<1>7. (c * W) \div W = c
  <2> HIDE DEF c
  <2>1. c * W = W * c + 0
    BY <1>1, <1>4
  <2>2. (W * c + 0) \div W = c
    BY <1>1, <1>4, Divided
  <2>3. QED
    BY <2>1, <2>2
<1> HIDE DEF c
<1>8. c \in 0 .. c /\ \A n \in 1 .. c : n \in 0 .. c
  BY <1>4
<1>9. QED
  BY <1>5, <1>6, <1>7, <1>8

LEMMA WriteDoneServes == ASSUME ByteInv, Mem!WriteDone PROVE Served
<1>0. /\ Types /\ WritesOn /\ at = "writeLoop" /\ len = 0 /\ Mem!ReplyWith("ok")
  BY DEF ByteInv, Mem!WriteDone
<1>1. req.op = "M" /\ Extents(req) = req.len /\ moved = req.len
  BY <1>0, Written
<1>2. "ok" \in Mem!Promise!Answers
  BY <1>0, <1>1 DEF Mem!Promise!Answers, Mem!Promise!Complete, Extents, WritesOn
<1>3. QED
  BY <1>0, <1>2, Ends

LEMMA WriteFailsServes == ASSUME ByteInv, Mem!WriteFails PROVE Served
<1>0. at # "idle" /\ Mem!ReplyWith("error") /\ req.op \in {"M", "upload"} /\ ~ Mem!Promise!Refused(req)
  BY DEF ByteInv, Mem!WriteFails, WritesOn
<1>1. "error" \in Mem!Promise!Answers
  BY <1>0 DEF Mem!Promise!Answers
<1>2. QED
  BY <1>0, <1>1, Ends

\* A word that is merged: the request's bytes in it and, beside them, the bytes
\* that were read, which lie at an end of what the request writes.
LEMMA MergeSpan ==
  ASSUME Types, WritesOn, MergeRight
  PROVE  /\ Mem!PartialLen \in 0 .. len
         /\ len - Mem!PartialLen = 0 \/ (from + Mem!PartialLen) % W = 0
         /\ Word0 \in Nat /\ from - Word0 \in 0 .. W - 1 /\ from - Word0 = from % W
         /\ (from - Word0) + Mem!PartialLen <= W
<1>0. /\ Mem!MemBytesAssumption /\ W \in Nat \ {0} /\ from \in 0 .. Top - 1 /\ len \in Nat /\ from \in Nat
  BY Written, MergeWord DEF MergeRight
<1> DEFINE r == from % W
           q == from \div W
           x == W * q
           p == Mem!PartialLen
<1>1. r \in 0 .. W - 1 /\ from - r \in Nat /\ from - r = x /\ q \in Nat /\ Word0 = from - r
  BY <1>0, Dividing DEF Word0
<1>2. p = IF len <= W - r THEN len ELSE W - r
  <2>1. W - r \in Nat
    BY <1>0, <1>1
  <2>2. p = Mem!Min({len, W - r})
    BY DEF Mem!PartialLen
  <2> HIDE DEF p, r
  <2>3. QED
    BY <1>0, <2>1, <2>2, LeastTwo
<1>3. from + (W - r) = W * (q + 1) + 0 /\ (W * (q + 1) + 0) % W = 0
  <2>1. W * (q + 1) = x + W
    BY <1>0, <1>1
  <2>2. (W * (q + 1) + 0) % W = 0
    <3> DEFINE u == q + 1
    <3>1. u \in Nat /\ 0 \in 0 .. W - 1
      BY <1>0, <1>1
    <3> HIDE DEF u
    <3>2. (W * u + 0) % W = 0
      BY <3>1, <1>0, Divided
    <3>3. QED
      BY <3>2 DEF u
  <2>3. x + W = from + (W - r) /\ x \in Nat
    <3>1. x = from - r /\ from - r \in Nat
      BY <1>1
    <3> HIDE DEF x, r
    <3>2. QED
      BY <3>1, <1>0, <1>1
  <2>4. W * (q + 1) + 0 = x + W
    BY <2>1, <2>3, <1>0
  <2>5. QED
    BY <2>2, <2>3, <2>4
<1>4. (from + (W - r)) % W = 0
  BY <1>3
<1>5. p \in 0 .. len /\ (len - p = 0 \/ p = W - r) /\ r + p <= W
  <2> HIDE DEF p, r
  <2>1. QED
    BY <1>0, <1>1, <1>2
<1>6. from - Word0 = r
  <2> HIDE DEF r
  <2>1. QED
    BY <1>0, <1>1
<1>7. Word0 \in Nat
  BY <1>1
<1>8. len - p = 0 \/ (from + p) % W = 0
  <2> HIDE DEF p
  <2>1. QED
    BY <1>4, <1>5
<1>9. QED
  BY <1>1, <1>5, <1>6, <1>7, <1>8

LEMMA BesideRight ==
  ASSUME Types, WritesOn, MergeRight, NEW b \in 0 .. Top - 1, b - Word0 \in 0 .. W - 1,
         b < from \/ b >= from + Mem!PartialLen
  PROVE  b \in Mem!Promise!Beside(req)
<1>0. /\ Mem!MemBytesAssumption /\ Top \in Nat \ {0} /\ W \in Nat \ {0} /\ from \in Nat /\ len \in Nat
      /\ moved \in Nat /\ req.len \in 0 .. Top /\ req.addr \in 0 .. Top - 1
      /\ req.op = "M" /\ Extents(req) = req.len /\ from = req.addr + moved /\ moved + len = req.len
      /\ from \in 0 .. Top - 1 /\ req.addr + req.len <= Top
  BY Written, MergeWord DEF MergeRight
<1> DEFINE p == Mem!PartialLen
           last == req.addr + Extents(req) - 1
<1>1. /\ p \in 0 .. len /\ Word0 \in Nat /\ from - Word0 \in 0 .. W - 1
      /\ from - Word0 = from % W /\ (from - Word0) + p <= W
      /\ p = len \/ p = W - (from - Word0)
  <2>1. /\ p \in 0 .. len /\ Word0 \in Nat /\ from - Word0 \in 0 .. W - 1
        /\ from - Word0 = from % W /\ (from - Word0) + p <= W
    BY MergeSpan
  <2>2. p = len \/ p = W - (from - Word0)
    <3>1. W - (from % W) \in Nat
      BY <1>0, <2>1
    <3>2. p = Mem!Min({len, W - (from % W)})
      BY DEF Mem!PartialLen
    <3> DEFINE r == from % W
    <3>3. p = Mem!Min({len, W - r}) /\ W - r \in Nat /\ r = from - Word0
      BY <2>1, <3>1, <3>2
    <3> HIDE DEF p, r
    <3>4. p = len \/ p = W - r
      BY <1>0, <3>3, LeastTwo
    <3>5. QED
      BY <3>3, <3>4
  <2>3. QED
    BY <2>1, <2>2
<1>2. \A a \in 0 .. Top - 1 : a - Word0 \in 0 .. W - 1 => a \div W = from \div W
  BY <1>0, WordIn DEF Word0
<1>3. b \div W = from \div W
  BY <1>2
<1>4. Front0 => from = req.addr
  BY <1>0 DEF Front0
<1>5. Back0 => last \div W = from \div W
  <2> SUFFICES ASSUME Back0
               PROVE  last \div W = from \div W
    OBVIOUS
  <2>1. 0 < len /\ len < W /\ from - Word0 = 0
    BY <1>1 DEF Back0
  <2>2. last = from + len - 1
    <3>1. req.addr \in Nat /\ moved \in Nat /\ len \in Nat /\ Extents(req) = moved + len /\ from = req.addr + moved
      BY <1>0
    <3>2. QED
      BY <3>1
  <2>3. from + len <= Top /\ from \in Nat /\ len \in Nat /\ W \in Nat /\ Top \in Nat /\ Word0 \in Nat
    BY <1>0, <1>1
  <2> HIDE DEF last
  <2>4. last \in 0 .. Top - 1 /\ last - Word0 \in 0 .. W - 1
    <3>1. from = Word0
      BY <2>1, <2>3
    <3>2. last \in 0 .. Top - 1
      BY <2>1, <2>2, <2>3
    <3>3. last - from \in 0 .. W - 1
      BY <2>1, <2>2, <2>3
    <3>4. QED
      BY <3>1, <3>2, <3>3
  <2>5. QED
    BY <1>2, <2>4
<1>6. b \notin req.addr .. last
  <2>1. last = from + len - 1
    <3>1. req.addr \in Nat /\ moved \in Nat /\ len \in Nat /\ Extents(req) = moved + len /\ from = req.addr + moved
      BY <1>0
    <3>2. QED
      BY <3>1
  <2> HIDE DEF last, p
  <2>2. CASE b < from
    <3>1. Front0
      <4>1. from - Word0 # 0
        BY <1>0, <1>1, <2>2
      <4>2. QED
        BY <4>1, <1>1 DEF MergeRight, Back0
    <3>2. QED
      BY <1>0, <1>4, <2>2, <3>1
  <2>3. CASE b >= from + p
    BY <1>0, <1>1, <2>1, <2>3
  <2>4. QED
    BY <2>2, <2>3 DEF p
<1>7. \E e \in {req.addr, last} : b \div W = e \div W
  BY <1>3, <1>4, <1>5 DEF MergeRight
<1>8. QED
  BY <1>0, <1>6, <1>7, ByteSizes DEF Mem!Promise!Beside, Extents

LEMMA PartialWritesServes == ASSUME ByteInv, Mem!PartialWrites PROVE Served
<1>0. /\ Types /\ WritesOn /\ MergeRight /\ at = "merged" /\ Beyond /\ resp = "none"
  BY DEF ByteInv, Mem!PartialWrites, Types
<1> DEFINE p == Mem!PartialLen
           r == from % W
           f == Mem!Merged
<1>1. /\ Mem!MemBytesAssumption /\ Top \in Nat \ {0} /\ W \in Nat \ {0}
      /\ from \in Nat /\ len \in Nat /\ moved \in Nat /\ req.addr \in Nat
      /\ req.op \notin ReadOps /\ Extents(req) = req.len
      /\ from = req.addr + moved /\ moved + len = req.len
      /\ DataPiece(Mem!Remaining, len)
  BY <1>0, Written
<1>2. /\ p \in 0 .. len /\ p \in Nat /\ (len - p = 0 \/ (from + p) % W = 0)
      /\ Word0 \in Nat /\ r \in 0 .. W - 1 /\ from = Word0 + r /\ r + p <= W
  <2>1. /\ p \in 0 .. len /\ (len - p = 0 \/ (from + p) % W = 0)
        /\ Word0 \in Nat /\ from - Word0 \in 0 .. W - 1 /\ from - Word0 = r /\ (from - Word0) + p <= W
    BY <1>0, MergeSpan
  <2> HIDE DEF p, r
  <2>2. QED
    BY <1>1, <2>1
<1>3. UNCHANGED <<req, resp, got, wordsDone, nowBuf, was, asked>>
  BY DEF Mem!PartialWrites
<1>4. f = [k \in 1 .. W |-> IF k \in r + 1 .. r + p THEN Mem!Remaining[k - r] ELSE nowBuf[k]]
  BY DEF Mem!Merged
<1>5. bytes' = Mem!Overwritten(Word0, f) /\ moved' = moved + p
      /\ (Mem!Fail \/ Mem!Advance(p))
  BY DEF Mem!PartialWrites, Mem!Stored, Word0
<1> HIDE DEF p, r, f
<1>6. \A k \in r + 1 .. r + p : /\ Mem!Remaining[k - r] = Mem!Promise!DataByte(moved + (k - r))
                                /\ Mem!Remaining[k - r] \in ByteVals
  <2> SUFFICES ASSUME NEW k \in r + 1 .. r + p
               PROVE  /\ Mem!Remaining[k - r] = Mem!Promise!DataByte(moved + (k - r))
                      /\ Mem!Remaining[k - r] \in ByteVals
    OBVIOUS
  <2>1. k - r \in 1 .. len
    BY <1>1, <1>2
  <2>2. Mem!Remaining \in Seq(ByteVals) /\ Len(Mem!Remaining) = len
    BY <1>1 DEF DataPiece
  <2>3. Mem!Remaining[k - r] \in ByteVals
    BY <2>1, <2>2, ElementOfSeq
  <2>4. QED
    BY <1>1, <2>1, <2>3 DEF DataPiece
<1>7. f \in Seq(ByteVals) /\ Len(f) = W
  <2>1. \A k \in 1 .. W : (IF k \in r + 1 .. r + p THEN Mem!Remaining[k - r] ELSE nowBuf[k]) \in ByteVals
    BY <1>0, <1>6 DEF MergeRight
  <2>2. QED
    BY <1>1, <1>4, <2>1
<1>8. /\ bytes' \in [0 .. Top - 1 -> ByteVals]
      /\ \A b \in 0 .. Top - 1 : bytes'[b] = IF b >= Word0 /\ b - Word0 < W THEN f[b - Word0 + 1] ELSE bytes[b]
  BY <1>0, <1>2, <1>5, <1>7, Overwrites
<1>9. ASSUME NEW b \in 0 .. Top - 1, b >= req.addr /\ b - req.addr + 1 \in moved + 1 .. moved + p
      PROVE  bytes'[b] = Mem!Promise!DataByte(b - req.addr + 1)
  <2> DEFINE k == b - Word0 + 1
  <2>1. /\ k \in r + 1 .. r + p /\ k \in 1 .. W /\ moved + (k - r) = b - req.addr + 1
        /\ b >= Word0 /\ b - Word0 < W
    BY <1>1, <1>2, <1>9
  <2> HIDE DEF k
  <2>2. bytes'[b] = f[k]
    BY <1>8, <2>1 DEF k
  <2>3. f[k] = Mem!Remaining[k - r]
    BY <1>4, <2>1
  <2>4. QED
    BY <1>6, <2>1, <2>2, <2>3
<1>10. ASSUME NEW b \in 0 .. Top - 1, ~ (b >= req.addr /\ b - req.addr + 1 \in moved + 1 .. moved + p)
       PROVE  bytes'[b] \in {bytes[b]} \cup IF b \in Mem!Promise!Beside(req) THEN {was[b]} ELSE {}
  <2>1. CASE ~ (b >= Word0 /\ b - Word0 < W)
    BY <1>8, <2>1
  <2>2. CASE b >= Word0 /\ b - Word0 < W
    <3> DEFINE k == b - Word0 + 1
    <3>1. k \in 1 .. W /\ k \notin r + 1 .. r + p /\ b = Word0 + k - 1 /\ b - Word0 \in 0 .. W - 1
          /\ (b < from \/ b >= from + p)
      BY <1>1, <1>2, <1>10, <2>2
    <3> HIDE DEF k
    <3>2. bytes'[b] = f[k]
      BY <1>8, <2>2 DEF k
    <3>3. f[k] = nowBuf[k]
      BY <1>4, <3>1
    <3>4. nowBuf[k] \in {bytes[b], was[b]}
      BY <1>0, <3>1 DEF MergeRight
    <3>5. b \in Mem!Promise!Beside(req)
      BY <1>0, <3>1, BesideRight DEF p
    <3>6. QED
      BY <3>2, <3>3, <3>4, <3>5
  <2>3. QED
    BY <2>1, <2>2
<1>11. StoredBytes(p)
  BY <1>9, <1>10 DEF StoredBytes
<1>12. moved + p <= Extents(req) /\ p <= len
  BY <1>1, <1>2
<1>13. Mem!Promise!Next /\ Beyond'
  BY <1>0, <1>1, <1>2, <1>3, <1>5, <1>8, <1>11, <1>12, Stores
<1>14. QED
  BY <1>0, <1>2, <1>3, <1>5, <1>8, <1>12, <1>13, WriteGoesOn

LEMMA WritingServes == ASSUME ByteInv, Mem!Writing PROVE Served
BY HandleRefusedMServes, HandleWriteServes, PartialReadsServes, PartialWritesServes, WriteWordsServes,
   WriteDoneServes, WriteFailsServes DEF Mem!Writing

-----------------------------------------------------------------------------
(* Uploads                                                                   *)

LEMMA Uploaded ==
  ASSUME Types, UploadsOn
  PROVE  /\ Top \in Nat \ {0} /\ W \in Nat \ {0} /\ Chunk \in Nat \ {0}
         /\ wordsDone \in Nat /\ moved \in Nat /\ req.addr \in Nat /\ req.op = "upload" /\ req.op \notin ReadOps
         /\ Mem!wordsTotal \in Nat /\ Extents(req) = Mem!wordsTotal * W /\ from = req.addr
         /\ wordsDone <= Mem!wordsTotal /\ moved = wordsDone * W /\ W * wordsDone = moved
         /\ req.data \in Seq(ByteVals) /\ Len(req.data) = FileLen /\ FileLen \in Nat
<1>1. /\ Top \in Nat \ {0} /\ W \in Nat \ {0} /\ Chunk \in Nat \ {0} /\ FileLen \in Nat
      /\ wordsDone \in Nat /\ moved \in Nat /\ req.addr \in Nat /\ req.op = "upload" /\ from = req.addr
      /\ wordsDone <= Mem!wordsTotal /\ moved = wordsDone * W
      /\ req.data \in Seq(ByteVals) /\ Len(req.data) = FileLen
      /\ len = req.len /\ len \in Nat /\ req.len <= Top - W /\ Mem!MemBytesAssumption /\ IsRequest(req)
  BY ByteSizes DEF Types, UploadsOn, IsRequest
<1> DEFINE x == len + W - 1
<1>2. x \in Nat /\ x < Top
  <2>1. len \in Nat /\ len <= Top - W /\ W \in Nat \ {0} /\ Top \in Nat
    BY <1>1
  <2>2. QED
    BY <2>1
<1>3. x % Top = x
  <2>0. Top \in Nat \ {0} /\ 0 \in Nat
    BY <1>1
  <2> HIDE DEF x
  <2>1. x = Top * 0 + x /\ x \in 0 .. Top - 1
    BY <1>2, <2>0
  <2>2. (Top * 0 + x) % Top = x
    BY <2>0, <2>1, Divided
  <2>3. QED
    BY <2>1, <2>2
<1>4. Mem!wordsTotal = x \div W
  BY <1>3 DEF Mem!wordsTotal
<1>5. Mem!wordsTotal \in Nat
  <2> HIDE DEF x
  <2>1. QED
    BY <1>1, <1>2, <1>4, Dividing
<1>6. Extents(req) = ((req.len + W - 1) \div W) * W
  BY <1>1, ExtentIs
<1>7. Extents(req) = Mem!wordsTotal * W
  BY <1>1, <1>4, <1>6
<1>8. W * wordsDone = moved
  BY <1>1
<1>9. QED
  BY <1>1, <1>5, <1>7, <1>8 DEF ReadOps

LEMMA FilePiece ==
  ASSUME Types, UploadsOn, NEW m \in Nat
  PROVE  DataPiece(Mem!readFileBytes(W * wordsDone, m), m)
<1> DEFINE s == Mem!readFileBytes(W * wordsDone, m)
<1>0. /\ moved \in Nat /\ W * wordsDone = moved /\ req.data \in Seq(ByteVals) /\ Len(req.data) = FileLen
      /\ FileLen \in Nat
  BY Uploaded
<1>1. s = [k \in 1 .. m |-> IF moved + k <= FileLen THEN req.data[moved + k] ELSE Zero]
  BY <1>0 DEF Mem!readFileBytes
<1>2. \A k \in 1 .. m : Mem!Promise!DataByte(moved + k)
                          = IF moved + k <= FileLen THEN req.data[moved + k] ELSE Zero
  BY <1>0 DEF Mem!Promise!DataByte
<1>3. \A k \in 1 .. m : (IF moved + k <= FileLen THEN req.data[moved + k] ELSE Zero) \in ByteVals
  <2> SUFFICES ASSUME NEW k \in 1 .. m, moved + k <= FileLen
               PROVE  req.data[moved + k] \in ByteVals
    BY DEF ByteVals
  <2>1. moved + k \in 1 .. Len(req.data)
    BY <1>0
  <2>2. QED
    BY <1>0, <2>1, ElementOfSeq
<1> HIDE DEF s
<1>4. s \in Seq(ByteVals) /\ Len(s) = m /\ \A k \in 1 .. m : s[k] = Mem!Promise!DataByte(moved + k)
  BY <1>1, <1>2, <1>3
<1>5. DataPiece(s, m)
  BY <1>4 DEF DataPiece
<1>6. QED
  BY <1>5 DEF s

LEMMA UploadChunkServes == ASSUME ByteInv, Mem!UploadChunk PROVE Served
<1>0. /\ Types /\ UploadsOn /\ at = "upload" /\ wordsDone < Mem!wordsTotal /\ Beyond /\ resp = "none"
  BY DEF ByteInv, Mem!UploadChunk, Types
<1>1. /\ Top \in Nat \ {0} /\ W \in Nat \ {0} /\ Chunk \in Nat \ {0}
      /\ wordsDone \in Nat /\ moved \in Nat /\ req.addr \in Nat /\ req.op = "upload" /\ req.op \notin ReadOps
      /\ Mem!wordsTotal \in Nat /\ Extents(req) = Mem!wordsTotal * W /\ from = req.addr
      /\ moved = wordsDone * W /\ W * wordsDone = moved
  BY <1>0, Uploaded
<1>2. UNCHANGED <<req, resp, got, from, len, nowBuf, was, asked>>
  BY DEF Mem!UploadChunk
<1> DEFINE c == Mem!Min({Mem!wordsTotal - wordsDone, Chunk})
<1>3. c \in Nat /\ wordsDone + c <= Mem!wordsTotal
  <2> DEFINE d == Mem!wordsTotal - wordsDone
  <2>1. d \in Nat /\ wordsDone + d = Mem!wordsTotal
    BY <1>0, <1>1
  <2>2. c = Mem!Min({d, Chunk})
    OBVIOUS
  <2> HIDE DEF c, d
  <2>3. c = IF d <= Chunk THEN d ELSE Chunk
    BY <1>1, <2>1, <2>2, LeastTwo
  <2>4. QED
    BY <1>1, <2>1, <2>3
<1>4. \/ /\ Mem!Stored(from + W * wordsDone, Mem!readFileBytes(W * wordsDone, c * W), c * W)
         /\ wordsDone' = wordsDone + c /\ at' = at
      \/ \E n \in 1 .. c :
           /\ Mem!Stored(from + W * wordsDone, Mem!readFileBytes(W * wordsDone, n * W), n * W)
           /\ at' = "failed" /\ wordsDone' = wordsDone
  BY DEF Mem!UploadChunk
<1> HIDE DEF c
<1>5. ASSUME NEW n \in 0 .. c,
             Mem!Stored(from + W * wordsDone, Mem!readFileBytes(W * wordsDone, n * W), n * W),
             (wordsDone' = wordsDone + n /\ at' = at) \/ (at' = "failed" /\ wordsDone' = wordsDone)
      PROVE  Served
  <2> DEFINE m == n * W
             s == Mem!readFileBytes(W * wordsDone, m)
             e == Mem!wordsTotal * W
             k == (wordsDone + n) * W
  <2>1. m \in Nat /\ moved + m <= Extents(req) /\ k = moved + m
    <3>1. n \in Nat /\ wordsDone + n <= Mem!wordsTotal
      BY <1>1, <1>3
    <3>2. m \in Nat /\ k = moved + m
      BY <1>1, <3>1
    <3>3. k <= e
      <4>1. wordsDone + n \in Nat
        BY <1>1, <3>1
      <4>2. QED
        BY <1>1, <3>1, <4>1, Scaling
    <3>4. Extents(req) = e
      BY <1>1
    <3> HIDE DEF m, k, e
    <3>5. QED
      BY <3>2, <3>3, <3>4
  <2>2. Mem!Stored(req.addr + moved, s, m)
    BY <1>1, <1>5
  <2> HIDE DEF m, e
  <2>3. DataPiece(s, m)
    BY <1>0, <2>1, FilePiece
  <2> HIDE DEF s, k
  <2>4. Mem!Promise!Next /\ Beyond' /\ bytes' \in [0 .. Top - 1 -> ByteVals] /\ moved' = moved + m
    BY <1>0, <1>1, <1>2, <2>1, <2>2, <2>3, PlainStores
  <2>5. wordsDone' \in Nat /\ moved' \in Nat
    BY <1>1, <1>5, <2>1, <2>4
  <2>6. Types'
    BY <1>0, <1>2, <1>5, <2>4, <2>5 DEF Types
  <2>7. Mem!Promise!Refused(req)' = Mem!Promise!Refused(req) /\ ~ Mem!Promise!Refused(req)
    BY <1>1, <1>2 DEF Mem!Promise!Refused
  <2>8. CASE at' = "failed"
    BY <1>1, <1>2, <2>4, <2>6, <2>7, <2>8 DEF Served, ByteInv
  <2>9. CASE wordsDone' = wordsDone + n /\ at' = at
    <3>1. Mem!wordsTotal' = Mem!wordsTotal
      BY <1>2 DEF Mem!wordsTotal
    <3>2. moved' = wordsDone' * W
      BY <2>1, <2>4, <2>9 DEF k
    <3>3. wordsDone' <= Mem!wordsTotal
      BY <1>1, <1>3, <2>9
    <3>4. UploadsOn'
      BY <1>0, <1>2, <3>1, <3>2, <3>3 DEF UploadsOn
    <3>5. QED
      BY <1>0, <2>4, <2>6, <2>9, <3>4 DEF Served, ByteInv
  <2>10. QED
    BY <1>5, <2>8, <2>9
<1>6. c \in 0 .. c /\ \A n \in 1 .. c : n \in 0 .. c
  BY <1>3
<1>7. QED
  BY <1>4, <1>5, <1>6

\* A file that cannot be read keeps the tool, and the target as it is.
LEMMA FileUnreadableServes == ASSUME ByteInv, Mem!FileUnreadable PROVE Served
<1>1. /\ at' = "spin"
      /\ UNCHANGED <<bytes, req, resp, got, from, len, wordsDone, nowBuf, moved, was, asked, touches>>
  BY DEF Mem!FileUnreadable
<1>2. Types /\ Beyond /\ at = "upload"
  BY DEF ByteInv, Mem!FileUnreadable
<1>3. Types'
  BY <1>1, <1>2 DEF Types
<1>4. Beyond'
  BY <1>1, <1>2 DEF Beyond
<1>5. ByteInv'
  BY <1>1, <1>3, <1>4 DEF ByteInv
<1>6. UNCHANGED memVars
  BY <1>1 DEF memVars
<1>7. QED
  BY <1>5, <1>6 DEF Served

LEMMA UploadFailsServes == ASSUME ByteInv, Mem!UploadFails PROVE Served
<1>0. at = "upload" /\ UploadsOn /\ Mem!ReplyWith("error")
  BY DEF ByteInv, Mem!UploadFails
<1>1. "error" \in Mem!Promise!Answers
  BY <1>0 DEF Mem!Promise!Answers, Mem!Promise!Refused, UploadsOn
<1>2. QED
  BY <1>0, <1>1, Ends

LEMMA UploadDoneServes == ASSUME ByteInv, Mem!UploadDone PROVE Served
<1>0. at = "upload" /\ Types /\ UploadsOn /\ Mem!ReplyWith("ok") /\ wordsDone = Mem!wordsTotal
  BY DEF ByteInv, Mem!UploadDone
<1>1. req.op = "upload" /\ moved = Extents(req)
  BY <1>0, Uploaded
<1>2. "ok" \in Mem!Promise!Answers
  BY <1>1 DEF Mem!Promise!Answers, Mem!Promise!Complete, Mem!Promise!Refused, Extents
<1>3. QED
  BY <1>0, <1>2, Ends

-----------------------------------------------------------------------------

LEMMA BytesNext == ByteInv /\ [Mem!Next]_(Mem!vars) => Served
<1> SUFFICES ASSUME ByteInv, [Mem!Next]_(Mem!vars)
             PROVE  Served
  OBVIOUS
<1>1. CASE Mem!Ask
  BY <1>1, AskServes
<1>2. CASE Mem!Touch
  BY <1>2, TouchServes
<1>3. CASE Mem!Reading
  BY <1>3, ReadingServes
<1>4. CASE Mem!Writing
  BY <1>4, WritingServes
<1>5. CASE Mem!Uploading
  BY <1>5, UploadChunkServes, FileUnreadableServes, UploadFailsServes, UploadDoneServes DEF Mem!Uploading
<1>6. CASE UNCHANGED Mem!vars
  <2>1. UNCHANGED <<bytes, req, resp, got, at, from, len, wordsDone, nowBuf, moved, was, asked, touches>>
    BY <1>6 DEF Mem!vars
  <2>2. /\ Types' = Types /\ (\A op : Untouched(op)' = Untouched(op))
        /\ ReadsOn' = ReadsOn /\ WritesOn' = WritesOn /\ Front0' = Front0 /\ UploadsOn' = UploadsOn
        /\ MergeRight' = MergeRight /\ Beyond' = Beyond
        /\ Mem!Promise!Refused(req)' = Mem!Promise!Refused(req)
    BY <2>1 DEF Types, Untouched, ReadsOn, ReadSoFar, WritesOn, Front0, Back0, Word0, MergeRight, Beyond,
       UploadsOn, Extents, Mem!Promise!Extent, Mem!Promise!Refused, Mem!readWords, Mem!skipFront, Mem!wordsTotal,
       IsRequest
  <2>3. ByteInv'
    BY <2>1, <2>2 DEF ByteInv
  <2>4. UNCHANGED memVars
    BY <2>1 DEF memVars
  <2>5. QED
    BY <2>3, <2>4 DEF Served
<1>7. QED
  BY <1>1, <1>2, <1>3, <1>4, <1>5, <1>6 DEF Mem!Next, Mem!Tool

\* Whatever the sizes, the alignment, the length of a request and the failures,
\* the tool keeps what ByteMemory promises: memioRead hands over the bytes asked
\* for and no others, gdb's writes put back what stands beside them in a word,
\* memioWriteFromFile stores the file, and no success stands for half of it:
\* ImplementsBytes without its liveness.
THEOREM BytesServed == Mem!MemBytesAssumption => (Mem!Spec => Mem!Promise!Spec)
<1> SUFFICES ASSUME Mem!MemBytesAssumption
             PROVE  Mem!Spec => Mem!Promise!Spec
  OBVIOUS
<1>1. Mem!Init => ByteInv /\ Mem!Promise!Init
  BY BytesInit
<1>2. ByteInv /\ [Mem!Next]_(Mem!vars) => ByteInv' /\ [Mem!Promise!Next]_(Mem!Promise!vars)
  BY BytesNext DEF Served, memVars, Mem!Promise!vars
<1>3. QED
  BY <1>1, <1>2, PTL DEF Mem!Spec, Mem!Promise!Spec

=============================================================================
