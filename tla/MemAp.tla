------------------------------- MODULE MemAp -------------------------------
(***************************************************************************)
(* The MEM-AP driver of the firmware (memap.c) on top of its SWD transport *)
(* (swd.c), together with the debug port and the memory access ports of    *)
(* the target it talks to.                                                 *)
(*                                                                         *)
(* Every label of pc is one SWD transaction of the driver.  A transaction  *)
(* is answered ACK, WAIT or FAULT by the target, or spoilt by the wire:    *)
(* the request never arrives, the answer is garbled after the target took  *)
(* the request, or the data phase of a write is damaged (the host saw ACK, *)
(* the target raises its sticky error and ignores the write).  The access  *)
(* port performs an accepted access later, on its own (Complete), which is *)
(* what makes AP reads posted: the data come back with the next transfer.  *)
(*                                                                         *)
(* Addresses count 32-bit words.                                           *)
(***************************************************************************)
EXTENDS Integers, FiniteSets

CONSTANTS
  Aps,          \* AP numbers that hold an AHB MEM-AP
  NumWords,     \* words of the address space (2^30)
  PageWords,    \* words within which TAR autoincrements (256)
  MaxWords,     \* longest transfer of one call (maxWordsTxRx of main.c)
  MaxTries,     \* attempts of one transaction (tryNo is a uint8_t: 256)
  Val,          \* values a memory word can hold
  Payloads,     \* the word sequences a caller writes
  ReadNums,     \* the lengths callers read
  WriteNums,    \* the lengths callers write
  InitMem,      \* contents of the target memories
  CswWordIncr,  \* CSW value "32-bit accesses, autoincrement"
  Junk          \* any other register value

Addr == 0 .. NumWords - 1
Data == Val \cup {CswWordIncr, Junk}

ASSUME MemApAssumption ==
  /\ NumWords \in Nat \ {0}
  /\ PageWords \in Nat \ {0}
  /\ NumWords % PageWords = 0
  /\ MaxWords \in 1 .. NumWords
  /\ MaxTries \in Nat \ {0}
  /\ Payloads \subseteq [1 .. MaxWords -> Val]
  /\ ReadNums \subseteq 1 .. MaxWords
  /\ WriteNums \subseteq 1 .. MaxWords
  /\ InitMem \in [Aps \X Addr -> Val]
  /\ CswWordIncr # Junk

VARIABLES
  \* the target: DP SELECT, the AP registers, the memory behind each AP,
  \* the AP access in progress, the read buffer and the sticky error flags
  selAp, selBank, csw, tar, mem, pend, rdbuf, sticky,
  \* the statics of memap.c
  mApSel, mSelected, mCurAddr,
  \* the call in progress: its arguments, and where it is
  kind, addr, num, payload, chain, pc, acc, done, buf, tryNo,
  \* the outcome of the last call, and the APs memapInit reported usable
  ret, ready

target  == <<selAp, selBank, csw, tar, mem, pend, rdbuf, sticky>>
call    == <<kind, addr, num, payload, chain>>
vars    == <<target, mApSel, mSelected, mCurAddr, call, pc, acc, done, buf,
             tryNo, ret, ready>>

Banks == {"ctl", "id"}                   \* SELECT banks 0x00 and 0xF0
\* The accesses of memapSimpleRead and memapSimpleWrite, named by register;
\* the CSW is read, written, then read back by memapSetAccessSize.
Regs == {"CFG", "CSW", "CSWset", "CSWcheck", "BASE", "TAR"}
Bank(r) == IF r \in {"CFG", "BASE"} THEN "id" ELSE "ctl"

SelectLabels == {"reselect", "select"}
AbortLabels  == {"abortAddr", "abort", "abortTop"}
RdbuffLabels == {"cycle", "flush", "last", "drain"}
Labels == SelectLabels \cup AbortLabels \cup RdbuffLabels
            \cup {"idle", "access", "post", "next", "put"}

NoAccess == [op |-> "none", reg |-> "none", ap |-> 0, val |-> Junk]

-----------------------------------------------------------------------------
(* The target (external: modelled from how memap.c and swd.c use it)        *)

\* The n-th word after a.
Plus(a, n) == IF a + n < NumWords THEN a + n ELSE a + n - NumWords

\* Whether the bits of the address above the autoincrement range differ
\* between a and the next word, as (newAddr ^ mCurAddr) & ~0x3FF tells.
LastOfPage(a) == Plus(a, 1) % PageWords = 0

\* TAR after an access at word a: beyond the page it is up to the port.
AutoIncr(a) == IF LastOfPage(a) THEN Addr ELSE {Plus(a, 1)}

\* The register that an access meant for r reaches: with the wrong bank
\* selected it lands on a read-only or reserved register.
Reached(r) == IF selBank = Bank(r) THEN r ELSE "none"

\* The access port finishes the access in progress.
Complete ==
  /\ pend.op # "none"
  /\ pend' = NoAccess
  /\ \/ /\ pend.reg # "DRW"
        /\ tar' = IF pend.reg = "TAR" /\ pend.op = "write"
                  THEN [tar EXCEPT ![pend.ap] = pend.val] ELSE tar
        /\ \/ csw' = csw                            \* size not supported
           \/ /\ pend.reg = "CSWset"
              /\ csw' = [csw EXCEPT ![pend.ap] = CswWordIncr]
        /\ rdbuf' = IF pend.op = "write" THEN rdbuf
                    ELSE IF pend.reg \in {"CSW", "CSWcheck"} THEN csw[pend.ap]
                    ELSE Junk
        /\ UNCHANGED <<mem, sticky>>
     \/ /\ pend.reg = "DRW"
        /\ LET word == <<pend.ap, tar[pend.ap]>>
               wide == csw[pend.ap] = CswWordIncr IN
           /\ \E t \in IF wide THEN AutoIncr(tar[pend.ap]) ELSE {tar[pend.ap]} :
                tar' = [tar EXCEPT ![pend.ap] = t]
           /\ IF pend.op = "write"
              THEN /\ mem' = [mem EXCEPT ![word] = IF wide THEN pend.val ELSE Junk]
                   /\ rdbuf' = rdbuf
              ELSE /\ rdbuf' = IF wide THEN mem[word] ELSE Junk
                   /\ mem' = mem
        /\ UNCHANGED <<csw, sticky>>
     \/ /\ pend.reg = "DRW"                        \* bus fault
        /\ sticky' = TRUE
        /\ UNCHANGED <<csw, tar, mem, rdbuf>>
  /\ UNCHANGED <<selAp, selBank, mApSel, mSelected, mCurAddr, call, pc, acc,
                 done, buf, tryNo, ret, ready>>

\* The target takes the transaction of the current label.
Issue(o, r, v) == pend' = [op |-> o, reg |-> r, ap |-> selAp, val |-> v]

TargetTakes ==
  /\ \/ /\ pc \in SelectLabels
        /\ selAp' = mApSel
        /\ selBank' = mSelected
        /\ UNCHANGED <<pend, sticky>>
     \/ /\ pc \in AbortLabels                      \* ABORT = 0x1F
        /\ sticky' = FALSE
        /\ pend' = NoAccess
        /\ UNCHANGED <<selAp, selBank>>
     \/ /\ pc = "access"
        /\ \/ acc = "TAR" /\ Issue("write", Reached("TAR"), mCurAddr)
           \/ acc = "CSWset" /\ Issue("write", Reached("CSWset"), CswWordIncr)
           \/ acc \notin {"TAR", "CSWset"} /\ Issue("read", Reached(acc), Junk)
        /\ UNCHANGED <<selAp, selBank, sticky>>
     \/ /\ pc \in {"post", "next"}
        /\ Issue("read", Reached("DRW"), Junk)
        /\ UNCHANGED <<selAp, selBank, sticky>>
     \/ /\ pc = "put"
        /\ Issue("write", Reached("DRW"), payload[done + 1])
        /\ UNCHANGED <<selAp, selBank, sticky>>
     \/ /\ pc \in RdbuffLabels
        /\ UNCHANGED <<selAp, selBank, pend, sticky>>
  /\ UNCHANGED <<csw, tar, mem, rdbuf>>

-----------------------------------------------------------------------------
(* The driver: what it does when the transaction of a label succeeded       *)

\* The word address of the k-th word of the transfer.
WordAddr(k) == Plus(addr, k - 1)

NextAddr == Plus(mCurAddr, 1)
Crosses  == LastOfPage(mCurAddr)

\* Mutant: memapSelectRegRange does not record the bank it selects.
BeginAccessForgetful(r) ==
  /\ acc' = r
  /\ pc' = IF mSelected = Bank(r) THEN "access" ELSE "select"
  /\ UNCHANGED <<mSelected, ret, ready>>

\* memapSimpleRead and memapSimpleWrite: select the bank unless mSelected
\* says that it is selected already.
BeginAccess(r) ==
  /\ acc' = r
  /\ mSelected' = Bank(r)
  /\ pc' = IF mSelected = Bank(r) THEN "access" ELSE "select"
  /\ UNCHANGED <<ret, ready>>

SetAddr(a) ==
  /\ mCurAddr' = a
  /\ BeginAccess("TAR")

Goto(l) ==
  /\ pc' = l
  /\ UNCHANGED <<mSelected, acc, ret, ready>>

Return(r) ==
  /\ pc' = "idle"
  /\ ret' = r
  /\ UNCHANGED <<mSelected, acc>>

\* memapInit returns to its caller; an AP it accepted becomes usable.
ReturnInit(r) ==
  /\ Return(r)
  /\ ready' = IF r = "ok" THEN ready \cup {mApSel} ELSE {}

\* memapReselect ignores the outcome of its SELECT write.
AfterReselect ==
  /\ pc = "reselect"
  /\ \/ kind = "init" /\ BeginAccess("CFG")
     \/ kind = "reselect" /\ Return("ok") /\ UNCHANGED ready
  /\ UNCHANGED <<mCurAddr, done, buf>>

AfterSelect ==
  /\ pc = "select"
  /\ Goto("access")
  /\ UNCHANGED <<mCurAddr, done, buf>>

AfterAccess ==
  /\ pc = "access"
  /\ Goto("cycle")
  /\ UNCHANGED <<mCurAddr, done, buf>>

\* Mutant: the CSW is not read back.
AfterInitCycleUnchecked ==
  /\ pc = "cycle"
  /\ \/ acc = "CFG" /\ BeginAccess("CSW")
     \/ acc = "CFG" /\ ReturnInit("err")
     \/ acc = "CSW" /\ BeginAccess("CSWset")
     \/ acc = "CSWset" /\ BeginAccess("CSWcheck")
     \/ acc = "CSWcheck" /\ BeginAccess("BASE")
     \/ acc = "BASE" /\ ReturnInit("ok")
  /\ UNCHANGED <<mCurAddr, done, buf>>

\* The read buffer of a simple access of memapInit is in.
AfterInitCycle ==
  /\ pc = "cycle"
  /\ \/ acc = "CFG" /\ BeginAccess("CSW")
     \/ acc = "CFG" /\ ReturnInit("err")                    \* big endian
     \/ acc = "CSW" /\ BeginAccess("CSWset")
     \/ acc = "CSWset" /\ BeginAccess("CSWcheck")
     \/ acc = "CSWcheck" /\ rdbuf = CswWordIncr /\ BeginAccess("BASE")
     \/ acc = "CSWcheck" /\ rdbuf # CswWordIncr /\ ReturnInit("err")
     \/ acc = "BASE" /\ ReturnInit("ok")
  /\ UNCHANGED <<mCurAddr, done, buf>>

\* TAR is written: go on with the transfer.
AfterTarCycle ==
  /\ pc = "cycle"
  /\ acc = "TAR"
  /\ \/ kind = "read" /\ done < num /\ Goto("post")
     \/ kind = "read" /\ done = num /\ Return("ok") /\ UNCHANGED ready
     \/ kind = "write" /\ done < num /\ Goto("put")
     \/ kind = "write" /\ done = num /\ Goto("drain")
  /\ UNCHANGED <<mCurAddr, done, buf>>

\* Mutant: TAR autoincrements for ever.
LoopReadNoPages(n) ==
  IF num - n <= 1 THEN Goto("last") /\ UNCHANGED mCurAddr
  ELSE Goto("next") /\ mCurAddr' = NextAddr

\* A DRW read is posted: the head of the loop of memapReadMultiple.
LoopRead(n) ==
  IF num - n <= 1 THEN Goto("last") /\ UNCHANGED mCurAddr
  ELSE IF Crosses THEN Goto("flush") /\ UNCHANGED mCurAddr
  ELSE Goto("next") /\ mCurAddr' = NextAddr

Deliver ==
  /\ buf' = [buf EXCEPT ![done + 1] = rdbuf]
  /\ done' = done + 1

AfterPost ==
  /\ pc = "post"
  /\ LoopRead(done)
  /\ UNCHANGED <<done, buf>>

AfterNext ==
  /\ pc = "next"
  /\ Deliver
  /\ LoopRead(done + 1)

\* The word in flight is fetched before TAR is moved to the next page.
AfterFlush ==
  /\ pc = "flush"
  /\ Deliver
  /\ SetAddr(NextAddr)

\* Mutant: no memapHandleIncrement after the last word.
AfterLastNoIncrement ==
  /\ pc = "last"
  /\ Deliver
  /\ Return("ok") /\ mCurAddr' = NextAddr /\ UNCHANGED ready

AfterLast ==
  /\ pc = "last"
  /\ Deliver
  /\ IF Crosses THEN SetAddr(NextAddr)
     ELSE Return("ok") /\ mCurAddr' = NextAddr /\ UNCHANGED ready

\* Mutant: success is reported without waiting for the last write.
AfterPutNoDrain ==
  /\ pc = "put"
  /\ done' = done + 1
  /\ mCurAddr' = NextAddr
  /\ IF Crosses THEN BeginAccess("TAR")
     ELSE IF done + 1 = num THEN Return("ok") /\ UNCHANGED ready
     ELSE Goto("put")
  /\ UNCHANGED buf

AfterPut ==
  /\ pc = "put"
  /\ done' = done + 1
  /\ mCurAddr' = NextAddr
  /\ IF Crosses THEN BeginAccess("TAR")
     ELSE Goto(IF done + 1 = num THEN "drain" ELSE "put")
  /\ UNCHANGED buf

AfterDrain ==
  /\ pc = "drain"
  /\ Return("ok")
  /\ UNCHANGED <<mCurAddr, done, buf, ready>>

-----------------------------------------------------------------------------
(* The driver: what it does when the transaction failed                     *)

\* memapReadAddr and memapWriteAddr abort once more on any failure.
FailCall ==
  IF chain THEN Goto("abortTop") ELSE Return("err") /\ UNCHANGED ready

AfterAbort ==
  /\ \/ pc = "abortAddr" /\ done > 0 /\ Goto("abort")   \* SetAddr in the loop
     \/ pc = "abortAddr" /\ done = 0 /\ FailCall
     \/ pc = "abort" /\ FailCall
     \/ pc = "abortTop" /\ Return("err") /\ UNCHANGED ready
  /\ UNCHANGED <<mCurAddr, done, buf>>

FailAccess ==
  /\ pc \in {"select", "access", "cycle"}
  /\ \/ acc = "TAR" /\ Goto("abortAddr")
     \/ acc # "TAR" /\ ReturnInit("err")
  /\ UNCHANGED <<mCurAddr, done, buf>>

\* Mutant: a word that failed is written again.
FailTransferRetry ==
  /\ pc \in {"post", "next", "flush", "last", "put", "drain"}
  /\ Goto(IF pc = "put" THEN "put" ELSE "abort")
  /\ UNCHANGED <<mCurAddr, done, buf>>

\* memapWriteMultiple steps to the next word whether or not it was written.
FailTransfer ==
  /\ pc \in {"post", "next", "flush", "last", "put", "drain"}
  /\ Goto("abort")
  /\ done' = IF pc = "put" THEN done + 1 ELSE done
  /\ UNCHANGED <<mCurAddr, buf>>

Succeed ==
  \/ AfterReselect \/ AfterSelect \/ AfterAccess \/ AfterInitCycle
  \/ AfterTarCycle \/ AfterPost \/ AfterNext \/ AfterFlush \/ AfterLast
  \/ AfterPut \/ AfterDrain \/ AfterAbort

Fail == AfterReselect \/ AfterAbort \/ FailAccess \/ FailTransfer

-----------------------------------------------------------------------------
(* One attempt of the transaction of the current label (swd.c)              *)

Caller == <<mApSel, call>>

InAccess == pc # "idle"
Answers  == pend.op = "none" \/ pc \in AbortLabels     \* no WAIT
Accepts  == Answers /\ (~sticky \/ pc \in AbortLabels)  \* ACK
IsWrite  == \/ pc \in SelectLabels \cup {"put"}
            \/ pc = "access" /\ acc \in {"TAR", "CSWset"}

\* Mutant: tryNo has no end.
WaitForever ==
  /\ InAccess /\ ~Answers
  /\ tryNo' = 1 - tryNo
  /\ UNCHANGED <<target, Caller, mSelected, mCurAddr, pc, acc, done, buf, ret,
                 ready>>

\* WAIT: try again until tryNo wraps.
Wait ==
  /\ InAccess /\ ~Answers
  /\ tryNo + 1 < MaxTries
  /\ tryNo' = tryNo + 1
  /\ UNCHANGED <<target, Caller, mSelected, mCurAddr, pc, acc, done, buf, ret,
                 ready>>

GiveUp ==
  /\ InAccess /\ ~Answers
  /\ tryNo + 1 = MaxTries
  /\ Fail
  /\ tryNo' = 0
  /\ UNCHANGED <<target, Caller>>

Accepted ==
  /\ InAccess /\ Accepts
  /\ TargetTakes
  /\ Succeed
  /\ tryNo' = 0
  /\ UNCHANGED Caller

Faulted ==
  /\ InAccess /\ Answers /\ ~Accepts
  /\ Fail
  /\ tryNo' = 0
  /\ UNCHANGED <<target, Caller>>

\* The wire: the request does not arrive, or only its answer is lost, or the
\* data of a write are damaged.
Lost ==
  /\ InAccess
  /\ Fail
  /\ tryNo' = 0
  /\ UNCHANGED <<target, Caller>>

Garbled ==
  /\ InAccess /\ Accepts
  /\ TargetTakes
  /\ Fail
  /\ tryNo' = 0
  /\ UNCHANGED Caller

Damaged ==
  /\ InAccess /\ Accepts /\ IsWrite
  /\ sticky' = TRUE
  /\ Succeed
  /\ tryNo' = 0
  /\ UNCHANGED <<selAp, selBank, csw, tar, mem, pend, rdbuf, Caller>>

-----------------------------------------------------------------------------
(* The callers in main.c and cortex.c                                       *)

\* memapReselect, at the entry of memapInit or on its own.
BeginReselect(k, ap) ==
  /\ pc = "idle"
  /\ kind' = k
  /\ mApSel' = ap
  /\ mSelected' = "ctl"
  /\ pc' = "reselect"
  /\ ret' = "none"
  /\ tryNo' = 0
  /\ UNCHANGED <<addr, num, payload, chain, mCurAddr, acc, done, buf>>

\* The attach loop: swdDapInit has cleared the errors and the enumeration has
\* read the IDR of this AP, leaving SELECT at it behind the back of memap.c.
CallInit(ap) ==
  /\ BeginReselect("init", ap)
  /\ selAp' = ap
  /\ selBank' = "id"
  /\ sticky' = FALSE
  /\ pend' = NoAccess
  /\ UNCHANGED <<csw, tar, mem, rdbuf, ready>>

\* SELECT_CPU, for a core that the attach reply listed.
CallReselect(ap) ==
  /\ ap \in ready
  /\ BeginReselect("reselect", ap)
  /\ UNCHANGED <<target, ready>>

\* MEM_READ and MEM_WRITE (memapSetAddr, then the transfer), and the one-word
\* memapReadAddr and memapWriteAddr, which abort once more on failure.
BeginTransfer(k, a, n, c) ==
  /\ pc = "idle"
  /\ mApSel \in ready
  /\ c => n = 1
  /\ kind' = k
  /\ addr' = a
  /\ num' = n
  /\ chain' = c
  /\ done' = 0
  /\ buf' = [w \in 1 .. MaxWords |-> Junk]
  /\ ret' = "none"
  /\ mCurAddr' = a
  /\ acc' = "TAR"
  /\ mSelected' = "ctl"
  /\ pc' = IF mSelected = "ctl" THEN "access" ELSE "select"
  /\ tryNo' = 0
  /\ UNCHANGED <<target, mApSel, ready>>

CallRead(a, n, c)     == BeginTransfer("read", a, n, c) /\ UNCHANGED payload
CallWrite(a, n, p, c) == BeginTransfer("write", a, n, c) /\ payload' = p

-----------------------------------------------------------------------------

Init ==
  /\ selAp \in Aps /\ selBank = "ctl"
  /\ csw = [ap \in Aps |-> Junk]
  /\ tar = [ap \in Aps |-> 0]
  /\ mem = InitMem
  /\ pend = NoAccess
  /\ rdbuf = Junk
  /\ sticky = FALSE
  /\ mApSel = selAp /\ mSelected = "ctl" /\ mCurAddr = 0
  /\ kind = "none" /\ addr = 0 /\ num = 0 /\ chain = FALSE
  /\ payload \in Payloads
  /\ pc = "idle" /\ acc = "TAR" /\ done = 0
  /\ buf = [w \in 1 .. MaxWords |-> Junk]
  /\ tryNo = 0
  /\ ret = "none"
  /\ ready = {}

Attempt == Wait \/ GiveUp \/ Accepted \/ Faulted \/ Lost \/ Garbled \/ Damaged

Call ==
  \/ \E ap \in Aps : CallInit(ap) \/ CallReselect(ap)
  \/ \E a \in Addr, n \in ReadNums, c \in BOOLEAN : CallRead(a, n, c)
  \/ \E a \in Addr, n \in WriteNums, p \in Payloads, c \in BOOLEAN :
       CallWrite(a, n, p, c)

Next == Complete \/ Attempt \/ Call

Spec == Init /\ [][Next]_vars

\* The firmware runs to completion; nothing is assumed of the target.
FairSpec == Spec /\ WF_vars(Attempt)

-----------------------------------------------------------------------------
(* Properties                                                               *)

TargetTypeOK ==
  /\ selAp \in Aps /\ selBank \in Banks
  /\ csw \in [Aps -> Data]
  /\ tar \in [Aps -> Addr]
  /\ mem \in [Aps \X Addr -> Data]
  /\ rdbuf \in Data /\ sticky \in BOOLEAN
  /\ \/ pend = NoAccess
     \/ /\ pend \in [op : {"read", "write"}, reg : Regs \cup {"DRW", "none"},
                     ap : Aps, val : Data \cup Addr]
        /\ pend.reg = "TAR" => pend.val \in Addr
        /\ pend.reg = "DRW" => pend.val \in Data

DriverTypeOK ==
  /\ mApSel \in Aps /\ mSelected \in Banks /\ mCurAddr \in Addr
  /\ pc \in Labels /\ acc \in Regs /\ done \in 0 .. MaxWords
  /\ buf \in [1 .. MaxWords -> Data]
  /\ tryNo \in 0 .. MaxTries - 1
  /\ ret \in {"none", "ok", "err"}
  /\ ready \subseteq Aps

CallTypeOK ==
  /\ kind \in {"none", "init", "reselect", "read", "write"}
  /\ addr \in Addr /\ num \in 0 .. MaxWords /\ chain \in BOOLEAN
  /\ payload \in Payloads

\* Every variable keeps its type; the address and the word counter stay within
\* the address space and the buffer of the caller.
TypeOK == TargetTypeOK /\ DriverTypeOK /\ CallTypeOK

\* SELECT is what the statics of memap.c say.  A SELECT write that failed makes
\* this false: the statics are assigned before its outcome is known.
Coherent == selAp = mApSel /\ selBank = mSelected

Returned(k) == pc = "idle" /\ kind = k /\ ret = "ok"

\* A read that reports success has returned the words of the memory behind the
\* selected AP: posted reads are matched with their words, and the page
\* boundaries of TAR lose or repeat none (memapReadMultiple).
ReadReturnsMemory ==
  Returned("read") /\ Coherent =>
    \A k \in 1 .. num : buf[k] = mem[<<mApSel, WordAddr(k)>>]

\* A write that reports success has stored every word, the last one included,
\* whatever the target delayed (memapWriteMultiple).
WriteStored ==
  Returned("write") /\ Coherent =>
    \A k \in 1 .. num : mem[<<mApSel, WordAddr(k)>>] = payload[k]

\* After a successful transfer nothing is in flight and mCurAddr is what TAR
\* holds, so a transfer that goes on without memapSetAddr reaches the next word
\* (memapHandleIncrement).
TarTracksCurAddr ==
  (Returned("read") \/ Returned("write")) /\ Coherent =>
    pend = NoAccess /\ tar[mApSel] = mCurAddr

\* An AP that memapInit accepted does 32-bit autoincrementing accesses: the
\* check of memapSetAccessSize is not fooled by a stale read buffer or a write
\* that was lost.
ReadyConfigured == \A ap \in ready : csw[ap] = CswWordIncr

\* Whatever the target answers, every call returns (the bounded retries of
\* swdWireBusReadInt and swdWireBusWriteInt, the bounded loops of memap.c).
CallReturns == InAccess ~> ~InAccess
=============================================================================
