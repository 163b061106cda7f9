-------------------------- MODULE GdbServerProofs --------------------------
(***************************************************************************)
(* Proofs about the GDB server, for every number of registers, comparators  *)
(* and requests, with Ctrl-C and failing commands at any moment.            *)
(***************************************************************************)
EXTENDS GdbServer, TLAPS

LEMMA Sizes ==
  /\ N \in Nat \ {0} /\ CtrlRegs \in Nat /\ NumBpts \in Nat /\ MaxReqs \in Nat
  /\ HasFpu \in BOOLEAN /\ Interrupts \in BOOLEAN /\ Fails \in BOOLEAN
  /\ GdbRegs \subseteq 0 .. 2 * N - 1 /\ BptAddrs \subseteq Nat
BY GdbServerAssumption

-----------------------------------------------------------------------------
(* What the helpers of the register cache return                            *)

\* The core's registers are registers of the four sets.
LEMMA HwRegsBound == HwRegs \subseteq 0 .. 4 * N - 1
BY Sizes DEF HwRegs, RegSets

LEMMA FreshType == ASSUME NEW e \in Nat PROVE Fresh(e) \in [HwRegs -> Values]
BY HwRegsBound, Sizes DEF Fresh, Values

LEMMA JunkType == Junk \in Values
BY Sizes DEF Junk, Values

\* A filled cache is a cache.
LEMMA FilledType ==
  ASSUME regs \in [Cells -> Values], NEW b, NEW h \in [HwRegs -> Values]
  PROVE  Filled(b, h) \in [Cells -> Values]
BY JunkType DEF Filled

\* No register is stored from outside of the cache.
LEMMA CellType == ASSUME NEW r \in HwRegs PROVE Cell(r) \in Cells
BY HwRegsBound, Sizes DEF Cell, Cells

LEMMA StoredType ==
  ASSUME regs \in [Cells -> Values], hw \in [HwRegs -> Values], NEW k
  PROVE  Stored(k) \in [HwRegs -> Values]
BY CellType DEF Stored

LEMMA FlushedType ==
  ASSUME regs \in [Cells -> Values], hw \in [HwRegs -> Values]
  PROVE  Flushed \in [HwRegs -> Values]
BY StoredType DEF Flushed

-----------------------------------------------------------------------------
(* The handlers                                                             *)

\* What is around a handler: Packet without the handler itself.
Handling ==
  /\ IInv
  /\ pc = "packet" /\ alive
  /\ toServer' = Tail(toServer)
  /\ UNCHANGED client

LEMMA TailType ==
  ASSUME Handling
  PROVE  toServer' \in Seq(Requests) /\ Head(toServer) \in Requests
BY DEF Handling, IInv, TypeOK

LEMMA ReplyType ==
  ASSUME TypeOK, NEW r \in Replies, Reply(r) PROVE toGdb' \in Seq(Replies)
BY DEF Reply, TypeOK

LEMMA ReplyStopType ==
  ASSUME TypeOK, NEW r \in Replies, ReplyStop(r)
  PROVE  toGdb' \in Seq(Replies) /\ stops' \in Nat
BY ReplyType DEF ReplyStop, TypeOK

\* A handler that ends the session disturbs nothing that outlives it.
LEMMA Ending ==
  ASSUME Handling, End, UNCHANGED <<cached, bpState, isRunning, asWanted, resumes>>,
         halted' \in BOOLEAN, dfsr' \in BOOLEAN, epoch' \in Nat,
         hw' \in [HwRegs -> Values], want' \in [HwRegs -> Values],
         toGdb' \in Seq(Replies), stops' \in Nat
  PROVE  IInv'
<1>1. TypeOK'
  BY TailType DEF Handling, IInv, TypeOK, End, cached, bpState, client
<1>2. (pc = "packet" => toServer # <<>>)' /\ TargetGoesNowhere'
  BY DEF End, TargetGoesNowhere
<1>3. Tracked'
  BY DEF Handling, IInv, Tracked, bpState
<1>4. QED
  BY <1>1, <1>2, <1>3 DEF IInv

LEMMA StepKeeps == ASSUME Handling, HandleStep PROVE IInv'
<1> USE DEF Handling
<1>0. TypeOK /\ Tracked
  BY DEF IInv
<1>1. CASE FlushFails
  <2>1. hw' \in [HwRegs -> Values]
    BY <1>0, <1>1, StoredType DEF FlushFails, TypeOK
  <2>2. QED
    BY <1>0, <1>1, <2>1, Ending DEF FlushFails, Abort, TypeOK
<1>2. CASE /\ Resume
           /\ Ran /\ halted' = TRUE /\ dfsr' = FALSE /\ want' = hw'
           /\ ReplyStop("S05") /\ GoOn
           /\ UNCHANGED isRunning
  <2>1. epoch' \in Nat /\ hw' \in [HwRegs -> Values]
    BY <1>0, <1>2, FreshType DEF Ran, TypeOK
  <2>2. toGdb' \in Seq(Replies) /\ stops' \in Nat
    BY <1>0, <1>2, ReplyStopType DEF Replies
  <2>3. resumes' \in Nat /\ asWanted' \in BOOLEAN /\ regsDirty' \in BOOLEAN
    BY <1>0, <1>2 DEF Resume, TypeOK
  <2>4. TypeOK'
    BY <1>0, <1>2, <2>1, <2>2, <2>3, TailType DEF TypeOK, Resume, GoOn, client, bpState
  <2>5. QED
    BY <1>0, <1>2, <2>4
    DEF IInv, Tracked, TargetGoesNowhere, Resume, GoOn, bpState
<1>3. CASE Abort /\ hw' = Flushed /\ UNCHANGED <<halted, dfsr, epoch, toGdb, stops>>
  BY <1>0, <1>3, Ending, FlushedType DEF Abort, TypeOK
<1>4. QED
  BY <1>1, <1>2, <1>3 DEF HandleStep

LEMMA ContinueKeeps == ASSUME Handling, HandleContinue PROVE IInv'
<1> USE DEF Handling
<1>0. TypeOK /\ Tracked
  BY DEF IInv
<1>1. CASE FlushFails
  <2>1. hw' \in [HwRegs -> Values]
    BY <1>0, <1>1, StoredType DEF FlushFails, TypeOK
  <2>2. QED
    BY <1>0, <1>1, <2>1, Ending DEF FlushFails, Abort, TypeOK
<1>2. CASE /\ Resume
           /\ hw' = Flushed
           /\ \/ halted' = FALSE
              \/ Fails /\ halted' = halted
           /\ isRunning' = NowRunning
           /\ GoOn
           /\ UNCHANGED <<dfsr, epoch, want, toGdb, stops>>
  <2>1. hw' \in [HwRegs -> Values] /\ halted' \in BOOLEAN
    BY <1>0, <1>2, FlushedType DEF TypeOK
  <2>2. resumes' \in Nat /\ asWanted' \in BOOLEAN /\ regsDirty' \in BOOLEAN
    BY <1>0, <1>2 DEF Resume, TypeOK
  <2>3. TypeOK'
    BY <1>0, <1>2, <2>1, <2>2, TailType
    DEF TypeOK, Resume, GoOn, NowRunning, client, bpState
  <2>4. QED
    BY <1>0, <1>2, <2>3
    DEF IInv, Tracked, TargetGoesNowhere, Resume, GoOn, NowRunning, bpState
<1>3. CASE Abort /\ hw' = Flushed /\ UNCHANGED <<halted, dfsr, epoch, toGdb, stops>>
  BY <1>0, <1>3, Ending, FlushedType DEF Abort, TypeOK
<1>4. QED
  BY <1>1, <1>2, <1>3 DEF HandleContinue

LEMMA ReadRegsKeeps == ASSUME Handling, HandleReadRegs PROVE IInv'
<1> USE DEF Handling
<1>0. TypeOK /\ Tracked /\ TargetGoesNowhere
  BY DEF IInv
<1>1. CASE /\ regsValid' = TRUE
           /\ regsDirty' = (regsDirty /\ regsValid)
           /\ regs' = Filled(halted, hw)
           /\ Reply("regs") /\ GoOn
           /\ UNCHANGED <<core, bpState, isRunning, want, asWanted, stops, resumes>>
  <2>1. regs' \in [Cells -> Values] /\ regsDirty' \in BOOLEAN
    BY <1>0, <1>1, FilledType DEF TypeOK
  <2>2. toGdb' \in Seq(Replies)
    BY <1>0, <1>1, ReplyType DEF Replies
  <2>3. TypeOK'
    BY <1>0, <1>1, <2>1, <2>2, TailType DEF TypeOK, GoOn, core, client, bpState
  <2>4. QED
    BY <1>0, <1>1, <2>3 DEF IInv, Tracked, TargetGoesNowhere, GoOn, core, bpState
<1>2. CASE AbortSilently
  BY <1>0, <1>2, Ending DEF AbortSilently, Abort, TypeOK, core
<1>3. QED
  BY <1>1, <1>2 DEF HandleReadRegs

LEMMA WriteRegKeeps ==
  ASSUME Handling, NEW i \in GdbRegs, HandleWriteReg(i) PROVE IInv'
<1> USE DEF Handling
<1>0. TypeOK /\ Tracked /\ TargetGoesNowhere
  BY DEF IInv
<1>1. CASE /\ regsValid' = TRUE
           /\ regsDirty' = TRUE
           /\ regs' = [Filled(halted, hw) EXCEPT ![i] = <<-1, i>>]
           /\ \/ /\ i \notin Wide
                 /\ want' = [want EXCEPT ![Meant(i)] = <<-1, i>>]
                 /\ Reply("OK") /\ GoOn
              \/ /\ i \in Wide
                 /\ End /\ UNCHANGED <<want, toGdb>>
           /\ UNCHANGED <<core, bpState, isRunning, asWanted, stops, resumes>>
  <2>1. <<-1, i>> \in Values
    BY Sizes DEF Values
  <2>2. Filled(halted, hw) \in [Cells -> Values]
    BY <1>0, FilledType DEF TypeOK
  <2>3. regs' \in [Cells -> Values]
    BY <1>1, <2>1, <2>2
  <2>4. CASE /\ want' = [want EXCEPT ![Meant(i)] = <<-1, i>>]
             /\ Reply("OK") /\ GoOn
    <3>1. want' \in [HwRegs -> Values]
      BY <1>0, <2>1, <2>4 DEF TypeOK
    <3>2. toGdb' \in Seq(Replies)
      BY <1>0, <2>4, ReplyType DEF Replies
    <3>3. TypeOK'
      BY <1>0, <1>1, <2>3, <2>4, <3>1, <3>2, TailType DEF TypeOK, GoOn, core, client, bpState
    <3>4. QED
      BY <1>0, <1>1, <2>4, <3>3 DEF IInv, Tracked, TargetGoesNowhere, GoOn, core, bpState
  <2>5. CASE End /\ UNCHANGED <<want, toGdb>>
    <3>1. TypeOK'
      BY <1>0, <1>1, <2>3, <2>5, TailType DEF TypeOK, End, core, client, bpState
    <3>2. QED
      BY <1>0, <1>1, <2>5, <3>1 DEF IInv, Tracked, TargetGoesNowhere, End, core, bpState
  <2>6. QED
    BY <1>1, <2>4, <2>5
<1>2. CASE AbortSilently
  BY <1>0, <1>2, Ending DEF AbortSilently, Abort, TypeOK, core
<1>3. QED
  BY <1>1, <1>2 DEF HandleWriteReg

\* A handler of breakpoints touches nothing but slots, comparators and the reply.
LEMMA BreakpointTypes ==
  ASSUME Handling, GoOn,
         UNCHANGED <<core, cached, isRunning, want, asWanted, stops, resumes>>,
         cmp' \in [Slots -> BptAddrs \cup {Off}],
         bpts' \in [Slots -> [addr : BptAddrs \cup {0}, used : BOOLEAN]],
         inserted' \subseteq BptAddrs, doubtful' \subseteq BptAddrs,
         toGdb' \in Seq(Replies),
         Tracked'
  PROVE  IInv'
<1> USE DEF Handling
<1>0. TypeOK /\ TargetGoesNowhere
  BY DEF IInv
<1>1. TypeOK'
  BY <1>0, TailType DEF TypeOK, GoOn, core, cached, client
<1>2. QED
  BY <1>0, <1>1 DEF IInv, TargetGoesNowhere, GoOn, core

LEMMA InsertKeeps ==
  ASSUME Handling, NEW a \in BptAddrs, HandleInsert(a) PROVE IInv'
<1> USE DEF Handling
<1>0. TypeOK /\ Tracked
  BY DEF IInv
<1>1. CASE \E i \in Free :
             /\ IsFirst(i, Free)
             /\ bpts' = [bpts EXCEPT ![i] = [addr |-> a, used |-> TRUE]]
             /\ Comparator(i, a, a, inserted \cup {a}, inserted)
  <2>1. PICK i \in Free :
          /\ bpts' = [bpts EXCEPT ![i] = [addr |-> a, used |-> TRUE]]
          /\ Comparator(i, a, a, inserted \cup {a}, inserted)
    BY <1>1
  <2>2. i \in Slots /\ ~bpts[i].used
    BY DEF Free
  <2>3. bpts' \in [Slots -> [addr : BptAddrs \cup {0}, used : BOOLEAN]]
    BY <1>0, <2>1 DEF TypeOK
  <2>4. /\ cmp' \in [Slots -> BptAddrs \cup {Off}]
        /\ \A j \in Slots : j # i => cmp'[j] = cmp[j]
        /\ inserted' = inserted \/ (inserted' = inserted \cup {a} /\ cmp'[i] = a)
    BY <1>0, <2>1, <2>2 DEF TypeOK, Comparator
  <2>5. doubtful' \subseteq BptAddrs /\ toGdb' \in Seq(Replies)
    <3>1. doubtful' \subseteq BptAddrs
      BY <1>0, <2>1 DEF TypeOK, Comparator
    <3>2. Reply("OK") \/ Reply("E00")
      BY <2>1 DEF Comparator
    <3>3. QED
      BY <1>0, <3>1, <3>2, ReplyType DEF Replies
  <2>6. Tracked'
    <3>1. ASSUME NEW b \in inserted
          PROVE  \E j \in Slots : bpts'[j].used /\ bpts'[j].addr = b /\ cmp'[j] = b
      <4>1. PICK j \in Slots : bpts[j].used /\ bpts[j].addr = b /\ cmp[j] = b
        BY <1>0, <3>1 DEF Tracked
      <4>2. j # i
        BY <4>1, <2>2
      <4>3. bpts'[j] = bpts[j] /\ cmp'[j] = cmp[j]
        BY <1>0, <2>1, <2>4, <4>2 DEF TypeOK
      <4>4. QED
        BY <4>1, <4>3
    <3>2. bpts'[i].used /\ bpts'[i].addr = a
      BY <1>0, <2>1, <2>2 DEF TypeOK
    <3>3. QED
      BY <2>2, <2>4, <3>1, <3>2 DEF Tracked
  <2>7. inserted' \subseteq BptAddrs
    BY <1>0, <2>4 DEF TypeOK
  <2>8. QED
    BY <2>3, <2>4, <2>5, <2>6, <2>7, BreakpointTypes DEF HandleInsert
<1>2. CASE /\ Free = {}
           /\ Reply("E00")
           /\ UNCHANGED bpState
  <2>1. toGdb' \in Seq(Replies)
    BY <1>0, <1>2, ReplyType DEF Replies
  <2>2. Tracked'
    BY <1>0, <1>2 DEF Tracked, bpState
  <2>3. QED
    BY <1>0, <1>2, <2>1, <2>2, BreakpointTypes DEF HandleInsert, TypeOK, bpState
<1>3. QED
  BY <1>1, <1>2 DEF HandleInsert

LEMMA RemoveKeeps ==
  ASSUME Handling, NEW a \in BptAddrs, HandleRemove(a) PROVE IInv'
<1> USE DEF Handling
<1>0. TypeOK /\ Tracked
  BY DEF IInv
<1>1. CASE \E i \in Holding(a) :
             /\ IsFirst(i, Holding(a))
             /\ bpts' = [bpts EXCEPT ![i].used = FALSE]
             /\ Comparator(i, Off, a, inserted \ {a}, inserted \ {a})
  <2>1. PICK i \in Holding(a) :
          /\ bpts' = [bpts EXCEPT ![i].used = FALSE]
          /\ Comparator(i, Off, a, inserted \ {a}, inserted \ {a})
    BY <1>1
  <2>2. i \in Slots /\ bpts[i].addr = a
    BY DEF Holding
  <2>3. bpts' \in [Slots -> [addr : BptAddrs \cup {0}, used : BOOLEAN]]
    BY <1>0, <2>1 DEF TypeOK
  <2>4. /\ cmp' \in [Slots -> BptAddrs \cup {Off}]
        /\ \A j \in Slots : j # i => cmp'[j] = cmp[j]
        /\ inserted' = inserted \ {a}
    BY <1>0, <2>1, <2>2 DEF TypeOK, Comparator
  <2>5. doubtful' \subseteq BptAddrs /\ toGdb' \in Seq(Replies)
    <3>1. doubtful' \subseteq BptAddrs
      BY <1>0, <2>1 DEF TypeOK, Comparator
    <3>2. Reply("OK") \/ Reply("E00")
      BY <2>1 DEF Comparator
    <3>3. QED
      BY <1>0, <3>1, <3>2, ReplyType DEF Replies
  <2>6. Tracked'
    <3>1. ASSUME NEW b \in inserted'
          PROVE  \E j \in Slots : bpts'[j].used /\ bpts'[j].addr = b /\ cmp'[j] = b
      <4>1. PICK j \in Slots : bpts[j].used /\ bpts[j].addr = b /\ cmp[j] = b
        BY <1>0, <2>4, <3>1 DEF Tracked
      <4>2. j # i
        BY <4>1, <2>2, <2>4, <3>1
      <4>3. bpts'[j] = bpts[j] /\ cmp'[j] = cmp[j]
        BY <1>0, <2>1, <2>4, <4>2 DEF TypeOK
      <4>4. QED
        BY <4>1, <4>3
    <3>2. QED
      BY <3>1 DEF Tracked
  <2>7. inserted' \subseteq BptAddrs
    BY <1>0, <2>4 DEF TypeOK
  <2>8. QED
    BY <2>3, <2>4, <2>5, <2>6, <2>7, BreakpointTypes DEF HandleRemove
<1>2. CASE /\ Holding(a) = {}
           /\ Reply("E00")
           /\ UNCHANGED bpState
  <2>1. toGdb' \in Seq(Replies)
    BY <1>0, <1>2, ReplyType DEF Replies
  <2>2. Tracked'
    BY <1>0, <1>2 DEF Tracked, bpState
  <2>3. QED
    BY <1>0, <1>2, <2>1, <2>2, BreakpointTypes DEF HandleRemove, TypeOK, bpState
<1>3. QED
  BY <1>1, <1>2 DEF HandleRemove

LEMMA LeaveKeeps == ASSUME Handling, NEW b \in BOOLEAN, HandleLeave(b) PROVE IInv'
<1>1. TypeOK
  BY DEF Handling, IInv
<1>2. toGdb' \in Seq(Replies)
  BY <1>1 DEF HandleLeave, TypeOK, Replies
<1>3. QED
  BY <1>1, <1>2, Ending DEF HandleLeave, TypeOK, core

\* Ctrl-C leaves a halted core halted, whatever fails.
LEMMA InterruptKeeps ==
  ASSUME Handling, HandleInterrupt \/ InterruptStopsNothing PROVE IInv'
<1> USE DEF Handling
<1>0. TypeOK /\ Tracked /\ TargetGoesNowhere
  BY DEF IInv
<1>1. toGdb' \in Seq(Replies) /\ stops' \in Nat
  BY <1>0, ReplyStopType DEF HandleInterrupt, InterruptStopsNothing, Replies
<1>2. CASE InterruptStopsNothing
  BY <1>0, <1>1, <1>2, Ending DEF InterruptStopsNothing, TypeOK, core
<1>3. CASE HandleInterrupt
  <2>1. /\ halted' \in BOOLEAN /\ dfsr' \in BOOLEAN /\ epoch' \in Nat
        /\ hw' \in [HwRegs -> Values]
        /\ halted => halted'
    <3>1. CASE ~halted /\ Ran /\ halted' = TRUE /\ dfsr' \in {FALSE, Fails}
      <4>1. epoch' \in Nat /\ hw' \in [HwRegs -> Values]
        BY <1>0, <3>1, FreshType DEF Ran, TypeOK
      <4>2. dfsr' \in BOOLEAN
        <5>1. Fails \in BOOLEAN
          BY Sizes
        <5>2. dfsr' = FALSE \/ dfsr' = Fails
          BY <3>1
        <5>3. QED
          BY <5>1, <5>2
      <4>3. QED
        BY <3>1, <4>1, <4>2
    <3>2. CASE halted /\ dfsr /\ dfsr' = FALSE /\ UNCHANGED <<halted, hw, epoch>>
      BY <1>0, <3>2 DEF TypeOK
    <3>3. CASE UNCHANGED core
      BY <1>0, <3>3 DEF TypeOK, core
    <3>4. QED
      BY <1>3, <3>1, <3>2, <3>3 DEF HandleInterrupt
  <2>2. want' \in [HwRegs -> Values]
    BY <1>0, <1>3, <2>1 DEF HandleInterrupt, TypeOK
  <2>3. CASE regsValid' = TRUE /\ regsDirty' = FALSE /\ regs' = Filled(halted', hw') /\ GoOn
    <3>1. regs' \in [Cells -> Values]
      BY <1>0, <2>1, <2>3, FilledType DEF TypeOK
    <3>2. TypeOK'
      BY <1>0, <1>1, <1>3, <2>1, <2>2, <2>3, <3>1, TailType
      DEF TypeOK, HandleInterrupt, GoOn, client, bpState
    <3>3. QED
      BY <1>0, <1>3, <2>1, <2>3, <3>2
      DEF IInv, Tracked, TargetGoesNowhere, HandleInterrupt, GoOn, bpState
  <2>4. CASE End /\ UNCHANGED cached
    BY <1>0, <1>1, <1>3, <2>1, <2>2, <2>4, Ending DEF HandleInterrupt
  <2>5. QED
    BY <1>3, <2>3, <2>4 DEF HandleInterrupt
<1>4. QED
  BY <1>2, <1>3

LEMMA PacketKeeps == ASSUME IInv, Packet PROVE IInv'
<1>1. Handling
  BY DEF Packet, Handling
<1>2. Head(toServer) \in Requests
  BY <1>1, TailType
<1> DEFINE p == Head(toServer)
<1>3. CASE p.op = "step" /\ HandleStep
  BY <1>1, <1>3, StepKeeps
<1>4. CASE p.op = "cont" /\ HandleContinue
  BY <1>1, <1>4, ContinueKeeps
<1>5. CASE p.op = "regs" /\ HandleReadRegs
  BY <1>1, <1>5, ReadRegsKeeps
<1>6. CASE p.op = "write" /\ HandleWriteReg(p.arg)
  <2>1. p.arg \in GdbRegs
    BY <1>2, <1>6 DEF Requests
  <2>2. QED
    BY <1>1, <1>6, <2>1, WriteRegKeeps
<1>7. CASE p.op = "insert" /\ HandleInsert(p.arg)
  <2>1. p.arg \in BptAddrs
    BY <1>2, <1>7 DEF Requests
  <2>2. QED
    BY <1>1, <1>7, <2>1, InsertKeeps
<1>8. CASE p.op = "remove" /\ HandleRemove(p.arg)
  <2>1. p.arg \in BptAddrs
    BY <1>2, <1>8 DEF Requests
  <2>2. QED
    BY <1>1, <1>8, <2>1, RemoveKeeps
<1>9. CASE p.op \in {"detach", "kill"} /\ HandleLeave(p.op = "detach")
  BY <1>1, <1>9, LeaveKeeps
<1>10. CASE p.op = "intr" /\ (HandleInterrupt \/ InterruptStopsNothing)
  BY <1>1, <1>10, InterruptKeeps
<1>11. QED
  BY <1>3, <1>4, <1>5, <1>6, <1>7, <1>8, <1>9, <1>10 DEF Packet

-----------------------------------------------------------------------------
(* The loop, the core and gdb                                               *)

LEMMA PollKeeps == ASSUME IInv, Poll PROVE IInv'
<1>0. TypeOK /\ Tracked /\ TargetGoesNowhere
  BY DEF IInv
<1>1. toGdb' \in Seq(Replies) /\ stops' \in Nat /\ isRunning' \in BOOLEAN /\ dfsr' \in BOOLEAN
  <2>1. CASE ReplyStop("S05") /\ isRunning' = FALSE /\ dfsr' = FALSE
    BY <1>0, <2>1, ReplyStopType DEF Replies
  <2>2. CASE /\ dfsr' \in IF isRunning /\ halted THEN {dfsr, FALSE} ELSE {dfsr}
             /\ UNCHANGED <<toGdb, stops, isRunning>>
    <3>1. dfsr' = dfsr \/ dfsr' = FALSE
      BY <2>2
    <3>2. QED
      BY <1>0, <2>2, <3>1 DEF TypeOK
  <2>3. QED
    BY <2>1, <2>2 DEF Poll
<1>2. TypeOK'
  BY <1>0, <1>1 DEF TypeOK, Poll, cached, bpState, client
<1>3. TargetGoesNowhere'
  BY <1>0 DEF TargetGoesNowhere, Poll, Stopped
<1>4. QED
  BY <1>0, <1>2, <1>3 DEF IInv, Tracked, Poll, bpState

LEMMA QuitKeeps == ASSUME IInv, Quit PROVE IInv'
BY DEF IInv, TypeOK, Tracked, TargetGoesNowhere, Quit, End, core, cached, bpState, client

LEMMA CoreStopsKeeps == ASSUME IInv, CoreStops PROVE IInv'
<1>1. epoch' \in Nat /\ hw' \in [HwRegs -> Values]
  BY FreshType DEF IInv, TypeOK, CoreStops, Ran
<1>2. TypeOK'
  BY <1>1 DEF IInv, TypeOK, CoreStops, cached, bpState, client
<1>3. QED
  BY <1>2 DEF IInv, Tracked, TargetGoesNowhere, CoreStops, bpState

\* gdb only adds requests.
LEMMA SendKeeps ==
  ASSUME IInv, NEW o, NEW a, [op |-> o, arg |-> a] \in Requests, Send(o, a),
         gdb' \in {"stopped", "waits", "running", "gone"}, intr' \in {"never", "sent", "old"}
  PROVE  IInv'
<1>0. TypeOK /\ Tracked /\ TargetGoesNowhere
  BY DEF IInv
<1>1. toServer' \in Seq(Requests) /\ toServer' # <<>>
  BY <1>0 DEF Send, TypeOK
<1>2. reqs' \in 0 .. MaxReqs
  BY <1>0, Sizes DEF Send, TypeOK
<1>3. TypeOK'
  BY <1>0, <1>1, <1>2 DEF TypeOK, Send, core, cached, bpState
<1>4. QED
  BY <1>0, <1>1, <1>3 DEF IInv, Tracked, TargetGoesNowhere, Send, core, bpState

LEMMA ClientKeeps == ASSUME IInv, Client PROVE IInv'
<1>0. TypeOK
  BY DEF IInv
<1>1. CASE GdbAsks
  <2>1. gdb' \in {"stopped", "waits", "running", "gone"} /\ intr' \in {"never", "sent", "old"}
    BY <1>0, <1>1 DEF GdbAsks, TypeOK
  <2>2. CASE Send("regs", 0)
    BY <2>1, <2>2, SendKeeps DEF Requests
  <2>3. CASE \E i \in GdbRegs : Send("write", i)
    BY <2>1, <2>3, SendKeeps DEF Requests
  <2>4. CASE \E a \in BptAddrs \ inserted : Send("insert", a)
    BY <2>1, <2>4, SendKeeps DEF Requests
  <2>5. CASE \E a \in inserted \cup doubtful : Send("remove", a)
    BY <1>0, <2>1, <2>5, SendKeeps DEF Requests, TypeOK
  <2>6. QED
    BY <1>1, <2>2, <2>3, <2>4, <2>5 DEF GdbAsks
<1>2. CASE GdbResumes
  <2>1. gdb' \in {"stopped", "waits", "running", "gone"} /\ intr' \in {"never", "sent", "old"}
    BY <1>0, <1>2 DEF GdbResumes, TypeOK
  <2>2. Send("step", 0) \/ Send("cont", 0)
    BY <1>2 DEF GdbResumes
  <2>3. QED
    BY <2>1, <2>2, SendKeeps DEF Requests
<1>3. CASE GdbLeaves
  BY <1>0, <1>3, SendKeeps DEF GdbLeaves, Requests, TypeOK
<1>4. CASE GdbInterrupts
  BY <1>0, <1>4, SendKeeps DEF GdbInterrupts, Requests, TypeOK
<1>5. CASE GdbReceives
  <2>1. toGdb' \in Seq(Replies) /\ gdb' \in {"stopped", "waits", "running", "gone"}
    BY <1>0, <1>5 DEF GdbReceives, TypeOK
  <2>2. TypeOK'
    BY <1>0, <1>5, <2>1 DEF TypeOK, GdbReceives, core, cached, bpState
  <2>3. QED
    BY <1>5, <2>2 DEF IInv, Tracked, TargetGoesNowhere, GdbReceives, core, bpState
<1>6. QED
  BY <1>1, <1>2, <1>3, <1>4, <1>5 DEF Client

LEMMA InitIInv == ASSUME Init PROVE IInv
<1>1. hw \in [HwRegs -> Values] /\ want \in [HwRegs -> Values]
  BY FreshType DEF Init
<1>2. cmp \in [Slots -> BptAddrs \cup {Off}] /\ regs \in [Cells -> Values]
  BY JunkType DEF Init
<1>3. bpts \in [Slots -> [addr : BptAddrs \cup {0}, used : BOOLEAN]]
  BY DEF Init
<1>4. reqs \in 0 .. MaxReqs
  BY Sizes DEF Init
<1>5. toServer \in Seq(Requests) /\ toGdb \in Seq(Replies)
  BY DEF Init
<1>6. TypeOK
  BY <1>1, <1>2, <1>3, <1>4, <1>5 DEF Init, TypeOK
<1>7. QED
  BY <1>6 DEF Init, IInv, Tracked, TargetGoesNowhere

LEMMA NextIInv == ASSUME IInv, [Next]_vars PROVE IInv'
<1>1. CASE UNCHANGED vars
  BY <1>1 DEF IInv, TypeOK, Tracked, TargetGoesNowhere, vars, core, cached, bpState, client
<1>2. CASE Next
  BY <1>2, PacketKeeps, PollKeeps, QuitKeeps, CoreStopsKeeps, ClientKeeps DEF Next, Server
<1>3. QED
  BY <1>1, <1>2

-----------------------------------------------------------------------------
(* Until gdb's first Ctrl-C: requests and replies alternate                 *)

\* One packet is under way, to the server or to gdb.
OneAtATime ==
  /\ toServer # <<>> => toGdb = <<>> /\ Tail(toServer) = <<>>
  /\ toGdb # <<>> => Tail(toGdb) = <<>>
  /\ gdb = "stopped" => toServer = <<>> /\ toGdb = <<>>

\* gdb does what the request under way calls for.
Matched ==
  toServer # <<>> =>
    /\ Head(toServer).op # "intr"
    /\ Head(toServer).op \in {"step", "cont"} <=> gdb = "running"
    /\ Head(toServer).op \in {"detach", "kill"} <=> gdb = "gone"

\* While the server asks the core whether it stopped, gdb waits for that stop.
Awaited == alive /\ isRunning => gdb = "running" /\ toServer = <<>> /\ toGdb = <<>>

\* A stop is due for the resume of a core that runs, and for no other.
Counted ==
  /\ stops <= resumes
  /\ alive => resumes = IF isRunning THEN stops + 1 ELSE stops

Calm == Uninterrupted => OneAtATime /\ Matched /\ Awaited /\ Counted

LEMMA StillUninterrupted ==
  ASSUME [Next]_vars, Uninterrupted' PROVE Uninterrupted
<1>1. CASE Server \/ Quit \/ CoreStops \/ UNCHANGED vars
  BY <1>1 DEF Uninterrupted, Server, Poll, Packet, Quit, CoreStops, client, vars
<1>2. CASE Client
  BY <1>2
  DEF Uninterrupted, Client, GdbAsks, GdbResumes, GdbLeaves, GdbInterrupts, GdbReceives, Send
<1>3. QED
  BY <1>1, <1>2 DEF Next

\* What a handler finds.
Quiet ==
  /\ Handling
  /\ Uninterrupted
  /\ toServer' = <<>> /\ toGdb = <<>>
  /\ ~isRunning /\ halted
  /\ resumes = stops
  /\ gdb # "stopped" /\ gdb' = gdb

LEMMA QuietPacket ==
  ASSUME Handling, Calm, Uninterrupted PROVE Quiet
<1>1. toServer # <<>> /\ TargetGoesNowhere /\ alive
  BY DEF Handling, IInv
<1>2. OneAtATime /\ Awaited /\ Counted
  BY DEF Calm
<1>3. toServer' = <<>> /\ toGdb = <<>>
  BY <1>1, <1>2 DEF Handling, OneAtATime
<1>4. ~isRunning
  BY <1>1, <1>2 DEF Awaited
<1>5. halted
  BY <1>1, <1>4 DEF TargetGoesNowhere
<1>6. resumes = stops
  BY <1>1, <1>2, <1>4 DEF Counted
<1>7. gdb # "stopped" /\ gdb' = gdb
  BY <1>1, <1>2 DEF OneAtATime, Handling, client
<1>8. QED
  BY <1>3, <1>4, <1>5, <1>6, <1>7 DEF Quiet

\* A handler keeps the alternation when it sends at most one packet and counts
\* its stops and resumes.
LEMMA CalmAfter ==
  ASSUME Quiet,
         toGdb' = <<>> \/ \E r \in Replies : toGdb' = <<r>>,
         (stops <= resumes)',
         alive' /\ isRunning' => gdb = "running" /\ toGdb' = <<>>,
         (alive => resumes = IF isRunning THEN stops + 1 ELSE stops)'
  PROVE  Calm'
<1>1. OneAtATime'
  <2>1. \A r \in Replies : Tail(<<r>>) = <<>>
    OBVIOUS
  <2>2. (toServer # <<>> => toGdb = <<>> /\ Tail(toServer) = <<>>)'
    BY DEF Quiet
  <2>3. (toGdb # <<>> => Tail(toGdb) = <<>>)'
    BY <2>1
  <2>4. (gdb = "stopped" => toServer = <<>> /\ toGdb = <<>>)'
    BY DEF Quiet
  <2>5. QED
    BY <2>2, <2>3, <2>4 DEF OneAtATime
<1>2. Matched'
  BY DEF Matched, Quiet
<1>3. Awaited'
  BY DEF Awaited, Quiet
<1>4. Counted'
  BY DEF Counted
<1>5. QED
  BY <1>1, <1>2, <1>3, <1>4 DEF Calm

LEMMA OneReply == ASSUME Quiet, NEW r \in Replies, Reply(r)
                  PROVE  \E q \in Replies : toGdb' = <<q>>
BY DEF Quiet, Reply

LEMMA SameCounts ==
  ASSUME Quiet, UNCHANGED <<isRunning, stops, resumes>>
  PROVE  /\ (stops <= resumes)'
         /\ alive' /\ isRunning' => gdb = "running" /\ toGdb' = <<>>
         /\ (alive => resumes = IF isRunning THEN stops + 1 ELSE stops)'
<1>1. stops \in Nat /\ resumes \in Nat
  BY DEF Quiet, Handling, IInv, TypeOK
<1>2. QED
  BY <1>1 DEF Quiet

\* A handler that ends the session without a word.
LEMMA CalmEnd ==
  ASSUME Quiet, UNCHANGED <<isRunning, stops, resumes, toGdb>> PROVE Calm'
BY CalmAfter, SameCounts DEF Quiet

LEMMA CalmResume ==
  ASSUME Quiet, HandleStep \/ HandleContinue, gdb = "running" PROVE Calm'
<1>0. stops \in Nat /\ resumes \in Nat
  BY DEF Quiet, Handling, IInv, TypeOK
<1>1. CASE FlushFails
  BY <1>1, CalmEnd DEF FlushFails, Abort
<1>2. CASE Abort /\ hw' = Flushed /\ UNCHANGED <<halted, dfsr, epoch, toGdb, stops>>
  BY <1>2, CalmEnd DEF Abort
<1>3. CASE Resume /\ ReplyStop("S05") /\ UNCHANGED isRunning
  <2>1. \E q \in Replies : toGdb' = <<q>>
    BY <1>3, OneReply DEF ReplyStop, Replies
  <2>2. stops' = stops + 1 /\ resumes' = resumes + 1 /\ ~isRunning'
    BY <1>3 DEF ReplyStop, Resume, Quiet
  <2>3. stops' = resumes'
    BY <1>0, <2>2 DEF Quiet
  <2>4. stops' <= resumes'
    BY <1>0, <2>2 DEF Quiet
  <2>5. QED
    BY <2>1, <2>2, <2>3, <2>4, CalmAfter
<1>4. CASE Resume /\ isRunning' = NowRunning /\ UNCHANGED <<toGdb, stops>>
  <2>1. resumes' = stops' + 1 /\ isRunning' /\ toGdb' = <<>>
    BY <1>0, <1>4 DEF Resume, Quiet, NowRunning
  <2>2. stops' <= resumes'
    BY <1>0, <1>4 DEF Resume, Quiet
  <2>3. QED
    BY <2>1, <2>2, CalmAfter
<1>5. QED
  BY <1>1, <1>2, <1>3, <1>4 DEF HandleStep, HandleContinue

\* The other handlers answer once, or end the session, and count nothing.
LEMMA CalmAnswer ==
  ASSUME Quiet, UNCHANGED <<isRunning, stops, resumes>>,
         toGdb' = toGdb \/ Reply("regs") \/ Reply("OK") \/ Reply("E00")
  PROVE  Calm'
<1>1. toGdb' = <<>> \/ \E r \in Replies : toGdb' = <<r>>
  BY OneReply DEF Quiet, Replies
<1>2. QED
  BY <1>1, CalmAfter, SameCounts

LEMMA CalmOthers ==
  ASSUME Quiet, NEW i, NEW b,
         HandleReadRegs \/ HandleWriteReg(i) \/ HandleInsert(i) \/ HandleRemove(i)
           \/ HandleLeave(b)
  PROVE  Calm'
<1>1. CASE HandleReadRegs
  BY <1>1, CalmAnswer DEF HandleReadRegs, AbortSilently, Abort
<1>2. CASE HandleWriteReg(i)
  BY <1>2, CalmAnswer DEF HandleWriteReg, AbortSilently, Abort
<1>3. CASE HandleInsert(i)
  BY <1>3, CalmAnswer DEF HandleInsert, Comparator
<1>4. CASE HandleRemove(i)
  BY <1>4, CalmAnswer DEF HandleRemove, Comparator
<1>5. CASE HandleLeave(b)
  BY <1>5, CalmAnswer DEF HandleLeave, Reply
<1>6. QED
  BY <1>1, <1>2, <1>3, <1>4, <1>5

LEMMA CalmPacket == ASSUME IInv, Calm, Packet PROVE Calm'
<1> SUFFICES ASSUME Uninterrupted' PROVE Calm'
  BY DEF Calm
<1>1. Handling
  BY DEF Packet, Handling
<1>2. Uninterrupted
  BY DEF Packet, client, Uninterrupted
<1>3. Quiet
  BY <1>1, <1>2, QuietPacket
<1>4. Head(toServer).op # "intr"
      /\ (Head(toServer).op \in {"step", "cont"} => gdb = "running")
  BY <1>1, <1>2 DEF Calm, Matched, Handling, IInv
<1> DEFINE p == Head(toServer)
<1>5. CASE p.op \in {"step", "cont"} /\ (HandleStep \/ HandleContinue)
  BY <1>3, <1>4, <1>5, CalmResume
<1>6. CASE HandleReadRegs
  BY <1>3, <1>6, CalmOthers
<1>7. CASE HandleWriteReg(p.arg)
  BY <1>3, <1>7, CalmOthers
<1>8. CASE HandleInsert(p.arg)
  BY <1>3, <1>8, CalmOthers
<1>9. CASE HandleRemove(p.arg)
  BY <1>3, <1>9, CalmOthers
<1>10. CASE HandleLeave(p.op = "detach")
  BY <1>3, <1>10, CalmOthers
<1>11. QED
  BY <1>4, <1>5, <1>6, <1>7, <1>8, <1>9, <1>10 DEF Packet

\* The stop of a core that runs is told while gdb waits for it.
LEMMA CalmPoll == ASSUME IInv, Calm, Poll PROVE Calm'
<1> SUFFICES ASSUME Uninterrupted' PROVE Calm'
  BY DEF Calm
<1>0. stops \in Nat /\ resumes \in Nat /\ alive /\ alive'
  BY DEF Poll, IInv, TypeOK
<1>1. Uninterrupted /\ OneAtATime /\ Matched /\ Awaited /\ Counted
  BY DEF Calm, Poll, client, Uninterrupted
<1>2. toServer' = toServer /\ gdb' = gdb /\ resumes' = resumes
  BY DEF Poll, client
<1>3. CASE isRunning /\ ReplyStop("S05") /\ isRunning' = FALSE
  <2>1. gdb = "running" /\ toServer = <<>> /\ toGdb = <<>> /\ resumes = stops + 1
    BY <1>0, <1>1, <1>3 DEF Awaited, Counted
  <2>2. toGdb' = <<"S05">> /\ stops' = stops + 1
    BY <1>3, <2>1 DEF ReplyStop, Reply
  <2>3. stops' = resumes' /\ stops' <= resumes'
    BY <1>0, <1>2, <2>1, <2>2
  <2>4. OneAtATime' /\ Matched'
    BY <1>2, <2>1, <2>2 DEF OneAtATime, Matched
  <2>5. Awaited' /\ Counted'
    BY <1>0, <1>3, <2>3 DEF Awaited, Counted
  <2>6. QED
    BY <2>4, <2>5 DEF Calm
<1>4. CASE UNCHANGED <<toGdb, stops, isRunning>>
  <2>1. OneAtATime' /\ Matched'
    BY <1>1, <1>2, <1>4 DEF OneAtATime, Matched
  <2>2. Awaited' /\ Counted'
    BY <1>0, <1>1, <1>2, <1>4 DEF Awaited, Counted
  <2>3. QED
    BY <2>1, <2>2 DEF Calm
<1>5. QED
  BY <1>3, <1>4 DEF Poll

LEMMA CalmSend ==
  ASSUME TypeOK, Calm, Uninterrupted, gdb = "stopped", NEW o, NEW a, Send(o, a), o # "intr",
         o \in {"step", "cont"} <=> gdb' = "running",
         o \in {"detach", "kill"} <=> gdb' = "gone",
         gdb' # "stopped"
  PROVE  Calm'
<1>1. toServer = <<>> /\ toGdb = <<>> /\ Awaited /\ Counted
  BY DEF Calm, OneAtATime
<1>2. toServer' = <<[op |-> o, arg |-> a]>> /\ toGdb' = <<>>
  BY <1>1 DEF Send
<1>3. OneAtATime' /\ Matched'
  BY <1>2 DEF OneAtATime, Matched
<1>4. alive' = alive /\ isRunning' = isRunning /\ stops' = stops /\ resumes' = resumes
  BY DEF Send
<1>5. Awaited' /\ Counted'
  BY <1>1, <1>4 DEF Awaited, Counted
<1>6. QED
  BY <1>3, <1>5 DEF Calm

LEMMA CalmClient == ASSUME IInv, Calm, Client PROVE Calm'
<1> SUFFICES ASSUME Uninterrupted' PROVE Calm'
  BY DEF Calm
<1>0. Uninterrupted /\ OneAtATime /\ Matched /\ Awaited /\ Counted /\ TypeOK
  BY StillUninterrupted DEF Next, Calm, IInv
<1>1. CASE GdbAsks
  BY <1>0, <1>1, CalmSend DEF GdbAsks
<1>2. CASE GdbResumes
  BY <1>0, <1>2, CalmSend DEF GdbResumes
<1>3. CASE GdbLeaves
  BY <1>0, <1>3, CalmSend DEF GdbLeaves
<1>4. CASE GdbInterrupts
  BY <1>4 DEF GdbInterrupts, Uninterrupted
<1>5. CASE GdbReceives
  <2>1. toGdb # <<>> /\ toGdb' = <<>> /\ toServer = <<>> /\ toServer' = <<>>
    BY <1>0, <1>5 DEF GdbReceives, OneAtATime
  <2>2. alive' = alive /\ isRunning' = isRunning /\ stops' = stops /\ resumes' = resumes
    BY <1>5 DEF GdbReceives
  <2>3. OneAtATime' /\ Matched'
    BY <2>1 DEF OneAtATime, Matched
  <2>4. Awaited' /\ Counted'
    BY <1>0, <2>1, <2>2 DEF Awaited, Counted
  <2>5. QED
    BY <2>3, <2>4 DEF Calm
<1>6. QED
  BY <1>1, <1>2, <1>3, <1>4, <1>5 DEF Client

LEMMA CalmNext == ASSUME IInv, Calm, [Next]_vars PROVE Calm'
<1>1. CASE UNCHANGED vars
  BY <1>1
  DEF Calm, OneAtATime, Matched, Awaited, Counted, Uninterrupted, vars, client
<1>2. CASE Quit
  BY <1>2
  DEF Quit, End, Calm, OneAtATime, Matched, Awaited, Counted, Uninterrupted, client
<1>3. CASE CoreStops
  BY <1>3
  DEF CoreStops, Calm, OneAtATime, Matched, Awaited, Counted, Uninterrupted, client
<1>4. QED
  BY <1>1, <1>2, <1>3, CalmPacket, CalmPoll, CalmClient DEF Next, Server

LEMMA InitCalm == ASSUME Init PROVE Calm
BY DEF Init, Calm, OneAtATime, Matched, Awaited, Counted

-----------------------------------------------------------------------------
(* Until gdb's first Ctrl-C: the cache, the core and what gdb was told      *)

\* No register of the second FPU set, which the cache misplaces, and no write but
\* of R0 .. : under its other numbers gdb means a register that is not cell i.
KnownRegisters == ~HasFpu /\ GdbRegs \subseteq 0 .. N - 1

Cached ==
  /\ asWanted
  /\ alive =>
       /\ isRunning => ~regsValid
       /\ regsValid => \A r \in HwRegs : regs[r] = want[r]
       /\ ~(regsValid /\ regsDirty) => hw = want

Mirrored == Uninterrupted => Cached

\* What a filled cache holds in the cell of a register, and where that is.
LEMMA CellIsRegister ==
  ASSUME KnownRegisters, NEW r \in HwRegs
  PROVE  Cell(r) = r /\ Source(r) = r /\ r < 4 * N
<1>1. \A q \in HwRegs : q \in 0 .. 2 * N - 1
  BY Sizes DEF KnownRegisters, HwRegs, RegSets
<1>2. \A q \in HwRegs : Cell(q) = q
  BY <1>1, Sizes DEF Cell
<1>3. {q \in HwRegs : Cell(q) = r} = {r}
  BY <1>2
<1>4. Max({r}) = r
  BY <1>1 DEF Max
<1>5. Source(r) = r
  BY <1>3, <1>4 DEF Source
<1>6. r < 4 * N
  BY <1>1, Sizes
<1>7. QED
  BY <1>2, <1>5, <1>6

\* A cache that is filled from a halted core mirrors it.
LEMMA FilledMirrors ==
  ASSUME KnownRegisters, TypeOK, Cached, alive, ~regsValid \/ ~isRunning
  PROVE  \A r \in HwRegs : Filled(TRUE, hw)[r] = want[r]
<1>1. CASE regsValid
  BY <1>1 DEF Cached, Filled
<1>2. CASE ~regsValid
  <2>1. TAKE r \in HwRegs
  <2>2. r \in Cells
    BY CellType, CellIsRegister
  <2>3. Filled(TRUE, hw)[r] = hw[r]
    BY <1>2, <2>2, CellIsRegister DEF Filled
  <2>4. QED
    BY <1>2, <2>3 DEF Cached
<1>3. QED
  BY <1>1, <1>2

\* What is written back makes the core what gdb set it to.
LEMMA FlushedWanted ==
  ASSUME KnownRegisters, TypeOK, Cached, alive PROVE Flushed = want
<1>1. CASE regsValid /\ regsDirty
  <2>1. \A r \in HwRegs : Stored(4)[r] = want[r]
    BY <1>1, CellIsRegister DEF Stored, Cached
  <2>2. Stored(4) = [r \in HwRegs |-> Stored(4)[r]]
    BY DEF Stored
  <2>3. want = [r \in HwRegs |-> want[r]]
    BY DEF TypeOK
  <2>4. Stored(4) = want
    BY <2>1, <2>2, <2>3
  <2>5. QED
    BY <1>1, <2>4 DEF Flushed
<1>2. CASE ~(regsValid /\ regsDirty)
  BY <1>2 DEF Cached, Flushed
<1>3. QED
  BY <1>1, <1>2

\* What a handler finds, the cache included.
Settled == KnownRegisters /\ Quiet /\ Cached

LEMMA CachedEnd == ASSUME Cached, End, UNCHANGED asWanted PROVE Cached'
BY DEF Cached, End

LEMMA CachedResume == ASSUME Settled, HandleStep \/ HandleContinue PROVE Cached'
<1>0. TypeOK /\ alive /\ Cached
  BY DEF Settled, Quiet, Handling, IInv
<1>1. CASE Abort
  BY <1>0, <1>1, CachedEnd DEF Abort
<1>2. CASE Resume /\ (want' = hw' \/ (hw' = Flushed /\ want' = want))
  <2>1. Flushed = want
    BY <1>0, FlushedWanted DEF Settled
  <2>2. asWanted' = (asWanted /\ (~halted \/ Flushed = want))
    BY <1>2 DEF Resume
  <2>3. asWanted'
    BY <1>0, <2>1, <2>2 DEF Cached
  <2>4. hw' = want'
    BY <1>2, <2>1
  <2>5. ~regsValid'
    BY <1>2 DEF Resume
  <2>6. QED
    BY <2>3, <2>4, <2>5 DEF Cached
<1>3. CASE HandleStep
  <2>1. Abort \/ (Resume /\ want' = hw')
    BY <1>3 DEF HandleStep, FlushFails
  <2>2. QED
    BY <1>1, <1>2, <2>1
<1>4. CASE HandleContinue
  <2>1. \/ Abort
        \/ Resume /\ hw' = Flushed /\ UNCHANGED <<dfsr, epoch, want, toGdb, stops>>
    BY <1>4 DEF HandleContinue, FlushFails
  <2>2. QED
    BY <1>1, <1>2, <2>1
<1>5. QED
  BY <1>3, <1>4

LEMMA CachedRead == ASSUME Settled, HandleReadRegs PROVE Cached'
<1>0. TypeOK /\ alive /\ Cached /\ halted /\ ~isRunning
  BY DEF Settled, Quiet, Handling, IInv
<1>1. CASE AbortSilently
  BY <1>0, <1>1, CachedEnd DEF AbortSilently, Abort
<1>2. CASE /\ regsValid' = TRUE
           /\ regsDirty' = (regsDirty /\ regsValid)
           /\ regs' = Filled(halted, hw)
           /\ UNCHANGED <<core, isRunning, want, asWanted>>
  <2>1. hw' = hw /\ want' = want /\ asWanted' = asWanted /\ ~isRunning'
    BY <1>0, <1>2 DEF core
  <2>2. \A r \in HwRegs : regs'[r] = want'[r]
    BY <1>0, <1>2, <2>1, FilledMirrors DEF Settled
  <2>3. ~(regsValid' /\ regsDirty') => hw' = want'
    BY <1>0, <1>2, <2>1 DEF Cached
  <2>4. QED
    BY <1>0, <2>1, <2>2, <2>3 DEF Cached
<1>3. QED
  BY <1>1, <1>2 DEF HandleReadRegs

LEMMA CachedWrite ==
  ASSUME Settled, NEW i \in GdbRegs, HandleWriteReg(i) PROVE Cached'
<1>0. TypeOK /\ alive /\ Cached /\ halted /\ ~isRunning
  BY DEF Settled, Quiet, Handling, IInv
<1>1. CASE AbortSilently
  BY <1>0, <1>1, CachedEnd DEF AbortSilently, Abort
<1>2. CASE /\ regsValid' = TRUE
           /\ regsDirty' = TRUE
           /\ regs' = [Filled(halted, hw) EXCEPT ![i] = <<-1, i>>]
           /\ want' = [want EXCEPT ![Meant(i)] = <<-1, i>>]
           /\ UNCHANGED <<core, isRunning, asWanted>>
  <2>1. Meant(i) = i
    BY Sizes DEF Settled, KnownRegisters, Meant
  <2>2. \A r \in HwRegs : Filled(TRUE, hw)[r] = want[r]
    BY <1>0, FilledMirrors DEF Settled
  <2>3. Filled(TRUE, hw) \in [Cells -> Values] /\ want \in [HwRegs -> Values]
    BY <1>0, FilledType DEF TypeOK
  <2>4. \A r \in HwRegs : r \in Cells
    BY CellType, CellIsRegister DEF Settled
  <2>5. regs' = [Filled(TRUE, hw) EXCEPT ![i] = <<-1, i>>]
    BY <1>0, <1>2
  <2>6. \A r \in HwRegs : regs'[r] = want'[r]
    BY <1>2, <2>1, <2>2, <2>3, <2>4, <2>5
  <2>7. QED
    BY <1>0, <1>2, <2>6 DEF Cached
<1>3. CASE End /\ UNCHANGED asWanted
  BY <1>0, <1>3, CachedEnd
<1>4. QED
  BY <1>1, <1>2, <1>3 DEF HandleWriteReg

\* What does not touch the core and the cache.
LEMMA CachedFrame ==
  ASSUME Cached, alive' => alive, UNCHANGED <<cached, isRunning, hw, want, asWanted>>
  PROVE  Cached'
BY DEF Cached, cached

LEMMA MirroredPacket ==
  ASSUME KnownRegisters, IInv, Calm, Mirrored, Packet PROVE Mirrored'
<1> SUFFICES ASSUME Uninterrupted' PROVE Cached'
  BY DEF Mirrored
<1>1. Handling
  BY DEF Packet, Handling
<1>2. Uninterrupted
  BY DEF Packet, client, Uninterrupted
<1>3. Settled
  BY <1>1, <1>2, QuietPacket DEF Settled, Mirrored
<1>4. Cached /\ alive
  BY <1>3 DEF Settled, Quiet, Handling
<1>5. Head(toServer).op # "intr" /\ Head(toServer) \in Requests
  BY <1>1, <1>2, TailType DEF Calm, Matched, Handling, IInv
<1> DEFINE p == Head(toServer)
<1>6. CASE HandleStep \/ HandleContinue
  BY <1>3, <1>6, CachedResume
<1>7. CASE HandleReadRegs
  BY <1>3, <1>7, CachedRead
<1>8. CASE p.op = "write" /\ HandleWriteReg(p.arg)
  <2>1. p.arg \in GdbRegs
    BY <1>5, <1>8 DEF Requests
  <2>2. QED
    BY <1>3, <1>8, <2>1, CachedWrite
<1>9. CASE HandleInsert(p.arg)
  BY <1>4, <1>9, CachedFrame DEF HandleInsert, core
<1>10. CASE HandleRemove(p.arg)
  BY <1>4, <1>10, CachedFrame DEF HandleRemove, core
<1>11. CASE HandleLeave(p.op = "detach")
  BY <1>4, <1>11, CachedFrame DEF HandleLeave, core
<1>12. QED
  BY <1>5, <1>6, <1>7, <1>8, <1>9, <1>10, <1>11 DEF Packet

\* A core that stops by itself was running, so that nothing of it is cached.
LEMMA MirroredStops == ASSUME IInv, Mirrored, CoreStops PROVE Mirrored'
<1> SUFFICES ASSUME Uninterrupted' PROVE Cached'
  BY DEF Mirrored
<1>1. Cached /\ (alive => isRunning)
  BY DEF Mirrored, CoreStops, Uninterrupted, client, IInv, TargetGoesNowhere
<1>2. asWanted' = asWanted /\ regsValid' = regsValid /\ alive' = alive /\ want' = hw'
  BY DEF CoreStops, cached
<1>3. QED
  BY <1>1, <1>2 DEF Cached

LEMMA MirroredPoll == ASSUME Mirrored, Poll PROVE Mirrored'
<1> SUFFICES ASSUME Uninterrupted' PROVE Cached'
  BY DEF Mirrored
<1>1. Cached
  BY DEF Mirrored, Poll, Uninterrupted, client
<1>2. isRunning' = FALSE \/ isRunning' = isRunning
  BY DEF Poll
<1>3. UNCHANGED <<cached, hw, want, asWanted, alive>>
  BY DEF Poll
<1>4. QED
  BY <1>1, <1>2, <1>3 DEF Cached, cached

LEMMA MirroredNext ==
  ASSUME KnownRegisters, IInv, Calm, Mirrored, [Next]_vars PROVE Mirrored'
<1>1. CASE Packet
  BY <1>1, MirroredPacket
<1>2. CASE Poll
  BY <1>2, MirroredPoll
<1>3. CASE CoreStops
  BY <1>3, MirroredStops
<1>4. CASE Quit \/ Client \/ UNCHANGED vars
  <2> SUFFICES ASSUME Uninterrupted' PROVE Cached'
    BY DEF Mirrored
  <2>1. Cached
    BY StillUninterrupted DEF Mirrored
  <2>2. CASE Quit
    BY <2>1, <2>2, CachedEnd DEF Quit
  <2>3. CASE Client
    <3>1. CASE GdbReceives
      BY <2>1, <3>1, CachedFrame DEF GdbReceives, core
    <3>2. CASE \E o, a : Send(o, a)
      BY <2>1, <3>2, CachedFrame DEF Send, core
    <3>3. QED
      BY <2>3, <3>1, <3>2 DEF Client, GdbAsks, GdbResumes, GdbLeaves, GdbInterrupts
  <2>4. CASE UNCHANGED vars
    BY <2>1, <2>4, CachedFrame DEF vars, core
  <2>5. QED
    BY <1>4, <2>2, <2>3, <2>4
<1>5. QED
  BY <1>1, <1>2, <1>3, <1>4 DEF Next, Server

LEMMA InitMirrored == ASSUME Init PROVE Mirrored
BY DEF Init, Mirrored, Cached

-----------------------------------------------------------------------------
(* The theorems                                                             *)

\* Slots, comparators and isRunning agree with what gdb was told and with the
\* core, through every handler of debugReplyToGdb and every turn of its loop.
THEOREM Inductive == Spec => []IInv
<1>1. Init => IInv
  BY InitIInv
<1>2. IInv /\ [Next]_vars => IInv'
  BY NextIInv
<1>3. QED
  BY <1>1, <1>2, PTL DEF Spec

\* Every variable of the server keeps its type; no register is read from or
\* stored outside of the cache debugGdbServer declares.
THEOREM TypeCorrect == Spec => []TypeOK
<1>1. IInv => TypeOK
  BY DEF IInv
<1>2. QED
  BY <1>1, Inductive, PTL

\* debugGdbServer blocks in select only while the core is halted.
THEOREM BlocksOnlyWhenHalted == Spec => []TargetGoesNowhere
<1>1. IInv => TargetGoesNowhere
  BY DEF IInv
<1>2. QED
  BY <1>1, Inductive, PTL

\* A breakpoint gdb was told is set stays in a comparator until gdb removes it,
\* whatever other requests fail.
THEOREM BreakpointsStay == Spec => []BreakpointsHeld
<1>1. IInv => BreakpointsHeld
  BY DEF IInv, Tracked, BreakpointsHeld
<1>2. QED
  BY <1>1, Inductive, PTL

\* Before gdb's first Ctrl-C a stop of the core is told once.
THEOREM StopsToldOnce == Spec => []NoSpareStop
<1>1. Init => IInv /\ Calm
  BY InitIInv, InitCalm
<1>2. IInv /\ Calm /\ [Next]_vars => (IInv /\ Calm)'
  BY NextIInv, CalmNext
<1>3. IInv /\ Calm => NoSpareStop
  BY DEF Calm, Counted, NoSpareStop
<1>4. QED
  BY <1>1, <1>2, <1>3, PTL DEF Spec

\* Before gdb's first Ctrl-C, gdb takes the target for stopped only when it is,
\* whatever registers there are.
THEOREM GdbBelievesTruth == Spec => [](Uninterrupted => BelievesTruth)
<1>1. Init => IInv /\ Calm
  BY InitIInv, InitCalm
<1>2. IInv /\ Calm /\ [Next]_vars => (IInv /\ Calm)'
  BY NextIInv, CalmNext
<1>3. IInv /\ Calm => (Uninterrupted => BelievesTruth)
  BY DEF IInv, TargetGoesNowhere, Calm, Awaited, BelievesTruth
<1>4. QED
  BY <1>1, <1>2, <1>3, PTL DEF Spec

\* Before gdb's first Ctrl-C the cache mirrors the core with what gdb has set, and
\* every run starts from that, when the registers are ones the cache has a place for.
THEOREM PictureHolds == ASSUME KnownRegisters PROVE Spec => []PictureTrue
<1>1. Init => IInv /\ Calm /\ Mirrored
  BY InitIInv, InitCalm, InitMirrored
<1>2. IInv /\ Calm /\ Mirrored /\ [Next]_vars => (IInv /\ Calm /\ Mirrored)'
  BY NextIInv, CalmNext, MirroredNext
<1>3. IInv /\ Calm /\ Mirrored => PictureTrue
  <2> SUFFICES ASSUME IInv, Calm, Mirrored, Uninterrupted
               PROVE  BelievesTruth /\ CacheMirrors /\ asWanted
    BY DEF PictureTrue
  <2>1. BelievesTruth
    BY DEF IInv, TargetGoesNowhere, Calm, Awaited, BelievesTruth
  <2>2. CacheMirrors /\ asWanted
    BY DEF Mirrored, Cached, CacheMirrors
  <2>3. QED
    BY <2>1, <2>2
<1>4. QED
  BY <1>1, <1>2, <1>3, PTL DEF Spec
=============================================================================
