----------------------------- MODULE GdbServer -----------------------------
(***************************************************************************)
(* The GDB server (tool/opDebug.c): its loop, its cache of the core's       *)
(* registers, its breakpoint slots, and what they mirror in the target.     *)
(*                                                                          *)
(* Three parties: the core, which stops by itself at a breakpoint; the      *)
(* server, which handles one packet at a time and asks a running core       *)
(* whether it stopped; and gdb, which sends a request when it has the reply *)
(* to the last one, and Ctrl-C while it waits for a stop.                   *)
(*                                                                          *)
(* Register sets 0 .. 3 are BASE, CTRL, FP0 and FP1; register i of set k of *)
(* the core is k * N + i.  A value is <<register, epoch>>, which tells      *)
(* whose value it is and from which stop, or <<-1, register>> when gdb      *)
(* wrote it.                                                                *)
(***************************************************************************)
EXTENDS Integers, Sequences, FiniteSets, FiniteSetsExt

CONSTANTS
  N,           \* registers in a set (NUM_REGS: 16)
  CtrlRegs,    \* used ones of the CTRL set (5)
  HasFpu,      \* cpuHasFpu
  GdbRegs,     \* registers gdb writes, by gdb's numbers: 0 .. N - 1 are R0 ..,
               \* then F0 .., GDB_REG_NUM_FPS and GDB_REG_NUM_CPSR
  NumBpts,     \* breakpoint comparators
  BptAddrs,    \* addresses gdb sets breakpoints at
  Interrupts,  \* whether gdb sends Ctrl-C
  Fails,       \* whether commands of the debugger may fail
  MaxReqs      \* bound: packets gdb sends

ASSUME GdbServerAssumption ==
  /\ N \in Nat \ {0} /\ CtrlRegs \in 1 .. N - 1
  /\ HasFpu \in BOOLEAN /\ Interrupts \in BOOLEAN /\ Fails \in BOOLEAN
  /\ GdbRegs \subseteq 0 .. 2 * N - 1
  /\ \A i \in GdbRegs : i <= N + N \div 2 + 1
  /\ NumBpts \in Nat /\ MaxReqs \in Nat
  /\ BptAddrs \subseteq Nat

Off == -1                               \* a comparator that is switched off
Slots == 1 .. NumBpts
RegSets == IF HasFpu THEN 4 ELSE 2
Cells == 0 .. 4 * N - 1
Spare == N + CtrlRegs .. 2 * N - 1      \* cells of CTRL that mean nothing
HwRegs == (0 .. RegSets * N - 1) \ Spare
IsFirst(i, S) == i \in S /\ \A j \in S : i <= j
Junk == <<-2, 0>>
Fresh(e) == [r \in HwRegs |-> <<r, e>>]

VARIABLES
  \* the core: halted, a stop reason nobody has read (DFSR), its registers, how
  \* often it ran, its breakpoint comparators
  halted, dfsr, hw, epoch, cmp,
  \* the server: debugGdbServer's variables, the slots it tracks, where its
  \* loop is, whether the session goes on
  isRunning, regsValid, regsDirty, regs, bpts, pc, alive,
  \* the connection
  toServer, toGdb,
  \* gdb: what it believes, whether it has sent Ctrl-C since it resumed the core or
  \* before, what it sent so far
  gdb, intr, reqs,
  \* history: the registers as gdb was told and has set them, whether every run
  \* started from those, the breakpoints gdb was told are set, and the ones of
  \* which it only knows that a request failed, stops it was told of and asked for
  want, asWanted, inserted, doubtful, stops, resumes

core    == <<halted, dfsr, hw, epoch>>
cached  == <<regsValid, regsDirty, regs>>
bpState == <<cmp, bpts, inserted, doubtful>>
client  == <<gdb, intr, reqs>>
vars == <<core, cached, bpState, client, isRunning, pc, alive, toServer,
          toGdb, want, asWanted, stops, resumes>>

-----------------------------------------------------------------------------
(* The register cache                                                       *)

\* The cell of register r.  debugRegsCacheFill and -Flush put FP1 one register,
\* not one set, after FP0.
Cell(r) == IF r < 3 * N THEN r ELSE 2 * N + 1 + (r - 3 * N)

\* The register that a full cache holds in cell c: the one read last.
Source(c) ==
  LET rs == {r \in HwRegs : Cell(r) = c} IN IF rs = {} THEN -1 ELSE Max(rs)

\* The cache after debugRegsCacheFill, from a core with registers h.  A core
\* that runs has no registers to read: what comes back is junk.
Filled(stopped, h) ==
  IF regsValid THEN regs
  ELSE [c \in Cells |-> IF stopped /\ Source(c) \in HwRegs THEN h[Source(c)] ELSE Junk]

\* What debugRegsCacheFlush makes of the core, sets below k being written.
Stored(k) ==
  [r \in HwRegs |-> IF r < k * N THEN regs[Cell(r)] ELSE hw[r]]

FlushedNever == hw                      \* mutant: nothing is written back
Flushed == IF regsValid /\ regsDirty THEN Stored(4) ELSE hw

-----------------------------------------------------------------------------
(* Replies and ends                                                         *)

Reply(r) == toGdb' = Append(toGdb, r)
ReplyStop(r) == Reply(r) /\ stops' = stops + 1

\* A handler returns false, or the loop ends: the connection is closed.
End == alive' = FALSE /\ pc' = "end"

GoOn == pc' = "top" /\ UNCHANGED alive

\* A command of the handler failed.
Abort ==
  /\ Fails \/ ~halted
  /\ End
  /\ UNCHANGED <<cached, bpState, isRunning, want, asWanted, resumes>>

AbortSilently == Abort /\ UNCHANGED <<core, toGdb, stops>>

-----------------------------------------------------------------------------
(* Packets: debugReplyToGdb                                                 *)

\* The core runs some instructions and stops: its registers have new values.
Ran == epoch' = epoch + 1 /\ hw' = Fresh(epoch + 1)

\* Writing the cache back fails; some sets may have been written.
FlushFails ==
  /\ regsValid /\ regsDirty /\ Abort
  /\ \E k \in 0 .. RegSets - 1 : hw' = Stored(k)
  /\ UNCHANGED <<halted, dfsr, epoch, toGdb, stops>>

Resume ==
  /\ resumes' = resumes + 1
  /\ asWanted' = (asWanted /\ (~halted \/ Flushed = want))
  /\ regsValid' = FALSE
  /\ regsDirty' = (regsDirty /\ ~regsValid)
  /\ UNCHANGED <<regs, bpState>>

\* Mutant: the core counts as running after a step, too.
StepRuns ==
  /\ Resume
  /\ Ran /\ halted' = TRUE /\ dfsr' = FALSE /\ want' = hw'
  /\ ReplyStop("S05") /\ GoOn
  /\ isRunning' = TRUE

HandleStep ==
  \/ FlushFails
  \/ /\ Resume
     /\ Ran /\ halted' = TRUE /\ dfsr' = FALSE /\ want' = hw'
     /\ ReplyStop("S05") /\ GoOn
     /\ UNCHANGED isRunning
  \/ Abort /\ hw' = Flushed /\ UNCHANGED <<halted, dfsr, epoch, toGdb, stops>>

NotRunning == FALSE                     \* mutant: isRunning is not set

\* The session goes on with the core running.
NowRunning == TRUE

\* When no answer came cpuGo returns true as well, and the core may not run.
HandleContinue ==
  \/ FlushFails
  \/ /\ Resume
     /\ hw' = Flushed
     /\ \/ halted' = FALSE
        \/ Fails /\ halted' = halted
     /\ isRunning' = NowRunning
     /\ GoOn
     /\ UNCHANGED <<dfsr, epoch, want, toGdb, stops>>
  \/ Fails /\ Abort /\ hw' = Flushed /\ UNCHANGED <<halted, dfsr, epoch, toGdb, stops>>

HandleReadRegs ==
  \/ /\ regsValid' = TRUE
     /\ regsDirty' = (regsDirty /\ regsValid)
     /\ regs' = Filled(halted, hw)
     /\ Reply("regs") /\ GoOn
     /\ UNCHANGED <<core, bpState, isRunning, want, asWanted, stops, resumes>>
  \/ ~regsValid /\ AbortSilently

\* The register gdb means by number i: an F register (eight bytes) is two S
\* registers and has no such, FPS is FPCSR and CPSR is xPSR.
GDB_REG_NUM_FPS == N + N \div 2
Wide == N .. GDB_REG_NUM_FPS - 1
Meant(i) ==
  IF i < N THEN i ELSE IF i = GDB_REG_NUM_FPS THEN N + CtrlRegs - 1 ELSE N

\* Whatever number i names, it is cell i that is written with four bytes
\* (debugGetRegFromStr).  What is left of a value of eight bytes ends the session.
HandleWriteReg(i) ==
  \/ /\ regsValid' = TRUE
     /\ regsDirty' = TRUE
     /\ regs' = [Filled(halted, hw) EXCEPT ![i] = <<-1, i>>]
     /\ \/ /\ i \notin Wide
           /\ want' = [want EXCEPT ![Meant(i)] = <<-1, i>>]
           /\ Reply("OK") /\ GoOn
        \/ /\ i \in Wide
           /\ End /\ UNCHANGED <<want, toGdb>>
     /\ UNCHANGED <<core, bpState, isRunning, asWanted, stops, resumes>>
  \/ ~regsValid /\ AbortSilently

\* The write to comparator i: it may fail, before or after it took effect.
Comparator(i, x, a, known, unknown) ==
  \/ /\ cmp' = [cmp EXCEPT ![i] = x]
     /\ inserted' = known /\ doubtful' = doubtful \ {a}
     /\ Reply("OK")
  \/ /\ Fails
     /\ \E y \in {x, cmp[i]} : cmp' = [cmp EXCEPT ![i] = y]
     /\ inserted' = unknown /\ doubtful' = doubtful \cup {a}
     /\ Reply("E00")

\* Mutant: the search for a slot does not ask whether it is used.
FreeAny == Slots

Free == {i \in Slots : ~bpts[i].used}

HandleInsert(a) ==
  /\ \/ \E i \in Free :
           /\ IsFirst(i, Free)
           /\ bpts' = [bpts EXCEPT ![i] = [addr |-> a, used |-> TRUE]]
           /\ Comparator(i, a, a, inserted \cup {a}, inserted)
     \/ /\ Free = {}
        /\ Reply("E00")
        /\ UNCHANGED bpState
  /\ GoOn
  /\ UNCHANGED <<core, cached, isRunning, want, asWanted, stops, resumes>>

Holding(a) == {i \in Slots : bpts[i].used /\ bpts[i].addr = a}

HandleRemove(a) ==
  /\ \/ \E i \in Holding(a) :
           /\ IsFirst(i, Holding(a))
           /\ bpts' = [bpts EXCEPT ![i].used = FALSE]
           /\ Comparator(i, Off, a, inserted \ {a}, inserted \ {a})
     \/ /\ Holding(a) = {}
        /\ Reply("E00")
        /\ UNCHANGED bpState
  /\ GoOn
  /\ UNCHANGED <<core, cached, isRunning, want, asWanted, stops, resumes>>

\* "D" and "k", and the end of the stream.
HandleLeave(answer) ==
  /\ End
  /\ toGdb' = IF answer THEN Append(toGdb, "OK") ELSE toGdb
  /\ UNCHANGED <<core, cached, bpState, isRunning, want, asWanted, stops, resumes>>

-----------------------------------------------------------------------------
(* Ctrl-C and the loop of debugGdbServer                                    *)

\* The stop is announced first.  cpuStop returns the stop reason, and 0xFF when
\* no answer came or the core has not stopped yet; 0 ends the session.
HandleInterrupt ==
  /\ ReplyStop("S11")
  /\ \/ ~halted /\ Ran /\ halted' = TRUE /\ dfsr' \in {FALSE, Fails}
     \/ halted /\ dfsr /\ dfsr' = FALSE /\ UNCHANGED <<halted, hw, epoch>>
     \/ (Fails \/ ~halted) /\ UNCHANGED core
  /\ want' = IF halted # halted' THEN hw' ELSE want
  /\ \/ /\ regsValid' = TRUE /\ regsDirty' = FALSE
        /\ regs' = Filled(halted', hw')
        /\ GoOn
     \/ /\ ~regsValid /\ (Fails \/ ~halted')
        /\ End /\ UNCHANGED cached
  /\ UNCHANGED <<bpState, isRunning, asWanted, resumes>>

InterruptStopsNothing ==
  /\ halted /\ ~dfsr
  /\ ReplyStop("S11")
  /\ End
  /\ UNCHANGED <<core, cached, bpState, isRunning, want, asWanted, resumes>>

Packet ==
  /\ pc = "packet" /\ alive
  /\ toServer' = Tail(toServer)
  /\ LET p == Head(toServer) IN
     \/ p.op = "step" /\ HandleStep
     \/ p.op = "cont" /\ HandleContinue
     \/ p.op = "regs" /\ HandleReadRegs
     \/ p.op = "write" /\ HandleWriteReg(p.arg)
     \/ p.op = "insert" /\ HandleInsert(p.arg)
     \/ p.op = "remove" /\ HandleRemove(p.arg)
     \/ p.op \in {"detach", "kill"} /\ HandleLeave(p.op = "detach")
     \/ p.op = "intr" /\ (HandleInterrupt \/ InterruptStopsNothing)
  /\ UNCHANGED client

\* What cpuIsStoppedAndWhy can tell.
Stopped == halted

\* One turn of the loop up to the packet: look for a packet, and ask a core that
\* runs whether it stopped.
Poll ==
  /\ pc = "top" /\ alive
  /\ pc' = IF toServer # <<>> THEN "packet" ELSE "top"
  /\ \/ /\ isRunning /\ Stopped
        /\ ReplyStop("S05")
        /\ isRunning' = FALSE /\ dfsr' = FALSE
     \/ /\ isRunning => ~halted \/ Fails
        /\ dfsr' \in IF isRunning /\ halted THEN {dfsr, FALSE} ELSE {dfsr}
        /\ UNCHANGED <<toGdb, stops, isRunning>>
  /\ UNCHANGED <<halted, hw, epoch, cached, bpState, client, alive, toServer,
                 want, asWanted, resumes>>

\* The user presses a key.
Quit ==
  /\ pc = "top" /\ alive
  /\ End
  /\ UNCHANGED <<core, cached, bpState, client, isRunning, toServer, toGdb,
                 want, asWanted, stops, resumes>>

-----------------------------------------------------------------------------
(* The core and gdb                                                         *)

CoreStops ==
  /\ ~halted
  /\ halted' = TRUE /\ dfsr' = TRUE /\ Ran /\ want' = hw'
  /\ UNCHANGED <<cached, bpState, client, isRunning, pc, alive, toServer,
                 toGdb, asWanted, stops, resumes>>

Send(op, arg) ==
  /\ reqs < MaxReqs
  /\ reqs' = reqs + 1
  /\ toServer' = Append(toServer, [op |-> op, arg |-> arg])
  /\ UNCHANGED <<core, cached, bpState, isRunning, pc, alive, toGdb,
                 want, asWanted, stops, resumes>>

GdbAsks ==
  /\ gdb = "stopped" /\ UNCHANGED intr
  /\ gdb' = "waits"
  /\ \/ Send("regs", 0)
     \/ \E i \in GdbRegs : Send("write", i)
     \/ \E a \in BptAddrs \ inserted : Send("insert", a)
     \/ \E a \in inserted \cup doubtful : Send("remove", a)

GdbResumes ==
  /\ gdb = "stopped" /\ gdb' = "running"
  /\ intr' = IF intr = "sent" THEN "old" ELSE intr
  /\ Send("step", 0) \/ Send("cont", 0)

GdbLeaves ==
  /\ gdb = "stopped" /\ gdb' = "gone" /\ UNCHANGED intr
  /\ Send("detach", 0) \/ Send("kill", 0)

GdbInterrupts ==
  /\ Interrupts /\ gdb = "running" /\ intr # "sent"
  /\ intr' = "sent" /\ UNCHANGED gdb
  /\ Send("intr", 0)

\* The next thing the server sent is the answer to the last request; gdb that
\* waits for a stop ignores everything else.
GdbReceives ==
  /\ gdb \in {"waits", "running"} /\ toGdb # <<>>
  /\ gdb' = IF gdb = "running" /\ Head(toGdb) \notin {"S05", "S11"}
            THEN gdb ELSE "stopped"
  /\ toGdb' = Tail(toGdb)
  /\ UNCHANGED <<core, cached, bpState, intr, reqs, isRunning, pc, alive,
                 toServer, want, asWanted, stops, resumes>>

\* debugOpDo has stopped the core and read why.
Init ==
  /\ halted = TRUE /\ dfsr = FALSE /\ epoch = 0 /\ hw = Fresh(0)
  /\ cmp = [i \in Slots |-> Off]
  /\ isRunning = FALSE /\ regsValid = FALSE /\ regsDirty = FALSE
  /\ regs = [c \in Cells |-> Junk]
  /\ bpts = [i \in Slots |-> [addr |-> 0, used |-> FALSE]]
  /\ pc = "top" /\ alive = TRUE
  /\ toServer = <<>> /\ toGdb = <<>>
  /\ gdb = "stopped" /\ intr = "never" /\ reqs = 0
  /\ want = hw /\ asWanted = TRUE /\ inserted = {} /\ doubtful = {}
  /\ stops = 0 /\ resumes = 0

Server == Poll \/ Packet
Client == GdbAsks \/ GdbResumes \/ GdbLeaves \/ GdbInterrupts \/ GdbReceives
Next == Server \/ Quit \/ CoreStops \/ Client

Spec == Init /\ [][Next]_vars

\* The server's loop runs, gdb reads its socket, and a core that has stopped says
\* so when it is asked again and again; a running core need not stop.
Reports == Poll /\ stops' # stops
FairSpec ==
  Spec /\ WF_vars(Server) /\ WF_vars(GdbReceives) /\ SF_vars(Reports)

-----------------------------------------------------------------------------
(* Properties                                                               *)

Values == (-2 .. 4 * N - 1) \X Nat
Requests ==
  [op : {"step", "cont", "regs", "detach", "kill", "intr"}, arg : {0}]
    \cup [op : {"write"}, arg : GdbRegs]
    \cup [op : {"insert", "remove"}, arg : BptAddrs]
Replies == {"S05", "S11", "OK", "E00", "regs"}

\* The types.
TypeOK ==
  /\ halted \in BOOLEAN /\ dfsr \in BOOLEAN /\ epoch \in Nat
  /\ hw \in [HwRegs -> Values] /\ want \in [HwRegs -> Values]
  /\ cmp \in [Slots -> BptAddrs \cup {Off}]
  /\ isRunning \in BOOLEAN /\ regsValid \in BOOLEAN /\ regsDirty \in BOOLEAN
  /\ regs \in [Cells -> Values]
  /\ bpts \in [Slots -> [addr : BptAddrs \cup {0}, used : BOOLEAN]]
  /\ pc \in {"top", "packet", "end"} /\ alive \in BOOLEAN
  /\ gdb \in {"stopped", "waits", "running", "gone"} /\ intr \in {"never", "sent", "old"}
  /\ reqs \in 0 .. MaxReqs /\ asWanted \in BOOLEAN
  /\ inserted \subseteq BptAddrs /\ doubtful \subseteq BptAddrs
  /\ stops \in Nat /\ resumes \in Nat
  /\ toServer \in Seq(Requests) /\ toGdb \in Seq(Replies)

\* "if it is stopped, we can hang here since target will go nowhere"
\* (opDebug.c:1143): the server blocks only while the core is halted.
TargetGoesNowhere == alive /\ ~isRunning => halted

\* gdb has not pressed Ctrl-C.
Uninterrupted == intr = "never"

\* gdb believes that the target is stopped only when it is.
BelievesTruth == alive /\ gdb \in {"stopped", "waits"} => halted

\* A valid cache holds, under the number gdb knows it by, every register as the
\* core has it or as gdb has set it ("lowest first , that is S0 then S1",
\* opDebug.c:543).
CacheMirrors == alive /\ regsValid /\ halted => \A r \in HwRegs : regs[r] = want[r]

\* Until gdb interrupts a run, gdb's picture and the cache are true, and the core
\* starts from the registers it stopped with, but for those gdb has set ("write
\* reg", opDebug.c:878), which have the set values.
PictureTrue == Uninterrupted => BelievesTruth /\ CacheMirrors /\ asWanted

\* Every breakpoint gdb was told is set is in a comparator, failures of other
\* requests notwithstanding.
BreakpointsHeld == \A a \in inserted : \E i \in Slots : cmp[i] = a

\* A breakpoint of gdb has a slot of its own, and the slot its comparator.
Tracked ==
  \A a \in inserted : \E i \in Slots :
    bpts[i].used /\ bpts[i].addr = a /\ cmp[i] = a

\* The inductive strengthening of TypeOK, TargetGoesNowhere and BreakpointsHeld.
IInv ==
  /\ TypeOK
  /\ pc = "packet" => toServer # <<>>
  /\ TargetGoesNowhere
  /\ Tracked

\* No comparator stops the core at an address at which gdb has, as far as it was
\* told, no breakpoint.
NoForgottenBreakpoint ==
  \A i \in Slots : cmp[i] # Off => cmp[i] \in inserted \cup doubtful

\* Until gdb interrupts a run, a stop is told once ("see if target stopped while we
\* were busy", opDebug.c:1160): failures alone never make a second stop reply of one
\* resume.
NoSpareStop == Uninterrupted => stops <= resumes

\* gdb that waits for a stop learns of it ("so we dont delay delivery of signal
\* from target", opDebug.c:1142), whether the core stopped before, during or after
\* its Ctrl-C, unless the session ends.
StopReported ==
  halted /\ gdb = "running" ~> ~halted \/ gdb # "running" \/ ~alive
=============================================================================
