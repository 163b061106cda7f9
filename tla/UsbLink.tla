------------------------------ MODULE UsbLink ------------------------------
(***************************************************************************)
(* The link between the host tool and the firmware: the calls of cpu.c, the *)
(* request, wait and resend loop of debuggerDoOneDevCmd (debugger.c), the   *)
(* USB pipes, and the dispatcher of main.c.                                 *)
(*                                                                          *)
(* Packets carry a command code and a checksum but no sequence number.  A   *)
(* request is sent again when nothing came for 500 ms, when the answer is   *)
(* damaged and when it is the answer to another command.  The firmware      *)
(* executes every request it gets, so a late answer leaves a second one     *)
(* behind, and the only thing that tells them apart is the address that     *)
(* answers to memory commands repeat.                                       *)
(*                                                                          *)
(* A word of memory is tagged with the place it was written for:            *)
(* <<core, address, version>>.                                              *)
(***************************************************************************)
EXTENDS Integers, Sequences, FiniteSets

CONSTANTS
  Cores,       \* the cores that the attach found
  NumWords,    \* words of memory
  XferWords,   \* words in one packet
  Versions,    \* what callers write
  Queue,       \* requests the firmware's end of the pipe buffers
  MaxTries,    \* sends of one request (8)
  MaxCalls,    \* bound: calls of one run of the tool
  MaxLost      \* bound: packets that the link loses or damages

Addr == 0 .. NumWords - 1
Words == Cores \X Addr \X (Versions \cup {0})

ASSUME UsbLinkAssumption ==
  /\ NumWords \in Nat \ {0}
  /\ XferWords \in Nat \ {0}
  /\ Queue \in Nat \ {0}
  /\ MaxTries \in Nat \ {0}
  /\ MaxCalls \in Nat /\ MaxLost \in Nat

VARIABLES
  \* the target's memories and the core the firmware has selected
  mem, devCore,
  \* the two pipes
  toDev, toHost,
  \* the call in progress: its command, the rest of its range, the version it
  \* writes, the core it selects, whether it wants every packet acknowledged
  cmd, base, left, ver, core, ack,
  \* debuggerDoOneDevCmd: where it is, and the sends it has left
  pc, tries,
  \* the tool: the core it believes selected, whether it goes on, the outcome
  \* of the last call, and the words it read, from where
  curCore, alive, ret, from, out,
  \* history: whether an answer has taken longer than the host waits, what each
  \* word has been since the call began, the GO and STEP commands that were
  \* executed and that were reported done
  late, since, ran, oks,
  \* bounds
  calls, lost

device == <<mem, devCore>>
call   == <<cmd, ver, core, ack, from, late>>
tool   == <<curCore, alive, ret, out, oks>>
vars   == <<device, toDev, toHost, call, base, left, pc, tries, tool, since, ran,
            calls, lost>>

MemCmds == {"READ", "WRITE"}
RunCmds == {"STEP", "GO"}               \* answered with one status byte
Cmds == MemCmds \cup RunCmds \cup {"SELECT", "TRACE"}

-----------------------------------------------------------------------------
(* Requests (cpu.c)                                                         *)

Now == IF left > XferWords THEN XferWords ELSE left

\* Full packets of an unacknowledged write ask for no answer.
WantsReply == cmd # "WRITE" \/ ack \/ Now # XferWords

Request ==
  [cmd |-> cmd, addr |-> base, n |-> Now, core |-> core, reply |-> WantsReply,
   words |-> IF cmd = "WRITE"
             THEN [i \in 1 .. Now |-> <<curCore, base + i - 1, ver>>] ELSE <<>>]

\* Mutant: a failed command counts as done.
OutcomeOfFailureOk(c) == "ok"

\* What the caller makes of a command that failed: cpuSimpleCmd returns 0xFF,
\* which cpuGo takes for true.
OutcomeOfFailure(c) == IF c = "GO" THEN "ok" ELSE "err"

Return(r) ==
  /\ pc' = "idle"
  /\ ret' = r
  /\ oks' = IF r = "ok" /\ cmd \in RunCmds THEN [oks EXCEPT ![cmd] = @ + 1] ELSE oks

\* Mutant: the tool goes on with the core it could not select.
FailGoesOn ==
  /\ Return(OutcomeOfFailure(cmd))
  /\ curCore' = IF cmd = "SELECT" THEN core ELSE curCore
  /\ UNCHANGED <<base, left, tries, out, alive>>

\* The tool stops when it cannot select the core it is told to (opCore.c).
Fail ==
  /\ Return(OutcomeOfFailure(cmd))
  /\ alive' = (cmd # "SELECT")
  /\ UNCHANGED <<base, left, tries, out, curCore>>

\* debuggerDoOneDevCmd is called (again).
Begin == pc' = "send" /\ tries' = MaxTries

\* Mutant: the next packet is for the same address.
PacketDoneNoAdvance ==
  /\ left' = left - Now
  /\ base' = base
  /\ \/ left' = 0 /\ Return("ok") /\ UNCHANGED tries
     \/ left' > 0 /\ Begin /\ UNCHANGED <<ret, oks>>

\* One packet of a memory transfer is done.
PacketDone ==
  /\ left' = left - Now
  /\ base' = base + Now
  /\ \/ left' = 0 /\ Return("ok") /\ UNCHANGED tries
     \/ left' > 0 /\ Begin /\ UNCHANGED <<ret, oks>>

-----------------------------------------------------------------------------
(* debuggerDoOneDevCmd                                                      *)

\* Mutant: sends are not counted.
SendForever ==
  /\ pc = "send" /\ tries > 0
  /\ toDev' = <<Request>>
  /\ \/ WantsReply /\ pc' = "await" /\ UNCHANGED <<base, left, tries, ret, oks>>
     \/ ~WantsReply /\ PacketDone
  /\ UNCHANGED <<device, toHost, call, curCore, alive, out, since, ran, calls, lost>>

\* hid_write waits while the firmware's end of the pipe is full.
Send ==
  /\ pc = "send" /\ tries > 0
  /\ Len(toDev) < Queue
  /\ toDev' = Append(toDev, Request)
  /\ \/ WantsReply /\ pc' = "await" /\ tries' = tries - 1
        /\ UNCHANGED <<base, left, ret, oks>>
     \/ ~WantsReply /\ PacketDone
  /\ UNCHANGED <<device, toHost, call, curCore, alive, out, since, ran, calls, lost>>

\* No send is left, or hid_write fails: the pipe stays full, or is gone.
GiveUp ==
  /\ pc = "send"
  /\ Fail
  /\ UNCHANGED <<device, toDev, toHost, call, since, ran, calls, lost>>

\* 500 ms went by.
Timeout ==
  /\ pc = "await" /\ toHost = <<>>
  /\ late' = (late \/ toDev # <<>>)
  /\ pc' = "send"
  /\ UNCHANGED <<device, toDev, toHost, cmd, ver, core, ack, from, base, left, tries, tool, since, ran,
                 calls, lost>>

\* The firmware reports an error, or the answer has the wrong size; a trace
\* answer may be of any size.
Refused(m) == cmd # "TRACE" /\ (~m.ok \/ (cmd = "READ" /\ Len(m.words) # Now))

StaleNever(m) == FALSE                  \* mutant: any answer will do

\* The answer to a request for another address.
Stale(m) == cmd \in MemCmds /\ m.addr # base

\* Nothing to tell makes an answer to TRACE that is a header alone.
Empty(m) == m.cmd = "TRACE" /\ ~m.ok

\* What the answer at the head of the pipe means for the command.  The loop that
\* looks at it does not read again: it takes off a byte each time it goes round
\* with the answer to another command, which then fails its checksum, and goes
\* round for ever with what is shorter than a header.
Receive ==
  /\ pc = "await" /\ toHost # <<>>
  /\ toHost' = Tail(toHost)
  /\ LET m == Head(toHost) IN
     \/ /\ m.cmd = "runt" /\ pc' = "runt"
        /\ UNCHANGED <<base, left, tries, tool>>
     \/ /\ m.cmd # cmd /\ Empty(m) /\ pc' = "spin"
        /\ UNCHANGED <<base, left, tries, tool>>
     \/ /\ m.cmd \notin {cmd, "runt"} /\ ~Empty(m)
        /\ pc' = "send"
        /\ UNCHANGED <<base, left, tries, tool>>
     \/ m.cmd = cmd /\ Refused(m) /\ cmd # "GO" /\ Fail
     \/ /\ m.cmd = cmd /\ ~Refused(m) /\ Stale(m)
        /\ Begin
        /\ UNCHANGED <<base, left, tool>>
     \/ /\ m.cmd = cmd /\ ~Refused(m) /\ ~Stale(m) /\ cmd \in MemCmds
        /\ out' = out \o m.words
        /\ PacketDone
        /\ UNCHANGED <<curCore, alive>>
     \/ /\ m.cmd = cmd /\ (~Refused(m) \/ cmd = "GO") /\ cmd \notin MemCmds
        /\ Return(IF m.ok \/ cmd = "TRACE" THEN "ok" ELSE "err")
        /\ curCore' = IF cmd = "SELECT" THEN core ELSE curCore
        /\ UNCHANGED <<base, left, tries, out, alive>>
  /\ UNCHANGED <<device, toDev, call, since, ran, calls, lost>>

HostStep == Send \/ GiveUp \/ Timeout \/ Receive

-----------------------------------------------------------------------------
(* The firmware: one pass of the main loop                                  *)

Answer(m, ok, ws) ==
  toHost' = IF m.reply
            THEN Append(toHost, [cmd |-> m.cmd, addr |-> m.addr, ok |-> ok, words |-> ws])
            ELSE toHost

Target(m, i) == <<devCore, m.addr + i - 1>>

HandleRead(m) ==
  /\ m.cmd = "READ"
  /\ \/ Answer(m, TRUE, [i \in 1 .. m.n |-> mem[Target(m, i)]])
     \/ Answer(m, FALSE, <<>>)
  /\ UNCHANGED <<device, since, ran>>

\* A write that fails has stored some first part of its words.
HandleWrite(m) ==
  /\ m.cmd = "WRITE"
  /\ \E k \in 0 .. m.n, ok \in BOOLEAN :
       /\ ok => k = m.n
       /\ mem' = [l \in DOMAIN mem |->
                    IF l[1] = devCore /\ l[2] - m.addr \in 0 .. k - 1
                    THEN m.words[l[2] - m.addr + 1] ELSE mem[l]]
       /\ Answer(m, ok, <<>>)
  /\ since' = [l \in DOMAIN since |-> since[l] \cup {mem'[l]}]
  /\ UNCHANGED <<devCore, ran>>

HandleSelect(m) ==
  /\ m.cmd = "SELECT"
  /\ devCore' = m.core
  /\ Answer(m, TRUE, <<>>)
  /\ UNCHANGED <<mem, since, ran>>

HandleRun(m) ==
  /\ m.cmd \in RunCmds
  /\ \E ok \in BOOLEAN :
       /\ ran' = IF ok THEN [ran EXCEPT ![m.cmd] = @ + 1] ELSE ran
       /\ Answer(m, ok, <<>>)
  /\ UNCHANGED <<device, since>>

\* As many events as there are, and they do not come back (main.c).
HandleTrace(m) ==
  /\ m.cmd = "TRACE"
  /\ \E some \in BOOLEAN : Answer(m, some, <<>>)
  /\ UNCHANGED <<device, since, ran>>

Handle ==
  /\ toDev # <<>>
  /\ toDev' = Tail(toDev)
  /\ LET m == Head(toDev) IN
       HandleRead(m) \/ HandleWrite(m) \/ HandleSelect(m) \/ HandleRun(m) \/ HandleTrace(m)
  /\ UNCHANGED <<call, base, left, pc, tries, tool, calls, lost>>

-----------------------------------------------------------------------------
(* The pipes                                                                *)

\* A damaged packet, and one shorter than its header.
Damaged == {[cmd |-> c, addr |-> 0, ok |-> FALSE, words |-> <<>>] : c \in {"garbage", "runt"}}

Lose ==
  /\ lost < MaxLost
  /\ lost' = lost + 1
  /\ \/ toDev # <<>> /\ toDev' = Tail(toDev) /\ UNCHANGED toHost
     \/ toHost # <<>> /\ toHost' = Tail(toHost) /\ UNCHANGED toDev
     \/ /\ toHost # <<>> /\ UNCHANGED toDev
        /\ \E m \in Damaged : toHost' = [toHost EXCEPT ![1] = m]
  /\ UNCHANGED <<device, call, base, left, pc, tries, tool, since, ran, calls>>

-----------------------------------------------------------------------------
(* The callers                                                              *)

Call(c, a, n, v, k, withAck) ==
  /\ pc = "idle" /\ alive /\ calls < MaxCalls
  /\ calls' = calls + 1
  /\ cmd' = c /\ base' = a /\ left' = n /\ ver' = v /\ core' = k /\ ack' = withAck
  /\ from' = a /\ out' = <<>> /\ ret' = "none"
  /\ Begin
  /\ since' = [l \in DOMAIN mem |-> {mem[l]}]
  /\ UNCHANGED <<device, toDev, toHost, curCore, alive, oks, ran, late, lost>>

CallMem == \E a \in Addr : \E n \in 1 .. NumWords - a :
  \/ Call("READ", a, n, 0, curCore, TRUE)
  \/ \E v \in Versions, k \in BOOLEAN : Call("WRITE", a, n, v, curCore, k)

CallSelect == \E k \in Cores : Call("SELECT", 0, 0, 0, k, TRUE)

CallRun == \E c \in RunCmds \cup {"TRACE"} : Call(c, 0, 0, 0, curCore, TRUE)

\* After an attach whose own selection of a core, if it made one, went well.
Init ==
  /\ mem = [l \in Cores \X Addr |-> <<l[1], l[2], 0>>]
  /\ devCore \in Cores /\ curCore = devCore
  /\ toDev = <<>> /\ toHost = <<>>
  /\ cmd = "READ" /\ base = 0 /\ left = 0 /\ ver = 0 /\ core = devCore /\ ack = TRUE
  /\ pc = "idle" /\ tries = 0
  /\ alive = TRUE /\ ret = "none" /\ from = 0 /\ out = <<>>
  /\ late = FALSE
  /\ since = [l \in Cores \X Addr |-> {}]
  /\ ran = [c \in RunCmds |-> 0] /\ oks = [c \in RunCmds |-> 0]
  /\ calls = 0 /\ lost = 0

Next == HostStep \/ Handle \/ Lose \/ CallMem \/ CallSelect \/ CallRun

Spec == Init /\ [][Next]_vars

\* The tool is scheduled; nothing is assumed of the debugger.
FairSpec == Spec /\ WF_vars(HostStep)

-----------------------------------------------------------------------------
(* Properties                                                               *)

Replies == [cmd : Cmds \cup {"garbage", "runt"}, addr : Addr, ok : BOOLEAN, words : Seq(Words)]

Requests == [cmd : Cmds, addr : Addr, n : 0 .. NumWords, core : Cores,
             reply : BOOLEAN, words : Seq(Words)]

\* The types; the rest of the range of a call stays inside memory.
TypeOK ==
  /\ mem \in [Cores \X Addr -> Words] /\ devCore \in Cores
  /\ toDev \in Seq(Requests) /\ toHost \in Seq(Replies)
  /\ cmd \in Cmds /\ ver \in Versions \cup {0} /\ core \in Cores /\ ack \in BOOLEAN
  /\ base \in Nat /\ left \in Nat /\ base + left <= NumWords
  /\ from \in Addr /\ out \in Seq(Words) /\ late \in BOOLEAN
  /\ pc \in {"idle", "send", "await", "spin", "runt"} /\ tries \in 0 .. MaxTries
  /\ curCore \in Cores /\ alive \in BOOLEAN /\ ret \in {"none", "ok", "err"}
  /\ since \in [Cores \X Addr -> SUBSET Words]
  /\ ran \in [RunCmds -> Nat] /\ oks \in [RunCmds -> Nat]
  /\ calls \in 0 .. MaxCalls /\ lost \in 0 .. MaxLost

Done(c) == pc = "idle" /\ cmd = c /\ ret = "ok"

\* The words of a read that succeeds were in the memory of the selected core at
\* some time during the call, not before it (the loop at cpu.c:412).
ReadFresh ==
  Done("READ") =>
    \A i \in 1 .. Len(out) : out[i] \in since[<<curCore, from + i - 1>>]

\* Every word of a read comes from the address it was asked of, in order, even
\* when answers to earlier reads are still queued (the loop of cpuMemReadWrite).
ReadRightAddress == Done("READ") => \A i \in 1 .. Len(out) : out[i][2] = from + i - 1

\* An acknowledged write that succeeds (cpuMemReadWrite) is in the memory of the
\* selected core.
WriteApplied ==
  Done("WRITE") /\ ack =>
    \A a \in from .. base - 1 : mem[<<curCore, a>>] = <<curCore, a, ver>>

\* No write ever reaches another core or address than the tool meant
\* (cpuSelectCore, cpuMemReadWrite).
WordsAtHome == \A l \in DOMAIN mem : mem[l][1] = l[1] /\ mem[l][2] = l[2]

\* As long as every answer comes while the host waits for it, or not at all, reads
\* are fresh, writes applied and words at home, losses and retries (debugger.c)
\* notwithstanding, and no call goes round for ever on another one's answer.
TransfersRight == ~late => ReadFresh /\ WriteApplied /\ WordsAtHome /\ pc # "spin"

\* Every STEP that reports success stands for a step that the core made: one
\* execution is never reported twice, late answers notwithstanding.
StepsExecuted == oks["STEP"] <= ran["STEP"]

\* Answers of successful steps that nobody has taken yet.
Stepped(m) == m.cmd = "STEP" /\ m.ok
Unseen(q) == {i \in 1 .. Len(q) : Stepped(q[i])}

Serves(ws, a) == \A i \in 1 .. Len(ws) : ws[i][2] = a + i - 1

\* What makes ReadRightAddress and StepsExecuted inductive, for late answers too:
\* whatever is in the pipes, each word travels with the address it belongs to,
\* and no more answers of successful steps are on their way than steps were made.
IInv ==
  /\ TypeOK
  /\ pc # "idle" => base \in Addr
  /\ \A i \in 1 .. Len(toDev) :
       /\ toDev[i].addr + toDev[i].n <= NumWords
       /\ toDev[i].cmd = "WRITE" =>
            Len(toDev[i].words) = toDev[i].n /\ Serves(toDev[i].words, toDev[i].addr)
  /\ \A l \in DOMAIN mem : mem[l][2] = l[2]
  /\ \A i \in 1 .. Len(toHost) : Serves(toHost[i].words, toHost[i].addr)
  /\ cmd = "READ" => Len(out) = base - from /\ Serves(out, from)
  /\ oks["STEP"] + Cardinality(Unseen(toHost)) <= ran["STEP"]

\* Every call of the tool returns, whether or not the debugger ever answers
\* (nRetries of debuggerDoOneDevCmd, the loop of cpuMemReadWrite), but for two
\* packets that debugger.c:500 goes round on for ever: one shorter than a header,
\* and, only after an answer that came too late, the empty one to a TRACE.
CallReturns == pc # "idle" ~> pc \in {"idle", "runt"} \/ (pc = "spin" /\ late)
=============================================================================
