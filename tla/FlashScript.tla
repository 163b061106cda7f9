---------------------------- MODULE FlashScript ----------------------------
(* The tool's "erase" and "write" (tool/opErase.c, opWrite.c): they check a  *)
(* range against the script's tables and have the script, which runs on the  *)
(* target's core, work on one block after another (scriptRun), while status  *)
(* answers and "go" requests may get lost and the script may fail, hang, or  *)
(* call the tool back.                                                       *)
EXTENDS FlashTables

CONSTANTS Layouts,    (* descriptions scripts give of the flash: Raw pieces   *)
          Asked(_, _),(* which operations are asked for: a bound of the model *)
          FileLen,    (* words in the file                                    *)
          Old, Erased, Junk,  (* contents of a cell that are not the file's   *)
          MaxLost     (* answers lost: a bound of the model                   *)

ASSUME FlashAssumption == {FileLen, MaxLost} \subseteq Nat
ASSUME LayoutsAssumption == Layouts \subseteq Seq(Raw)

VARIABLES
  rfi,                          (* what the script tells of the flash         *)
  fiErase, fiWrite, fiContig,   (* struct Script's tables                     *)
  op,                           (* the operation's arguments                  *)
  addr, len, ofst,              (* data->addr, data->len and the loop         *)
  pc,                           (* where the tool is                          *)
  sent,                         (* words of the file already read             *)
  stage,                        (* the staging area in the target             *)
  flash,                        (* cell by cell                               *)
  core, r0, dwpt,               (* the core, its R0 and DFSR.DWPTRAP          *)
  job,                          (* the block and the work the script is at    *)
  skipped,                      (* a call of the script was passed over       *)
  before, lost                  (* history: flash at first; answers lost      *)

tables == <<rfi, fiErase, fiWrite, fiContig>>
asked == <<op, before>>
progress == <<addr, len, ofst, sent>>
target == <<flash, core, r0, dwpt, job, skipped>>
vars == <<tables, asked, progress, pc, stage, target, lost>>

\* What a cell holds: its old contents, nothing, a word of the file (0 once the
\* file has ended), or anything else.
Data == 0 .. FileLen
Cell == Data \cup {Old, Erased, Junk}
FileWord(k) == IF k <= FileLen THEN k ELSE 0
NoJob == [write |-> FALSE, block |-> [base |-> 0, size |-> 0]]
NoStage == <<>>

Modes == {"erase", "write", "noerase", "noack"}
HasTables == fiErase # NoTable /\ fiWrite # NoTable
Ended == pc \in {"ok", "failed"}

-----------------------------------------------------------------------------
(* The script on the core. *)

\* Work on a cell that is not erased spoils it.
Worked(j) == [a \in Addr |-> IF a \notin Cells(j.block) THEN flash[a]
                             ELSE IF ~ j.write THEN Erased
                             ELSE IF flash[a] # Erased THEN Junk
                             ELSE IF a - j.block.base < Len(stage) THEN stage[a - j.block.base + 1] ELSE Junk]
Spoilt(j) == [a \in Addr |-> IF a \in Cells(j.block) THEN Junk ELSE flash[a]]

Running == core = "running"
HaltsWith(value, why) == core' = "halted" /\ r0' = value /\ dwpt' = why

ScriptFinishes == /\ Running
                  /\ flash' = IF skipped THEN Spoilt(job) ELSE Worked(job)
                  /\ \/ HaltsWith(1, FALSE)
                     \/ HaltsWith(0, TRUE)               \* the watchpoint it had set is hit
                  /\ UNCHANGED <<tables, asked, progress, pc, stage, job, skipped, lost>>
ScriptFails == /\ Running
               /\ flash' \in {flash, Spoilt(job)}
               /\ HaltsWith(0, FALSE)
               /\ UNCHANGED <<tables, asked, progress, pc, stage, job, skipped, lost>>
ScriptHangs == /\ Running
               /\ flash' \in {flash, Spoilt(job)}
               /\ core' = "hung"
               /\ UNCHANGED <<tables, asked, progress, pc, stage, r0, dwpt, job, skipped, lost>>
ScriptCalls == /\ Running
               /\ core' = "calling" /\ dwpt' = TRUE /\ r0' \in {0, 1}
               /\ UNCHANGED <<tables, asked, progress, pc, stage, flash, job, skipped, lost>>
Script == ScriptFinishes \/ ScriptFails \/ ScriptHangs \/ ScriptCalls

Lost == lost < MaxLost /\ lost' = lost + 1

\* The core is let go: from a call nobody has served the script goes on as if it
\* had been, and where it had ended there is nothing to run.
Resumed == /\ core' = CASE core \in {"ready", "calling", "running"} -> "running"
                        [] OTHER -> "hung"
           /\ skipped' = (skipped \/ core = "calling")
           /\ UNCHANGED <<flash, r0, dwpt, job>>

-----------------------------------------------------------------------------
(* scriptRun. *)

Stays == UNCHANGED <<tables, asked>>
Fails == pc' = "failed" /\ Stays /\ UNCHANGED <<progress, stage>>

Here == (addr + ofst) % Top                             \* an uint32_t sum

\* Registers are set, whatever the core was doing; or that fails.
Prepare(write) ==
  \/ Fails /\ UNCHANGED <<target, lost>>
  \/ LET t == IF write THEN fiWrite ELSE fiErase
     IN /\ job' = [write |-> write, block |-> [base |-> Here, size |-> BlockSize(t, Here)]]
        /\ core' = "ready" /\ r0' = Here
        /\ dwpt' = FALSE /\ skipped' = FALSE
        /\ pc' = IF write THEN "goWrite" ELSE "goErase"
        /\ Stays /\ UNCHANGED <<progress, stage, flash, lost>>

Waiting == IF job.write THEN "waitWrite" ELSE "waitErase"
Go ==
  /\ pc \in {"goWrite", "goErase"}
  /\ \/ Resumed /\ pc' = Waiting /\ Stays /\ UNCHANGED <<progress, stage, lost>>
     \/ (Resumed \/ UNCHANGED target) /\ Fails /\ UNCHANGED lost
     \* no answer: asked again, or 0xFF, which is not 0
     \/ /\ Resumed \/ UNCHANGED target
        /\ pc' \in {pc, Waiting} /\ Lost
        /\ Stays /\ UNCHANGED <<progress, stage>>

\* What follows a block's success.
BlockDone == /\ ofst' = ofst + job.block.size
             /\ pc' = IF job.write THEN "write" ELSE "erase"
             /\ UNCHANGED <<addr, len, sent>>
ResultIgnored(value) == Stays /\ BlockDone /\ UNCHANGED stage  \* mutant
Result(value) == IF value # 0 THEN Stays /\ BlockDone /\ UNCHANGED stage ELSE Fails

\* The core is found stopped.  Its reason is cleared with the reading of it.
Stopped ==
  /\ pc \in {"waitWrite", "waitErase"} /\ core \in {"ready", "halted", "calling"}
  /\ dwpt' = FALSE
  /\ \/ /\ Lost                         \* asked again, or taken for running
        /\ pc' = pc /\ Stays /\ UNCHANGED <<progress, stage, core, r0, skipped>>
     \/ /\ UNCHANGED lost
        /\ \/ Fails /\ UNCHANGED <<core, r0, skipped>>     \* the registers cannot be read
           \/ /\ dwpt /\ core = "calling"
              /\ \/ Fails /\ UNCHANGED <<core, r0, skipped>>
                 \/ /\ core' = "ready" /\ pc' = IF job.write THEN "goWrite" ELSE "goErase"
                    /\ Stays /\ UNCHANGED <<progress, stage, r0, skipped>>
           \/ /\ ~ (dwpt /\ core = "calling")
              /\ Result(IF dwpt THEN 1 ELSE r0)
              /\ UNCHANGED <<core, r0, skipped>>
  /\ UNCHANGED <<flash, job>>

\* Time is up and no answer has told of a stop.  The core is stopped, if that
\* works.
TimedOutIfNone == FALSE /\ Fails /\ UNCHANGED <<target, lost>>  \* mutant: a timeout of 0
TimedOut == /\ pc \in {"waitWrite", "waitErase"}
            /\ core' \in {core, "halted"}
            /\ IF core \in {"running", "hung"} THEN UNCHANGED lost ELSE Lost
            /\ Fails /\ UNCHANGED <<flash, r0, dwpt, job, skipped>>

-----------------------------------------------------------------------------
(* The operations. *)

BlocksWritten == fiWrite                     \* mutant: erases what is no erase block
Blocks == IF op.mode = "noerase" THEN fiWrite ELSE fiErase
FirstLoop == IF op.mode = "noerase" THEN "write" ELSE "erase"

\* The range is made up, unless it was given, and checked.
CheckRange ==
  /\ pc = "check" /\ HasTables
  /\ LET area == LargestArea(fiContig)
         a == IF op.have THEN op.addr ELSE area.base
         n == IF op.mode = "erase" /\ ~ op.have THEN area.size
              ELSE IF op.rigid THEN op.len ELSE FileLen
         suggested == SuggestedLen(Blocks, a, n)
         fits == a + n <= Top
     IN \/ /\ fits /\ ValidRange(Blocks, a, n)
           /\ addr' = a /\ len' = n /\ pc' = FirstLoop
           /\ UNCHANGED <<ofst, sent>>
        \/ /\ fits /\ ~ ValidRange(Blocks, a, n)
           /\ op.mode # "erase" /\ ~ op.rigid /\ suggested # 0
           /\ addr' = a /\ len' = suggested /\ pc' = FirstLoop
           /\ UNCHANGED <<ofst, sent>>
        \/ /\ ~ fits \/ /\ ~ ValidRange(Blocks, a, n)
                        /\ op.mode = "erase" \/ op.rigid \/ suggested = 0
           /\ pc' = "failed" /\ UNCHANGED progress
  /\ Stays /\ UNCHANGED <<stage, target, lost>>

EraseLoop ==
  /\ pc = "erase"
  /\ \/ ofst < len /\ Prepare(FALSE)
     \/ /\ ofst >= len
        /\ IF op.mode = "erase" THEN pc' = "ok" /\ UNCHANGED ofst ELSE pc' = "write" /\ ofst' = 0
        /\ Stays /\ UNCHANGED <<addr, len, sent, stage, target, lost>>

\* The next words of the file go to the staging area.  Without acknowledgement
\* nothing tells when they get lost.  (The file can be read: a read error, which
\* keeps readFileBytes for ever, is in MemBytes.)
Upload ==
  /\ pc = "write" /\ ofst < len
  /\ LET size == BlockSize(fiWrite, Here)
     IN \/ Fails /\ UNCHANGED <<target, lost>>
        \/ /\ stage' \in {[k \in 1 .. size |-> FileWord(sent + k)]}
                         \cup (IF op.mode = "noack" THEN {stage} ELSE {})
           /\ sent' = sent + size
           /\ pc' = "staged"
           /\ Stays /\ UNCHANGED <<addr, len, ofst, target, lost>>
WriteBlock == pc = "staged" /\ Prepare(TRUE)
WritesEnd == /\ pc = "write" /\ ofst >= len
             /\ pc' = "ok" /\ Stays /\ UNCHANGED <<progress, stage, target, lost>>

Tool == CheckRange \/ EraseLoop \/ Upload \/ WriteBlock \/ WritesEnd \/ Go \/ Stopped \/ TimedOut

\* erase [addr len]; write file [noack] [noerase] [addr [len]]
Ops == {o \in [mode : Modes, have : BOOLEAN, rigid : BOOLEAN, addr : Addr, len : 0 .. Top] :
          /\ o.rigid => o.have
          /\ ~ o.have => o.addr = 0
          /\ ~ o.rigid => o.len = 0
          /\ o.mode = "erase" => o.rigid = o.have}

NoOp == [mode |-> "erase", have |-> FALSE, rigid |-> FALSE, addr |-> 0, len |-> 0]
Init == /\ rfi \in Layouts
        /\ fiErase = Table(rfi, FALSE) /\ fiWrite = Table(rfi, TRUE)
        /\ fiContig = AreasOf(fiErase)
        /\ op \in IF HasTables THEN {o \in Ops : Asked(rfi, o)} ELSE {NoOp}
        /\ pc = "check" /\ addr = 0 /\ len = 0 /\ ofst = 0 /\ sent = 0
        /\ stage = NoStage
        /\ flash \in {[a \in Addr |-> c] : c \in IF op.mode = "noerase" THEN {Old, Erased} ELSE {Old}}
        /\ before = flash
        /\ core = "halted" /\ r0 = 0 /\ dwpt = FALSE
        /\ job = NoJob /\ skipped = FALSE /\ lost = 0

Next == Tool \/ Script
Spec == Init /\ [][Next]_vars
FairSpec == Spec /\ WF_vars(Tool)

-----------------------------------------------------------------------------
(* Properties. *)

InRange(a) == addr <= a /\ a < addr + len

TypeOK ==
  /\ rfi \in Layouts /\ {fiErase, fiWrite, fiContig} \subseteq Seq(Block)
  /\ op \in Ops /\ addr \in Nat /\ len \in Nat /\ ofst \in 0 .. len /\ sent \in Nat
  /\ pc \in {"check", "erase", "write", "staged", "goErase", "goWrite",
             "waitErase", "waitWrite", "ok", "failed"}
  /\ stage \in Seq(Data) /\ {flash, before} \subseteq [Addr -> Cell]
  /\ core \in {"ready", "running", "calling", "hung", "halted"}
  /\ r0 \in Addr /\ lost \in 0 .. MaxLost
  /\ {dwpt, skipped} \subseteq BOOLEAN
  /\ job.block \in Block /\ job.write \in BOOLEAN

\* The cells a piece stands for.  The code relies on erase blocks made of whole
\* write blocks and on pieces that leave out the last address.
Extent(p) == (IF p.numIdentical = 0 THEN Many ELSE p.numIdentical) * EraseSize(p)
Piece(p) == p.base .. p.base + Extent(p) - 1
Plain(p) == Sane(p) /\ EraseSize(p) % WriteSize(p) = 0 /\ Top - 1 \notin Piece(p)
AllPlain == \A i \in DOMAIN rfi : Plain(rfi[i])
Apart(t) == \A i, j \in DOMAIN t : i < j => Cells(t[i]) \cap Cells(t[j]) = {}
            /\ t[i].base < t[j].base

\* A description whose pieces stay apart is accepted, one whose pieces overlap is
\* refused (scriptExpandAndCheckFlashInfoByType, after the sort), and the two
\* tables tile the same cells, in order, every write block within an erase block.
TablesTile ==
  pc = "check" /\ AllPlain =>
    LET apart == \A i, j \in DOMAIN rfi : i < j => Piece(rfi[i]) \cap Piece(rfi[j]) = {}
    IN \A t \in {fiErase, fiWrite} :
         /\ (t # NoTable) = (rfi # <<>> /\ apart)
         /\ t # NoTable =>
              /\ Apart(t) /\ CellsOf(t) = UNION {Piece(rfi[i]) : i \in DOMAIN rfi}
              /\ \A k \in DOMAIN fiWrite : \E i \in DOMAIN fiErase :
                   Cells(fiWrite[k]) \subseteq Cells(fiErase[i])

\* The areas are the maximal runs of cells without a gap, in order
\* (scriptExpandAndCheckFlashRegions), and the largest is one of the longest
\* (utilOpFindLargestFlashArea).
AreasMaximal ==
  pc = "check" /\ AllPlain /\ HasTables =>
    /\ Apart(fiContig) /\ CellsOf(fiContig) = CellsOf(fiErase)
    /\ \A i, j \in DOMAIN fiContig : End(fiContig[i]) # fiContig[j].base
    /\ \A a \in Addr, n \in 1 .. Top : a .. a + n - 1 \subseteq CellsOf(fiErase) =>
         n <= LargestArea(fiContig).size

\* What the loops over a range rely on: no block ends beyond the last address,
\* and every erase block is made of whole write blocks.
Regular(erases, writes, areas) ==
  /\ {erases, writes, areas} \subseteq Seq(Block)
  /\ \A t \in {erases, writes} : \A i \in DOMAIN t : t[i].base + t[i].size <= Top
  /\ erases # NoTable /\ writes # NoTable =>
       /\ areas # NoTable
       /\ \A i \in DOMAIN erases : Cover(writes, erases[i].base, erases[i].size) = erases[i].size

\* What scriptExpandAndCheckFlashInfo keeps is right as a whole.
TablesRight == /\ TablesTile /\ AreasMaximal
               /\ pc = "check" /\ AllPlain => Regular(fiErase, fiWrite, fiContig)

\* scriptIsValidFlashRange accepts what the blocks within the range fill, and
\* suggests the shortest longer range they fill, if there is one.
Filled(t, a, n) == a .. a + n - 1 = UNION {c \in {Cells(t[i]) : i \in DOMAIN t} : c \subseteq a .. a + n - 1}
RangesRight ==
  pc = "check" /\ AllPlain /\ HasTables =>
    \A t \in {fiErase, fiWrite} :
      LET longer == {n \in op.len .. Top : Filled(t, op.addr, n)}
      IN /\ ValidRange(t, op.addr, op.len) = Filled(t, op.addr, op.len)
         /\ op.len > 0 => SuggestedLen(t, op.addr, op.len) =
              IF longer = {} THEN 0 ELSE CHOOSE n \in longer : \A k \in longer : n <= k

\* What a cell of the range holds once the operation has got that far.
Due(a) == IF op.mode = "erase" THEN Erased
          ELSE IF op.mode = "noerase" /\ before[a] # Erased THEN Junk
          ELSE FileWord(a - addr + 1)

\* An operation that reports success has done it to every cell of its range, and
\* the file goes on with zeros, as long as the script's calls and stops are told
\* at the first asking and writes are acknowledged.
SuccessIsDone ==
  pc = "ok" /\ lost = 0 /\ op.mode # "noack" => \A a \in Addr : InRange(a) => flash[a] = Due(a)

\* Whatever fails, hangs or is lost, no cell outside the checked range changes.
OnlyItsRange == \A a \in Addr : flash[a] # before[a] => InRange(a)

\* At every moment, and after a failure too, a write has left finished blocks
\* first, one it was at, and then what the erasing left.
Prefix ==
  lost = 0 /\ op.mode # "noack" /\ pc # "check" =>
    \A a \in Addr : InRange(a) =>
      /\ a < addr + ofst => flash[a] = IF sent > 0 THEN Due(a) ELSE Erased
      /\ sent > 0 /\ a >= addr + sent => flash[a] = IF op.mode = "noerase" THEN before[a] ELSE Erased

\* What an operation has done at any moment, and leaves when it fails, hangs or
\* loses an answer (the loops of eraseOpDo and writeOpDo).
LeavesPrefix == TypeOK /\ OnlyItsRange /\ Prefix

\* Every operation ends: a script that fails, hangs or is passed over is given
\* up when its time is up.  Time is looked at only while no stop is told, though,
\* so a script that calls the tool for ever is served for ever.
KeepsCalling == []<>(core = "calling")
OpEnds == KeepsCalling \/ (HasTables ~> Ended)
=============================================================================
