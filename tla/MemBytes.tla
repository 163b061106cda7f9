------------------------------ MODULE MemBytes ------------------------------
(* Byte access on top of word access: memioRead and memioWriteFromFile        *)
(* (tool/memio.c) as "read" and "upload" use them, and gdb's packets m, M and *)
(* X (tool/opDebug.c).  The words move by cpuMemRead and cpuMemWrite in       *)
(* chunks, any of which may fail; a write that fails has stored some of its   *)
(* words.  The target may change its memory at any time.                      *)
EXTENDS Naturals, Sequences, FiniteSetsExt

CONSTANTS Top,      (* addresses there are: 2^32                              *)
          W,        (* bytes of a word: 4                                     *)
          Chunk,    (* cpuGetOptimalReadNumWords: words of a USB packet       *)
          MaxGdb,   (* GDB_MAX_READ_WRITE: 1024                               *)
          FileLen,  (* bytes in the file that is uploaded                     *)
          Zero, Dma,
          MaxReqs,  (* requests: a bound of the model                         *)
          MaxTouches (* changes by the target: a bound of the model           *)

ASSUME MemBytesAssumption ==
  /\ {Top, W, Chunk} \subseteq Nat \ {0} /\ Top % W = 0
  /\ {MaxGdb, FileLen, MaxReqs, MaxTouches} \subseteq Nat

VARIABLES
  mem,        (* the target's memory, byte by byte                            *)
  req, resp,  (* the request and its answer                                   *)
  got,        (* bytes handed to dataCbkF                                     *)
  pc,
  addr, len,  (* parameters of the packet's or the operation's functions      *)
  wordsDone,
  nowBuf,     (* of debugMemWritePartial                                      *)
  moved, was, (* history: bytes stored, the memory before the request         *)
  asked, touches

vars == <<mem, req, resp, got, pc, addr, len, wordsDone, nowBuf, moved, was, asked, touches>>

Addr == 0 .. Top - 1
Words(a, n) == [k \in 1 .. n * W |-> mem[a + k - 1]]
Overwritten(a, bytes) ==
  [b \in Addr |-> IF b >= a /\ b - a < Len(bytes) THEN bytes[b - a + 1] ELSE mem[b]]

(* What may be asked: gdb may ask for anything, "read" and "upload" check the *)
(* end of the range.  An upload's address is aligned and its length rounds up *)
(* without a wrap, which the tool does not check.                             *)
Packets == [op : {"m", "M"}, addr : Addr, len : 0 .. Top]
Ranges == {r \in [op : {"read", "upload"}, addr : Addr, len : 1 .. Top] :
             /\ r.addr + r.len < Top
             /\ r.op = "upload" => r.addr % W = 0 /\ r.len <= Top - W}
Data(r, n) == [k \in 1 .. (CASE r.op = "M" -> r.len [] r.op = "upload" -> FileLen [] OTHER -> 0)
                 |-> <<n, k>>]
Requests(n) == {[op |-> r.op, addr |-> r.addr, len |-> r.len, data |-> Data(r, n)] :
                  r \in Packets \cup Ranges}

Ask == /\ pc = "idle" /\ asked < MaxReqs
       /\ asked' = asked + 1
       /\ req' \in Requests(asked')
       /\ pc' = req'.op /\ addr' = req'.addr /\ len' = req'.len
       /\ resp' = "none" /\ got' = <<>> /\ wordsDone' = 0 /\ moved' = 0 /\ was' = mem
       /\ UNCHANGED <<mem, nowBuf, touches>>

(* The request is over; reads are judged by the bytes they got.               *)
ReplyWith(r) == /\ resp' = r /\ pc' = "idle"
                /\ UNCHANGED <<mem, req, got, addr, len, wordsDone, nowBuf, moved, was, asked, touches>>

-----------------------------------------------------------------------------
(* Reads.                                                                     *)

HandleM == /\ pc = "m"
           /\ len' = Min({len, MaxGdb, Top - addr})
           /\ pc' = "readLoop"
           /\ UNCHANGED <<mem, req, resp, got, addr, wordsDone, nowBuf, moved, was, asked, touches>>

(* memioRead *)
skipFront == addr % W
readBase == addr - skipFront
readWords == ((len + skipFront + W - 1) % Top) \div W
skipEnd == readWords * W - skipFront - len
wordsNow == Min({readWords - wordsDone, Chunk})

ChunkEnd == wordsNow * W - IF wordsDone + wordsNow = readWords THEN skipEnd ELSE 0

ReadStarts == /\ pc = "read" /\ pc' = "readLoop"
              /\ UNCHANGED <<mem, req, resp, got, addr, len, wordsDone, nowBuf, moved, was, asked, touches>>

ReadChunk == /\ pc = "readLoop" /\ wordsDone < readWords
             /\ got' = got \o SubSeq(Words(readBase + W * wordsDone, wordsNow),
                                     IF wordsDone = 0 THEN skipFront + 1 ELSE 1, ChunkEnd)
             /\ wordsDone' = wordsDone + wordsNow
             /\ UNCHANGED <<mem, req, resp, pc, addr, len, nowBuf, moved, was, asked, touches>>

(* The loop is done, or cpuMemRead or the file has failed: what has been got  *)
(* by then is gdb's answer, and a failure of "read".                          *)
ReadReturns == /\ pc = "readLoop"
               /\ ReplyWith(IF req.op = "m" THEN IF got = <<>> THEN "error" ELSE "data"
                            ELSE IF Len(got) = len THEN "ok" ELSE "error")

-----------------------------------------------------------------------------
(* gdb's writes: debugMemWrite.                                               *)

Remaining == IF len = 0 THEN <<>> ELSE SubSeq(req.data, Len(req.data) - len + 1, Len(req.data))

HandleRefusedM == /\ pc = "M" /\ (len > MaxGdb \/ addr + len > Top)
                  /\ ReplyWith("nak")

HandleWrite == /\ pc = "M" /\ len <= MaxGdb /\ addr + len <= Top
               /\ pc' = IF addr % W # 0 THEN "partial" ELSE "writeLoop"
               /\ UNCHANGED <<mem, req, resp, got, addr, len, wordsDone, nowBuf, moved, was, asked, touches>>

(* debugMemWritePartial, for the bytes before the first whole word and those  *)
(* after the last: it reads the word and writes it back.                      *)
PartialReads == /\ pc = "partial" \/ (pc = "writeLoop" /\ 0 < len /\ len < W)
                /\ nowBuf' = Words(addr - (addr % W), 1)
                /\ pc' = "merged"
                /\ UNCHANGED <<mem, req, resp, got, addr, len, wordsDone, moved, was, asked, touches>>

WholeWord == Min({len, W})              \* mutant: runs over the end of the word
PartialLen == Min({len, W - (addr % W)})
Merged == LET ofst == addr % W IN
          [k \in 1 .. W |-> IF k \in ofst + 1 .. ofst + PartialLen THEN Remaining[k - ofst] ELSE nowBuf[k]]

(* n bytes of the request have got into the memory.                           *)
Stored(a, bytes, n) == /\ mem' = Overwritten(a, bytes)
                       /\ moved' = moved + n

(* cpuMemWrite succeeds and the next n bytes are dealt with; or it fails,     *)
(* with its effect or some of it, and the error is answered next.             *)
Advance(n) == addr' = addr + n /\ len' = len - n /\ pc' = "writeLoop"
Fail == pc' = "failed" /\ UNCHANGED <<addr, len>>

PartialWrites == /\ pc = "merged"
                 /\ Stored(addr - (addr % W), Merged, PartialLen)
                 /\ Advance(PartialLen) \/ Fail
                 /\ UNCHANGED <<req, resp, got, wordsDone, nowBuf, was, asked, touches>>

WriteWords == /\ pc = "writeLoop" /\ len >= W
              /\ LET now == Min({len \div W, Chunk}) * W IN
                 \/ Stored(addr, SubSeq(Remaining, 1, now), now) /\ Advance(now)
                 \/ \E n \in 1 .. now \div W : Stored(addr, SubSeq(Remaining, 1, n * W), n * W) /\ Fail
              /\ UNCHANGED <<req, resp, got, wordsDone, nowBuf, was, asked, touches>>

WriteDone == pc = "writeLoop" /\ len = 0 /\ ReplyWith("ok")

(* A read or a write of words that fails without effect, or the E00 after one *)
(* that had some.                                                             *)
WriteFails == /\ pc \in {"partial", "merged", "failed"} \/ (pc = "writeLoop" /\ len > 0)
              /\ ReplyWith("error")

-----------------------------------------------------------------------------
(* "upload": memioWriteFromFile.                                              *)

wordsTotal == ((len + W - 1) % Top) \div W
readFileBytes(from, n) == [k \in 1 .. n |-> IF from + k <= FileLen THEN req.data[from + k] ELSE Zero]

UploadChunk == /\ pc = "upload" /\ wordsDone < wordsTotal
               /\ LET now == Min({wordsTotal - wordsDone, Chunk})
                      words(n) == readFileBytes(W * wordsDone, n * W) IN
                  \/ /\ Stored(addr + W * wordsDone, words(now), now * W)
                     /\ wordsDone' = wordsDone + now /\ UNCHANGED pc
                  \/ \E n \in 1 .. now : /\ Stored(addr + W * wordsDone, words(n), n * W)
                                         /\ pc' = "failed" /\ UNCHANGED wordsDone
               /\ UNCHANGED <<req, resp, got, addr, len, nowBuf, was, asked, touches>>

(* The file cannot be read: readFileBytes goes on until feof, and fread gives  *)
(* nothing more.                                                              *)
FileUnreadable == /\ pc = "upload" /\ wordsDone < wordsTotal
                  /\ pc' = "spin"
                  /\ UNCHANGED <<mem, req, resp, got, addr, len, wordsDone, nowBuf, moved, was, asked, touches>>

UploadFails == pc = "upload" /\ wordsDone < wordsTotal /\ ReplyWith("error")
UploadDone == pc = "upload" /\ wordsDone = wordsTotal /\ ReplyWith("ok")

-----------------------------------------------------------------------------
(* The target writes to its own memory.                                       *)
Touch == /\ touches < MaxTouches
         /\ touches' = touches + 1
         /\ \E a \in Addr : mem' = [mem EXCEPT ![a] = Dma]
         /\ UNCHANGED <<req, resp, got, pc, addr, len, wordsDone, nowBuf, moved, was, asked>>

Init == /\ mem = [a \in Addr |-> <<0, a>>] /\ was = mem
        /\ req = [op |-> "m", addr |-> 0, len |-> 0, data |-> <<>>] /\ resp = "idle"
        /\ got = <<>> /\ pc = "idle" /\ addr = 0 /\ len = 0 /\ wordsDone = 0
        /\ nowBuf = <<>> /\ moved = 0 /\ asked = 0 /\ touches = 0

Reading == HandleM \/ ReadStarts \/ ReadChunk \/ ReadReturns
Writing == HandleRefusedM \/ HandleWrite \/ PartialReads \/ PartialWrites \/ WriteWords \/ WriteDone \/ WriteFails
Uploading == UploadChunk \/ FileUnreadable \/ UploadFails \/ UploadDone
Tool == Reading \/ Writing \/ Uploading
Next == Ask \/ Tool \/ Touch

Spec == Init /\ [][Next]_vars

(* The tool's loops run; every command of the debugger comes back.            *)
FairSpec == Spec /\ WF_vars(Tool)

-----------------------------------------------------------------------------
(* Properties.                                                                *)

Askable == UNION {Requests(n) : n \in 0 .. MaxReqs}
Promise == INSTANCE ByteMemory

(* Whatever the alignment, the length, the place of a chunk's end and the     *)
(* failures: gdb and the user get the bytes they asked for and no others,     *)
(* writes put back what stands beside them, "only fail if we cannot read      *)
(* ANYTHING" (opDebug.c:602) and no success stands for half a transfer; and   *)
(* every request is answered, but that of a file that fails to be read.       *)
ImplementsBytes == Promise!Spec /\ (resp = "none" ~> resp # "none" \/ pc = "spin")
=============================================================================
