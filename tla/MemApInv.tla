------------------------------ MODULE MemApInv ------------------------------
(***************************************************************************)
(* The inductive invariant of MemAp: what is true between any two SWD      *)
(* transactions of a transfer, and why a transfer that reports success has *)
(* moved the right words.                                                  *)
(***************************************************************************)
EXTENDS MemAp

Transfer  == kind \in {"read", "write"}
TarLabels == {"select", "access", "cycle"}
ReadWait  == {"next", "flush", "last"}       \* a DRW read is posted
Loops     == ReadWait \cup {"post", "put", "drain"}
Live      == TarLabels \cup Loops            \* the call can still succeed

DrwWrite(v) == [op |-> "write", reg |-> "DRW", ap |-> mApSel, val |-> v]
DrwRead     == [op |-> "read", reg |-> "DRW", ap |-> mApSel, val |-> Junk]
TarWrite    == [op |-> "write", reg |-> "TAR", ap |-> mApSel, val |-> mCurAddr]
Writing     == pend.op = "write" /\ pend.reg = "DRW"

Delivered(n) == \A k \in 1 .. n : buf[k] = mem[<<mApSel, WordAddr(k)>>]
Stored(n)    == \A k \in 1 .. n : mem[<<mApSel, WordAddr(k)>>] = payload[k]

\* The labels of each kind of call, and how far the call is at each of them.
Progress ==
  /\ kind = "none" => pc = "idle"
  /\ kind = "reselect" => pc \in {"reselect", "idle"}
  /\ kind = "init" => /\ pc \in TarLabels \cup {"reselect", "idle"}
                      /\ acc # "TAR" \/ pc \in {"reselect", "idle"}
  /\ Transfer => /\ pc # "reselect" /\ acc = "TAR" /\ mSelected = "ctl"
                 /\ num > 0 /\ done <= num /\ mApSel \in ready
  /\ pc \in TarLabels => mSelected = Bank(acc)
  /\ pc \in ReadWait \cup {"post"} => kind = "read" /\ done < num
  /\ pc = "last" => done = num - 1
  /\ pc \in {"next", "flush"} => done < num - 1
  /\ pc \in {"put", "drain"} => kind = "write"
  /\ pc = "put" => done < num
  /\ pc = "drain" => done = num
  /\ pc = "select" => done = 0 \/ ~Transfer
  /\ ret # "none" <=> pc = "idle" /\ kind # "none"

\* mCurAddr against the word the transfer is at.
CurAddrInv ==
  Transfer /\ pc \in Live =>
    mCurAddr = WordAddr(IF pc = "next" THEN done + 2 ELSE done + 1)

\* memapInit talks to the AP it was called for, and reads back its CSW.
InitInv ==
  kind = "init" /\ InAccess =>
    /\ selAp = mApSel
    /\ pend.op # "none" => pend.ap = mApSel
    /\ pc = "cycle" /\ acc = "CSWcheck" =>
         \/ pend.op = "read" /\ pend.reg \in {"CSWcheck", "none"}
         \/ pend = NoAccess /\ rdbuf \in {csw[mApSel], Junk}
    /\ pc # "reselect" /\ acc = "BASE" => csw[mApSel] = CswWordIncr

\* Where TAR is, once the driver has started to set it.
TarInv ==
  Coherent /\ Transfer =>
    /\ pc = "cycle" => \/ sticky
                       \/ pend = TarWrite
                       \/ pend = NoAccess /\ tar[mApSel] = mCurAddr
    /\ pc = "post" => tar[mApSel] = mCurAddr
    /\ pc = "put" /\ pend = NoAccess => sticky \/ tar[mApSel] = mCurAddr
    /\ pc = "drain" /\ pend = NoAccess => sticky \/ tar[mApSel] = mCurAddr

\* No write is in flight once a transfer has got through to the AP, except
\* the previous word of that transfer.
FlightInv ==
  Transfer /\ pc \in Live =>
    /\ pc = "cycle" \/ (kind = "read" /\ (done > 0 \/ pc \in Loops)) => ~Writing
    /\ pc = "post" => pend = NoAccess /\ ~sticky
    /\ pc = "put" /\ done = 0 => pend = NoAccess

ReadInv ==
  kind = "read" /\ Coherent /\ pc \in Live =>
    /\ Delivered(done)
    /\ pc \in ReadWait =>
         \/ sticky
         \/ pend = DrwRead /\ tar[mApSel] = WordAddr(done + 1)
         \/ /\ pend = NoAccess
            /\ rdbuf = mem[<<mApSel, WordAddr(done + 1)>>]
            /\ tar[mApSel] \in AutoIncr(WordAddr(done + 1))
    /\ pc = "next" => ~LastOfPage(WordAddr(done + 1))

WriteInv ==
  kind = "write" /\ Coherent /\ pc \in Live /\ done > 0 =>
    \/ sticky
    \/ Stored(done) /\ ~Writing /\ (pc \in {"put", "drain"} => pend = NoAccess)
    \/ /\ Stored(done - 1)
       /\ pend = DrwWrite(payload[done])
       /\ tar[mApSel] = WordAddr(done)
       /\ pc # "cycle"
       /\ pc # "access" => ~LastOfPage(WordAddr(done))

\* What the transfers rely on, and what they deliver.
DataInv ==
  /\ TarInv /\ FlightInv /\ ReadInv /\ WriteInv
  /\ ReadReturnsMemory /\ WriteStored /\ TarTracksCurAddr

\* The inductive invariant: what any two transactions of the driver hand over to
\* each other.
IInv == TypeOK /\ Progress /\ CurAddrInv /\ InitInv /\ ReadyConfigured /\ DataInv
=============================================================================
