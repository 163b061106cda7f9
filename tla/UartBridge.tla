----------------------------- MODULE UartBridge -----------------------------
(* The USB to UART bridge of plat-efm.c: two byte rings between USB and the  *)
(* two USART interrupts.  These have one priority, the lowest, and do not    *)
(* nest; they interrupt the main loop between any two accesses to what they  *)
(* share with it.  The USB data callback is called by the USB stack, which   *)
(* is the boot loader's: from usbWork in the main loop, or from the USB      *)
(* interrupts that plat-efm.c forwards to it, which interrupt the main loop  *)
(* and the USART handlers.  "ctx" is the one or the other.                   *)
EXTENDS Naturals, Sequences, SequencesExt

CONSTANTS N,          (* slots of a ring: 256 in the code                    *)
          Bytes,      (* the values of a byte; memory starts as 0            *)
          FromDut,    (* those that the target sends                         *)
          MaxPacket   (* bytes of the longest USB packet                     *)

ASSUME UartAssumption == /\ N \in Nat /\ N > 1
                         /\ 0 \in Bytes /\ FromDut \subseteq Bytes
                         /\ MaxPacket \in Nat

VARIABLES
  tx,      (* uartDataFromPc: PC to UART                                      *)
  rx,      (* uartDataFromDut: UART to PC                                     *)
  ien,     (* USART0->IEN                                                     *)
  txdata,  (* the byte last given to the UART                                 *)
  usb,     (* the byte last given to the PC                                   *)
  pc,      (* where the main loop is in platWork                              *)
  at,      (* where the USB data callback is, or "off"                        *)
  irq,     (* where the TX interrupt's handler is, or "off"                   *)
  pkt,     (* the bytes of the packet that platUsbToSerialDataRxCbk has left  *)
  slot,    (* the slot cbWrite is filling                                     *)
  val,     (* platWork's byte                                                 *)
  copy,    (* the value of IEN in a register while it is being changed        *)
  order,   (* which store of cbWrite the compiler put first: buf is not       *)
           (* volatile, so the language allows either                         *)
  ctx,     (* what calls the callback: the main "loop" or an "interrupt"      *)
  cut      (* history: the last packet came when the TX interrupt's handler   *)
           (* had found the ring empty and was about to turn itself off       *)

vars == <<tx, rx, ien, txdata, usb, pc, at, irq, pkt, slot, val, copy, order, ctx, cut>>

Slots == 0 .. N - 1
Ring == [buf : [Slots -> Bytes], rP : Slots, wP : Slots]

(* The cursors are as wide as the ring is long: they wrap by themselves. *)
Succ(i) == IF i = N - 1 THEN 0 ELSE i + 1

cbIsEmpty(cb) == cb.rP = cb.wP
FullNever(cb) == FALSE                       \* mutant: no test for room
cbIsFull(cb) == cb.rP = Succ(cb.wP)

(* The ring once cbRead has taken the byte at rP, and once cbWrite has put one. *)
Dequeued(cb) == [cb EXCEPT !.rP = Succ(@)]
Enqueued(cb, b) == [cb EXCEPT !.buf[cb.wP] = b, !.wP = Succ(@)]

-----------------------------------------------------------------------------
(* The interrupts. *)

(* A USART handler starts, or goes on, unless a USB interrupt is being served. *)
NotPreempted == ctx = "interrupt" => at = "off"

(* USART0_RX: a byte with a parity or framing error is dropped, one that     *)
(* finds the ring full as well.  It shares nothing with the callback.        *)
RxIrq ==
  /\ NotPreempted /\ irq = "off"
  /\ "RXDATAV" \in ien
  /\ ~ cbIsFull(rx)
  /\ \E b \in FromDut : rx' = Enqueued(rx, b)
  /\ UNCHANGED <<tx, ien, txdata, usb, pc, at, irq, pkt, slot, val, copy, order, ctx, cut>>

(* USART0_TX: called while the UART has room and TXBL is enabled: cbRead's   *)
(* test, ...                                                                 *)
TxTest ==
  /\ NotPreempted /\ irq = "off"
  /\ "TXBL" \in ien
  /\ irq' = IF cbIsEmpty(tx) THEN "clear" ELSE "take"
  /\ UNCHANGED <<tx, rx, ien, txdata, usb, pc, at, pkt, slot, val, copy, order, ctx, cut>>

(* ... its oldest byte, which no callback overwrites before or after the     *)
(* cursor has moved, ...                                                     *)
TxTake ==
  /\ NotPreempted /\ irq = "take"
  /\ txdata' = tx.buf[tx.rP] /\ tx' = Dequeued(tx)
  /\ irq' = "off"
  /\ UNCHANGED <<rx, ien, usb, pc, at, pkt, slot, val, copy, order, ctx, cut>>

(* ... or IEN &=~ TXBL.  Nobody else clears a bit and RXDATAV stays, so it   *)
(* makes no difference how long before the store IEN is loaded.              *)
TxOff ==
  /\ NotPreempted /\ irq = "clear"
  /\ ien' = ien \ {"TXBL"}
  /\ irq' = "off"
  /\ UNCHANGED <<tx, rx, txdata, usb, pc, at, pkt, slot, val, copy, order, ctx, cut>>

TxIrq == TxTest \/ TxTake \/ TxOff

-----------------------------------------------------------------------------
(* platUsbToSerialDataRxCbk.  Called by the main loop it is interrupted by   *)
(* the USART handlers, which then run to their end; called by an interrupt   *)
(* it cuts into them and into platWork, and runs to its own end.             *)

MayRun == ctx = "loop" => irq = "off"

Packet ==
  /\ at = "off"
  /\ ctx = "loop" => pc = "idle" /\ irq = "off"
  /\ pkt' \in SeqOf(Bytes, MaxPacket)
  /\ at' = "copy"
  /\ cut' = (irq = "clear")
  /\ UNCHANGED <<tx, rx, ien, txdata, usb, pc, irq, slot, val, copy, order, ctx>>

(* cbWrite's test and the first of its two stores. *)
WriteFirst ==
  /\ MayRun
  /\ at = "copy" /\ pkt # <<>> /\ ~ cbIsFull(tx)
  /\ slot' = tx.wP
  /\ tx' = IF order = "data" THEN [tx EXCEPT !.buf[tx.wP] = Head(pkt)]
                             ELSE [tx EXCEPT !.wP = Succ(@)]
  /\ at' = "second"
  /\ UNCHANGED <<rx, ien, txdata, usb, pc, irq, pkt, val, copy, order, ctx, cut>>

WriteSecond ==
  /\ MayRun
  /\ at = "second"
  /\ tx' = IF order = "data" THEN [tx EXCEPT !.wP = Succ(@)]
                             ELSE [tx EXCEPT !.buf[slot] = Head(pkt)]
  /\ pkt' = Tail(pkt)
  /\ at' = "copy"
  /\ slot' = 0
  /\ UNCHANGED <<rx, ien, txdata, usb, pc, irq, val, copy, order, ctx, cut>>

TestSkipped == /\ MayRun                      \* mutant: IEN left alone
               /\ at = "copy" /\ (pkt = <<>> \/ cbIsFull(tx))
               /\ pkt' = <<>>
               /\ at' = "off"
               /\ UNCHANGED <<tx, rx, ien, txdata, usb, pc, irq, slot, val, copy, order, ctx, cut>>
(* The packet is used up, or the ring is full and its rest is dropped. *)
WriteEnds ==
  /\ MayRun
  /\ at = "copy" /\ (pkt = <<>> \/ cbIsFull(tx))
  /\ pkt' = <<>>
  /\ at' = "test"
  /\ UNCHANGED <<tx, rx, ien, txdata, usb, pc, irq, slot, val, copy, order, ctx, cut>>

TestEmpty ==
  /\ MayRun
  /\ at = "test"
  /\ at' = IF cbIsEmpty(tx) THEN "off" ELSE "load"
  /\ UNCHANGED <<tx, rx, ien, txdata, usb, pc, irq, pkt, slot, val, copy, order, ctx, cut>>

(* IEN |= TXBL is a load, then a store. *)
LoadIen ==
  /\ MayRun
  /\ at = "load"
  /\ copy' = ien
  /\ at' = "store"
  /\ UNCHANGED <<tx, rx, ien, txdata, usb, pc, irq, pkt, slot, val, order, ctx, cut>>

StoreIen ==
  /\ MayRun
  /\ at = "store"
  /\ ien' = copy \cup {"TXBL"}
  /\ copy' = {}
  /\ at' = "off"
  /\ UNCHANGED <<tx, rx, txdata, usb, pc, irq, pkt, slot, val, order, ctx, cut>>

-----------------------------------------------------------------------------
(* platWork, called by the main loop when no handler and no callback runs. *)

Undisturbed == at = "off" /\ irq = "off"

PeekUnwritten ==                             \* mutant: looks at the wrong end
  /\ Undisturbed
  /\ pc \in {"idle", "work"}
  /\ IF cbIsEmpty(rx) THEN pc' = "idle" /\ UNCHANGED val
                      ELSE pc' = "send" /\ val' = rx.buf[rx.wP]
  /\ UNCHANGED <<tx, rx, ien, txdata, usb, at, irq, pkt, slot, copy, order, ctx, cut>>

WorkPeek ==
  /\ Undisturbed
  /\ pc \in {"idle", "work"}
  /\ IF cbIsEmpty(rx) THEN pc' = "idle" /\ UNCHANGED val
                      ELSE pc' = "send" /\ val' = rx.buf[rx.rP]
  /\ UNCHANGED <<tx, rx, ien, txdata, usb, at, irq, pkt, slot, copy, order, ctx, cut>>

(* blCdcBulkTx takes the byte, or has no room for it and platWork gives up. *)
WorkSend ==
  /\ Undisturbed
  /\ pc = "send"
  /\ usb' = val
  /\ pc' = "sent"
  /\ UNCHANGED <<tx, rx, ien, txdata, at, irq, pkt, slot, val, copy, order, ctx, cut>>

WorkSendFails ==
  /\ Undisturbed
  /\ pc = "send"
  /\ pc' = "idle"
  /\ val' = 0
  /\ UNCHANGED <<tx, rx, ien, txdata, usb, at, irq, pkt, slot, copy, order, ctx, cut>>

WorkDequeue ==
  /\ Undisturbed
  /\ pc = "sent"
  /\ rx' = IF cbIsEmpty(rx) THEN rx ELSE Dequeued(rx)
  /\ pc' = "work"
  /\ val' = 0
  /\ UNCHANGED <<tx, ien, txdata, usb, at, irq, pkt, slot, copy, order, ctx, cut>>

-----------------------------------------------------------------------------
Empty == [buf |-> [i \in Slots |-> 0], rP |-> 0, wP |-> 0]

(* As platInit leaves it. *)
Init ==
  /\ tx = Empty /\ rx = Empty
  /\ ien = {"RXDATAV"}
  /\ txdata = 0 /\ usb = 0
  /\ pc = "idle" /\ at = "off" /\ irq = "off"
  /\ pkt = <<>> /\ slot = 0 /\ val = 0 /\ copy = {}
  /\ order \in {"data", "cursor"} /\ ctx \in {"loop", "interrupt"} /\ cut = FALSE

Callback == WriteFirst \/ WriteSecond \/ WriteEnds \/ TestEmpty \/ LoadIen \/ StoreIen
Work == WorkPeek \/ WorkSendFails \/ WorkDequeue
Next == RxIrq \/ TxIrq \/ Packet \/ Callback \/ Work \/ WorkSend

Spec == Init /\ [][Next]_vars

(* A pending interrupt is taken and the callback does not stop in the middle;*)
(* USB interrupts leave the USART handlers time, and both leave the main     *)
(* loop time to go through platWork again and again (strong fairness); the   *)
(* PC reads its endpoint now and then, so that blCdcBulkTx does not fail for *)
(* ever (that of WorkSend).                                                  *)
FairSpec ==
  /\ Spec
  /\ SF_vars(TxIrq) /\ WF_vars(Callback)
  /\ SF_vars(WorkPeek) /\ SF_vars(WorkSend) /\ SF_vars(WorkDequeue)

-----------------------------------------------------------------------------
(* Properties. *)

(* Types and ranges of the rings, the interrupt mask and the main loop. *)
TypeOK ==
  /\ tx \in Ring /\ rx \in Ring
  /\ ien \subseteq {"RXDATAV", "TXBL"} /\ copy \subseteq {"RXDATAV", "TXBL"}
  /\ txdata \in Bytes /\ usb \in Bytes /\ val \in Bytes
  /\ pc \in {"idle", "work", "send", "sent"}
  /\ at \in {"off", "copy", "second", "test", "load", "store"}
  /\ irq \in {"off", "take", "clear"}
  /\ pkt \in Seq(Bytes) /\ slot \in Slots
  /\ order \in {"data", "cursor"} /\ ctx \in {"loop", "interrupt"} /\ cut \in BOOLEAN

(* However the USB callback's change of IEN and the TX interrupt's own meet, *)
(* no byte is left in the ring with the interrupt off once the callback is   *)
(* done, and reception stays enabled.  The one exception needs a callback    *)
(* that is called from an interrupt and cuts into the TX handler between its *)
(* test (plat-efm.c:118) and its change of IEN (:121): then the bytes wait   *)
(* for the next packet.                                                      *)
NoneStranded ==
  /\ at = "off" /\ ~ cbIsEmpty(tx) => "TXBL" \in ien \/ cut
  /\ cut => ctx = "interrupt"
  /\ "RXDATAV" \in ien

(* The byte platWork takes from the ring is the one it has just sent, though *)
(* the RX interrupt adds to the ring in between.                             *)
DequeuesWhatItSent ==
  pc \in {"send", "sent"} => ~ cbIsEmpty(rx) /\ rx.buf[rx.rP] = val

(* Both rings, at every point an interrupt or the main loop may cut in.      *)
QueuesSafe == TypeOK /\ NoneStranded /\ DequeuesWhatItSent

(* The bytes a ring holds, oldest first, and the slot of the i-th.           *)
Count(cb) == IF cb.wP >= cb.rP THEN cb.wP - cb.rP ELSE cb.wP + N - cb.rP
SlotOf(cb, i) == IF cb.rP + i - 1 >= N THEN cb.rP + i - 1 - N ELSE cb.rP + i - 1
Content(cb) == [i \in 1 .. Count(cb) |-> cb.buf[SlotOf(cb, i)]]

(* The transmit ring with the store that is still to come. *)
TxStored == IF at = "second" /\ order = "cursor" THEN [tx EXCEPT !.buf[slot] = Head(pkt)] ELSE tx

(* From the PC to the UART the bridge is a pipe of N - 1 bytes: cursors that *)
(* wrap, a full ring and interrupts in the middle of cbWrite neither lose a  *)
(* queued byte nor repeat nor reorder one; if the compiler stores the byte   *)
(* before the cursor its value is kept too.                                  *)
ToUart == INSTANCE Pipe WITH q <- Content(TxStored), out <- txdata, exact <- order = "data", Cap <- N - 1
TxIsPipe == ToUart!Spec

(* From the UART to the PC it is a pipe as well: a byte leaves it when       *)
(* blCdcBulkTx takes it, before platWork removes it from the ring.           *)
ToPc == INSTANCE Pipe WITH q <- IF pc = "sent" THEN Tail(Content(rx)) ELSE Content(rx),
                           out <- usb, exact <- TRUE, Cap <- N - 1
RxIsPipe == ToPc!Spec

(* Both directions at once, whatever interrupts what and whatever calls the  *)
(* callback.                                                                 *)
ArePipes == TxIsPipe /\ RxIsPipe

(* A byte that got into a ring leaves it: the UART gets every byte of the    *)
(* transmit ring, unless the last packet of all cut into the TX handler as   *)
(* NoneStranded says, the PC every byte of the receive ring.                 *)
BytesLeave ==
  /\ []<>cbIsEmpty(tx) \/ []<><<tx'.rP # tx.rP>>_vars \/ <>[]cut
  /\ []<>cbIsEmpty(rx) \/ []<><<rx'.rP # rx.rP>>_vars

=============================================================================
