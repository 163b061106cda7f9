-------------------------- MODULE UartBridgeProofs --------------------------
(* Proofs about the USB to UART bridge, for rings of every size.             *)
EXTENDS UartBridge, SequenceTheorems, TLAPS

LEMMA Sizes == N \in Nat /\ N > 1 /\ 0 \in Bytes /\ MaxPacket \in Nat
BY UartAssumption

(* A cursor stays in the ring and moves. *)
LEMMA SuccType == ASSUME NEW i \in Slots PROVE Succ(i) \in Slots /\ Succ(i) # i
BY Sizes DEF Slots, Succ

LEMMA EnqueuedType ==
  ASSUME NEW cb \in Ring, NEW b \in Bytes PROVE Enqueued(cb, b) \in Ring
BY SuccType DEF Ring, Enqueued

LEMMA DequeuedType == ASSUME NEW cb \in Ring PROVE Dequeued(cb) \in Ring
BY SuccType DEF Ring, Dequeued

(* What cbWrite appends to a ring that is not full leaves the oldest byte    *)
(* where it is, and the ring is not empty then.                              *)
LEMMA EnqueuedKeepsOldest ==
  ASSUME NEW cb \in Ring, NEW b \in Bytes, ~ cbIsFull(cb)
  PROVE  /\ ~ cbIsEmpty(Enqueued(cb, b))
         /\ ~ cbIsEmpty(cb) => /\ Enqueued(cb, b).rP = cb.rP
                               /\ Enqueued(cb, b).buf[cb.rP] = cb.buf[cb.rP]
BY SuccType DEF Ring, Enqueued, cbIsFull, cbIsEmpty

(* The bytes of a packet that are still to be written. *)
LEMMA PacketType == SeqOf(Bytes, MaxPacket) \subseteq Seq(Bytes)
BY Sizes DEF SeqOf

LEMMA PacketHead ==
  ASSUME NEW s \in Seq(Bytes), s # <<>> PROVE Head(s) \in Bytes /\ Tail(s) \in Seq(Bytes)
OBVIOUS

-----------------------------------------------------------------------------
(* The inductive strengthening of QueuesSafe: a byte is there to be stored   *)
(* until both of cbWrite's stores are made, and room for it (Room); the mask *)
(* that the callback is about to store has reception enabled; and the TX     *)
(* handler's test still tells what it told, unless a packet has cut in.      *)
Room == at = "second" /\ order = "data" => ~ cbIsFull(tx)

HandlerKnows ==
  /\ irq = "take" => ~ cbIsEmpty(tx)
  /\ irq = "clear" => cut \/ cbIsEmpty(tx)
  /\ irq = "clear" /\ ctx = "interrupt" /\ at # "off" => cut

IInv ==
  /\ TypeOK
  /\ at = "second" => pkt # <<>>
  /\ at = "store" => "RXDATAV" \in copy
  /\ Room
  /\ HandlerKnows
  /\ NoneStranded
  /\ DequeuesWhatItSent

LEMMA InitIInv == Init => IInv
<1> SUFFICES ASSUME Init PROVE IInv
  OBVIOUS
<1>1. 0 \in Slots
  BY Sizes DEF Slots
<1>2. Empty \in Ring
  BY <1>1, Sizes DEF Empty, Ring
<1>3. TypeOK
  <2>1. cut \in BOOLEAN
    BY Zenon DEF Init
  <2>2. /\ tx = Empty /\ rx = Empty /\ ien = {"RXDATAV"} /\ copy = {}
        /\ txdata = 0 /\ usb = 0 /\ val = 0 /\ slot = 0 /\ pkt = <<>>
    BY DEF Init
  <2>3. /\ pc = "idle" /\ at = "off" /\ irq = "off"
        /\ order \in {"data", "cursor"} /\ ctx \in {"loop", "interrupt"}
    BY DEF Init
  <2> QED
    BY <1>1, <1>2, <2>1, <2>2, <2>3, Sizes DEF TypeOK
<1>4. cbIsEmpty(tx)
  BY DEF Init, Empty, cbIsEmpty
<1>5. NoneStranded
  <2>1. ~ cut
    BY Zenon DEF Init
  <2>2. "RXDATAV" \in ien
    BY DEF Init
  <2> QED
    BY <1>4, <2>1, <2>2, Zenon DEF NoneStranded
<1>6. HandlerKnows /\ Room /\ DequeuesWhatItSent
  BY DEF Init, HandlerKnows, Room, DequeuesWhatItSent
<1>7. at # "second" /\ at # "store"
  BY DEF Init
<1> QED
  BY <1>3, <1>5, <1>6, <1>7 DEF IInv

-----------------------------------------------------------------------------
LEMMA SuccInjective == ASSUME NEW i \in Slots, NEW j \in Slots, Succ(i) = Succ(j) PROVE i = j
BY Sizes DEF Slots, Succ

LEMMA DequeuedHasRoom ==
  ASSUME NEW cb \in Ring, ~ cbIsEmpty(cb) PROVE ~ cbIsFull(Dequeued(cb))
BY SuccInjective DEF Ring, Dequeued, cbIsEmpty, cbIsFull

(* The interrupts. *)

LEMMA RxIrqStep == IInv /\ RxIrq => IInv'
<1> SUFFICES ASSUME IInv, RxIrq PROVE IInv'
  OBVIOUS
<1> USE DEF IInv
<1>1. PICK b \in Bytes : rx' = Enqueued(rx, b)
  BY UartAssumption DEF RxIrq
<1>2. rx \in Ring /\ ~ cbIsFull(rx)
  BY DEF RxIrq, TypeOK
<1>3. TypeOK'
  BY <1>1, <1>2, EnqueuedType DEF RxIrq, TypeOK
<1>4. NoneStranded' /\ HandlerKnows' /\ Room'
  BY DEF RxIrq, NoneStranded, HandlerKnows, Room, cbIsEmpty, cbIsFull
<1>5. DequeuesWhatItSent'
  BY <1>1, <1>2, EnqueuedKeepsOldest DEF RxIrq, DequeuesWhatItSent
<1> QED
  BY <1>3, <1>4, <1>5 DEF RxIrq

(* A packet that finds the handler about to turn itself off is one that cuts *)
(* in: in the main loop it would have to wait for the handler.               *)
LEMMA TxTestStep == IInv /\ TxTest => IInv'
<1> SUFFICES ASSUME IInv, TxTest PROVE IInv'
  OBVIOUS
<1>1. TypeOK'
  BY DEF IInv, TxTest, TypeOK
<1>2. HandlerKnows'
  BY DEF IInv, TxTest, NotPreempted, HandlerKnows, TypeOK, cbIsEmpty
<1> QED
  BY <1>1, <1>2 DEF IInv, TxTest, Room, NoneStranded, DequeuesWhatItSent, cbIsEmpty, cbIsFull

LEMMA TxTakeStep == IInv /\ TxTake => IInv'
<1> SUFFICES ASSUME IInv, TxTake PROVE IInv'
  OBVIOUS
<1>1. tx \in Ring /\ ~ cbIsEmpty(tx)
  BY DEF IInv, TypeOK, TxTake, HandlerKnows
<1>2. tx.buf[tx.rP] \in Bytes
  BY <1>1 DEF Ring
<1>3. TypeOK'
  BY <1>1, <1>2, DequeuedType DEF IInv, TxTake, TypeOK
<1>4. Room'
  BY <1>1, DequeuedHasRoom DEF TxTake, Room
<1>5. ~ cbIsEmpty(tx)' => ~ cbIsEmpty(tx)
  BY <1>1
<1>6. NoneStranded' /\ HandlerKnows'
  BY <1>1 DEF IInv, TxTake, NoneStranded, HandlerKnows
<1> QED
  BY <1>3, <1>4, <1>6 DEF IInv, TxTake, DequeuesWhatItSent, cbIsEmpty

LEMMA TxOffStep == IInv /\ TxOff => IInv'
<1> SUFFICES ASSUME IInv, TxOff PROVE IInv'
  OBVIOUS
<1>1. TypeOK'
  BY DEF IInv, TxOff, TypeOK
<1>2. NoneStranded'
  BY DEF IInv, TxOff, NoneStranded, HandlerKnows, cbIsEmpty
<1> QED
  BY <1>1, <1>2 DEF IInv, TxOff, Room, HandlerKnows, DequeuesWhatItSent, cbIsEmpty, cbIsFull

LEMMA TxIrqStep == IInv /\ TxIrq => IInv'
BY TxTestStep, TxTakeStep, TxOffStep DEF TxIrq

-----------------------------------------------------------------------------
(* The USB callback. *)

LEMMA PacketStep == IInv /\ Packet => IInv'
<1> SUFFICES ASSUME IInv, Packet PROVE IInv'
  OBVIOUS
<1>1. TypeOK'
  BY PacketType DEF IInv, Packet, TypeOK
<1>2. HandlerKnows'
  BY DEF IInv, Packet, HandlerKnows, cbIsEmpty
<1>3. NoneStranded'
  BY DEF IInv, Packet, NoneStranded, TypeOK, cbIsEmpty
<1> QED
  BY <1>1, <1>2, <1>3 DEF IInv, Packet, Room, DequeuesWhatItSent, cbIsEmpty

(* The callback runs on a handler in its middle only if it has cut in. *)
LEMMA RunsFree == ASSUME IInv, MayRun, at # "off" PROVE irq = "clear" => cut
BY DEF IInv, MayRun, HandlerKnows, TypeOK

LEMMA WriteFirstStep == IInv /\ WriteFirst => IInv'
<1> SUFFICES ASSUME IInv, WriteFirst PROVE IInv'
  OBVIOUS
<1>0. irq = "clear" => cut
  BY RunsFree DEF WriteFirst
<1> USE DEF IInv
<1>1. tx \in Ring /\ pkt \in Seq(Bytes) /\ pkt # <<>> /\ ~ cbIsFull(tx)
  BY DEF WriteFirst, TypeOK
<1>2. Head(pkt) \in Bytes
  BY <1>1, PacketHead
<1>3. tx.wP \in Slots /\ Succ(tx.wP) \in Slots
  BY <1>1, SuccType DEF Ring
<1>4. tx' \in Ring
  BY <1>1, <1>2, <1>3 DEF WriteFirst, Ring
<1>5. TypeOK'
  BY <1>3, <1>4 DEF WriteFirst, TypeOK
<1>6. Room'
  BY <1>1 DEF WriteFirst, Room, Ring, cbIsFull
<1>7. ~ cbIsEmpty(tx) => ~ cbIsEmpty(tx)'
  BY <1>1 DEF WriteFirst, Ring, cbIsEmpty, cbIsFull
<1>8. HandlerKnows'
  BY <1>0, <1>7 DEF WriteFirst, HandlerKnows
<1> QED
  BY <1>1, <1>5, <1>6, <1>8 DEF WriteFirst, NoneStranded, DequeuesWhatItSent, cbIsEmpty

LEMMA WriteSecondStep == IInv /\ WriteSecond => IInv'
<1> SUFFICES ASSUME IInv, WriteSecond PROVE IInv'
  OBVIOUS
<1>0. irq = "clear" => cut
  BY RunsFree DEF WriteSecond
<1> USE DEF IInv
<1>1. tx \in Ring /\ pkt \in Seq(Bytes) /\ pkt # <<>> /\ slot \in Slots
  BY DEF WriteSecond, TypeOK
<1>2. Head(pkt) \in Bytes /\ Tail(pkt) \in Seq(Bytes)
  BY <1>1, PacketHead
<1>3. Succ(tx.wP) \in Slots /\ 0 \in Slots
  BY <1>1, SuccType, Sizes DEF Ring, Slots
<1>4. tx' \in Ring
  BY <1>1, <1>2, <1>3 DEF WriteSecond, Ring
<1>5. TypeOK'
  BY <1>2, <1>3, <1>4 DEF WriteSecond, TypeOK
<1>6. ~ cbIsEmpty(tx) => ~ cbIsEmpty(tx)'
  BY <1>1 DEF WriteSecond, Room, Ring, cbIsEmpty, cbIsFull
<1>7. HandlerKnows'
  BY <1>0, <1>6 DEF WriteSecond, HandlerKnows
<1> QED
  BY <1>5, <1>7 DEF WriteSecond, Room, NoneStranded, DequeuesWhatItSent, cbIsEmpty

LEMMA CallbackEndsStep == IInv /\ (WriteEnds \/ TestEmpty) => IInv'
<1> USE DEF IInv, Room, HandlerKnows, NoneStranded, DequeuesWhatItSent, cbIsEmpty, cbIsFull
<1>1. <<>> \in Seq(Bytes)
  OBVIOUS
<1>2. IInv /\ WriteEnds => IInv'
  BY <1>1 DEF WriteEnds, TypeOK
<1>3. IInv /\ TestEmpty => IInv'
  <2>1. IInv /\ TestEmpty => TypeOK'
    BY DEF TestEmpty, TypeOK
  <2> QED
    BY <2>1 DEF TestEmpty
<1> QED
  BY <1>2, <1>3

(* The TX interrupt between the two can only clear TXBL, which is set again. *)
LEMMA IenStep == IInv /\ (LoadIen \/ StoreIen) => IInv'
<1> USE DEF IInv, Room, HandlerKnows, NoneStranded, DequeuesWhatItSent, cbIsEmpty, cbIsFull
<1>1. IInv /\ LoadIen => IInv'
  BY DEF LoadIen, TypeOK
<1>2. IInv /\ StoreIen => IInv'
  BY DEF StoreIen, TypeOK
<1> QED
  BY <1>1, <1>2

-----------------------------------------------------------------------------
(* platWork. *)

LEMMA WorkPeekStep == IInv /\ WorkPeek => IInv'
<1> SUFFICES ASSUME IInv, WorkPeek PROVE IInv'
  OBVIOUS
<1> USE DEF IInv
<1>1. rx.buf[rx.rP] \in Bytes
  BY DEF TypeOK, Ring
<1>2. TypeOK'
  BY <1>1 DEF WorkPeek, TypeOK
<1> QED
  BY <1>2 DEF WorkPeek, Room, HandlerKnows, NoneStranded, DequeuesWhatItSent, cbIsEmpty, cbIsFull

LEMMA WorkSendStep == IInv /\ (WorkSend \/ WorkSendFails) => IInv'
<1> USE DEF IInv, Room, HandlerKnows, NoneStranded, DequeuesWhatItSent, cbIsEmpty, cbIsFull
<1>1. IInv /\ WorkSend => IInv'
  BY DEF WorkSend, TypeOK
<1>2. IInv /\ WorkSendFails => IInv'
  BY Sizes DEF WorkSendFails, TypeOK
<1> QED
  BY <1>1, <1>2

LEMMA WorkDequeueStep == IInv /\ WorkDequeue => IInv'
<1> SUFFICES ASSUME IInv, WorkDequeue PROVE IInv'
  OBVIOUS
<1> USE DEF IInv
<1>1. rx' \in Ring
  BY DequeuedType DEF WorkDequeue, TypeOK
<1>2. TypeOK'
  BY <1>1, Sizes DEF WorkDequeue, TypeOK
<1> QED
  BY <1>2 DEF WorkDequeue, Room, HandlerKnows, NoneStranded, DequeuesWhatItSent, cbIsEmpty, cbIsFull

LEMMA StepIInv == IInv /\ [Next]_vars => IInv'
<1>1. IInv /\ UNCHANGED vars => IInv'
  BY DEF IInv, vars, TypeOK, Room, HandlerKnows, NoneStranded, DequeuesWhatItSent, cbIsEmpty, cbIsFull
<1> QED
  BY <1>1, RxIrqStep, TxIrqStep, PacketStep, WriteFirstStep, WriteSecondStep, CallbackEndsStep, IenStep,
     WorkPeekStep, WorkSendStep, WorkDequeueStep DEF Next, Callback, Work

-----------------------------------------------------------------------------
(* The types; no byte stranded behind a TX interrupt that is off, except by  *)
(* a callback that cut into the TX handler; and platWork taking from the     *)
(* ring the byte it has sent: for every size of the rings and of packets,    *)
(* whatever interrupts what and whether the callback is called by the main   *)
(* loop or by an interrupt (plat-efm.c:104 to 226, 771 to 783).              *)
THEOREM BridgeSafe == Spec => []QueuesSafe
<1>1. IInv => QueuesSafe
  BY DEF IInv, QueuesSafe
<1> QED
  BY InitIInv, StepIInv, <1>1, PTL DEF Spec

-----------------------------------------------------------------------------
(* Each direction is a Pipe: what happens to the bytes a ring holds.         *)

LEMMA CountType ==
  ASSUME NEW cb \in Ring
  PROVE  /\ Count(cb) \in 0 .. N - 1
         /\ Count(cb) = 0 <=> cbIsEmpty(cb)
         /\ \A i \in 1 .. Count(cb) : SlotOf(cb, i) \in Slots /\ SlotOf(cb, i) # cb.wP
<1>1. cb.rP \in 0 .. N - 1 /\ cb.wP \in 0 .. N - 1
  BY DEF Ring, Slots
<1>2. QED
  BY <1>1, Sizes DEF Count, SlotOf, Slots, cbIsEmpty

LEMMA ContentType ==
  ASSUME NEW cb \in Ring
  PROVE  /\ Content(cb) \in Seq(Bytes)
         /\ Len(Content(cb)) = Count(cb)
         /\ \A i \in 1 .. Count(cb) : Content(cb)[i] = cb.buf[SlotOf(cb, i)]
<1>1. Content(cb) = [i \in 1 .. Count(cb) |-> cb.buf[SlotOf(cb, i)]]
  BY DEF Content
<1>2. \A i \in 1 .. Count(cb) : cb.buf[SlotOf(cb, i)] \in Bytes
  BY CountType DEF Ring
<1>3. Count(cb) \in Nat
  BY CountType
<1>4. QED
  BY <1>1, <1>2, <1>3

(* A write to a slot that holds no byte changes nothing. *)
LEMMA ContentOfBuffer ==
  ASSUME NEW cb \in Ring, NEW cc \in Ring, cc.rP = cb.rP, cc.wP = cb.wP,
         \A i \in Slots : i # cb.wP => cc.buf[i] = cb.buf[i]
  PROVE  Content(cc) = Content(cb)
<1>1. Count(cc) = Count(cb) /\ \A i \in 1 .. Count(cb) : SlotOf(cc, i) = SlotOf(cb, i)
  BY DEF Count, SlotOf
<1>2. \A i \in 1 .. Count(cb) : Content(cc)[i] = Content(cb)[i]
  BY <1>1, CountType, ContentType
<1>3. QED
  BY <1>1, <1>2, ContentType, SeqEqual

(* What is appended to a ring with room comes last. *)
LEMMA ContentEnqueued ==
  ASSUME NEW cb \in Ring, NEW cc \in Ring, NEW b \in Bytes, ~ cbIsFull(cb),
         cc.rP = cb.rP, cc.wP = Succ(cb.wP), cc.buf[cb.wP] = b,
         \A i \in Slots : i # cb.wP => cc.buf[i] = cb.buf[i]
  PROVE  /\ Content(cc) = Append(Content(cb), b)
         /\ Len(Content(cb)) < N - 1
<1>1. cb.rP \in 0 .. N - 1 /\ cb.wP \in 0 .. N - 1 /\ N \in Nat
  BY Sizes DEF Ring, Slots
<1>2. Count(cc) = Count(cb) + 1 /\ SlotOf(cc, Count(cb) + 1) = cb.wP
  BY <1>1, Sizes DEF Count, SlotOf, Succ, cbIsFull
<1>3. Count(cc) \in 0 .. N - 1 /\ Count(cb) \in Nat
  BY CountType, Sizes
<1>4. Count(cb) < N - 1
  BY <1>1, <1>2, <1>3
<1>5. \A i \in 1 .. Count(cb) : Content(cc)[i] = Content(cb)[i]
  <2>1. TAKE i \in 1 .. Count(cb)
  <2>2. SlotOf(cc, i) = SlotOf(cb, i)
    BY DEF SlotOf
  <2>3. i \in 1 .. Count(cc)
    BY <1>2, <1>3
  <2>4. QED
    BY <2>2, <2>3, CountType, ContentType
<1>6. Content(cc)[Count(cb) + 1] = b
  <2>1. Count(cb) + 1 \in 1 .. Count(cc)
    BY <1>2, <1>3
  <2>2. QED
    BY <1>2, <2>1, ContentType
<1> DEFINE s == Content(cb)
           t == Content(cc)
<1>7. s \in Seq(Bytes) /\ t \in Seq(Bytes) /\ Len(s) = Count(cb) /\ Len(t) = Len(s) + 1
  BY <1>2, ContentType
<1>8. Append(s, b) \in Seq(Bytes) /\ Len(Append(s, b)) = Len(s) + 1
  BY <1>7, AppendProperties
<1>9. \A i \in 1 .. Len(t) : t[i] = Append(s, b)[i]
  <2>1. TAKE i \in 1 .. Len(t)
  <2>2. CASE i = Len(s) + 1
    BY <1>6, <1>7, <2>2, AppendProperties
  <2>3. CASE i \in 1 .. Len(s)
    BY <1>5, <1>7, <2>3, AppendProperties
  <2>4. QED
    BY <1>3, <1>7, <2>2, <2>3
<1>10. t = Append(s, b)
  BY <1>7, <1>8, <1>9, SeqEqual
<1>11. QED
  BY <1>4, <1>7, <1>10

(* What is taken from a ring that is not empty came first. *)
LEMMA ContentDequeued ==
  ASSUME NEW cb \in Ring, ~ cbIsEmpty(cb)
  PROVE  /\ Content(cb) # <<>>
         /\ Head(Content(cb)) = cb.buf[cb.rP]
         /\ Content(Dequeued(cb)) = Tail(Content(cb))
<1> DEFINE cc == Dequeued(cb)
<1>1. cb.rP \in 0 .. N - 1 /\ cb.wP \in 0 .. N - 1 /\ N \in Nat
  BY Sizes DEF Ring, Slots
<1>2. cc \in Ring /\ cc.rP = Succ(cb.rP) /\ cc.wP = cb.wP /\ cc.buf = cb.buf
  BY DequeuedType DEF Dequeued, Ring
<1>3. Count(cc) = Count(cb) - 1 /\ Count(cb) >= 1 /\ SlotOf(cb, 1) = cb.rP
  BY <1>1, <1>2, Sizes DEF Count, SlotOf, Succ, cbIsEmpty
<1>4. Count(cb) \in Nat /\ Count(cc) \in Nat
  BY <1>2, CountType
<1>5. \A i \in 1 .. Count(cc) : Content(cc)[i] = Content(cb)[i + 1]
  <2>1. TAKE i \in 1 .. Count(cc)
  <2>2. i \in Nat /\ i <= N - 1 /\ i + 1 \in 1 .. Count(cb)
    BY <1>1, <1>2, <1>3, <1>4, CountType
  <2>3. SlotOf(cc, i) = SlotOf(cb, i + 1)
    BY <1>1, <1>2, <2>2, Sizes DEF SlotOf, Succ
  <2>4. QED
    BY <1>2, <2>2, <2>3, ContentType
<1> DEFINE s == Content(cb)
           t == Content(cc)
<1>6. s \in Seq(Bytes) /\ t \in Seq(Bytes) /\ Len(s) = Count(cb) /\ Len(t) = Len(s) - 1
  BY <1>2, <1>3, ContentType
<1>7. s # <<>> /\ s[1] = cb.buf[cb.rP]
  BY <1>3, <1>4, <1>6, ContentType
<1>8. Head(s) = s[1] /\ Tail(s) \in Seq(Bytes) /\ Len(Tail(s)) = Len(s) - 1
      /\ \A i \in 1 .. Len(Tail(s)) : Tail(s)[i] = s[i + 1]
  BY <1>6, <1>7, HeadTailProperties
<1>9. t = Tail(s)
  BY <1>3, <1>5, <1>6, <1>8, ContentType, SeqEqual
<1>10. QED
  BY <1>7, <1>8, <1>9

-----------------------------------------------------------------------------
(* From the PC to the UART. *)

LEMMA TxStoredType ==
  ASSUME IInv PROVE TxStored \in Ring /\ TxStored.rP = tx.rP /\ TxStored.wP = tx.wP
<1>1. CASE at = "second" /\ order = "cursor"
  <2>1. Head(pkt) \in Bytes /\ slot \in Slots /\ tx \in Ring
    BY <1>1, PacketHead DEF IInv, TypeOK
  <2>2. QED
    BY <1>1, <2>1 DEF TxStored, Ring
<1>2. CASE ~ (at = "second" /\ order = "cursor")
  BY <1>2 DEF TxStored, IInv, TypeOK
<1>3. QED
  BY <1>1, <1>2

(* A byte is queued when the cursor moves. *)
LEMMA TxPut ==
  ASSUME NEW b \in Bytes, Content(TxStored)' = Append(Content(TxStored), b),
         Len(Content(TxStored)) < N - 1, UNCHANGED <<txdata, order>>
  PROVE  ToUart!Next
BY DEF ToUart!Next, ToUart!Put

LEMMA TxSame == ASSUME Content(TxStored)' = Content(TxStored), UNCHANGED <<txdata, order>>
                PROVE  UNCHANGED ToUart!vars
BY DEF ToUart!vars

LEMMA TxWriteFirst == ASSUME IInv, WriteFirst PROVE [ToUart!Next]_(ToUart!vars)
<1>0. TypeOK /\ tx \in Ring /\ ~ cbIsFull(tx) /\ tx.wP \in Slots
  BY DEF IInv, TypeOK, WriteFirst, Ring
<1>1. Head(pkt) \in Bytes
  BY <1>0, PacketHead DEF WriteFirst, TypeOK
<1>2. TypeOK'
  BY WriteFirstStep DEF IInv
<1>3. TxStored = tx /\ at' = "second" /\ order' = order /\ txdata' = txdata /\ pkt' = pkt
      /\ slot' = tx.wP
  BY DEF WriteFirst, TxStored
<1>4. CASE order = "data"
  <2>1. TxStored' = tx' /\ tx' = [tx EXCEPT !.buf[tx.wP] = Head(pkt)]
    BY <1>3, <1>4 DEF TxStored, WriteFirst
  <2>2. /\ tx' \in Ring /\ tx'.rP = tx.rP /\ tx'.wP = tx.wP
        /\ \A i \in Slots : i # tx.wP => tx'.buf[i] = tx.buf[i]
    BY <1>0, <1>2, <2>1 DEF TypeOK, Ring
  <2>3. Content(tx') = Content(tx)
    BY <1>0, <2>2, ContentOfBuffer
  <2>4. Content(TxStored)' = Content(TxStored)
    BY <1>3, <2>1, <2>3 DEF Content, Count, SlotOf
  <2>5. QED
    BY <1>3, <2>4, TxSame
<1>5. CASE order = "cursor"
  <2>1. tx' = [tx EXCEPT !.wP = Succ(@)]
    BY <1>5 DEF WriteFirst
  <2>2. TxStored' = [tx' EXCEPT !.buf[tx.wP] = Head(pkt)]
    BY <1>3, <1>5 DEF TxStored
  <2>3. /\ tx'.rP = tx.rP /\ tx'.wP = Succ(tx.wP) /\ tx'.buf = tx.buf /\ tx' \in Ring
    BY <1>0, <1>2, <2>1 DEF TypeOK, Ring
  <2> DEFINE cc == TxStored'
  <2>4. /\ cc \in Ring /\ cc.rP = tx.rP /\ cc.wP = Succ(tx.wP) /\ cc.buf[tx.wP] = Head(pkt)
        /\ \A i \in Slots : i # tx.wP => cc.buf[i] = tx.buf[i]
    BY <1>0, <1>1, <2>2, <2>3 DEF Ring
  <2>5. Content(cc) = Append(Content(tx), Head(pkt)) /\ Len(Content(tx)) < N - 1
    <3> HIDE DEF cc
    <3>1. QED
      BY <1>0, <1>1, <2>4, ContentEnqueued
  <2>6. Content(TxStored)' = Content(cc)
    BY DEF Content, Count, SlotOf
  <2>7. QED
    BY <1>1, <1>3, <2>5, <2>6, TxPut
<1>6. QED
  BY <1>0, <1>4, <1>5 DEF TypeOK

LEMMA TxWriteSecond == ASSUME IInv, WriteSecond PROVE [ToUart!Next]_(ToUart!vars)
<1>0. TypeOK /\ tx \in Ring /\ tx.wP \in Slots /\ tx.buf[tx.wP] \in Bytes
  BY DEF IInv, TypeOK, Ring
<1>1. TypeOK'
  BY WriteSecondStep DEF IInv
<1>2. at = "second" /\ TxStored' = tx' /\ order' = order /\ txdata' = txdata
  BY DEF WriteSecond, TxStored
<1>3. CASE order = "data"
  <2>1. TxStored = tx /\ ~ cbIsFull(tx) /\ tx' = [tx EXCEPT !.wP = Succ(@)]
    BY <1>2, <1>3 DEF TxStored, IInv, Room, WriteSecond
  <2>2. tx' \in Ring /\ tx'.rP = tx.rP /\ tx'.wP = Succ(tx.wP) /\ tx'.buf = tx.buf
    BY <1>0, <1>1, <2>1 DEF TypeOK, Ring
  <2>3. Content(tx') = Append(Content(tx), tx.buf[tx.wP]) /\ Len(Content(tx)) < N - 1
    BY <1>0, <2>1, <2>2, ContentEnqueued
  <2>4. Content(TxStored)' = Content(tx')
    BY <1>2 DEF Content, Count, SlotOf
  <2>5. QED
    BY <1>0, <1>2, <2>1, <2>3, <2>4, TxPut
<1>4. CASE order = "cursor"
  <2>1. TxStored = tx'
    BY <1>2, <1>4 DEF TxStored, WriteSecond
  <2>2. Content(TxStored)' = Content(TxStored)
    BY <1>2, <2>1 DEF Content, Count, SlotOf
  <2>3. QED
    BY <1>2, <2>2, TxSame
<1>5. QED
  BY <1>0, <1>3, <1>4 DEF TypeOK

(* The TX interrupt takes the oldest byte, or one that cbWrite has announced *)
(* and not yet stored.                                                       *)
LEMMA TxTakes == ASSUME IInv, TxTake PROVE [ToUart!Next]_(ToUart!vars)
<1>0. TypeOK /\ tx \in Ring /\ ~ cbIsEmpty(tx)
  BY DEF IInv, TypeOK, TxTake, HandlerKnows
<1>1. TxStored \in Ring /\ TxStored.rP = tx.rP /\ TxStored.wP = tx.wP
  BY <1>0, TxStoredType
<1>2. at' = at /\ order' = order /\ slot' = slot /\ pkt' = pkt
  BY DEF TxTake
<1>3. tx' = Dequeued(tx) /\ txdata' = tx.buf[tx.rP]
  BY DEF TxTake
<1>4. TxStored' = Dequeued(TxStored)
  <2>1. CASE at = "second" /\ order = "cursor"
    <3>1. TxStored' = [Dequeued(tx) EXCEPT !.buf[slot] = Head(pkt)]
      BY <1>2, <1>3, <2>1 DEF TxStored
    <3>2. TxStored = [tx EXCEPT !.buf[slot] = Head(pkt)]
      BY <2>1 DEF TxStored
    <3>3. QED
      BY <1>0, <3>1, <3>2 DEF Dequeued, Ring
  <2>2. CASE ~ (at = "second" /\ order = "cursor")
    BY <1>2, <1>3, <2>2 DEF TxStored
  <2>3. QED
    BY <2>1, <2>2
<1>5. ~ cbIsEmpty(TxStored)
  BY <1>0, <1>1 DEF cbIsEmpty
<1>6. /\ Content(TxStored) # <<>> /\ Head(Content(TxStored)) = TxStored.buf[TxStored.rP]
      /\ Content(Dequeued(TxStored)) = Tail(Content(TxStored))
  BY <1>1, <1>5, ContentDequeued
<1>7. Content(TxStored)' = Tail(Content(TxStored))
  BY <1>4, <1>6 DEF Content, Count, SlotOf
<1>8. txdata' \in IF order = "data" THEN {Head(Content(TxStored))} ELSE Bytes
  <2>1. CASE order = "data"
    <3>1. TxStored = tx
      BY <2>1 DEF TxStored
    <3>2. QED
      BY <1>3, <1>6, <2>1, <3>1
  <2>2. CASE order # "data"
    BY <1>0, <1>3, <2>2 DEF Ring
  <2>3. QED
    BY <2>1, <2>2
<1>9. ToUart!Take
  BY <1>2, <1>6, <1>7, <1>8 DEF ToUart!Take
<1>10. QED
  BY <1>9 DEF ToUart!Next

LEMMA TxOthers ==
  ASSUME RxIrq \/ TxTest \/ TxOff \/ Packet \/ WriteEnds \/ TestEmpty \/ LoadIen \/ StoreIen \/ Work \/ WorkSend
           \/ UNCHANGED vars
  PROVE  [ToUart!Next]_(ToUart!vars)
<1>1. tx' = tx /\ txdata' = txdata /\ order' = order
  BY DEF RxIrq, TxTest, TxOff, Packet, WriteEnds, TestEmpty, LoadIen, StoreIen, Work, WorkPeek,
     WorkSendFails, WorkDequeue, WorkSend, vars
<1>2. \/ at # "second" /\ at' # "second"
      \/ UNCHANGED <<at, slot, pkt>>
  BY DEF RxIrq, TxTest, TxOff, Packet, WriteEnds, TestEmpty, LoadIen, StoreIen, Work, WorkPeek,
     WorkSendFails, WorkDequeue, WorkSend, vars
<1>3. TxStored' = TxStored
  BY <1>1, <1>2 DEF TxStored
<1>4. Content(TxStored)' = Content(TxStored)
  BY <1>3 DEF Content, Count, SlotOf
<1>5. QED
  BY <1>1, <1>4, TxSame

LEMMA TxStep == ASSUME IInv, [Next]_vars PROVE [ToUart!Next]_(ToUart!vars)
BY TxWriteFirst, TxWriteSecond, TxTakes, TxOthers DEF Next, Callback, TxIrq

LEMMA EmptyContent == ASSUME tx = Empty PROVE Content(tx) = <<>>
<1>1. Count(tx) = 0
  BY DEF Empty, Count
<1>2. QED
  BY <1>1 DEF Content

LEMMA TxInit == Init => ToUart!Init
<1> SUFFICES ASSUME Init PROVE ToUart!Init
  OBVIOUS
<1>1. TxStored = tx
  BY DEF Init, TxStored
<1>2. QED
  BY <1>1, EmptyContent, Sizes DEF Init, ToUart!Init

-----------------------------------------------------------------------------
(* From the UART to the PC. *)

RxQueue == IF pc = "sent" THEN Tail(Content(rx)) ELSE Content(rx)

LEMMA RxType == ASSUME IInv
                PROVE  rx \in Ring /\ (pc \in {"send", "sent"} => ~ cbIsEmpty(rx) /\ rx.buf[rx.rP] = val)
BY DEF IInv, TypeOK, DequeuesWhatItSent

LEMMA RxSame == ASSUME RxQueue' = RxQueue, usb' = usb PROVE UNCHANGED ToPc!vars
BY DEF ToPc!vars, RxQueue

(* The RX interrupt adds a byte, also while platWork has sent one that is    *)
(* still in the ring.                                                        *)
LEMMA RxPut == ASSUME IInv, RxIrq PROVE ToPc!Next
<1>1. PICK b \in Bytes : rx' = Enqueued(rx, b)
  BY UartAssumption DEF RxIrq
<1>2. rx \in Ring /\ ~ cbIsFull(rx) /\ pc' = pc /\ usb' = usb
  BY RxType DEF RxIrq
<1>3. rx' \in Ring
  BY <1>1, <1>2, EnqueuedType
<1>4. /\ rx'.rP = rx.rP /\ rx'.wP = Succ(rx.wP) /\ rx'.buf[rx.wP] = b
      /\ \A i \in Slots : i # rx.wP => rx'.buf[i] = rx.buf[i]
  BY <1>1, <1>2 DEF Enqueued, Ring
<1>5. Content(rx') = Append(Content(rx), b) /\ Len(Content(rx)) < N - 1
  BY <1>2, <1>3, <1>4, ContentEnqueued
<1>6. Content(rx)' = Content(rx')
  BY DEF Content, Count, SlotOf
<1>7. Content(rx) \in Seq(Bytes)
  BY <1>2, ContentType
<1>8. RxQueue' = Append(RxQueue, b) /\ Len(RxQueue) < N - 1
  <2>1. CASE pc = "sent"
    <3>1. Content(rx) # <<>>
      BY <1>2, <2>1, RxType, ContentDequeued
    <3>2. Tail(Append(Content(rx), b)) = Append(Tail(Content(rx)), b)
      BY <1>7, <3>1
    <3>3. Len(Tail(Content(rx))) = Len(Content(rx)) - 1
      BY <1>7, <3>1
    <3>4. Len(Content(rx)) \in Nat
      BY <1>7
    <3>5. RxQueue = Tail(Content(rx)) /\ RxQueue' = Tail(Append(Content(rx), b))
      BY <1>2, <1>5, <1>6, <2>1 DEF RxQueue
    <3>6. Len(RxQueue) < N - 1
      BY <1>5, <3>3, <3>4, <3>5, Sizes
    <3>7. QED
      BY <3>2, <3>5, <3>6
  <2>2. CASE pc # "sent"
    BY <1>2, <1>5, <1>6, <2>2 DEF RxQueue
  <2>3. QED
    BY <2>1, <2>2
<1>9. ToPc!Put
  BY <1>2, <1>8 DEF ToPc!Put, RxQueue
<1>10. QED
  BY <1>9 DEF ToPc!Next

(* The PC gets the oldest byte. *)
LEMMA RxTake == ASSUME IInv, WorkSend PROVE ToPc!Next
<1>1. rx \in Ring /\ ~ cbIsEmpty(rx) /\ rx.buf[rx.rP] = val
  BY RxType DEF WorkSend
<1>2. Content(rx) # <<>> /\ Head(Content(rx)) = val
  BY <1>1, ContentDequeued
<1>3. pc = "send" /\ pc' = "sent" /\ rx' = rx /\ usb' = val
  BY DEF WorkSend
<1>4. Content(rx)' = Content(rx)
  BY <1>3 DEF Content, Count, SlotOf
<1>5. RxQueue = Content(rx) /\ RxQueue' = Tail(Content(rx))
  BY <1>3, <1>4 DEF RxQueue
<1>6. ToPc!Take
  BY <1>2, <1>3, <1>5 DEF ToPc!Take, RxQueue
<1>7. QED
  BY <1>6 DEF ToPc!Next

(* That byte leaves the ring later, which the PC does not see. *)
LEMMA RxDequeue == ASSUME IInv, WorkDequeue PROVE UNCHANGED ToPc!vars
<1>1. rx \in Ring /\ ~ cbIsEmpty(rx) /\ pc = "sent" /\ pc' = "work" /\ usb' = usb
  BY RxType DEF WorkDequeue
<1>2. rx' = Dequeued(rx)
  BY <1>1 DEF WorkDequeue
<1>3. Content(rx)' = Tail(Content(rx))
  <2>1. Content(rx)' = Content(rx')
    BY DEF Content, Count, SlotOf
  <2>2. QED
    BY <1>1, <1>2, <2>1, ContentDequeued
<1>4. RxQueue' = RxQueue
  BY <1>1, <1>3 DEF RxQueue
<1>5. QED
  BY <1>1, <1>4, RxSame

LEMMA RxOthers ==
  ASSUME TxIrq \/ Packet \/ Callback \/ WorkPeek \/ WorkSendFails \/ UNCHANGED vars
  PROVE  UNCHANGED ToPc!vars
<1>1. rx' = rx /\ usb' = usb
  BY DEF TxIrq, TxTest, TxTake, TxOff, Packet, Callback, WriteFirst, WriteSecond, WriteEnds, TestEmpty, LoadIen, StoreIen,
     WorkPeek, WorkSendFails, vars
<1>2. (pc # "sent" /\ pc' # "sent") \/ pc' = pc
  BY DEF TxIrq, TxTest, TxTake, TxOff, Packet, Callback, WriteFirst, WriteSecond, WriteEnds, TestEmpty, LoadIen, StoreIen,
     WorkPeek, WorkSendFails, vars
<1>3. Content(rx)' = Content(rx)
  BY <1>1 DEF Content, Count, SlotOf
<1>4. RxQueue' = RxQueue
  BY <1>2, <1>3 DEF RxQueue
<1>5. QED
  BY <1>1, <1>4, RxSame

LEMMA RxStep == ASSUME IInv, [Next]_vars PROVE [ToPc!Next]_(ToPc!vars)
BY RxPut, RxTake, RxDequeue, RxOthers DEF Next, Work

LEMMA RxInit == Init => ToPc!Init
<1> SUFFICES ASSUME Init PROVE ToPc!Init
  OBVIOUS
<1>1. Content(rx) = <<>>
  <2>1. tx = Empty /\ rx = tx
    BY DEF Init
  <2>2. QED
    BY <2>1, EmptyContent
<1>2. QED
  BY <1>1, Sizes DEF Init, ToPc!Init

-----------------------------------------------------------------------------
(* Both rings are pipes: bytes come out in the order they went in, each      *)
(* once, with the value they had, unless the compiler stores cbWrite's       *)
(* cursor before its byte (plat-efm.c:63 to 86), for rings of every size.    *)
THEOREM BridgeIsPipes == Spec => ArePipes
<1>1. Init => IInv /\ ToUart!Init /\ ToPc!Init
  BY InitIInv, TxInit, RxInit
<1>2. IInv /\ [Next]_vars => IInv'
  BY StepIInv
<1>3. IInv /\ [Next]_vars => [ToUart!Next]_(ToUart!vars) /\ [ToPc!Next]_(ToPc!vars)
  BY TxStep, RxStep
<1> QED
  BY <1>1, <1>2, <1>3, PTL DEF Spec, ArePipes, TxIsPipe, RxIsPipe, ToUart!Spec, ToPc!Spec
=============================================================================
