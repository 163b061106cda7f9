----------------------------- MODULE AttachProofs -----------------------------
(* Proofs about attaching to a target, for targets of every size and replies  *)
(* that hold any number of cores.                                            *)
EXTENDS Attach, FiniteSetTheorems, WellFoundedInduction, TLAPS

LEMMA Sizes == /\ MaxAps \in Nat /\ MaxAttach \in Nat
               /\ MaxCores \in Nat /\ MaxCores > 0 /\ Low \in Nat /\ Low > 1
BY AttachAssumption

(* What the community modules' Min is of numbers. *)
LEMMA MinOfNumbers ==
  ASSUME NEW T, T \subseteq Nat, T # {}
  PROVE  Min(T) \in T /\ \A y \in T : Min(T) <= y
<1>1. PICK x \in T : \A y \in T : <<y, x>> \notin OpToRel(<, Nat)
  BY NatLessThanWellFounded, WFMin, Zenon
<1>2. \A y \in T : ~ (y < x)
  BY <1>1, Zenon DEF OpToRel
<1>3. \A y \in T : x <= y
  BY <1>2
<1> QED
  BY <1>3 DEF Min

-----------------------------------------------------------------------------
(* The inductive invariant. *)

AtCpu == {"cpuid", "demcr", "wpt", "bpt", "fpu", "cpu"}   \* in cortexInit
AtPort == AtCpu \cup {"memap"}
Working == AtPort \cup {"dap", "enum", "finish"}
Entries == [ap : Nat, info : Infos]

(* The parts of TypeOK. *)
TargetType == /\ demcr \subseteq Aps /\ cpacr \subseteq Aps /\ was \subseteq Aps
              /\ \A i \in Aps : wpt[i] \subseteq Wpts /\ bpt[i] \subseteq Bpts(i)
LocalsType == /\ pc \in Working \cup {"idle", "reply", "select"}
              /\ sel \in 0 .. MaxAps /\ apIdx \in 0 .. MaxAps /\ s \in 0 .. MaxAps
FlagsType == info \in Infos /\ {multi, found, faulted, lost} \subseteq BOOLEAN
ListsType == /\ Len(cores) <= MaxCores
             /\ \A k \in DOMAIN cores : cores[k].ap \in Aps /\ cores[k].info \in Infos
             /\ listed \in {cores, <<>>} /\ cur \in 0 .. Len(listed)

Shape == /\ kind \in UNION {[0 .. n - 1 -> Kinds] : n \in 0 .. MaxAps}
         /\ wpt \in [Aps -> SUBSET Wpts] /\ bpt \in [Aps -> SUBSET (0 .. Low)]
         /\ cores \in Seq(Entries)

(* Where the handler is, and what its locals and the host's copy are there.   *)
Course ==
  /\ listed = IF pc \in {"idle", "select"} THEN cores ELSE <<>>
  /\ pc \notin {"idle"} => cur = 0
  /\ pc = "dap" => cores = <<>> /\ s = 0 /\ apIdx = 0
  /\ pc \in AtCpu => apIdx \in Aps /\ sel = apIdx
  /\ pc \in AtPort /\ multi => apIdx \in Aps /\ s = apIdx + 1
  /\ pc \in AtPort => Room
  /\ ~ multi => /\ pc \in Working => cores = <<>>
                /\ pc # "finish" /\ Len(cores) <= 1
  /\ pc = "select" => Len(cores) > 1

(* Until the reply is made there is no error, unless there is no core.        *)
Errors ==
  /\ pc \in Working \ {"finish"} => error = NoError
  /\ pc = "finish" => IF cores = <<>> THEN err # OK ELSE error = NoError
  /\ pc = "reply" => (cores = <<>> <=> error # NoError)

(* Ports are looked at in ascending order, each once.                         *)
Order ==
  /\ Ascending(cores)
  /\ pc = "enum" => \A p \in Ports(cores) : p < s
  /\ pc \in AtPort => \A p \in Ports(cores) : p < apIdx

(* What cortexInit has switched on and off, in the cores it is through with   *)
(* and in the one it is at.                                                   *)
Clean ==
  /\ \A k \in DOMAIN cores : LET i == cores[k].ap
                             IN /\ i \in CpuAps /\ i \in demcr /\ wpt[i] = {}
                                /\ cores[k].info.isV7 = V7(i) => bpt[i] = {}
  /\ pc \in {"wpt", "bpt", "fpu", "cpu"} => HasCpu(apIdx) /\ apIdx \in demcr
  /\ pc \in {"bpt", "fpu", "cpu"} => wpt[apIdx] = {}
  /\ pc \in {"fpu", "cpu"} /\ info.isV7 = V7(apIdx) => bpt[apIdx] = {}

(* The FPU access of the cores reported, and of those not yet looked at, is   *)
(* as it was.                                                                 *)
Same(i) == i \in cpacr <=> i \in was
Untouched ==
  /\ \A p \in Ports(cores) : Same(p)
  /\ pc = "dap" \/ (~ multi /\ pc \in Working) => cpacr = was
  /\ pc = "enum" => \A i \in Aps : i >= s => Same(i)
  /\ pc \in AtPort => \A i \in Aps : i >= apIdx => Same(i)

(* The core that the old reply names, or that was selected, is the one the    *)
(* DP and mInfo are set to.  The only core of a new reply is, unless the      *)
(* enumeration has gone on to a port behind it.                               *)
Behind == \/ apIdx = cores[1].ap /\ info = cores[1].info
          \/ cores[1].ap < apIdx
Selected ==
  /\ ~ multi /\ pc \in {"reply", "idle", "select"} /\ cores # <<>> =>
       sel = cores[1].ap /\ info = cores[1].info
  /\ multi /\ pc \in {"enum", "finish", "reply"} /\ Len(cores) = 1 => Behind
  /\ multi /\ pc = "reply" /\ cores # <<>> /\ ~ lost => sel = apIdx
  /\ multi /\ pc = "idle" /\ cur # 0 /\ ~ lost =>
       \/ sel = cores[cur].ap /\ info = cores[cur].info
       \/ OnlyCorePassed

(* What has been found when nothing fails. *)
Found ==
  Undisturbed =>
    /\ TellsTrue(cores)
    /\ pc \in AtCpu => Ahb(apIdx)
    /\ pc \in {"demcr", "wpt", "bpt", "fpu"} =>
         info = [isV7 |-> V7(apIdx), haveFpu |-> FALSE]
    /\ pc = "cpu" => info = Told(apIdx).info
    /\ multi /\ pc = "enum" => \A i \in CpuAps : i < s => i \in Ports(cores)
    /\ multi /\ pc \in AtPort =>
         Ahb(apIdx) /\ \A i \in CpuAps : i < apIdx => i \in Ports(cores)
    /\ ~ multi /\ pc = "enum" => s = 0 \/ (s = apIdx + 1 /\ apIdx \in Aps /\ Ahb(apIdx))
    /\ ~ multi /\ pc \in AtPort => apIdx \in Aps /\ LastAhb(apIdx)
    /\ pc = "finish" \/ pc \in {"reply", "select"} \/ (pc = "idle" /\ sent > 0) => Complete(cores)

IInv == /\ TargetType /\ LocalsType /\ FlagsType /\ ListsType /\ Shape
        /\ Course /\ Errors /\ Order /\ Clean /\ Untouched /\ Selected /\ Found

-----------------------------------------------------------------------------
(* The target and the reply. *)

LEMMA ApsType ==
  ASSUME Shape PROVE \E n \in 0 .. MaxAps : Aps = 0 .. n - 1 /\ Cardinality(Aps) = n
<1>1. PICK n \in 0 .. MaxAps : kind \in [0 .. n - 1 -> Kinds]
  BY DEF Shape
<1>2. Aps = 0 .. n - 1
  BY <1>1 DEF Aps
<1>3. Cardinality(0 .. n - 1) = n
  BY FS_Interval, Sizes
<1> QED
  BY <1>2, <1>3

(* The enumeration ends at the next AHB port, or behind the last port.        *)
LEMMA LastPortType ==
  ASSUME Shape, s \in Nat
  PROVE  /\ NextAhb # {} => /\ LastPort \in Aps /\ Ahb(LastPort)
                            /\ LastPort >= s /\ LastPort \in Nat /\ LastPort < MaxAps
                            /\ \A j \in Aps : Ahb(j) /\ j >= s => LastPort <= j
         /\ NextAhb = {} => /\ LastPort \in 0 .. MaxAps
                            /\ \A j \in Aps : Ahb(j) => j < s
<1>1. PICK n \in 0 .. MaxAps : Aps = 0 .. n - 1 /\ Cardinality(Aps) = n
  BY ApsType
<1>2. \A j : j \in NextAhb <=> j \in Aps /\ Ahb(j) /\ j >= s
  BY <1>1 DEF NextAhb
<1>3. NextAhb \subseteq Nat
  BY <1>1, <1>2
<1>4. CASE NextAhb = {}
  <2>1. LastPort = n
    BY <1>1, <1>4 DEF LastPort
  <2> QED
    BY <1>1, <1>2, <1>4, <2>1
<1>5. CASE NextAhb # {}
  <2>1. LastPort \in NextAhb /\ \A j \in NextAhb : LastPort <= j
    BY <1>3, <1>5, MinOfNumbers DEF LastPort
  <2> QED
    BY <1>1, <1>2, <1>5, <2>1, Sizes
<1> QED
  BY <1>4, <1>5

LEMMA NumbersOfAps == Shape => Aps \subseteq Nat /\ \A i \in Aps : i < MaxAps
BY ApsType, Sizes

LEMMA BptsType == \A i : Bpts(i) \subseteq 0 .. Low
BY Sizes DEF Bpts

(* FBP_CTRL's fields, read as the architecture says, count all comparators.   *)
LEMMA CountedAll ==
  ASSUME HasCpu(apIdx), info.isV7 = V7(apIdx)
  PROVE  \A k \in Bpts(apIdx) : ~ (k >= Counted)
<1>1. CASE V7(apIdx)
  <2>1. Cardinality(0 .. Low) = Low + 1
    BY FS_Interval, Sizes
  <2> QED
    BY <1>1, <2>1, Sizes DEF Counted, Bpts
<1>2. CASE ~ V7(apIdx)
  <2>1. Cardinality({0}) = 1
    BY FS_Singleton
  <2>2. 1 % Low = 1
    BY Sizes
  <2> QED
    BY <1>2, <2>1, <2>2 DEF Counted, Bpts
<1> QED
  BY <1>1, <1>2

LEMMA PortsAppended ==
  ASSUME NEW list \in Seq(Entries), NEW e \in Entries
  PROVE  /\ Append(list, e) \in Seq(Entries) /\ Len(Append(list, e)) = Len(list) + 1
         /\ Append(list, e) # <<>>
         /\ Ports(Append(list, e)) = Ports(list) \cup {e.ap}
         /\ DOMAIN Append(list, e) = DOMAIN list \cup {Len(list) + 1}
         /\ Append(list, e)[Len(list) + 1] = e
         /\ \A k \in DOMAIN list : k \in 1 .. Len(list) /\ Append(list, e)[k] = list[k]
<1>1. /\ Append(list, e) \in Seq(Entries) /\ Len(Append(list, e)) = Len(list) + 1
      /\ DOMAIN Append(list, e) = DOMAIN list \cup {Len(list) + 1}
      /\ Append(list, e)[Len(list) + 1] = e
      /\ \A k \in DOMAIN list : k \in 1 .. Len(list) /\ Append(list, e)[k] = list[k]
  OBVIOUS
<1>2. Ports(Append(list, e)) = Ports(list) \cup {e.ap}
  BY <1>1 DEF Ports
<1> QED
  BY <1>1, <1>2

LEMMA NoPorts == Ports(<<>>) = {} /\ Len(<<>>) = 0 /\ DOMAIN <<>> = {} /\ <<>> \in Seq(Entries)
<1>1. DOMAIN <<>> = {} /\ Len(<<>>) = 0 /\ <<>> \in Seq(Entries)
  OBVIOUS
<1> QED
  BY <1>1 DEF Ports

LEMMA FirstPort ==
  ASSUME Shape, Len(cores) = 1
  PROVE  cores[1].ap \in Ports(cores)
<1>1. 1 \in DOMAIN cores
  BY DEF Shape
<1> QED
  BY <1>1 DEF Ports


-----------------------------------------------------------------------------

LEMMA InitIInv == Init => IInv
<1> SUFFICES ASSUME Init PROVE IInv
  OBVIOUS
<1> USE DEF Init
<1>1. Shape
  BY BptsType, NoPorts DEF Shape
<1>2. TargetType /\ ListsType
  BY NoPorts, Sizes DEF TargetType, ListsType
<1>a. FlagsType
  BY DEF FlagsType, Infos, Plain
<1>b. LocalsType
  BY Sizes DEF LocalsType
<1>3. Course /\ Errors /\ Order /\ Clean /\ Untouched /\ Selected
  BY NoPorts, Sizes DEF Course, Errors, Order, Ascending, Clean, Untouched, Selected, AtCpu, AtPort, Working
<1>4. Found
  BY NoPorts DEF Found, TellsTrue, AtCpu, AtPort
<1> QED
  BY <1>1, <1>2, <1>3, <1>4, <1>a, <1>b DEF IInv

-----------------------------------------------------------------------------
(* What a step leaves alone. *)

LEMMA TargetFrame ==
  ASSUME TargetType, UNCHANGED <<target, was>> PROVE TargetType'
BY DEF TargetType, target, Aps, Bpts, HasCpu, V7

LEMMA ShapeFrame ==
  ASSUME Shape, UNCHANGED <<target, cores>> PROVE Shape'
BY DEF Shape, target, Aps

LEMMA ListsFrame ==
  ASSUME ListsType, UNCHANGED <<kind, cores, listed, cur>> PROVE ListsType'
<1>1. Aps' = Aps
  BY DEF Aps
<1>2. (\A k \in DOMAIN cores : cores[k].ap \in Aps /\ cores[k].info \in Infos)'
  BY <1>1 DEF ListsType
<1>3. (Len(cores) <= MaxCores /\ listed \in {cores, <<>>} /\ cur \in 0 .. Len(listed))'
  BY DEF ListsType
<1> QED
  BY <1>2, <1>3 DEF ListsType

-----------------------------------------------------------------------------
(* The handler. *)

LEMMA DapStep == IInv /\ Dap => IInv'
<1> SUFFICES ASSUME IInv, Dap PROVE IInv'
  OBVIOUS
<1> USE DEF IInv, Dap, target, host
<1>1. TargetType' /\ Shape'
  BY DEF TargetType, Shape, Aps, Bpts, HasCpu, V7
<1>b. ListsType'
  BY ListsFrame
<1>a. LocalsType'
  BY Sizes DEF LocalsType, Working
<1>c. FlagsType'
  BY DEF FlagsType
<1>2. Course'
  BY DEF Course, AtPort, AtCpu, Working
<1>3. Errors'
  BY DEF Errors, Course, AtPort, AtCpu, Working, NoError, OK
<1>4. Order' /\ Clean'
  BY NoPorts DEF Course, Order, Ascending, Clean, AtPort, AtCpu
<1>5. Untouched'
  BY NoPorts DEF Course, Untouched, Same, Working, AtPort, AtCpu
<1>6. Selected'
  BY DEF Course, Selected
<1>7. Found'
  BY NoPorts, NumbersOfAps DEF Course, Found, Undisturbed, TellsTrue, AtPort, AtCpu, CpuAps, Aps
<1> QED
  BY <1>1, <1>2, <1>3, <1>4, <1>5, <1>6, <1>7, <1>a, <1>b, <1>c

LEMMA EnumV2Step == IInv /\ EnumV2 => IInv'
<1> SUFFICES ASSUME IInv, EnumV2 PROVE IInv'
  OBVIOUS
<1> USE DEF IInv, EnumV2
<1>0. /\ UNCHANGED <<target, multi, info, lastCpuErr, cores, error, listed, cur, sent, lost, was>>
      /\ kind' = kind /\ pc = "enum" /\ multi /\ UNCHANGED <<demcr, wpt, bpt, cpacr>>
  BY DEF target, host
<1>1. TargetType' /\ Shape' /\ ListsType'
  BY <1>0, TargetFrame, ShapeFrame, ListsFrame
<1>s. s \in Nat
  BY DEF LocalsType
<1>2. CASE ~ Room /\ pc' = "finish" /\ UNCHANGED <<sel, apIdx, s, found, err, faulted>>
  <2>1. LocalsType' /\ FlagsType'
    BY <1>0, <1>2 DEF LocalsType, FlagsType, Working
  <2>2. Len(cores) = MaxCores /\ cores # <<>>
    BY <1>2, Sizes, NoPorts DEF Room, ListsType, Shape
  <2>3. Course' /\ Errors'
    BY <1>0, <1>2, <2>2 DEF Course, Errors, AtPort, AtCpu, Working
  <2>a. Selected'
    BY <1>0, <1>2 DEF Selected, Behind
  <2>4. Order' /\ Clean' /\ Untouched'
    BY <1>0, <1>2 DEF Order, Clean, Untouched, Same, CpuAps, Aps, HasCpu, V7, AtPort, AtCpu, Working
  <2>5. Found'
    <3> SUFFICES ASSUME Undisturbed PROVE Found'
      BY <1>0, <1>2 DEF Found, Undisturbed, Aps, Ahb
    <3>1. Ports(cores) \subseteq CpuAps
      BY DEF Clean, Ports
    <3>2. \A i \in CpuAps \ Ports(cores), j \in Ports(cores) : j < i
      BY <1>0, <1>s, NumbersOfAps, <3>1 DEF Found, Order, CpuAps
    <3>3. Complete(cores)
      BY <1>0, <2>2, <3>1, <3>2 DEF Complete
    <3>4. Complete(cores)'
      BY <1>0, <3>3 DEF Complete, CpuAps, LastAhb, Ahb, HasCpu, V7, Aps
    <3>5. TellsTrue(cores)'
      BY <1>0 DEF Found, TellsTrue, Told, V7
    <3> QED
      BY <1>0, <1>2, <3>4, <3>5 DEF Found, AtPort, AtCpu
  <2> QED
    BY <1>1, <2>1, <2>3, <2>4, <2>5, <2>a
<1>3. CASE Room /\ NextAhbFound /\ err' = OK /\ pc' = "memap"
  <2>0. /\ LastPort \in Aps /\ Ahb(LastPort) /\ LastPort >= s /\ LastPort \in Nat /\ LastPort < MaxAps
        /\ \A j \in Aps : Ahb(j) /\ j >= s => LastPort <= j
        /\ s' = LastPort + 1 /\ sel' = LastPort /\ apIdx' = LastPort /\ found' = TRUE /\ faulted' = faulted
    BY <1>3, <1>s, LastPortType DEF NextAhbFound
  <2>1. LocalsType' /\ FlagsType'
    BY <1>0, <1>3, <2>0, Sizes DEF LocalsType, FlagsType, Working, AtPort
  <2>2. Course' /\ Errors' /\ Selected'
    BY <1>0, <1>3, <2>0 DEF Course, Errors, Selected, AtPort, AtCpu, Working, Aps, Room
  <2>3. Order'
    <3>1. Ports(cores) \subseteq Nat
      BY NumbersOfAps DEF Clean, Ports, CpuAps
    <3> QED
      BY <1>0, <1>s, <1>3, <2>0, <3>1 DEF Order
  <2>4. Clean' /\ Untouched'
    BY <1>0, <1>3, <1>s, <2>0, NumbersOfAps DEF Clean, Untouched, Same, CpuAps, Aps, HasCpu, V7, AtPort, AtCpu, Working
  <2>5. Found'
    <3> SUFFICES ASSUME Undisturbed PROVE Found'
      BY <1>0, <2>0 DEF Found, Undisturbed, Aps, Ahb
    <3>1. \A i \in CpuAps : Ahb(i)
      BY DEF CpuAps, HasCpu, V7, Ahb
    <3>2. \A i \in CpuAps : i < LastPort => i \in Ports(cores)
      <4>1. \A i \in CpuAps : i < LastPort => i < s
        BY <1>s, <2>0, <3>1, NumbersOfAps DEF CpuAps
      <4> QED
        BY <1>0, <4>1 DEF Found
    <3>3. TellsTrue(cores)'
      BY <1>0 DEF Found, TellsTrue, Told, V7
    <3>4. (Ahb(apIdx) /\ \A i \in CpuAps : i < apIdx => i \in Ports(cores))'
      BY <1>0, <2>0, <3>2 DEF CpuAps, Ahb, HasCpu, V7, Aps
    <3> QED
      BY <1>0, <1>3, <3>3, <3>4 DEF Found, AtPort, AtCpu
  <2> QED
    BY <1>1, <2>1, <2>2, <2>3, <2>4, <2>5
<1>4. CASE /\ Room /\ pc' = "finish"
           /\ \/ NoAhbLeft /\ err' = "NoAhb"
              \/ EnumFails /\ err' = "RegFail"
  <2>0. /\ sel' \in 0 .. MaxAps /\ UNCHANGED <<apIdx, s, found>> /\ err' # OK
        /\ \/ NextAhb = {} /\ faulted' = faulted
           \/ faulted' = TRUE
    BY <1>4, <1>s, LastPortType, Sizes DEF NoAhbLeft, EnumFails, OK
  <2>1. LocalsType' /\ FlagsType'
    BY <1>0, <1>4, <2>0 DEF LocalsType, FlagsType, Working
  <2>2. Course' /\ Errors'
    BY <1>0, <1>4, <2>0 DEF Course, Errors, AtPort, AtCpu, Working
  <2>a. Selected'
    BY <1>0, <1>4, <2>0 DEF Selected, Behind
  <2>3. Order' /\ Clean' /\ Untouched'
    BY <1>0, <1>4 DEF Order, Clean, Untouched, Same, CpuAps, Aps, HasCpu, V7, AtPort, AtCpu, Working
  <2>4. Found'
    <3> SUFFICES ASSUME Undisturbed, NextAhb = {} PROVE Found'
      BY <1>0, <2>0 DEF Found, Undisturbed, Aps, Ahb
    <3>1. \A i \in CpuAps : i < s
      BY <1>s, LastPortType DEF CpuAps, HasCpu, V7, Ahb
    <3>2. CpuAps = Ports(cores)
      BY <1>0, <3>1 DEF Found, Clean, Ports
    <3>3. Complete(cores)'
      BY <1>0, <3>2 DEF Complete, CpuAps, LastAhb, Ahb, HasCpu, V7, Aps
    <3>4. TellsTrue(cores)'
      BY <1>0 DEF Found, TellsTrue, Told, V7
    <3> QED
      BY <1>0, <1>4, <3>3, <3>4 DEF Found, AtPort, AtCpu
  <2> QED
    BY <1>1, <2>1, <2>2, <2>3, <2>4, <2>a
<1> QED
  BY <1>2, <1>3, <1>4

LEMMA EnumV1Step == IInv /\ EnumV1 => IInv'
<1> SUFFICES ASSUME IInv, EnumV1 PROVE IInv'
  OBVIOUS
<1> USE DEF IInv, EnumV1
<1>0. /\ UNCHANGED <<target, multi, info, err, lastCpuErr, cores, error, listed, cur, sent, lost, was>>
      /\ kind' = kind /\ pc = "enum" /\ ~ multi /\ UNCHANGED <<demcr, wpt, bpt, cpacr>>
  BY DEF target, host
<1>1. TargetType' /\ Shape' /\ ListsType'
  BY <1>0, TargetFrame, ShapeFrame, ListsFrame
<1>s. s \in Nat
  BY DEF LocalsType
<1>c. cores = <<>> /\ cpacr = was /\ error = NoError /\ cur = 0 /\ listed = <<>> /\ Room
  BY <1>0, NoPorts, Sizes DEF Course, Untouched, Errors, Working, AtPort, AtCpu, Room
<1>2. /\ pc' \in {"enum", "memap"}
      /\ apIdx' \in 0 .. MaxAps /\ s' \in 0 .. MaxAps /\ sel' \in 0 .. MaxAps
      /\ found' \in BOOLEAN /\ faulted' \in BOOLEAN
  <2>1. found \in BOOLEAN /\ faulted \in BOOLEAN /\ apIdx \in 0 .. MaxAps /\ s \in 0 .. MaxAps
    BY DEF FlagsType, LocalsType
  <2>2. CASE NextAhbFound /\ pc' = "enum"
    BY <1>s, <2>1, <2>2, LastPortType, Sizes DEF NextAhbFound
  <2>3. CASE (NoAhbLeft \/ EnumFails) /\ pc' = "memap"
    <3>1. LastPort \in 0 .. MaxAps
      BY <1>s, LastPortType, Sizes
    <3>2. CASE NoAhbLeft
      BY <2>1, <2>3, <3>1, <3>2 DEF NoAhbLeft
    <3>3. CASE EnumFails
      BY <2>1, <2>3, <3>1, <3>3, Sizes DEF EnumFails
    <3> QED
      BY <2>3, <3>2, <3>3
  <2> QED
    BY <2>2, <2>3
<1>3. LocalsType' /\ FlagsType'
  BY <1>0, <1>2 DEF LocalsType, FlagsType, Working, AtPort
<1>d. /\ cores' = <<>> /\ Len(cores') = 0 /\ listed' = <<>> /\ cur' = 0 /\ ~ multi' /\ Room'
      /\ pc' \in {"enum", "memap"}
  BY <1>0, <1>2, <1>c, NoPorts DEF Room
<1>a. Course'
  BY <1>d DEF Course, AtPort, AtCpu, Working
<1>b. Errors'
  BY <1>0, <1>2, <1>c DEF Errors
<1>4. Selected'
  BY <1>0, <1>2 DEF Selected
<1>5. Order' /\ Clean' /\ Untouched'
  BY <1>0, <1>2, <1>c, NoPorts DEF Order, Ascending, Clean, Untouched, Same, AtPort, AtCpu, Working
<1>6. Found'
  <2> SUFFICES ASSUME Undisturbed' PROVE Found'
    BY DEF Found
  <2>a. ~ faulted'
    BY DEF Undisturbed
  <2>b. ~ EnumFails
    BY <2>a DEF EnumFails
  <2>c. faulted' = faulted
    BY <2>b DEF NextAhbFound, NoAhbLeft
  <2>d. Undisturbed
    BY <1>0, <2>c DEF Undisturbed, Aps, Ahb
  <2>1. TellsTrue(cores)'
    BY <1>0, <1>c, NoPorts DEF TellsTrue
  <2>2. CASE NextAhbFound /\ pc' = "enum"
    <3>1. LastPort \in Aps /\ Ahb(LastPort) /\ s' = LastPort + 1 /\ apIdx' = LastPort
      BY <1>s, <2>2, LastPortType DEF NextAhbFound
    <3>2. (s = apIdx + 1 /\ apIdx \in Aps /\ Ahb(apIdx))'
      BY <1>0, <3>1 DEF Aps, Ahb
    <3> QED
      BY <1>0, <2>1, <2>2, <3>2 DEF Found, AtPort, AtCpu
  <2>3. CASE NoAhbLeft /\ pc' = "memap"
    <3>1. apIdx' = apIdx /\ \A j \in Aps : Ahb(j) => j < s
      BY <1>s, <2>3, LastPortType DEF NoAhbLeft
    <3>2. s # 0
      BY <2>d, <3>1, NumbersOfAps DEF Undisturbed
    <3>3. s = apIdx + 1 /\ apIdx \in Aps /\ Ahb(apIdx)
      BY <1>0, <2>d, <3>2 DEF Found
    <3>4. LastAhb(apIdx)
      BY <3>1, <3>3, NumbersOfAps DEF LastAhb
    <3>5. (apIdx \in Aps /\ LastAhb(apIdx))'
      BY <1>0, <3>1, <3>3, <3>4 DEF LastAhb, Ahb, Aps
    <3> QED
      BY <1>0, <2>1, <2>3, <3>5 DEF Found, AtPort, AtCpu
  <2> QED
    BY <2>2, <2>3, <2>b
<1> QED
  BY <1>1, <1>3, <1>4, <1>5, <1>6, <1>a, <1>b

(* Nothing that a step leaves alone is told any differently. *)
LEMMA FoundFrame ==
  ASSUME UNCHANGED <<kind, multi, cores>>
  PROVE  /\ TellsTrue(cores)' = TellsTrue(cores) /\ Complete(cores)' = Complete(cores)
         /\ Ports(cores)' = Ports(cores) /\ CpuAps' = CpuAps /\ Aps' = Aps
         /\ \A i : Ahb(i)' = Ahb(i) /\ V7(i)' = V7(i) /\ LastAhb(i)' = LastAhb(i)
BY DEF TellsTrue, Complete, Ports, CpuAps, Aps, Ahb, V7, LastAhb, Told, HasCpu

LEMMA MemapStep == IInv /\ Memap => IInv'
<1> SUFFICES ASSUME IInv, Memap PROVE IInv'
  OBVIOUS
<1> USE DEF IInv, Memap
<1>0. /\ UNCHANGED <<target, multi, info, apIdx, s, found, lastCpuErr, listed, cur, sent, lost, was>>
      /\ kind' = kind /\ pc = "memap" /\ UNCHANGED <<demcr, wpt, bpt, cpacr>>
  BY DEF target, host
<1>1. TargetType'
  BY <1>0, TargetFrame
<1>c. /\ error = NoError /\ cur = 0 /\ listed = <<>> /\ Room
      /\ multi => apIdx \in Aps /\ s = apIdx + 1
      /\ ~ multi => cores = <<>> /\ cpacr = was
  BY <1>0 DEF Course, Untouched, Errors, Working, AtPort, AtCpu
<1>2. CASE /\ apIdx \in Aps /\ MemapGood(apIdx)
           /\ sel' = apIdx /\ err' = OK /\ pc' = "cpuid"
           /\ UNCHANGED <<cores, error, faulted>>
  <2>1. Shape' /\ ListsType'
    BY <1>0, <1>2, ShapeFrame, ListsFrame
  <2>2. LocalsType' /\ FlagsType'
    BY <1>0, <1>2 DEF LocalsType, FlagsType, Working, AtPort, AtCpu
  <2>3. Course' /\ Errors' /\ Selected'
    BY <1>0, <1>2, <1>c DEF Course, Errors, Selected, AtPort, AtCpu, Working, Room, Aps
  <2>4. Order' /\ Clean' /\ Untouched'
    BY <1>0, <1>2, <1>c DEF Order, Clean, Untouched, Same, CpuAps, Aps, HasCpu, V7, AtPort, AtCpu, Working
  <2>5. Found'
    <3> SUFFICES ASSUME Undisturbed PROVE Found'
      BY <1>0, <1>2 DEF Found, Undisturbed, Aps, Ahb
    <3> QED
      BY <1>0, <1>2, FoundFrame DEF Found, AtPort, AtCpu, LastAhb
  <2> QED
    BY <1>1, <2>1, <2>2, <2>3, <2>4, <2>5
<1>3. CASE /\ sel' \in {sel, apIdx} /\ err' = "MEMAP" /\ error' = <<"MEMAP", err'>>
           /\ faulted' = (faulted \/ (apIdx \in Aps /\ MemapFault(apIdx)))
           /\ cores' = <<>> /\ pc' = IF multi THEN "finish" ELSE "reply"
  <2>1. Shape' /\ ListsType'
    BY <1>0, <1>3, <1>c, NoPorts, Sizes DEF Shape, Aps, ListsType
  <2>a. LocalsType'
    BY <1>0, <1>3 DEF LocalsType, Working
  <2>2. FlagsType'
    BY <1>0, <1>3 DEF FlagsType
  <2>3. Course' /\ Errors' /\ Selected'
    BY <1>0, <1>3, <1>c, NoPorts DEF Course, Errors, Selected, AtPort, AtCpu, Working, NoError, OK
  <2>4. Order' /\ Clean' /\ Untouched'
    BY <1>0, <1>3, <1>c, NoPorts DEF Order, Ascending, Clean, Untouched, Same, AtPort, AtCpu, Working
  <2>5. Found'
    <3> SUFFICES ASSUME Undisturbed' PROVE FALSE
      BY DEF Found
    <3>1. Undisturbed /\ ~ (apIdx \in Aps /\ MemapFault(apIdx))
      BY <1>0, <1>3 DEF Undisturbed, Aps, Ahb, FlagsType
    <3>2. apIdx \in Aps /\ Ahb(apIdx)
      BY <1>0, <1>c, <3>1 DEF Found, AtPort, LastAhb
    <3> QED
      BY <3>1, <3>2 DEF MemapFault, Undisturbed, Ahb
  <2> QED
    BY <1>1, <2>1, <2>2, <2>3, <2>4, <2>5, <2>a
<1> QED
  BY <1>2, <1>3

LEMMA CpuidStep == IInv /\ Cpuid => IInv'
<1> SUFFICES ASSUME IInv, Cpuid PROVE IInv'
  OBVIOUS
<1> USE DEF IInv, Cpuid
<1>0. /\ UNCHANGED <<target, multi, sel, apIdx, s, found, err, lastCpuErr, cores, error,
                     listed, cur, sent, lost, was>>
      /\ kind' = kind /\ pc = "cpuid" /\ pc' = "demcr" /\ UNCHANGED <<demcr, wpt, bpt, cpacr>>
      /\ \/ info' = [Plain EXCEPT !.isV7 = V7(apIdx)] /\ faulted' = faulted
         \/ info' = Plain /\ faulted' = TRUE
  BY DEF target, host
<1>1. TargetType' /\ Shape' /\ ListsType'
  BY <1>0, TargetFrame, ShapeFrame, ListsFrame
<1>2. LocalsType'
  BY <1>0 DEF LocalsType, Working, AtPort, AtCpu
<1>a. info' \in Infos
  <2>1. V7(apIdx) = TRUE \/ V7(apIdx) = FALSE
    BY DEF V7
  <2>2. \/ info' = [isV7 |-> V7(apIdx), haveFpu |-> FALSE]
        \/ info' = [isV7 |-> FALSE, haveFpu |-> FALSE]
    BY <1>0 DEF Plain
  <2>3. \A b \in BOOLEAN : [isV7 |-> b, haveFpu |-> FALSE] \in Infos
    BY DEF Infos
  <2> QED
    BY <2>1, <2>2, <2>3
<1>3. FlagsType'
  BY <1>0, <1>a DEF FlagsType
<1>4. Course' /\ Errors' /\ Selected'
  BY <1>0 DEF Course, Errors, Selected, AtPort, AtCpu, Working, Room, Aps
<1>5. Order' /\ Clean' /\ Untouched'
  BY <1>0 DEF Order, Clean, Untouched, Same, CpuAps, Aps, HasCpu, V7, AtPort, AtCpu, Working
<1>6. Found'
  <2> SUFFICES ASSUME Undisturbed, info' = [Plain EXCEPT !.isV7 = V7(apIdx)] PROVE Found'
    BY <1>0 DEF Found, Undisturbed, Aps, Ahb
  <2>1. info' = [isV7 |-> V7(apIdx), haveFpu |-> FALSE]
    BY DEF Plain
  <2>2. info' = [isV7 |-> V7(apIdx), haveFpu |-> FALSE]'
    BY <1>0, <2>1 DEF V7
  <2>3. LastAhb(apIdx)' = LastAhb(apIdx) /\ Ahb(apIdx)' = Ahb(apIdx)
    BY <1>0 DEF LastAhb, Ahb, Aps
  <2>4. (multi => Ahb(apIdx) /\ \A i \in CpuAps : i < apIdx => i \in Ports(cores))'
    BY <1>0, <2>3, FoundFrame DEF Found, AtPort, AtCpu
  <2>5. (Ahb(apIdx) /\ (~ multi => apIdx \in Aps /\ LastAhb(apIdx)) /\ TellsTrue(cores))'
    BY <1>0, <2>3, FoundFrame DEF Found, AtPort, AtCpu
  <2> QED
    BY <1>0, <2>2, <2>4, <2>5 DEF Found, AtPort, AtCpu
<1> QED
  BY <1>1, <1>2, <1>3, <1>4, <1>5, <1>6

(* A stage of cortexInit that fails ends it, whatever it had already done to  *)
(* the CPU it was at: no core that is reported is touched.                    *)
LEMMA CpuFailsStep ==
  ASSUME IInv, pc \in AtCpu, NEW e, CpuFails(e), TargetType', Shape',
         UNCHANGED <<kind, multi, sel, apIdx, s, found, listed, cur, sent, lost, was>>,
         demcr \subseteq demcr',
         \A i \in Aps : wpt'[i] \subseteq wpt[i] /\ bpt'[i] \subseteq bpt[i],
         \A i \in Aps : i # apIdx => (i \in cpacr' <=> i \in cpacr)
  PROVE  IInv'
<1> USE DEF IInv
<1>0. /\ UNCHANGED <<info, cores>> /\ faulted' = (faulted \/ HasCpu(apIdx))
      /\ \/ multi /\ lastCpuErr' = e /\ pc' = "enum" /\ UNCHANGED <<err, error>>
         \/ ~ multi /\ err' = e /\ error' = <<"CORTEX", e>> /\ pc' = "reply" /\ UNCHANGED lastCpuErr
  BY DEF CpuFails
<1>c. /\ apIdx \in Aps /\ error = NoError /\ cur = 0 /\ listed = <<>> /\ Room
      /\ multi => s = apIdx + 1
      /\ ~ multi => cores = <<>>
  BY DEF Course, Errors, Working, AtPort, AtCpu
<1>f. Aps' = Aps /\ CpuAps' = CpuAps /\ Ports(cores)' = Ports(cores) /\ TellsTrue(cores)' = TellsTrue(cores)
  BY <1>0, FoundFrame
<1>1. ListsType'
  BY <1>0, ListsFrame
<1>2. LocalsType'
  BY <1>0 DEF LocalsType, Working
<1>3. FlagsType'
  <2>1. faulted' \in BOOLEAN
    BY <1>0 DEF FlagsType
  <2> QED
    BY <1>0, <2>1 DEF FlagsType
<1>4. Course'
  BY <1>0, <1>c, NoPorts DEF Course, AtPort, AtCpu, Working
<1>5. Errors'
  BY <1>0, <1>c, NoPorts DEF Errors, AtPort, AtCpu, Working, NoError
<1>s. Selected'
  <2>1. Len(cores) = 1 => cores[1].ap < apIdx
    BY FirstPort DEF Order, AtPort
  <2>2. CASE multi
    BY <1>0, <2>1, <2>2 DEF Selected, Behind
  <2>3. CASE ~ multi
    BY <1>0, <1>c, <2>3 DEF Selected
  <2> QED
    BY <2>2, <2>3
<1>6. Order'
  <2>1. Ascending(cores)' /\ \A p \in Ports(cores) : p < apIdx
    BY <1>0 DEF Order, Ascending, AtPort
  <2>2. CASE multi
    <3>1. \A p \in Ports(cores) : p < s'
      <4>1. s' = apIdx + 1 /\ apIdx \in Nat /\ Ports(cores) \subseteq Nat
        BY <1>c, <2>2, NumbersOfAps DEF Ports, Clean, CpuAps
      <4> QED
        BY <2>1, <4>1
    <3> QED
      BY <1>0, <1>f, <2>1, <2>2, <3>1 DEF Order, AtPort, AtCpu
  <2>3. CASE ~ multi
    BY <1>0, <2>1, <2>3 DEF Order, AtPort, AtCpu
  <2> QED
    BY <2>2, <2>3
<1>7. Clean'
  <2>1. \A k \in DOMAIN cores : cores[k].ap \in Aps
    BY DEF Clean, CpuAps
  <2>2. (\A k \in DOMAIN cores : LET i == cores[k].ap
                                 IN /\ i \in CpuAps /\ i \in demcr /\ wpt[i] = {}
                                    /\ cores[k].info.isV7 = V7(i) => bpt[i] = {})'
    BY <1>0, <2>1, <1>f DEF Clean, V7
  <2> QED
    BY <1>0, <2>2 DEF Clean
<1>8. Untouched'
  <2>1. \A p \in Ports(cores) : p \in Aps /\ p < apIdx /\ p \in Nat
    BY NumbersOfAps DEF Clean, CpuAps, Ports, Order, AtPort
  <2>2. \A p \in Ports(cores) : p \in cpacr' <=> p \in was
    BY <1>c, <2>1, NumbersOfAps DEF Untouched, Same
  <2>3. multi => \A i \in Aps : i >= s => (i \in cpacr' <=> i \in was)
    BY <1>c, NumbersOfAps DEF Untouched, Same, AtPort
  <2> QED
    BY <1>0, <1>f, <2>2, <2>3 DEF Untouched, Same, Working, AtPort, AtCpu
<1>9. Found'
  <2> SUFFICES ASSUME Undisturbed' PROVE Found'
    BY DEF Found
  <2>1. Undisturbed /\ ~ HasCpu(apIdx)
    BY <1>0, <1>f DEF Undisturbed, Ahb, FlagsType
  <2>2. CASE multi
    <3>1. \A i \in CpuAps : i < s => i \in Ports(cores)
      BY <1>c, <2>1, <2>2, NumbersOfAps DEF Found, AtPort, CpuAps
    <3> QED
      BY <1>0, <1>f, <2>1, <2>2, <3>1 DEF Found, AtPort, AtCpu
  <2>3. CASE ~ multi
    <3>1. LastAhb(apIdx)
      BY <2>1, <2>3 DEF Found, AtPort
    <3>2. \A i \in CpuAps : ~ LastAhb(i)
      BY <1>c, <2>1, <3>1, NumbersOfAps DEF LastAhb, CpuAps
    <3>3. Complete(cores)
      BY <1>c, <2>3, <3>2, NoPorts DEF Complete
    <3>4. Complete(cores)' /\ TellsTrue(cores)'
      BY <1>0, <2>1, <3>3, FoundFrame DEF Found
    <3> QED
      BY <1>0, <2>3, <3>4 DEF Found, AtPort, AtCpu
  <2> QED
    BY <2>2, <2>3
<1> QED
  BY <1>1, <1>2, <1>3, <1>4, <1>5, <1>6, <1>7, <1>8, <1>9, <1>s

(* A stage of cortexInit that succeeds. *)
LEMMA StageFrame ==
  ASSUME IInv, pc \in AtCpu, pc' \in {"wpt", "bpt", "fpu", "cpu"},
         UNCHANGED <<kind, multi, sel, apIdx, s, found, err, lastCpuErr, cores, error,
                     listed, cur, sent, faulted, lost, was, cpacr>>
  PROVE  LocalsType' /\ ListsType' /\ Course' /\ Errors' /\ Order' /\ Untouched' /\ Selected'
<1> USE DEF IInv
<1>1. LocalsType' /\ ListsType'
  BY ListsFrame DEF LocalsType, Working, AtPort, AtCpu
<1>2. Course' /\ Errors' /\ Selected'
  BY DEF Course, Errors, Selected, AtPort, AtCpu, Working, Room, Aps
<1>3. Order' /\ Untouched'
  BY DEF Order, Untouched, Same, AtPort, AtCpu, Working, Aps
<1> QED
  BY <1>1, <1>2, <1>3

LEMMA StageFound ==
  ASSUME IInv, pc \in AtCpu, pc' \in AtCpu \ {"cpuid"},
         UNCHANGED <<kind, multi, apIdx, cores, faulted>>,
         Undisturbed => info' = IF pc' = "cpu" THEN Told(apIdx).info
                                ELSE [isV7 |-> V7(apIdx), haveFpu |-> FALSE]
  PROVE  Found'
<1> USE DEF IInv
<1> SUFFICES ASSUME Undisturbed' PROVE Found'
  BY DEF Found
<1>1. Undisturbed
  BY DEF Undisturbed, Aps, Ahb
<1>2. /\ (LastAhb(apIdx))' = LastAhb(apIdx) /\ (Ahb(apIdx))' = Ahb(apIdx)
      /\ (Told(apIdx))' = Told(apIdx) /\ (V7(apIdx))' = V7(apIdx)
  BY DEF LastAhb, Ahb, Aps, Told, V7
<1>3. (multi => Ahb(apIdx) /\ \A i \in CpuAps : i < apIdx => i \in Ports(cores))'
  BY <1>1, <1>2, FoundFrame DEF Found, AtPort, AtCpu
<1>4. (Ahb(apIdx) /\ (~ multi => apIdx \in Aps /\ LastAhb(apIdx)) /\ TellsTrue(cores))'
  BY <1>1, <1>2, FoundFrame DEF Found, AtPort, AtCpu
<1>5. info' = (IF pc = "cpu" THEN Told(apIdx).info ELSE [isV7 |-> V7(apIdx), haveFpu |-> FALSE])'
  BY <1>1, <1>2
<1> QED
  BY <1>3, <1>4, <1>5 DEF Found, AtPort, AtCpu

LEMMA DemcrStep == IInv /\ Demcr => IInv'
<1> SUFFICES ASSUME IInv, Demcr PROVE IInv'
  OBVIOUS
<1>0. UNCHANGED <<kind, wpt, bpt, cpacr, multi, sel, apIdx, s, found, listed, cur, sent, lost, was>>
      /\ pc = "demcr" /\ pc \in AtCpu
  BY DEF Demcr, host, AtCpu
<1>a. apIdx \in Aps /\ demcr \subseteq Aps
  BY <1>0 DEF IInv, Course, TargetType
<1>b. ASSUME demcr' \in {demcr, demcr \cup {apIdx}}, UNCHANGED cores
      PROVE  TargetType' /\ Shape'
  BY <1>0, <1>a, <1>b DEF IInv, TargetType, Shape, Aps, Bpts, HasCpu, V7
<1>1. CASE /\ HasCpu(apIdx) /\ demcr' = demcr \cup {apIdx} /\ pc' = "wpt"
           /\ UNCHANGED <<info, err, lastCpuErr, cores, error, faulted>>
  <2>1. FlagsType'
    BY <1>0, <1>1 DEF IInv, FlagsType
  <2>2. Clean'
    BY <1>0, <1>1 DEF IInv, Clean, CpuAps, Aps, HasCpu, V7
  <2>3. Found'
    <3>1. Undisturbed => info' = [isV7 |-> V7(apIdx), haveFpu |-> FALSE]
      BY <1>0, <1>1 DEF IInv, Found
    <3> QED
      BY <1>0, <1>1, <3>1, StageFound DEF AtCpu
  <2> QED
    BY <1>0, <1>1, <1>b, <2>1, <2>2, <2>3, StageFrame DEF IInv
<1>2. CASE /\ demcr' \in {demcr, IF HasCpu(apIdx) THEN demcr \cup {apIdx} ELSE demcr}
           /\ CpuFails("Demcr")
  BY <1>0, <1>2, <1>b, CpuFailsStep DEF CpuFails
<1> QED
  BY <1>1, <1>2 DEF Demcr

LEMMA WptStep == IInv /\ Wpt => IInv'
<1> SUFFICES ASSUME IInv, Wpt PROVE IInv'
  OBVIOUS
<1>0. UNCHANGED <<kind, demcr, bpt, cpacr, multi, sel, apIdx, s, found, listed, cur, sent, lost, was>>
      /\ pc = "wpt" /\ pc \in AtCpu /\ UNCHANGED cores
  BY DEF Wpt, host, AtCpu, CpuFails
<1>a. apIdx \in Aps /\ wpt \in [Aps -> SUBSET Wpts]
  BY <1>0 DEF IInv, Course, Shape
<1>b. /\ wpt' = wpt \/ wpt' = [wpt EXCEPT ![apIdx] = {}]
      /\ wpt' \in [Aps -> SUBSET Wpts] /\ \A i \in Aps : wpt'[i] \subseteq wpt[i]
  BY <1>a DEF Wpt
<1>c. TargetType' /\ Shape'
  BY <1>0, <1>b DEF IInv, TargetType, Shape, Aps, Bpts, HasCpu, V7
<1>1. CASE /\ wpt' = [wpt EXCEPT ![apIdx] = {}] /\ pc' = "bpt"
           /\ UNCHANGED <<info, err, lastCpuErr, cores, error, faulted>>
  <2>1. FlagsType'
    BY <1>0, <1>1 DEF IInv, FlagsType
  <2>2. Clean'
    <3>1. \A k \in DOMAIN cores : cores[k].ap \in Aps
      BY DEF IInv, Clean, CpuAps
    <3> QED
      BY <1>0, <1>1, <1>a, <1>b, <3>1 DEF IInv, Clean, CpuAps, Aps, HasCpu, V7
  <2>3. Found'
    <3>1. Undisturbed => info' = [isV7 |-> V7(apIdx), haveFpu |-> FALSE]
      BY <1>0, <1>1 DEF IInv, Found
    <3> QED
      BY <1>0, <1>1, <3>1, StageFound DEF AtCpu
  <2> QED
    BY <1>0, <1>1, <1>c, <2>1, <2>2, <2>3, StageFrame DEF IInv
<1>2. CASE CpuFails("Wpt")
  BY <1>0, <1>2, <1>b, <1>c, CpuFailsStep
<1> QED
  BY <1>1, <1>2 DEF Wpt

LEMMA BptStep == IInv /\ Bpt => IInv'
<1> SUFFICES ASSUME IInv, Bpt PROVE IInv'
  OBVIOUS
<1>0. UNCHANGED <<kind, demcr, wpt, cpacr, multi, sel, apIdx, s, found, listed, cur, sent, lost, was>>
      /\ pc = "bpt" /\ pc \in AtCpu /\ UNCHANGED cores
  BY DEF Bpt, host, AtCpu, CpuFails
<1>a. apIdx \in Aps /\ bpt \in [Aps -> SUBSET (0 .. Low)] /\ bpt[apIdx] \subseteq Bpts(apIdx)
      /\ HasCpu(apIdx)
  BY <1>0 DEF IInv, Course, Shape, TargetType, Clean
<1>b. \E n : bpt' = [bpt EXCEPT ![apIdx] = OffUpTo(@, n)]
  BY DEF Bpt
<1>c. /\ bpt' \in [Aps -> SUBSET (0 .. Low)] /\ \A i \in Aps : bpt'[i] \subseteq bpt[i]
  BY <1>a, <1>b DEF OffUpTo
<1>d. TargetType' /\ Shape'
  BY <1>0, <1>c DEF IInv, TargetType, Shape, Aps, Bpts, HasCpu, V7
<1>1. CASE /\ bpt' = [bpt EXCEPT ![apIdx] = OffUpTo(@, Counted)]
           /\ pc' = IF info.isV7 THEN "fpu" ELSE "cpu"
           /\ UNCHANGED <<info, err, lastCpuErr, cores, error, faulted>>
  <2>1. FlagsType'
    BY <1>0, <1>1 DEF IInv, FlagsType
  <2>2. info.isV7 = V7(apIdx) => bpt'[apIdx] = {}
    BY <1>1, <1>a, CountedAll DEF OffUpTo
  <2>3. Clean'
    <3>1. \A k \in DOMAIN cores : cores[k].ap \in Aps
      BY DEF IInv, Clean, CpuAps
    <3>2. (\A k \in DOMAIN cores : LET i == cores[k].ap
                                   IN /\ i \in CpuAps /\ i \in demcr /\ wpt[i] = {}
                                      /\ cores[k].info.isV7 = V7(i) => bpt[i] = {})'
      BY <1>0, <1>c, <3>1 DEF IInv, Clean, CpuAps, Aps, HasCpu, V7
    <3> QED
      BY <1>0, <1>1, <2>2, <3>2 DEF IInv, Clean, HasCpu, V7
  <2>4. Found'
    <3>1. Undisturbed => info = [isV7 |-> V7(apIdx), haveFpu |-> FALSE]
      BY <1>0 DEF IInv, Found
    <3>2. Told(apIdx).info = [isV7 |-> V7(apIdx), haveFpu |-> kind[apIdx] = "v7f"]
      BY DEF Told
    <3>3. V7(apIdx) \/ Told(apIdx).info = [isV7 |-> V7(apIdx), haveFpu |-> FALSE]
      <4> SUFFICES ASSUME ~ V7(apIdx)
                   PROVE  Told(apIdx).info = [isV7 |-> V7(apIdx), haveFpu |-> FALSE]
        OBVIOUS
      <4>1. (kind[apIdx] = "v7f") = FALSE
        BY DEF V7
      <4> QED
        BY <3>2, <4>1
    <3>a. Undisturbed => (info.isV7 <=> V7(apIdx))
      BY <3>1
    <3>4. Undisturbed => info' = IF pc' = "cpu" THEN Told(apIdx).info
                                 ELSE [isV7 |-> V7(apIdx), haveFpu |-> FALSE]
      BY <1>1, <3>1, <3>a, <3>3
    <3> QED
      BY <1>0, <1>1, <3>4, StageFound DEF AtCpu
  <2> QED
    BY <1>0, <1>1, <1>d, <2>1, <2>3, <2>4, StageFrame DEF IInv
<1>2. CASE CpuFails("Bpt")
  BY <1>0, <1>2, <1>c, <1>d, CpuFailsStep
<1> QED
  BY <1>1, <1>2 DEF Bpt

LEMMA FpuStep == IInv /\ Fpu => IInv'
<1> SUFFICES ASSUME IInv, Fpu PROVE IInv'
  OBVIOUS
<1>0. UNCHANGED <<kind, demcr, wpt, bpt, multi, sel, apIdx, s, found, listed, cur, sent, lost, was>>
      /\ pc = "fpu" /\ pc \in AtCpu /\ UNCHANGED cores
  BY DEF Fpu, host, AtCpu, CpuFails
<1>a. apIdx \in Aps
  BY <1>0 DEF IInv, Course
<1>b. cpacr' \in {cpacr, cpacr \cup {apIdx}}
  BY DEF Fpu, PutBack, LeftOpen
<1>c. TargetType' /\ Shape'
  BY <1>0, <1>a, <1>b DEF IInv, TargetType, Shape, Aps, Bpts, HasCpu, V7
<1>1. CASE /\ info' = [info EXCEPT !.haveFpu = (kind[apIdx] = "v7f")]
           /\ cpacr' = PutBack /\ pc' = "cpu"
           /\ UNCHANGED <<err, lastCpuErr, cores, error, faulted>>
  <2>1. info' = [isV7 |-> info.isV7, haveFpu |-> (kind[apIdx] = "v7f")] /\ info.isV7 \in BOOLEAN
        /\ info'.isV7 = info.isV7
    BY <1>1 DEF IInv, FlagsType, Infos
  <2>2. FlagsType'
    <3>1. \A a, b \in BOOLEAN : [isV7 |-> a, haveFpu |-> b] \in Infos
      BY DEF Infos
    <3>2. (kind[apIdx] = "v7f") = TRUE \/ (kind[apIdx] = "v7f") = FALSE
      OBVIOUS
    <3>3. info' \in Infos
      BY <2>1, <3>1, <3>2
    <3> QED
      BY <1>0, <1>1, <3>3 DEF IInv, FlagsType
  <2>3. Clean'
    BY <1>0, <1>1, <2>1 DEF IInv, Clean, CpuAps, Aps, HasCpu, V7
  <2>4. Found'
    <3>1. Undisturbed => info.isV7 = V7(apIdx)
      BY <1>0 DEF IInv, Found
    <3>2. Told(apIdx).info = [isV7 |-> V7(apIdx), haveFpu |-> kind[apIdx] = "v7f"]
      BY DEF Told
    <3>3. Undisturbed => info' = Told(apIdx).info
      BY <2>1, <3>1, <3>2
    <3> QED
      BY <1>0, <1>1, <3>3, StageFound DEF AtCpu
  <2>5. cpacr' = cpacr
    BY <1>1 DEF PutBack
  <2> QED
    BY <1>0, <1>1, <1>c, <2>2, <2>3, <2>4, <2>5, StageFrame DEF IInv
<1>2. CASE CpuFails("Fpu")
  BY <1>0, <1>2, <1>b, <1>c, CpuFailsStep
<1> QED
  BY <1>1, <1>2 DEF Fpu

LEMMA ListedStep == IInv /\ Listed => IInv'
<1> SUFFICES ASSUME IInv, Listed PROVE IInv'
  OBVIOUS
<1> USE DEF IInv
<1>0. /\ UNCHANGED <<target, multi, sel, info, apIdx, s, found, err, error, listed, cur, sent, faulted, lost, was>>
      /\ UNCHANGED <<kind, demcr, wpt, bpt, cpacr>> /\ pc = "cpu" /\ cores' = Append(cores, Core)
      /\ pc' = IF multi THEN "enum" ELSE "reply"
  BY DEF Listed, target, host, history
<1>c. /\ apIdx \in Aps /\ apIdx \in Nat /\ sel = apIdx /\ error = NoError /\ cur = 0 /\ listed = <<>> /\ Room
      /\ multi => s = apIdx + 1
      /\ ~ multi => cores = <<>>
      /\ HasCpu(apIdx) /\ apIdx \in demcr /\ wpt[apIdx] = {}
      /\ info.isV7 = V7(apIdx) => bpt[apIdx] = {}
  BY <1>0, NumbersOfAps DEF Course, Errors, Clean, Working, AtPort, AtCpu
<1>e. Core.ap = apIdx /\ Core.info = info /\ Core \in Entries
  BY <1>c DEF Core, Entries, FlagsType
<1>f. /\ cores \in Seq(Entries) /\ cores' \in Seq(Entries) /\ Len(cores') = Len(cores) + 1 /\ cores' # <<>>
      /\ Ports(cores') = Ports(cores) \cup {apIdx}
      /\ DOMAIN cores' = DOMAIN cores \cup {Len(cores) + 1}
      /\ cores'[Len(cores) + 1] = Core
      /\ \A k \in DOMAIN cores : k \in 1 .. Len(cores) /\ cores'[k] = cores[k]
  BY <1>0, <1>e, PortsAppended DEF Shape
<1>1. TargetType'
  BY <1>0, TargetFrame
<1>2. Shape'
  BY <1>0, <1>f DEF Shape, Aps
<1>3. ListsType'
  <2>1. Len(cores') <= MaxCores
    BY <1>c, <1>f, Sizes DEF Room
  <2>2. \A k \in DOMAIN cores' : cores'[k].ap \in Aps /\ cores'[k].info \in Infos
    BY <1>c, <1>e, <1>f DEF ListsType, FlagsType
  <2>3. listed' = <<>> /\ cur' = 0 /\ Aps' = Aps
    BY <1>0, <1>c DEF Aps
  <2> QED
    BY <2>1, <2>2, <2>3, NoPorts DEF ListsType
<1>4. LocalsType' /\ FlagsType'
  BY <1>0 DEF LocalsType, FlagsType, Working
<1>5. Course'
  <2>1. ~ multi => Len(cores') <= 1
    BY <1>c, <1>f, NoPorts
  <2> QED
    BY <1>0, <1>c, <2>1 DEF Course, AtPort, AtCpu, Working
<1>6. Errors'
  BY <1>0, <1>c, <1>f DEF Errors, Working, AtPort, AtCpu
<1>7. Order'
  <2>1. \A p \in Ports(cores) : p < apIdx /\ p \in Nat
    BY <1>0, NumbersOfAps DEF Order, AtPort, AtCpu, Clean, Ports, CpuAps
  <2>2. \A k \in DOMAIN cores : cores[k].ap \in Ports(cores)
    BY DEF Ports
  <2>3. \A j, k \in DOMAIN cores' : j < k => cores'[j].ap < cores'[k].ap
    <3> SUFFICES ASSUME NEW j \in DOMAIN cores', NEW k \in DOMAIN cores', j < k
                 PROVE  cores'[j].ap < cores'[k].ap
      OBVIOUS
    <3>1. j \in DOMAIN cores
      BY <1>f
    <3>2. CASE k \in DOMAIN cores
      BY <1>f, <3>1, <3>2 DEF Order, Ascending
    <3>3. CASE k = Len(cores) + 1
      BY <1>e, <1>f, <2>1, <2>2, <3>1, <3>3
    <3> QED
      BY <1>f, <3>2, <3>3
  <2>4. multi => \A p \in Ports(cores') : p < s
    BY <1>c, <1>f, <2>1
  <2> QED
    BY <1>0, <2>3, <2>4 DEF Order, Ascending, AtPort, AtCpu
<1>8. Clean'
  <2>1. apIdx \in CpuAps
    BY <1>c DEF CpuAps
  <2>2. \A k \in DOMAIN cores' : LET i == cores'[k].ap
                                 IN /\ i \in CpuAps /\ i \in demcr /\ wpt[i] = {}
                                    /\ cores'[k].info.isV7 = V7(i) => bpt[i] = {}
    BY <1>c, <1>e, <1>f, <2>1 DEF Clean
  <2>3. (\A k \in DOMAIN cores : LET i == cores[k].ap
                                 IN /\ i \in CpuAps /\ i \in demcr /\ wpt[i] = {}
                                    /\ cores[k].info.isV7 = V7(i) => bpt[i] = {})'
    BY <1>0, <2>2 DEF CpuAps, Aps, HasCpu, V7
  <2> QED
    BY <1>0, <2>3 DEF Clean
<1>9. Untouched'
  <2>1. \A i \in Aps : i >= apIdx => Same(i)
    BY <1>0 DEF Untouched, AtPort, AtCpu
  <2>2. \A p \in Ports(cores') : Same(p)
    BY <1>c, <1>f, <2>1 DEF Untouched
  <2>3. multi => \A i \in Aps : i >= s => Same(i)
    BY <1>c, <2>1, NumbersOfAps
  <2> QED
    BY <1>0, <2>2, <2>3 DEF Untouched, Same, Aps, Working, AtPort, AtCpu
<1>10. Selected'
  <2>1. ~ multi => cores'[1] = Core
    BY <1>c, <1>f, NoPorts
  <2>2. CASE multi
    <3>1. Len(cores') = 1 => cores'[1] = Core
      BY <1>f DEF Shape
    <3> QED
      BY <1>0, <1>e, <2>2, <3>1 DEF Selected, Behind
  <2>3. CASE ~ multi
    BY <1>0, <1>c, <1>e, <2>1, <2>3 DEF Selected
  <2> QED
    BY <2>2, <2>3
<1>11. Found'
  <2> SUFFICES ASSUME Undisturbed PROVE Found'
    BY <1>0 DEF Found, Undisturbed, Aps, Ahb
  <2>1. Core = Told(apIdx)
    BY <1>0 DEF Found, Core, Told
  <2>2. \A k \in DOMAIN cores' : cores'[k] = Told(cores'[k].ap)
    BY <1>e, <1>f, <2>1 DEF Found, TellsTrue
  <2>3. TellsTrue(cores)'
    BY <1>0, <2>2 DEF TellsTrue, Told, V7
  <2>4. CASE multi
    <3>1. \A i \in CpuAps : i < s => i \in Ports(cores')
      BY <1>0, <1>c, <1>f, <2>4, NumbersOfAps DEF Found, AtPort, AtCpu, CpuAps
    <3>2. (\A i \in CpuAps : i < s => i \in Ports(cores))'
      BY <1>0, <3>1 DEF CpuAps, Aps, HasCpu, V7
    <3> QED
      BY <1>0, <2>3, <2>4, <3>2 DEF Found, AtPort, AtCpu
  <2>5. CASE ~ multi
    <3>1. LastAhb(apIdx) /\ apIdx \in CpuAps /\ Ports(cores') = {apIdx}
      BY <1>0, <1>c, <1>f, <2>5, NoPorts DEF Found, AtPort, AtCpu, CpuAps
    <3>2. \A i \in CpuAps : LastAhb(i) => i = apIdx
      BY <1>c, <3>1, NumbersOfAps DEF LastAhb, CpuAps
    <3>3. Ports(cores') = {i \in CpuAps : LastAhb(i)}
      BY <3>1, <3>2
    <3>4. Complete(cores)'
      BY <1>0, <2>5, <3>3 DEF Complete, CpuAps, LastAhb, Ahb, HasCpu, V7, Aps
    <3> QED
      BY <1>0, <2>3, <2>5, <3>4 DEF Found, AtPort, AtCpu
  <2> QED
    BY <2>4, <2>5
<1> QED
  BY <1>1, <1>2, <1>3, <1>4, <1>5, <1>6, <1>7, <1>8, <1>9, <1>10, <1>11

LEMMA FinishStep == IInv /\ Finish => IInv'
<1> SUFFICES ASSUME IInv, Finish PROVE IInv'
  OBVIOUS
<1> USE DEF IInv
<1>0. /\ UNCHANGED <<target, multi, info, apIdx, s, found, err, lastCpuErr, cores, listed, cur, sent, faulted, was>>
      /\ UNCHANGED <<kind, demcr, wpt, bpt, cpacr>> /\ pc = "finish" /\ pc' = "reply" /\ multi
      /\ sel' \in {sel, apIdx} /\ lost' \in BOOLEAN
      /\ error' = IF cores = <<>> THEN CoreError ELSE error
  BY DEF Finish, Reselected, target, host, Course
<1>1. TargetType' /\ Shape' /\ ListsType'
  BY <1>0, TargetFrame, ShapeFrame, ListsFrame
<1>2. LocalsType'
  BY <1>0 DEF LocalsType
<1>3. FlagsType'
  BY <1>0 DEF FlagsType
<1>4. Course'
  BY <1>0 DEF Course, AtPort, AtCpu, Working
<1>s. Selected'
  <2>1. Len(cores) = 1 => Behind /\ Behind'
    BY <1>0 DEF Selected, Behind
  <2>2. ~ lost' => sel' = apIdx'
    BY <1>0 DEF Finish, Reselected
  <2> QED
    BY <1>0, <2>1, <2>2 DEF Selected
<1>5. Errors'
  <2>1. cores = <<>> => error' # NoError
    BY <1>0 DEF Errors, CoreError, NoError
  <2>2. cores # <<>> => error' = NoError
    BY <1>0 DEF Errors
  <2> QED
    BY <1>0, <2>1, <2>2 DEF Errors, NoError, Working, AtPort, AtCpu
<1>6. Order' /\ Clean' /\ Untouched'
  BY <1>0 DEF Order, Clean, Untouched, Same, CpuAps, Aps, HasCpu, V7, AtPort, AtCpu, Working
<1>7. Found'
  <2> SUFFICES ASSUME Undisturbed PROVE Found'
    BY <1>0 DEF Found, Undisturbed, Aps, Ahb
  <2> QED
    BY <1>0, FoundFrame DEF Found, AtPort, AtCpu
<1> QED
  BY <1>1, <1>2, <1>3, <1>4, <1>5, <1>6, <1>7, <1>s

-----------------------------------------------------------------------------
(* The host. *)

LEMMA ReplyStep == IInv /\ Reply => IInv'
<1> SUFFICES ASSUME IInv, Reply PROVE IInv'
  OBVIOUS
<1> USE DEF IInv
<1>0. /\ UNCHANGED <<target, multi, sel, info, apIdx, s, found, err, lastCpuErr, cores, error, sent, faulted, lost, was>>
      /\ UNCHANGED <<kind, demcr, wpt, bpt, cpacr>> /\ pc = "reply" /\ listed' = cores
      /\ cur' = IF Len(cores) = 1 THEN 1 ELSE 0
      /\ pc' = IF Len(cores) > 1 THEN "select" ELSE "idle"
  BY DEF Reply, target, history
<1>a. Len(cores) \in Nat
  BY DEF Shape
<1>1. TargetType' /\ Shape'
  BY <1>0, TargetFrame, ShapeFrame
<1>2. ListsType'
  <2>1. (\A k \in DOMAIN cores : cores[k].ap \in Aps /\ cores[k].info \in Infos)'
    BY <1>0 DEF ListsType, Aps
  <2>2. cur' \in 0 .. Len(listed')
    BY <1>0, <1>a
  <2> QED
    BY <1>0, <2>1, <2>2 DEF ListsType
<1>3. LocalsType' /\ FlagsType'
  BY <1>0 DEF LocalsType, FlagsType
<1>4. Course'
  <2>1. CASE Len(cores) > 1
    <3>0. \A n \in Nat : n > 1 => n # 1
      OBVIOUS
    <3>a. Len(cores) # 1
      BY <1>a, <2>1, <3>0, Zenon
    <3>b. pc' = "select" /\ cur' = 0
      BY <1>0, <2>1, <3>a
    <3>1. pc' = "select" /\ cur' = 0 /\ listed' = cores' /\ Len(cores') > 1
      BY <1>0, <2>1, <3>b
    <3>2. multi /\ multi'
      BY <1>0, <1>a, <2>1 DEF Course
    <3> QED
      BY <3>1, <3>2 DEF Course, AtPort, AtCpu, Working
  <2>2. CASE ~ (Len(cores) > 1)
    BY <1>0, <1>a, <2>2 DEF Course, AtPort, AtCpu, Working
  <2> QED
    BY <2>1, <2>2
<1>5. Errors'
  BY <1>0, <1>a DEF Errors, AtPort, AtCpu, Working
<1>s. Selected'
  <2>1. ~ multi => multi' = multi /\ pc' # "enum" /\ (cores' # <<>> => sel' = cores'[1].ap /\ info' = cores'[1].info)
    BY <1>0 DEF Selected
  <2>2. ASSUME multi, pc' = "idle", cur' # 0, ~ lost
        PROVE  \/ sel' = cores'[cur'].ap /\ info' = cores'[cur'].info
               \/ OnlyCorePassed'
    <3>1. Len(cores) = 1 /\ cur' = 1 /\ cores # <<>>
      BY <1>0, <2>2, NoPorts
    <3>2. sel = apIdx /\ Behind
      BY <1>0, <2>2, <3>1 DEF Selected
    <3> QED
      BY <1>0, <2>2, <3>1, <3>2 DEF Behind, OnlyCorePassed
  <2>3. pc' \notin {"enum", "finish", "reply"}
    BY <1>0
  <2> QED
    BY <1>0, <2>1, <2>2, <2>3 DEF Selected
<1>6. Order' /\ Clean' /\ Untouched'
  BY <1>0 DEF Order, Clean, Untouched, Same, CpuAps, Aps, HasCpu, V7, AtPort, AtCpu, Working
<1>7. Found'
  <2> SUFFICES ASSUME Undisturbed PROVE Found'
    BY <1>0 DEF Found, Undisturbed, Aps, Ahb
  <2> QED
    BY <1>0, FoundFrame DEF Found, AtPort, AtCpu
<1> QED
  BY <1>1, <1>2, <1>3, <1>4, <1>5, <1>6, <1>7, <1>s

LEMMA AttachStep == IInv /\ Attach => IInv'
<1> SUFFICES ASSUME IInv, Attach PROVE IInv'
  OBVIOUS
<1> USE DEF IInv
<1>0. /\ UNCHANGED <<target, multi, sel, info>> /\ UNCHANGED <<kind, demcr, wpt, bpt, cpacr>>
      /\ pc' = "dap" /\ apIdx' = 0 /\ s' = 0 /\ found' = FALSE /\ cores' = <<>> /\ error' = NoError
      /\ listed' = <<>> /\ cur' = 0 /\ faulted' = FALSE /\ lost' = FALSE /\ was' = cpacr
  BY DEF Attach, target
<1>1. TargetType' /\ Shape' /\ ListsType'
  BY <1>0, NoPorts, Sizes DEF TargetType, Shape, ListsType, Aps, Bpts, HasCpu, V7
<1>a. LocalsType'
  BY <1>0, Sizes DEF LocalsType, Working
<1>2. FlagsType'
  BY <1>0 DEF FlagsType
<1>3. Course' /\ Errors' /\ Selected'
  BY <1>0, NoPorts DEF Course, Errors, Selected, AtPort, AtCpu, Working
<1>4. Order' /\ Clean' /\ Untouched'
  BY <1>0, NoPorts DEF Order, Ascending, Clean, Untouched, Same, AtPort, AtCpu, Working
<1>5. Found'
  BY <1>0, NoPorts DEF Found, TellsTrue, AtPort, AtCpu
<1> QED
  BY <1>1, <1>2, <1>3, <1>4, <1>5, <1>a

LEMMA SelectCoreStep == IInv /\ pc \in {"idle", "select"} /\ SelectCore => IInv'
<1> SUFFICES ASSUME IInv, pc \in {"idle", "select"}, SelectCore PROVE IInv'
  OBVIOUS
<1> USE DEF IInv
<1>0. /\ UNCHANGED <<target, multi, apIdx, s, found, err, lastCpuErr, cores, error, listed, sent, faulted, was>>
      /\ UNCHANGED <<kind, demcr, wpt, bpt, cpacr>> /\ multi /\ pc' = "idle"
  BY DEF SelectCore, target
<1>1. PICK k \in 1 .. Len(listed) :
        \/ Reselected(listed[k].ap) /\ info' = listed[k].info /\ cur' = k
        \/ /\ sel' \in {sel, listed[k].ap} /\ info' \in {info, listed[k].info}
           /\ lost' = TRUE /\ UNCHANGED cur
  BY DEF SelectCore
<1>2. listed = cores /\ Len(cores) \in Nat
  BY DEF Course, Shape
<1>a. k \in DOMAIN cores
  BY <1>2 DEF Shape
<1>3. /\ sel' \in {sel, listed[k].ap} /\ info' \in {info, listed[k].info} /\ lost' \in BOOLEAN
      /\ cur' \in {cur, k} /\ listed[k].ap \in Aps /\ listed[k].info \in Infos
  BY <1>1, <1>2, <1>a DEF Reselected, ListsType
<1>4. TargetType' /\ Shape'
  BY <1>0, TargetFrame, ShapeFrame
<1>5. ListsType'
  <2>1. (\A j \in DOMAIN cores : cores[j].ap \in Aps /\ cores[j].info \in Infos)'
    BY <1>0 DEF ListsType, Aps
  <2>2. cur' \in 0 .. Len(listed')
    BY <1>0, <1>2, <1>3 DEF ListsType
  <2> QED
    BY <1>0, <2>1, <2>2 DEF ListsType
<1>6. LocalsType'
  <2>1. sel' \in 0 .. MaxAps
    BY <1>3, NumbersOfAps, Sizes DEF LocalsType
  <2> QED
    BY <1>0, <2>1 DEF LocalsType
<1>7. FlagsType'
  BY <1>0, <1>3 DEF FlagsType
<1>8. Course' /\ Errors'
  BY <1>0, <1>2 DEF Course, Errors, AtPort, AtCpu, Working
<1>9. Selected'
  BY <1>0, <1>1, <1>2 DEF Selected, Reselected, Course
<1>10. Order' /\ Clean' /\ Untouched'
  BY <1>0 DEF Order, Clean, Untouched, Same, CpuAps, Aps, HasCpu, V7, AtPort, AtCpu, Working
<1>11. Found'
  <2> SUFFICES ASSUME Undisturbed, sent > 0 \/ pc = "select" PROVE Found'
    BY <1>0, FoundFrame DEF Found, Undisturbed, Aps, Ahb, AtPort, AtCpu
  <2> QED
    BY <1>0, FoundFrame DEF Found, AtPort, AtCpu
<1> QED
  BY <1>4, <1>5, <1>6, <1>7, <1>8, <1>9, <1>10, <1>11

-----------------------------------------------------------------------------

LEMMA StepIInv == IInv /\ [Next]_vars => IInv'
<1> SUFFICES ASSUME IInv, [Next]_vars PROVE IInv'
  OBVIOUS
<1>1. CASE Handler
  BY <1>1, DapStep, EnumV2Step, EnumV1Step, MemapStep, CpuidStep, DemcrStep, WptStep, BptStep, FpuStep,
     ListedStep, FinishStep, ReplyStep, SelectCoreStep DEF Handler
<1>2. CASE Attach
  BY <1>2, AttachStep
<1>3. CASE pc = "idle" /\ SelectCore
  BY <1>3, SelectCoreStep
<1>4. CASE UNCHANGED vars
  <2>0. UNCHANGED <<target, probe, host, history>> /\ UNCHANGED <<kind, demcr, wpt, bpt, cpacr>>
        /\ UNCHANGED <<multi, pc, sel, info, apIdx, s, found, err, lastCpuErr, cores, error>>
        /\ UNCHANGED <<listed, cur, sent, faulted, lost, was>>
    BY <1>4 DEF vars, target, probe, host, history
  <2> USE DEF IInv
  <2>1. TargetType' /\ Shape' /\ ListsType'
    BY <2>0, TargetFrame, ShapeFrame, ListsFrame
  <2>2. LocalsType' /\ FlagsType'
    BY <2>0 DEF LocalsType, FlagsType
  <2>3. Course' /\ Errors' /\ Selected'
    BY <2>0 DEF Course, Errors, Selected, Behind, OnlyCorePassed, Aps, Room
  <2>4. Order' /\ Clean' /\ Untouched'
    BY <2>0 DEF Order, Clean, Untouched, Same, CpuAps, Aps, HasCpu, V7
  <2>5. Found'
    <3> SUFFICES ASSUME Undisturbed PROVE Found'
      BY <2>0 DEF Found, Undisturbed, Aps, Ahb
    <3>1. (LastAhb(apIdx))' = LastAhb(apIdx) /\ (Ahb(apIdx))' = Ahb(apIdx)
          /\ (Told(apIdx))' = Told(apIdx) /\ (V7(apIdx))' = V7(apIdx)
      BY <2>0 DEF LastAhb, Ahb, Aps, Told, V7
    <3> QED
      BY <2>0, <3>1, FoundFrame DEF Found
  <2> QED
    BY <2>1, <2>2, <2>3, <2>4, <2>5
<1> QED
  BY <1>1, <1>2, <1>3, <1>4 DEF Next

THEOREM Inductive == Spec => []IInv
<1> QED
  BY InitIInv, StepIInv, PTL DEF Spec

(* A reply to ATTACH names cores or an error, never both and never neither,   *)
(* whatever failed and however the loop ended (main.c:275).                  *)
THEOREM RepliesParse == Spec => []ReplyParses
<1>1. IInv => ReplyParses
  BY DEF IInv, ReplyParses, TypeOK, TargetType, LocalsType, FlagsType, ListsType, Errors,
     Working, AtPort, AtCpu
<1> QED
  BY <1>1, Inductive, PTL

(* When nothing fails the host is told of exactly the CPUs that are there, in *)
(* order, as many as a reply holds, on a target of any size (swd.c:120).     *)
THEOREM CoresFound == Spec => []AllCoresListed
<1>1. IInv => AllCoresListed
  BY DEF IInv, Course, Order, Found, AllCoresListed
<1> QED
  BY <1>1, Inductive, PTL

(* A core that is reported has debug enabled, no comparator of an earlier     *)
(* session on, and its FPU access as it was (cortexInit, cortex.c:55).       *)
THEOREM CoresClean == Spec => []LeftClean
<1>1. IInv => LeftClean
  <2> SUFFICES ASSUME IInv PROVE LeftClean
    OBVIOUS
  <2>1. listed = cores \/ listed = <<>>
    BY DEF IInv, Course
  <2>2. CASE listed = <<>>
    BY <2>2, NoPorts DEF LeftClean, Cleared, CpacrRestored
  <2>3. CASE listed = cores
    BY <2>3 DEF IInv, Clean, Untouched, Same, Ports, LeftClean, Cleared, CpacrRestored
  <2> QED
    BY <2>1, <2>2, <2>3
<1> QED
  BY <1>1, Inductive, PTL

(* The core the host takes for the current one is the one its reads and       *)
(* writes reach (main.c:319, memap.c:36, tool/cpu.c:628), but for the only    *)
(* core of a multicore reply that another port follows (OnlyCorePassed).     *)
THEOREM CurrentSelected == Spec => []SelectedIsCurrent
<1>1. IInv => SelectedIsCurrent
  <2> SUFFICES ASSUME IInv, pc = "idle", cur # 0, ~ lost
               PROVE  \/ sel = listed[cur].ap /\ info = listed[cur].info
                      \/ OnlyCorePassed
    BY DEF SelectedIsCurrent
  <2>1. listed = cores /\ cur \in 0 .. Len(cores) /\ Len(cores) \in Nat
    BY DEF IInv, Course, ListsType, Shape
  <2>2. CASE multi
    BY <2>1, <2>2 DEF IInv, Selected
  <2>3. CASE ~ multi
    <3>1. cur = 1 /\ cores # <<>>
      BY <2>1, <2>3, NoPorts DEF IInv, Course
    <3> QED
      BY <2>1, <2>3, <3>1 DEF IInv, Selected
  <2> QED
    BY <2>2, <2>3
<1> QED
  BY <1>1, Inductive, PTL
==============================================================================
