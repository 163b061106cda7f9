-------------------------------- MODULE Attach --------------------------------
(* Attaching to a target: the probe's ATTACH and SELECT_CPU commands (main.c) *)
(* with what they call in swd.c, memap.c and cortex.c, and the host's         *)
(* cpuAttach and cpuSelectCore (tool/cpu.c).  The target is a row of access   *)
(* ports, each with a CPU behind it or without; any access to it may fail.    *)
EXTENDS Naturals, Sequences, FiniteSetsExt

CONSTANTS MaxAps,    (* access ports of the largest target                    *)
          MaxCores,  (* SWD_COMMS_MAX_CORES                                   *)
          Low,       (* breakpoints the low field of FBP_CTRL counts up to    *)
          MaxAttach, (* attach commands sent: a bound of the model            *)
          Kinds      (* kinds of access port                                  *)

AllKinds == {"v6", "v7", "v7f", "bare", "be", "other"}

(* The enumeration of 256 ports ends at the first that does not exist.        *)
ASSUME AttachAssumption == /\ {MaxAps, MaxAttach} \subseteq Nat
                           /\ MaxCores \in Nat \ {0} /\ Low \in Nat \ {0, 1}
                           /\ Kinds \subseteq AllKinds

VARIABLES
  kind,    (* the target: the kind of every access port                       *)
  demcr,   (* ports whose CPU has debug enabled                               *)
  wpt,     (* watchpoints that are on, for every port                         *)
  bpt,     (* breakpoints that are on                                         *)
  cpacr,   (* ports whose CPU has its FPU enabled                             *)
  multi,   (* platGetFlags() & SWD_FLAG_MULTICORE_SUPPORT                     *)
  pc,      (* where the command handler is                                    *)
  sel,     (* the access port the DP has selected                             *)
  info,    (* mInfo                                                           *)
  apIdx, s, found, err, lastCpuErr,  (* the handler's locals; s: ahbEnumState *)
  cores, error,                      (* the reply                             *)
  listed, cur,                       (* the host's struct Cpu                 *)
  sent,    (* attach commands sent                                            *)
  faulted, (* history: an access of this attach failed that the target served *)
  lost,    (* history: the last selection did not reach the target            *)
  was      (* history: cpacr when this attach began                           *)

target == <<kind, demcr, wpt, bpt, cpacr>>
probe == <<multi, pc, sel, info, apIdx, s, found, err, lastCpuErr, cores, error>>
host == <<listed, cur, sent>>
history == <<faulted, lost, was>>
vars == <<target, probe, host, history>>

Aps == DOMAIN kind
Ahb(i) == kind[i] # "other"
V7(i) == kind[i] \in {"v7", "v7f"}
HasCpu(i) == V7(i) \/ kind[i] = "v6"
Wpts == {0}
Bpts(i) == IF V7(i) THEN 0 .. Low ELSE IF HasCpu(i) THEN {0} ELSE {}
Plain == [isV7 |-> FALSE, haveFpu |-> FALSE]
Infos == [isV7 : BOOLEAN, haveFpu : BOOLEAN]

OK == "OK"
NoError == <<"SWD", OK>>    \* ERR_FLAG_TYPE_SWD is 0

-----------------------------------------------------------------------------
(* Steps of the handler.  Each is one function of swd.c or memap.c, or a      *)
(* stage of cortexInit; an access that fails ends it early.                   *)

Dap == /\ pc = "dap"
       /\ \/ /\ err' = OK /\ sel' = 0
             /\ pc' = "enum"
             /\ UNCHANGED <<error, faulted>>
          \/ /\ err' = "DAP" /\ sel' \in {sel, 0}
             /\ error' = <<"SWD", err'>>
             /\ faulted' = TRUE
             /\ pc' = "reply"
       /\ UNCHANGED <<target, multi, info, apIdx, s, found, lastCpuErr, cores,
                      host, lost, was>>

(* swdAttachAndEnumApsWithAhbs looks at the ports from 0 again each time.     *)
NextAhbAgain == {i \in Aps : Ahb(i) /\ i + 1 >= s}   \* mutant: does not move on
NextAhb == {i \in Aps : Ahb(i) /\ i + 1 > s}
LastPort == IF NextAhb = {} THEN Cardinality(Aps) ELSE Min(NextAhb)
NextAhbFound == /\ NextAhb # {}
                /\ s' = LastPort + 1
                /\ sel' = LastPort
                /\ apIdx' = LastPort
                /\ found' = TRUE
                /\ UNCHANGED faulted
NoAhbLeft == /\ NextAhb = {}
             /\ sel' = LastPort
             /\ UNCHANGED <<s, apIdx, found, faulted>>
EnumFails == /\ sel' \in 0 .. LastPort
             /\ faulted' = TRUE
             /\ UNCHANGED <<s, apIdx, found>>

Room == Len(cores) < MaxCores
EnumV2 == /\ pc = "enum" /\ multi
          /\ \/ /\ ~ Room
                /\ pc' = "finish"
                /\ UNCHANGED <<sel, apIdx, s, found, err, faulted>>
             \/ /\ Room
                /\ \/ NextAhbFound /\ err' = OK /\ pc' = "memap"
                   \/ NoAhbLeft /\ err' = "NoAhb" /\ pc' = "finish"
                   \/ EnumFails /\ err' = "RegFail" /\ pc' = "finish"
          /\ UNCHANGED <<target, multi, info, lastCpuErr, cores, error, host, lost, was>>

(* The loop of the old reply does not keep the result: err is still OK.       *)
EnumV1 == /\ pc = "enum" /\ ~ multi
          /\ \/ NextAhbFound /\ pc' = "enum"
             \/ (NoAhbLeft \/ EnumFails) /\ pc' = "memap"
          /\ UNCHANGED <<target, multi, info, err, lastCpuErr, cores, error, host, lost, was>>

(* memapInit: a port that is no MEM-AP, or none at all, gives any result.     *)
MemapGood(i) == i \in Aps => kind[i] # "be"
MemapFault(i) == i \in Aps => kind[i] \notin {"be", "other"}
Memap == /\ pc = "memap"
         /\ \/ /\ apIdx \in Aps /\ MemapGood(apIdx)
               /\ sel' = apIdx
               /\ err' = OK
               /\ pc' = "cpuid"
               /\ UNCHANGED <<cores, error, faulted>>
            \/ /\ sel' \in {sel, apIdx}
               /\ err' = "MEMAP"
               /\ faulted' = (faulted \/ (apIdx \in Aps /\ MemapFault(apIdx)))
               /\ error' = <<"MEMAP", err'>>
               /\ cores' = <<>>
               /\ pc' = IF multi THEN "finish" ELSE "reply"
         /\ UNCHANGED <<target, multi, info, apIdx, s, found, lastCpuErr, host, lost, was>>

(* A CPUID that cannot be read is no error: the CPU is taken for a small one. *)
Cpuid == /\ pc = "cpuid"
         /\ \/ /\ info' = [Plain EXCEPT !.isV7 = V7(apIdx)]
               /\ UNCHANGED faulted
            \/ info' = Plain /\ faulted' = TRUE
         /\ pc' = "demcr"
         /\ UNCHANGED <<target, multi, sel, apIdx, s, found, err, lastCpuErr, cores, error,
                        host, lost, was>>

CpuFails(e) == /\ IF multi THEN lastCpuErr' = e /\ pc' = "enum" /\ UNCHANGED <<err, error>>
                           ELSE /\ err' = e /\ error' = <<"CORTEX", e>> /\ pc' = "reply"
                                /\ UNCHANGED lastCpuErr
               /\ faulted' = (faulted \/ HasCpu(apIdx))
               /\ UNCHANGED <<info, cores>>

Demcr == /\ pc = "demcr"
         /\ \/ /\ HasCpu(apIdx)
               /\ demcr' = demcr \cup {apIdx}
               /\ pc' = "wpt"
               /\ UNCHANGED <<info, err, lastCpuErr, cores, error, faulted>>
            \/ /\ demcr' \in {demcr, IF HasCpu(apIdx) THEN demcr \cup {apIdx} ELSE demcr}
               /\ CpuFails("Demcr")
         /\ UNCHANGED <<kind, wpt, bpt, cpacr, multi, sel, apIdx, s, found, host, lost, was>>

(* Comparators go off one by one; a failure leaves those that follow.         *)
OffUpTo(on, n) == {k \in on : k >= n}
Wpt == /\ pc = "wpt"
       /\ \/ /\ wpt' = [wpt EXCEPT ![apIdx] = {}]
             /\ pc' = "bpt"
             /\ UNCHANGED <<info, err, lastCpuErr, cores, error, faulted>>
          \/ /\ wpt' = wpt \/ wpt' = [wpt EXCEPT ![apIdx] = {}]
             /\ CpuFails("Wpt")
       /\ UNCHANGED <<kind, demcr, bpt, cpacr, multi, sel, apIdx, s, found, host, lost, was>>

(* FBP_CTRL counts its comparators in two fields; the high one exists on v7.  *)
Counted == IF info.isV7 THEN Cardinality(Bpts(apIdx)) ELSE Cardinality(Bpts(apIdx)) % Low
Bpt == /\ pc = "bpt"
       /\ \/ /\ bpt' = [bpt EXCEPT ![apIdx] = OffUpTo(@, Counted)]
             /\ pc' = IF info.isV7 THEN "fpu" ELSE "cpu"
             /\ UNCHANGED <<info, err, lastCpuErr, cores, error, faulted>>
          \/ /\ \E n \in 0 .. Counted : bpt' = [bpt EXCEPT ![apIdx] = OffUpTo(@, n)]
             /\ CpuFails("Bpt")
       /\ UNCHANGED <<kind, demcr, wpt, cpacr, multi, sel, apIdx, s, found, host, lost, was>>

(* The FPU is there if CPACR's bits can be set; CPACR is then put back.       *)
LeftOpen == IF kind[apIdx] = "v7f" THEN cpacr \cup {apIdx} ELSE cpacr
PutBack == cpacr
Fpu == /\ pc = "fpu"
       /\ \/ /\ info' = [info EXCEPT !.haveFpu = (kind[apIdx] = "v7f")]
             /\ cpacr' = PutBack
             /\ pc' = "cpu"
             /\ UNCHANGED <<err, lastCpuErr, cores, error, faulted>>
          \/ /\ cpacr' \in {cpacr, LeftOpen}
             /\ CpuFails("Fpu")
       /\ UNCHANGED <<kind, demcr, wpt, bpt, multi, sel, apIdx, s, found, host, lost, was>>

CoreOld == [ap |-> apIdx, info |-> [info EXCEPT !.haveFpu = FALSE]] \* mutant: saved too early
Core == [ap |-> apIdx, info |-> info]
Listed == /\ pc = "cpu"
          /\ cores' = Append(cores, Core)
          /\ IF multi THEN pc' = "enum" /\ lastCpuErr' = OK
                      ELSE pc' = "reply" /\ UNCHANGED lastCpuErr
          /\ UNCHANGED <<target, multi, sel, info, apIdx, s, found, err, error, host, history>>

(* memapReselect says TRUE whatever becomes of the write.                     *)
ReselectedNever(ap) == sel' = sel /\ lost' = FALSE          \* mutant: forgets to reselect
Reselected(ap) == \/ sel' = ap /\ lost' = FALSE
                  \/ sel' = sel /\ lost' = TRUE
CoreErrorSwd == <<"SWD", lastCpuErr>>                       \* mutant: the wrong result
CoreError == IF lastCpuErr # OK THEN <<"CORTEX", lastCpuErr>> ELSE <<"SWD", err>>
Finish == /\ pc = "finish"
          /\ Reselected(apIdx)
          /\ error' = IF cores = <<>> THEN CoreError ELSE error
          /\ pc' = "reply"
          /\ UNCHANGED <<target, multi, info, apIdx, s, found, err, lastCpuErr, cores,
                         host, faulted, was>>

-----------------------------------------------------------------------------
(* The host. *)

Attach == /\ pc = "idle" /\ sent < MaxAttach
          /\ sent' = sent + 1
          /\ pc' = "dap"
          /\ apIdx' = 0 /\ s' = 0 /\ found' = FALSE
          /\ err' = OK /\ lastCpuErr' = OK
          /\ cores' = <<>> /\ error' = NoError
          /\ listed' = <<>> /\ cur' = 0
          /\ faulted' = FALSE /\ lost' = FALSE /\ was' = cpacr
          /\ UNCHANGED <<target, multi, sel, info>>

(* cpuAttach: curCore of several is no core until one is selected.            *)
Reply == /\ pc = "reply"
         /\ listed' = cores
         /\ cur' = IF Len(cores) = 1 THEN 1 ELSE 0
         /\ pc' = IF Len(cores) > 1 THEN "select" ELSE "idle"
         /\ UNCHANGED <<target, multi, sel, info, apIdx, s, found, err, lastCpuErr, cores, error,
                        sent, history>>

(* cpuSelectCore.  When its answer does not come the host keeps curCore.      *)
SelectCore == /\ multi
              /\ \E k \in 1 .. Len(listed) :
                   /\ pc = "select" => k = 1
                   /\ \/ /\ Reselected(listed[k].ap)
                         /\ info' = listed[k].info
                         /\ cur' = k
                      \/ /\ sel' \in {sel, listed[k].ap}
                         /\ info' \in {info, listed[k].info}
                         /\ lost' = TRUE
                         /\ UNCHANGED cur
              /\ pc' = "idle"
              /\ UNCHANGED <<target, multi, apIdx, s, found, err, lastCpuErr, cores, error,
                             listed, sent, faulted, was>>

-----------------------------------------------------------------------------

Handler == \/ Dap \/ EnumV2 \/ EnumV1 \/ Memap \/ Cpuid \/ Demcr \/ Wpt \/ Bpt \/ Fpu
           \/ Listed \/ Finish \/ Reply \/ (pc = "select" /\ SelectCore)

Init == /\ kind \in UNION {[0 .. n - 1 -> Kinds] : n \in 0 .. MaxAps}
        /\ demcr = {} /\ cpacr = {}
        /\ wpt = [i \in Aps |-> Wpts]
        /\ bpt = [i \in Aps |-> Bpts(i)]
        /\ multi \in BOOLEAN
        /\ pc = "idle" /\ sel = 0 /\ info = Plain
        /\ apIdx = 0 /\ s = 0 /\ found = FALSE /\ err = OK /\ lastCpuErr = OK
        /\ cores = <<>> /\ error = NoError
        /\ listed = <<>> /\ cur = 0 /\ sent = 0
        /\ faulted = FALSE /\ lost = FALSE /\ was = {}

Next == Handler \/ Attach \/ (pc = "idle" /\ SelectCore)

Spec == Init /\ [][Next]_vars
FairSpec == Spec /\ WF_vars(Handler)

-----------------------------------------------------------------------------
(* Properties. *)

TypeOK ==
  /\ demcr \subseteq Aps /\ cpacr \subseteq Aps /\ was \subseteq Aps
  /\ \A i \in Aps : wpt[i] \subseteq Wpts /\ bpt[i] \subseteq Bpts(i)
  /\ pc \in {"idle", "dap", "enum", "memap", "cpuid", "demcr", "wpt", "bpt", "fpu",
            "cpu", "finish", "reply", "select"}
  /\ sel \in 0 .. MaxAps /\ apIdx \in 0 .. MaxAps /\ s \in 0 .. MaxAps
  /\ info \in Infos /\ {multi, found, faulted, lost} \subseteq BOOLEAN
  /\ Len(cores) <= MaxCores
  /\ \A k \in DOMAIN cores : cores[k].ap \in Aps /\ cores[k].info \in Infos
  /\ listed \in {cores, <<>>} /\ cur \in 0 .. Len(listed)

(* The reply names cores or an error, never both and never neither: cpuAttach *)
(* refuses any other (tool/cpu.c:141).  An error code of the SWD type alone   *)
(* is 0, so a result that is OK must not get there.                           *)
ReplyParses == TypeOK /\ (pc = "reply" => (cores = <<>> <=> error # NoError))

(* Without a failed access the host learns of exactly the CPUs the target     *)
(* has, in the order of their ports, as many as a reply holds, with what they *)
(* are; the old reply has room for the one behind the last AHB port.          *)
CpuAps == {i \in Aps : HasCpu(i)}
LastAhb(i) == Ahb(i) /\ \A j \in Aps : Ahb(j) => j <= i
Told(i) == [ap |-> i, info |-> [isV7 |-> V7(i), haveFpu |-> kind[i] = "v7f"]]
Ports(list) == {list[k].ap : k \in DOMAIN list}
Ascending(list) == \A j, k \in DOMAIN list : j < k => list[j].ap < list[k].ap
TellsTrue(list) == \A k \in DOMAIN list : list[k] = Told(list[k].ap)
Complete(list) ==
  IF multi
  THEN /\ Ports(list) \subseteq CpuAps
       /\ \/ CpuAps \subseteq Ports(list)
          \/ /\ Len(list) = MaxCores
             /\ \A i \in CpuAps \ Ports(list), j \in Ports(list) : j < i
  ELSE Ports(list) = {i \in CpuAps : LastAhb(i)}

Undisturbed == /\ ~ faulted
               /\ \A i \in Aps : kind[i] # "be"
               /\ \E i \in Aps : Ahb(i)
AllCoresListed ==
  (pc = "idle" /\ sent > 0 /\ Undisturbed) =>
    Ascending(listed) /\ TellsTrue(listed) /\ Complete(listed)

(* A core the host is told of can be halted and nothing a former session left *)
(* in it will stop it, whatever failed on the way: only a CPUID that could    *)
(* not be read leaves breakpoints, those the high field counts.               *)
Cleared == \A k \in DOMAIN listed :
             LET i == listed[k].ap
             IN /\ i \in demcr /\ wpt[i] = {}
                /\ listed[k].info.isV7 = V7(i) => bpt[i] = {}

(* The search for an FPU leaves the core as it was, for the program in it may *)
(* rely on the access being off.                                              *)
CpacrRestored == \A k \in DOMAIN listed : listed[k].ap \in cpacr <=> listed[k].ap \in was

(* What attaching leaves in a core it reports (cortexInit): nothing of an     *)
(* earlier session, and nothing of its own.                                   *)
LeftClean == Cleared /\ CpacrRestored

(* What the host reads and writes goes to the core it takes for the current   *)
(* one, unless a selection was lost on the way.  There is one exception: of a *)
(* reply that lists several ports' only core the host selects none, and the   *)
(* probe has selected the last port it looked at, which may lie behind it.    *)
OnlyCorePassed == multi /\ Len(listed) = 1 /\ listed[1].ap < apIdx /\ sel = apIdx
SelectedIsCurrent ==
  (pc = "idle" /\ cur # 0 /\ ~ lost) =>
    \/ sel = listed[cur].ap /\ info = listed[cur].info
    \/ OnlyCorePassed

(* "the only core is always already selected" (tool/cpu.c:285): no more than  *)
(* that, and only of an attach on the way of which nothing failed.           *)
OnlyCoreSelected ==
  (pc = "idle" /\ Len(listed) = 1 /\ ~ faulted /\ ~ lost) => sel = listed[1].ap

(* An attach command is answered whatever the target looks like.              *)
AttachEnds == pc # "idle" ~> pc = "idle"
==============================================================================
