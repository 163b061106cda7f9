--------------------------- MODULE UsbLinkProofs ---------------------------
(***************************************************************************)
(* Proofs about the link between tool and firmware, for every number of    *)
(* cores, words, calls, sends and lost packets, and for answers that come  *)
(* at any time.                                                             *)
(***************************************************************************)
EXTENDS UsbLink, FiniteSetTheorems, FunctionTheorems, SequenceTheorems, TLAPS

LEMMA Sizes ==
  /\ NumWords \in Nat \ {0} /\ XferWords \in Nat \ {0} /\ Queue \in Nat \ {0}
  /\ MaxTries \in Nat \ {0} /\ MaxCalls \in Nat /\ MaxLost \in Nat
BY UsbLinkAssumption

USE Sizes DEF Addr, Cmds, MemCmds, RunCmds

-----------------------------------------------------------------------------
(* Counting the answers of successful steps in a pipe                       *)

LEMMA UnseenFinite ==
  ASSUME NEW S, NEW q \in Seq(S)
  PROVE  IsFiniteSet(Unseen(q)) /\ Cardinality(Unseen(q)) \in Nat
<1>1. Len(q) \in Nat /\ Unseen(q) \subseteq 1 .. Len(q)
  BY DEF Unseen
<1>2. IsFiniteSet(1 .. Len(q))
  BY <1>1, FS_Interval
<1>3. QED
  BY <1>1, <1>2, FS_Subset, FS_CardinalityType

LEMMA UnseenEmpty == Cardinality(Unseen(<<>>)) = 0
<1>1. Unseen(<<>>) = {}
  BY DEF Unseen
<1>2. QED
  BY <1>1, FS_EmptySet

\* One more answer at the end of the pipe.
LEMMA UnseenAppend ==
  ASSUME NEW S, NEW q \in Seq(S), NEW m \in S
  PROVE  Cardinality(Unseen(Append(q, m)))
           = Cardinality(Unseen(q)) + (IF Stepped(m) THEN 1 ELSE 0)
<1> DEFINE n == Len(q) + 1
<1>1. /\ Len(q) \in Nat /\ Len(Append(q, m)) = n
      /\ Append(q, m)[n] = m
      /\ \A i \in 1 .. Len(q) : Append(q, m)[i] = q[i]
  OBVIOUS
<1>2. /\ Stepped(m) => Unseen(Append(q, m)) = Unseen(q) \cup {n}
      /\ ~Stepped(m) => Unseen(Append(q, m)) = Unseen(q)
  BY <1>1 DEF Unseen
<1>3. n \notin Unseen(q)
  BY <1>1 DEF Unseen
<1>4. IsFiniteSet(Unseen(q)) /\ Cardinality(Unseen(q)) \in Nat
  BY UnseenFinite
<1>5. CASE Stepped(m)
  BY <1>2, <1>3, <1>4, <1>5, FS_AddElement
<1>6. CASE ~Stepped(m)
  BY <1>2, <1>4, <1>6
<1>7. QED
  BY <1>5, <1>6

\* The answer at the head is taken.
LEMMA UnseenTail ==
  ASSUME NEW S, NEW q \in Seq(S), q # <<>>
  PROVE  Cardinality(Unseen(Tail(q)))
           = Cardinality(Unseen(q)) - (IF Stepped(Head(q)) THEN 1 ELSE 0)
<1> DEFINE rest == Unseen(q) \ {1}
           f == [i \in Unseen(Tail(q)) |-> i + 1]
<1>1. /\ Len(q) \in Nat \ {0} /\ Len(Tail(q)) = Len(q) - 1 /\ Head(q) = q[1]
      /\ \A i \in 1 .. Len(q) - 1 : Tail(q)[i] = q[i + 1]
      /\ Tail(q) \in Seq(S)
  OBVIOUS
<1>2. IsFiniteSet(Unseen(q)) /\ IsFiniteSet(Unseen(Tail(q)))
  BY <1>1, UnseenFinite
<1>3. f \in Bijection(Unseen(Tail(q)), rest)
  <2>1. Unseen(Tail(q)) \subseteq Int /\ f \in [Unseen(Tail(q)) -> rest]
    BY <1>1 DEF Unseen
  <2>2. \A i \in rest : i - 1 \in Unseen(Tail(q)) /\ f[i - 1] = i
    BY <1>1 DEF Unseen
  <2>3. \A i, j \in Unseen(Tail(q)) : f[i] = f[j] => i = j
    BY <2>1
  <2>4. QED
    BY <2>1, <2>2, <2>3, Fun_IsBij
<1>4. Cardinality(Unseen(Tail(q))) = Cardinality(rest)
  BY <1>2, <1>3, FS_Bijection DEF ExistsBijection
<1>5. 1 \in Unseen(q) <=> Stepped(Head(q))
  BY <1>1 DEF Unseen
<1>6. Cardinality(Unseen(q)) \in Nat
  BY UnseenFinite
<1>7. Cardinality(rest) = IF 1 \in Unseen(q) THEN Cardinality(Unseen(q)) - 1
                                              ELSE Cardinality(Unseen(q))
  BY <1>2, FS_RemoveElement
<1>8. QED
  BY <1>4, <1>5, <1>6, <1>7

\* An answer is damaged.
LEMMA UnseenGarbled ==
  ASSUME NEW S, NEW q \in Seq(S), q # <<>>, NEW d \in Damaged,
         NEW g, g = [q EXCEPT ![1] = d]
  PROVE  Cardinality(Unseen(g)) <= Cardinality(Unseen(q))
<1>1. Len(q) \in Nat /\ Len(g) = Len(q) /\ g[1] = d
      /\ \A i \in 2 .. Len(q) : g[i] = q[i]
  OBVIOUS
<1>2. ~Stepped(d)
  BY DEF Damaged, Stepped
<1>3. Unseen(g) \subseteq Unseen(q)
  BY <1>1, <1>2 DEF Unseen
<1>4. IsFiniteSet(Unseen(q))
  BY UnseenFinite
<1>5. QED
  BY <1>3, <1>4, FS_Subset

-----------------------------------------------------------------------------
(* The parts of the invariant                                               *)

GoodRequest(m) ==
  /\ m.addr + m.n <= NumWords
  /\ m.cmd = "WRITE" => Len(m.words) = m.n /\ Serves(m.words, m.addr)

GoodRequests == {m \in Requests : GoodRequest(m)}
GoodReplies == {m \in Replies : Serves(m.words, m.addr)}

PipeInv == toDev \in Seq(GoodRequests) /\ toHost \in Seq(GoodReplies)

DevInv ==
  /\ mem \in [Cores \X Addr -> Words] /\ devCore \in Cores
  /\ since \in [Cores \X Addr -> SUBSET Words]
  /\ \A l \in Cores \X Addr : mem[l][2] = l[2]

CallInv ==
  /\ cmd \in Cmds /\ ver \in Versions \cup {0} /\ core \in Cores /\ ack \in BOOLEAN
  /\ from \in Addr /\ late \in BOOLEAN
  /\ pc \in {"idle", "send", "await", "spin", "runt"} /\ tries \in 0 .. MaxTries
  /\ base \in Nat /\ left \in Nat /\ base + left <= NumWords
  /\ pc # "idle" => base \in Addr
  /\ ret \in {"none", "ok", "err"}
  /\ curCore \in Cores /\ alive \in BOOLEAN
  /\ calls \in 0 .. MaxCalls /\ lost \in 0 .. MaxLost

OutInv ==
  /\ out \in Seq(Words)
  /\ cmd = "READ" => Len(out) = base - from /\ Serves(out, from)

StepInv ==
  /\ ran \in [RunCmds -> Nat] /\ oks \in [RunCmds -> Nat]
  /\ oks["STEP"] + Cardinality(Unseen(toHost)) <= ran["STEP"]

LEMMA Parts == IInv <=> PipeInv /\ DevInv /\ CallInv /\ OutInv /\ StepInv
<1>2. \A q : q \in Seq(GoodRequests)
               <=> q \in Seq(Requests) /\ \A i \in 1 .. Len(q) : GoodRequest(q[i])
  <2>1. ASSUME NEW q \in Seq(Requests), \A i \in 1 .. Len(q) : GoodRequest(q[i])
        PROVE  q \in Seq(GoodRequests)
    BY <2>1 DEF GoodRequests
  <2>2. ASSUME NEW q \in Seq(GoodRequests)
        PROVE  q \in Seq(Requests) /\ \A i \in 1 .. Len(q) : GoodRequest(q[i])
    BY <2>2 DEF GoodRequests
  <2>3. QED
    BY <2>1, <2>2
<1>3. \A q : q \in Seq(GoodReplies)
               <=> /\ q \in Seq(Replies)
                   /\ \A i \in 1 .. Len(q) : Serves(q[i].words, q[i].addr)
  <2>1. ASSUME NEW q \in Seq(Replies),
               \A i \in 1 .. Len(q) : Serves(q[i].words, q[i].addr)
        PROVE  q \in Seq(GoodReplies)
    BY <2>1 DEF GoodReplies
  <2>2. ASSUME NEW q \in Seq(GoodReplies)
        PROVE  /\ q \in Seq(Replies)
               /\ \A i \in 1 .. Len(q) : Serves(q[i].words, q[i].addr)
    BY <2>2 DEF GoodReplies
  <2>3. QED
    BY <2>1, <2>2
<1>4. mem \in [Cores \X Addr -> Words] => DOMAIN mem = Cores \X Addr
  OBVIOUS
<1>5. QED
  BY <1>2, <1>3, <1>4, Zenon
     DEF IInv, TypeOK, PipeInv, DevInv, CallInv, OutInv, StepInv, GoodRequest

-----------------------------------------------------------------------------
(* The tool                                                                 *)

LEMMA NowBounds ==
  ASSUME CallInv
  PROVE  Now \in 0 .. left /\ base + Now <= NumWords
BY DEF CallInv, Now

LEMMA RequestGood ==
  ASSUME CallInv, pc = "send"
  PROVE  Request \in GoodRequests
<1> DEFINE ws == [i \in 1 .. Now |-> <<curCore, base + i - 1, ver>>]
<1>1. Now \in Nat /\ base \in Addr /\ base + Now <= NumWords /\ Now <= NumWords
  BY NowBounds DEF CallInv
<1>2. /\ ws \in Seq(Words) /\ Len(ws) = Now
      /\ \A i \in 1 .. Len(ws) : ws[i][2] = base + i - 1
  <2>1. \A i \in 1 .. Now : <<curCore, base + i - 1, ver>> \in Words
    BY <1>1 DEF CallInv, Words
  <2>2. QED
    BY <1>1, <2>1
<1>3. <<>> \in Seq(Words) /\ WantsReply \in BOOLEAN
  BY DEF WantsReply, CallInv
<1> HIDE DEF ws
<1>4. Request = [cmd |-> cmd, addr |-> base, n |-> Now, core |-> core,
                 reply |-> WantsReply, words |-> IF cmd = "WRITE" THEN ws ELSE <<>>]
  BY DEF Request, ws
<1>5. Request \in Requests
  BY <1>1, <1>2, <1>3, <1>4 DEF Requests, CallInv
<1>6. GoodRequest(Request)
  BY <1>1, <1>2, <1>4 DEF GoodRequest, Serves
<1>7. QED
  BY <1>5, <1>6 DEF GoodRequests

LEMMA InsideMemory ==
  ASSUME NEW b \in Nat, NEW n \in Nat, b + n <= NumWords
  PROVE  n > 0 => b \in Addr
OBVIOUS

\* A packet of a memory transfer is done.
LEMMA PacketDoneStep ==
  ASSUME CallInv, pc # "idle", cmd \in MemCmds, PacketDone
  PROVE  /\ base' = base + Now
         /\ base' \in Nat /\ left' \in Nat /\ base' + left' <= NumWords
         /\ pc' \in {"idle", "send"} /\ (pc' # "idle" => base' \in Addr)
         /\ tries' \in 0 .. MaxTries /\ ret' \in {"none", "ok", "err"}
         /\ oks' = oks
<1>1. Now \in 0 .. left /\ base \in Nat /\ left \in Nat /\ base + left <= NumWords
  BY NowBounds DEF CallInv
<1>2. base' = base + Now /\ left' = left - Now
  BY DEF PacketDone
<1>3. base' \in Nat /\ left' \in Nat /\ base' + left' <= NumWords
  BY <1>1, <1>2
<1>4. left' > 0 => base' \in Addr
  BY <1>3, InsideMemory
<1>5. QED
  BY <1>2, <1>3, <1>4 DEF PacketDone, Begin, Return, CallInv

LEMMA FailStep ==
  ASSUME CallInv, Fail
  PROVE  /\ pc' = "idle" /\ ret' \in {"ok", "err"} /\ alive' \in BOOLEAN
         /\ UNCHANGED <<base, left, tries, out, curCore>>
         /\ \/ oks' = oks
            \/ oks' = [oks EXCEPT !["GO"] = @ + 1]
BY DEF CallInv, Fail, Return, OutcomeOfFailure

LEMMA HeadGood ==
  ASSUME PipeInv, toHost # <<>>
  PROVE  /\ Head(toHost) \in GoodReplies /\ Tail(toHost) \in Seq(GoodReplies)
BY DEF PipeInv

\* The cases of Receive.
LEMMA ReceiveCases ==
  ASSUME Receive, NEW m, m = Head(toHost)
  PROVE  /\ pc = "await" /\ toHost # <<>> /\ toHost' = Tail(toHost)
         /\ UNCHANGED <<device, toDev, call, since, ran, calls, lost>>
         /\ \/ pc' \in {"send", "spin", "runt"} /\ UNCHANGED <<base, left, tries, tool>>
            \/ Fail
            \/ Begin /\ UNCHANGED <<base, left, tool>>
            \/ /\ ~Refused(m) /\ ~Stale(m) /\ cmd \in MemCmds
               /\ out' = out \o m.words
               /\ PacketDone
               /\ UNCHANGED <<curCore, alive>>
            \/ /\ m.cmd = cmd /\ cmd \notin MemCmds
               /\ Return(IF m.ok \/ cmd = "TRACE" THEN "ok" ELSE "err")
               /\ curCore' = IF cmd = "SELECT" THEN core ELSE curCore
               /\ UNCHANGED <<base, left, tries, out, alive>>
BY Zenon DEF Receive

LEMMA SendCases ==
  ASSUME Send
  PROVE  /\ pc = "send" /\ tries > 0 /\ toDev' = Append(toDev, Request)
         /\ UNCHANGED <<device, toHost, call, curCore, alive, out, since, ran,
                        calls, lost>>
         /\ \/ pc' = "await" /\ tries' = tries - 1 /\ UNCHANGED <<base, left, ret, oks>>
            \/ cmd = "WRITE" /\ PacketDone
BY Zenon DEF Send, WantsReply

-----------------------------------------------------------------------------
(* A step of the tool                                                       *)

LEMMA SendStep ==
  ASSUME PipeInv, DevInv, CallInv, OutInv, StepInv, Send
  PROVE  PipeInv' /\ DevInv' /\ CallInv' /\ OutInv' /\ StepInv'
<1>1. PipeInv'
  <2>1. Request \in GoodRequests
    BY SendCases, RequestGood
  <2>2. QED
    BY <2>1, SendCases DEF PipeInv
<1>2. DevInv'
  BY SendCases DEF DevInv, device
<1>3. CASE pc' = "await" /\ tries' = tries - 1 /\ UNCHANGED <<base, left, ret, oks>>
  <2>1. CallInv'
    BY <1>3, SendCases DEF CallInv, call
  <2>2. OutInv' /\ StepInv'
    BY <1>3, SendCases DEF OutInv, StepInv, Serves, call
  <2>3. QED
    BY <1>1, <1>2, <2>1, <2>2
<1>4. CASE cmd = "WRITE" /\ PacketDone
  <2>1. CallInv'
    BY <1>4, SendCases, PacketDoneStep DEF CallInv, call
  <2>2. OutInv' /\ StepInv'
    BY <1>4, SendCases, PacketDoneStep DEF OutInv, StepInv, Serves, call
  <2>3. QED
    BY <1>1, <1>2, <2>1, <2>2
<1>5. QED
  BY <1>3, <1>4, SendCases

LEMMA GiveUpStep ==
  ASSUME PipeInv, DevInv, CallInv, OutInv, StepInv, GiveUp
  PROVE  PipeInv' /\ DevInv' /\ CallInv' /\ OutInv' /\ StepInv'
<1>1. /\ Fail
      /\ UNCHANGED <<device, toDev, toHost, call, since, ran, calls, lost>>
  BY Zenon DEF GiveUp
<1>2. PipeInv' /\ DevInv'
  BY <1>1 DEF PipeInv, DevInv, device
<1>3. CallInv'
  BY <1>1, FailStep DEF CallInv, call
<1>4. OutInv'
  <2>1. out' = out /\ base' = base /\ from' = from /\ cmd' = cmd
    BY <1>1, FailStep DEF call
  <2>2. QED
    BY <2>1 DEF OutInv, Serves
<1>5. StepInv'
  BY <1>1, FailStep DEF StepInv
<1>6. QED
  BY <1>2, <1>3, <1>4, <1>5

LEMMA TimeoutStep ==
  ASSUME PipeInv, DevInv, CallInv, OutInv, StepInv, Timeout
  PROVE  PipeInv' /\ DevInv' /\ CallInv' /\ OutInv' /\ StepInv'
<1>1. /\ pc = "await" /\ pc' = "send" /\ late' = (late \/ toDev # <<>>)
      /\ UNCHANGED <<device, toDev, toHost, cmd, ver, core, ack, from, base, left,
                     tries, tool, since, ran, calls, lost>>
  BY Zenon DEF Timeout
<1>2. PipeInv' /\ DevInv' /\ CallInv'
  BY <1>1 DEF PipeInv, DevInv, CallInv, device, tool
<1>3. OutInv' /\ StepInv'
  BY <1>1 DEF OutInv, StepInv, Serves, tool
<1>4. QED
  BY <1>2, <1>3

\* The words of a packet continue what was read.
LEMMA ServesMore ==
  ASSUME NEW ws \in Seq(Words), NEW more \in Seq(Words), NEW a \in Nat,
         Serves(ws, a), Serves(more, a + Len(ws))
  PROVE  /\ Serves(ws \o more, a) /\ ws \o more \in Seq(Words)
         /\ Len(ws \o more) = Len(ws) + Len(more)
<1>1. /\ Len(ws) \in Nat /\ Len(more) \in Nat
      /\ Len(ws \o more) = Len(ws) + Len(more) /\ ws \o more \in Seq(Words)
      /\ \A i \in 1 .. Len(ws) : (ws \o more)[i] = ws[i]
      /\ \A i \in Len(ws) + 1 .. Len(ws) + Len(more) : (ws \o more)[i] = more[i - Len(ws)]
  OBVIOUS
<1>2. ASSUME NEW i \in 1 .. Len(ws) + Len(more)
      PROVE  (ws \o more)[i][2] = a + i - 1
  <2>1. CASE i <= Len(ws)
    BY <1>1, <2>1 DEF Serves
  <2>2. CASE i > Len(ws)
    <3>1. i - Len(ws) \in 1 .. Len(more)
      BY <1>1, <2>2
    <3>2. more[i - Len(ws)][2] = a + Len(ws) + (i - Len(ws)) - 1
      BY <3>1 DEF Serves
    <3>3. QED
      BY <1>1, <2>2, <3>2
  <2>3. QED
    BY <1>1, <2>1, <2>2
<1>3. QED
  BY <1>1, <1>2 DEF Serves

LEMMA ReceiveStep ==
  ASSUME PipeInv, DevInv, CallInv, OutInv, StepInv, Receive
  PROVE  PipeInv' /\ DevInv' /\ CallInv' /\ OutInv' /\ StepInv'
<1> DEFINE m == Head(toHost)
<1>1. /\ pc = "await" /\ toHost # <<>> /\ toHost' = Tail(toHost)
      /\ UNCHANGED <<device, toDev, call, since, ran, calls, lost>>
  BY Zenon, ReceiveCases
<1>2. /\ m \in GoodReplies /\ m \in Replies /\ Tail(toHost) \in Seq(GoodReplies)
      /\ toHost \in Seq(GoodReplies)
  BY <1>1, HeadGood DEF PipeInv, GoodReplies
<1>3. PipeInv' /\ DevInv'
  BY <1>1, <1>2 DEF PipeInv, DevInv, device
<1>4. /\ Cardinality(Unseen(toHost'))
           = Cardinality(Unseen(toHost)) - (IF Stepped(m) THEN 1 ELSE 0)
      /\ Cardinality(Unseen(toHost)) \in Nat
  BY <1>1, <1>2, UnseenTail, UnseenFinite
<1> HIDE DEF m
<1>5. CASE pc' \in {"send", "spin", "runt"} /\ UNCHANGED <<base, left, tries, tool>>
  <2>1. CallInv' /\ OutInv' /\ StepInv'
    BY <1>1, <1>4, <1>5 DEF CallInv, OutInv, StepInv, Serves, call, tool
  <2>2. QED
    BY <1>3, <2>1
<1>6. CASE Fail
  <2>1. CallInv' /\ OutInv'
    BY <1>1, <1>6, FailStep DEF CallInv, OutInv, Serves, call
  <2>2. StepInv'
    BY <1>1, <1>4, <1>6, FailStep DEF StepInv
  <2>3. QED
    BY <1>3, <2>1, <2>2
<1>7. CASE Begin /\ UNCHANGED <<base, left, tool>>
  <2>1. CallInv' /\ OutInv' /\ StepInv'
    BY <1>1, <1>4, <1>7 DEF CallInv, OutInv, StepInv, Serves, call, tool, Begin
  <2>2. QED
    BY <1>3, <2>1
<1>8. CASE /\ ~Refused(m) /\ ~Stale(m) /\ cmd \in MemCmds
           /\ out' = out \o m.words
           /\ PacketDone
           /\ UNCHANGED <<curCore, alive>>
  <2>1. CallInv'
    BY <1>1, <1>8, PacketDoneStep DEF CallInv, call
  <2>2. StepInv'
    BY <1>1, <1>4, <1>8, PacketDoneStep DEF StepInv
  <2>3. out' \in Seq(Words)
    BY <1>2, <1>8 DEF OutInv, Replies
  <2>4. ASSUME cmd = "READ"
        PROVE  Len(out') = base' - from' /\ Serves(out', from')
    <3>1. m.addr = base /\ Len(m.words) = Now
      BY <1>8, <2>4 DEF Refused, Stale
    <3>2. /\ m.words \in Seq(Words) /\ Serves(m.words, base)
          /\ out \in Seq(Words) /\ Serves(out, from)
          /\ Len(out) = base - from /\ from \in Nat /\ base \in Nat /\ Now \in Nat
      BY <1>2, <2>4, <3>1, NowBounds DEF GoodReplies, Replies, OutInv, CallInv
    <3>3. from + Len(out) = base
      BY <3>2
    <3>4. Serves(out \o m.words, from) /\ Len(out \o m.words) = base - from + Now
      BY <3>1, <3>2, <3>3, ServesMore
    <3>5. out' = out \o m.words /\ from' = from /\ base' = base + Now
      BY <1>1, <1>8, PacketDoneStep DEF call
    <3>6. base - from + Now = (base + Now) - from
      BY <3>2
    <3>7. QED
      BY <3>4, <3>5, <3>6 DEF Serves
  <2>5. OutInv'
    BY <1>1, <2>3, <2>4 DEF OutInv, call, Serves
  <2>6. QED
    BY <1>3, <2>1, <2>2, <2>5
<1>9. CASE /\ m.cmd = cmd /\ cmd \notin MemCmds
           /\ Return(IF m.ok \/ cmd = "TRACE" THEN "ok" ELSE "err")
           /\ curCore' = IF cmd = "SELECT" THEN core ELSE curCore
           /\ UNCHANGED <<base, left, tries, out, alive>>
  <2>1. CallInv' /\ OutInv'
    BY <1>1, <1>9 DEF CallInv, OutInv, Serves, call, Return
  <2>2. StepInv'
    BY <1>1, <1>2, <1>4, <1>9 DEF StepInv, Return, Stepped, Replies
  <2>3. QED
    BY <1>3, <2>1, <2>2
<1>10. QED
  BY <1>5, <1>6, <1>7, <1>8, <1>9, ReceiveCases, Zenon DEF m

-----------------------------------------------------------------------------
(* A step of the firmware or of the pipes                                   *)

LEMMA AnswerStep ==
  ASSUME PipeInv, NEW m \in GoodRequests, NEW ok \in BOOLEAN,
         NEW ws \in Seq(Words), Serves(ws, m.addr), Answer(m, ok, ws)
  PROVE  /\ toHost' \in Seq(GoodReplies)
         /\ Cardinality(Unseen(toHost')) \in Nat
         /\ Cardinality(Unseen(toHost')) <= Cardinality(Unseen(toHost)) + 1
         /\ m.cmd # "STEP" \/ ~ok =>
              Cardinality(Unseen(toHost')) <= Cardinality(Unseen(toHost))
<1> DEFINE r == [cmd |-> m.cmd, addr |-> m.addr, ok |-> ok, words |-> ws]
<1>1. r \in GoodReplies /\ (Stepped(r) <=> m.cmd = "STEP" /\ ok)
  BY DEF GoodRequests, GoodReplies, Requests, Replies, Stepped, Serves
<1>2. toHost' = Append(toHost, r) \/ toHost' = toHost
  BY DEF Answer
<1>3. toHost \in Seq(GoodReplies) /\ Cardinality(Unseen(toHost)) \in Nat
  BY UnseenFinite DEF PipeInv
<1> HIDE DEF r
<1>4. CASE toHost' = Append(toHost, r)
  <2>1. toHost' \in Seq(GoodReplies)
    BY <1>1, <1>3, <1>4
  <2>2. Cardinality(Unseen(toHost'))
          = Cardinality(Unseen(toHost)) + (IF Stepped(r) THEN 1 ELSE 0)
    BY <1>1, <1>3, <1>4, UnseenAppend
  <2>3. QED
    BY <1>1, <1>3, <2>1, <2>2
<1>5. CASE toHost' = toHost
  BY <1>3, <1>5
<1>6. QED
  BY <1>2, <1>4, <1>5

\* The addresses of a request lie in the memory of the selected core.
LEMMA TargetGood ==
  ASSUME DevInv, NEW m \in GoodRequests, NEW i \in 1 .. m.n
  PROVE  /\ Target(m, i) \in Cores \X Addr /\ Target(m, i)[2] = m.addr + i - 1
         /\ mem[Target(m, i)] \in Words /\ mem[Target(m, i)][2] = m.addr + i - 1
<1>1. m.addr \in Addr /\ m.n \in Nat /\ m.addr + m.n <= NumWords
  BY DEF GoodRequests, GoodRequest, Requests
<1>2. m.addr + i - 1 \in Addr
  BY <1>1
<1>3. Target(m, i) \in Cores \X Addr /\ Target(m, i)[2] = m.addr + i - 1
  BY <1>2 DEF Target, DevInv
<1> HIDE DEF Addr, Target
<1>4. QED
  BY <1>3 DEF DevInv

LEMMA ReadAnswer ==
  ASSUME DevInv, NEW m \in GoodRequests
  PROVE  LET ws == [i \in 1 .. m.n |-> mem[Target(m, i)]]
         IN  ws \in Seq(Words) /\ Serves(ws, m.addr)
<1> DEFINE ws == [i \in 1 .. m.n |-> mem[Target(m, i)]]
<1>1. m.n \in Nat
  BY DEF GoodRequests, Requests
<1>2. \A i \in 1 .. m.n : ws[i] \in Words /\ ws[i][2] = m.addr + i - 1
  BY TargetGood
<1>3. ws \in [1 .. m.n -> Words]
  BY <1>2
<1> HIDE DEF Words, ws
<1>4. ws \in Seq(Words) /\ Len(ws) = m.n
  BY <1>1, <1>3
<1>5. Serves(ws, m.addr)
  BY <1>2, <1>4 DEF Serves
<1>6. QED
  BY <1>4, <1>5 DEF ws

\* The first k of n words from a on.
LEMMA WithinPrefix ==
  ASSUME NEW n \in Nat, NEW k \in Nat, k <= n, NEW d \in Int, d \in 0 .. k - 1
  PROVE  d + 1 \in 1 .. n
OBVIOUS

\* A write puts words where they belong.
LEMMA WriteStep ==
  ASSUME DevInv, NEW m \in GoodRequests, m.cmd = "WRITE", HandleWrite(m)
  PROVE  DevInv'
<1>1. PICK k \in 0 .. m.n :
        mem' = [l \in DOMAIN mem |->
                  IF l[1] = devCore /\ l[2] - m.addr \in 0 .. k - 1
                  THEN m.words[l[2] - m.addr + 1] ELSE mem[l]]
  BY DEF HandleWrite
<1>2. /\ m.addr \in Nat /\ m.n \in Nat /\ m.words \in Seq(Words)
      /\ Len(m.words) = m.n /\ Serves(m.words, m.addr)
  BY DEF GoodRequests, GoodRequest, Requests
<1>3. DOMAIN mem = Cores \X Addr
  BY DEF DevInv
<1>4. ASSUME NEW l \in Cores \X Addr
      PROVE  mem'[l] \in Words /\ mem'[l][2] = l[2]
  <2>1. mem[l] \in Words /\ mem[l][2] = l[2] /\ l[2] \in Addr
    BY DEF DevInv
  <2>2. CASE l[1] = devCore /\ l[2] - m.addr \in 0 .. k - 1
    <3>1. l[2] - m.addr + 1 \in 1 .. Len(m.words)
      <4> DEFINE d == l[2] - m.addr
      <4>1. d \in Int
        BY <1>2, <2>1
      <4>2. k \in Nat /\ k <= m.n
        BY <1>2
      <4> HIDE DEF d
      <4>3. d + 1 \in 1 .. m.n
        BY <1>2, <2>2, <4>1, <4>2, WithinPrefix DEF d
      <4>4. QED
        BY <1>2, <4>3 DEF d
    <3>2. ASSUME NEW i \in 1 .. Len(m.words)
          PROVE  m.words[i] \in Words /\ m.words[i][2] = m.addr + i - 1
      <4>1. m.words[i] \in Words
        BY <1>2
      <4>2. m.words[i][2] = m.addr + i - 1
        BY <1>2 DEF Serves
      <4>3. QED
        BY <4>1, <4>2
    <3>3. m.addr + (l[2] - m.addr + 1) - 1 = l[2]
      BY <1>2, <2>1
    <3>4. mem'[l] = m.words[l[2] - m.addr + 1]
      BY <1>1, <1>3, <2>2
    <3>5. QED
      BY <3>1, <3>2, <3>3, <3>4
  <2>3. CASE ~(l[1] = devCore /\ l[2] - m.addr \in 0 .. k - 1)
    BY <1>1, <1>3, <2>1, <2>3
  <2>4. QED
    BY <2>2, <2>3
<1>5. mem' \in [Cores \X Addr -> Words]
  BY <1>1, <1>3, <1>4
<1>6. since' = [l \in DOMAIN since |-> since[l] \cup {mem'[l]}] /\ devCore' = devCore
  BY DEF HandleWrite
<1>7. since' \in [Cores \X Addr -> SUBSET Words]
  BY <1>4, <1>6 DEF DevInv
<1>8. QED
  BY <1>4, <1>5, <1>6, <1>7 DEF DevInv

LEMMA HandleStep ==
  ASSUME PipeInv, DevInv, CallInv, OutInv, StepInv, Handle
  PROVE  PipeInv' /\ DevInv' /\ CallInv' /\ OutInv' /\ StepInv'
<1> DEFINE m == Head(toDev)
<1>1. /\ toDev # <<>> /\ toDev' = Tail(toDev)
      /\ HandleRead(m) \/ HandleWrite(m) \/ HandleSelect(m) \/ HandleRun(m) \/ HandleTrace(m)
      /\ UNCHANGED <<call, base, left, pc, tries, tool, calls, lost>>
  BY Zenon DEF Handle
<1>2. m \in GoodRequests /\ m \in Requests /\ toDev' \in Seq(GoodRequests)
  BY <1>1 DEF PipeInv, GoodRequests
<1> HIDE DEF m
<1>3. CallInv' /\ OutInv'
  BY <1>1 DEF CallInv, OutInv, Serves, call, tool
<1>4. <<>> \in Seq(Words) /\ Serves(<<>>, m.addr)
  BY DEF Serves
<1>5. /\ ran["STEP"] \in Nat /\ oks["STEP"] \in Nat /\ oks' = oks
      /\ ran \in [RunCmds -> Nat] /\ oks \in [RunCmds -> Nat]
      /\ Cardinality(Unseen(toHost)) \in Nat
      /\ oks["STEP"] + Cardinality(Unseen(toHost)) <= ran["STEP"]
  BY <1>1, UnseenFinite DEF StepInv, PipeInv, tool
<1>6. CASE HandleRead(m)
  <2>1. m.cmd = "READ" /\ UNCHANGED <<device, since, ran>>
    BY <1>6 DEF HandleRead
  <2> PICK ok \in BOOLEAN, ws \in Seq(Words) : Serves(ws, m.addr) /\ Answer(m, ok, ws)
    BY <1>2, <1>4, <1>6, ReadAnswer DEF HandleRead
  <2>2. /\ toHost' \in Seq(GoodReplies)
        /\ Cardinality(Unseen(toHost')) \in Nat
        /\ Cardinality(Unseen(toHost')) <= Cardinality(Unseen(toHost))
    BY <1>2, <1>5, <2>1, AnswerStep
  <2>3. PipeInv' /\ DevInv'
    BY <1>2, <2>1, <2>2 DEF PipeInv, DevInv, device
  <2>4. StepInv'
    BY <1>5, <2>1, <2>2 DEF StepInv
  <2>5. QED
    BY <1>3, <2>3, <2>4
<1>7. CASE HandleWrite(m)
  <2>1. m.cmd = "WRITE" /\ UNCHANGED <<devCore, ran>>
    BY <1>7 DEF HandleWrite
  <2> PICK ok \in BOOLEAN : Answer(m, ok, <<>>)
    BY <1>7 DEF HandleWrite
  <2>2. /\ toHost' \in Seq(GoodReplies)
        /\ Cardinality(Unseen(toHost')) \in Nat
        /\ Cardinality(Unseen(toHost')) <= Cardinality(Unseen(toHost))
    BY <1>2, <1>4, <1>5, <2>1, AnswerStep
  <2>3. PipeInv' /\ DevInv'
    BY <1>2, <1>7, <2>1, <2>2, WriteStep DEF PipeInv
  <2>4. StepInv'
    BY <1>5, <2>1, <2>2 DEF StepInv
  <2>5. QED
    BY <1>3, <2>3, <2>4
<1>8. CASE HandleSelect(m)
  <2>1. /\ m.cmd = "SELECT" /\ UNCHANGED <<mem, since, ran>>
        /\ devCore' = m.core /\ Answer(m, TRUE, <<>>)
    BY <1>8 DEF HandleSelect
  <2>2. /\ toHost' \in Seq(GoodReplies)
        /\ Cardinality(Unseen(toHost')) \in Nat
        /\ Cardinality(Unseen(toHost')) <= Cardinality(Unseen(toHost))
    BY <1>2, <1>4, <1>5, <2>1, AnswerStep
  <2>3. PipeInv' /\ DevInv'
    BY <1>2, <2>1, <2>2 DEF PipeInv, DevInv, Requests
  <2>4. StepInv'
    BY <1>5, <2>1, <2>2 DEF StepInv
  <2>5. QED
    BY <1>3, <2>3, <2>4
<1>9. CASE HandleRun(m)
  <2>1. PICK ok \in BOOLEAN :
          /\ ran' = IF ok THEN [ran EXCEPT ![m.cmd] = @ + 1] ELSE ran
          /\ Answer(m, ok, <<>>)
    BY <1>9 DEF HandleRun
  <2>2. m.cmd \in RunCmds /\ UNCHANGED <<device, since>>
    BY <1>9 DEF HandleRun
  <2>3. /\ toHost' \in Seq(GoodReplies)
        /\ Cardinality(Unseen(toHost')) \in Nat
        /\ Cardinality(Unseen(toHost')) <= Cardinality(Unseen(toHost)) + 1
        /\ m.cmd # "STEP" \/ ~ok =>
             Cardinality(Unseen(toHost')) <= Cardinality(Unseen(toHost))
    BY <1>2, <1>4, <2>1, AnswerStep
  <2>4. PipeInv' /\ DevInv'
    BY <1>2, <2>2, <2>3 DEF PipeInv, DevInv, device
  <2>5. /\ ran' \in [RunCmds -> Nat]
        /\ ran'["STEP"] = ran["STEP"] + (IF m.cmd = "STEP" /\ ok THEN 1 ELSE 0)
    BY <1>5, <2>1, <2>2
  <2>6. StepInv'
    BY <1>5, <2>3, <2>5 DEF StepInv
  <2>7. QED
    BY <1>3, <2>4, <2>6
<1>10. CASE HandleTrace(m)
  <2>1. m.cmd = "TRACE" /\ UNCHANGED <<device, since, ran>>
    BY <1>10 DEF HandleTrace
  <2> PICK some \in BOOLEAN : Answer(m, some, <<>>)
    BY <1>10 DEF HandleTrace
  <2>2. /\ toHost' \in Seq(GoodReplies)
        /\ Cardinality(Unseen(toHost')) \in Nat
        /\ Cardinality(Unseen(toHost')) <= Cardinality(Unseen(toHost))
    BY <1>2, <1>4, <1>5, <2>1, AnswerStep
  <2>3. PipeInv' /\ DevInv'
    BY <1>2, <2>1, <2>2 DEF PipeInv, DevInv, device
  <2>4. StepInv'
    BY <1>5, <2>1, <2>2 DEF StepInv
  <2>5. QED
    BY <1>3, <2>3, <2>4
<1>11. QED
  BY <1>1, <1>6, <1>7, <1>8, <1>9, <1>10

LEMMA DamagedGood ==
  \A d \in Damaged : d \in GoodReplies /\ d.cmd \in {"garbage", "runt"}
<1>1. ASSUME NEW c \in {"garbage", "runt"}
      PROVE  [cmd |-> c, addr |-> 0, ok |-> FALSE, words |-> <<>>] \in GoodReplies
  BY DEF GoodReplies, Replies, Serves
<1>2. ASSUME NEW d \in Damaged PROVE d \in GoodReplies /\ d.cmd \in {"garbage", "runt"}
  <2>1. PICK c \in {"garbage", "runt"} : d = [cmd |-> c, addr |-> 0, ok |-> FALSE, words |-> <<>>]
    BY DEF Damaged
  <2>2. d \in GoodReplies
    BY <1>1, <2>1, Zenon
  <2>3. d.cmd = c
    BY <2>1
  <2>4. QED
    BY <2>2, <2>3
<1>3. QED
  BY <1>2

LEMMA LoseStep ==
  ASSUME PipeInv, DevInv, CallInv, OutInv, StepInv, Lose
  PROVE  PipeInv' /\ DevInv' /\ CallInv' /\ OutInv' /\ StepInv'
<1>1. /\ lost < MaxLost /\ lost' = lost + 1
      /\ \/ toDev # <<>> /\ toDev' = Tail(toDev) /\ UNCHANGED toHost
         \/ toHost # <<>> /\ toHost' = Tail(toHost) /\ UNCHANGED toDev
         \/ /\ toHost # <<>> /\ UNCHANGED toDev
            /\ \E d \in Damaged : toHost' = [toHost EXCEPT ![1] = d]
      /\ UNCHANGED <<device, call, base, left, pc, tries, tool, since, ran, calls>>
  BY Zenon DEF Lose
<1>2. DevInv' /\ CallInv' /\ OutInv'
  BY <1>1 DEF DevInv, CallInv, OutInv, Serves, device, call, tool
<1>3. Damaged \subseteq GoodReplies
  BY DamagedGood
<1>4. toDev \in Seq(GoodRequests) /\ toHost \in Seq(GoodReplies)
  BY DEF PipeInv
<1>5. PipeInv'
  <2>1. ASSUME NEW q \in Seq(GoodReplies), NEW d \in Damaged
        PROVE  [q EXCEPT ![1] = d] \in Seq(GoodReplies)
    <3>1. q \in [1 .. Len(q) -> GoodReplies] /\ Len(q) \in Nat
      OBVIOUS
    <3>2. [q EXCEPT ![1] = d] \in [1 .. Len(q) -> GoodReplies]
      BY <1>3, <3>1
    <3>3. QED
      BY <3>1, <3>2
  <2>2. toDev' \in Seq(GoodRequests)
    <3>1. CASE toDev # <<>> /\ toDev' = Tail(toDev)
      BY <1>4, <3>1
    <3>2. QED
      BY <1>1, <1>4, <3>1
  <2>3. toHost' \in Seq(GoodReplies)
    <3>1. CASE \E d \in Damaged : toHost' = [toHost EXCEPT ![1] = d]
      BY <1>4, <2>1, <3>1, Zenon
    <3>2. CASE toHost # <<>> /\ toHost' = Tail(toHost)
      BY <1>4, <3>2
    <3>3. QED
      BY <1>1, <1>4, <3>1, <3>2
  <2>4. QED
    BY <2>2, <2>3 DEF PipeInv
<1>6. /\ Cardinality(Unseen(toHost)) \in Nat /\ Cardinality(Unseen(toHost')) \in Nat
      /\ Cardinality(Unseen(toHost')) <= Cardinality(Unseen(toHost))
  <2>1. toHost' \in Seq(GoodReplies)
    BY <1>5 DEF PipeInv
  <2>2. Cardinality(Unseen(toHost)) \in Nat /\ Cardinality(Unseen(toHost')) \in Nat
    BY <1>4, <2>1, UnseenFinite
  <2>3. CASE toHost # <<>> /\ toHost' = Tail(toHost)
    BY <1>4, <2>2, <2>3, UnseenTail
  <2>4. CASE toHost # <<>> /\ \E d \in Damaged : toHost' = [toHost EXCEPT ![1] = d]
    BY <1>4, <2>2, <2>4, UnseenGarbled
  <2>5. CASE UNCHANGED toHost
    BY <2>2, <2>5
  <2>6. QED
    BY <1>1, <2>2, <2>3, <2>4, <2>5
<1>7. StepInv'
  BY <1>1, <1>6 DEF StepInv, tool
<1>8. QED
  BY <1>2, <1>5, <1>7

-----------------------------------------------------------------------------
(* A new call                                                               *)

LEMMA CallStep ==
  ASSUME PipeInv, DevInv, CallInv, OutInv, StepInv,
         NEW c \in Cmds, NEW a \in Addr, NEW n \in Nat, a + n <= NumWords,
         NEW v \in Versions \cup {0}, NEW k \in Cores, NEW w \in BOOLEAN,
         Call(c, a, n, v, k, w)
  PROVE  PipeInv' /\ DevInv' /\ CallInv' /\ OutInv' /\ StepInv'
<1>1. CallInv' /\ OutInv'
  BY DEF Call, Begin, CallInv, OutInv, Serves
<1>2. PipeInv' /\ StepInv'
  BY DEF Call, PipeInv, StepInv
<1>3. DevInv'
  BY DEF Call, DevInv, device
<1>4. QED
  BY <1>1, <1>2, <1>3

LEMMA CallsStep ==
  ASSUME PipeInv, DevInv, CallInv, OutInv, StepInv, CallMem \/ CallSelect \/ CallRun
  PROVE  PipeInv' /\ DevInv' /\ CallInv' /\ OutInv' /\ StepInv'
<1>1. 0 \in Addr /\ 0 + 0 <= NumWords /\ curCore \in Cores
  BY DEF CallInv
<1>2. CASE CallMem
  <2>1. PICK a \in Addr : \E n \in 1 .. NumWords - a :
          \/ Call("READ", a, n, 0, curCore, TRUE)
          \/ \E v \in Versions, k \in BOOLEAN : Call("WRITE", a, n, v, curCore, k)
    BY <1>2, Zenon DEF CallMem
  <2>2. PICK n \in 1 .. NumWords - a :
          \/ Call("READ", a, n, 0, curCore, TRUE)
          \/ \E v \in Versions, k \in BOOLEAN : Call("WRITE", a, n, v, curCore, k)
    BY <2>1
  <2>3. n \in Nat /\ a + n <= NumWords
    OBVIOUS
  <2>4. QED
    BY <1>1, <2>2, <2>3, CallStep
<1>3. CASE CallSelect
  BY <1>1, <1>3, CallStep DEF CallSelect
<1>4. CASE CallRun
  BY <1>1, <1>4, CallStep DEF CallRun
<1>5. QED
  BY <1>2, <1>3, <1>4

-----------------------------------------------------------------------------
(* The theorems                                                             *)

LEMMA IInvInit == Init => IInv
<1> SUFFICES ASSUME Init PROVE PipeInv /\ DevInv /\ CallInv /\ OutInv /\ StepInv
  BY Parts
<1>0. PipeInv /\ OutInv
  BY DEF Init, PipeInv, OutInv, Serves
<1>1. CallInv
  <2>1. 0 \in Addr /\ MaxTries \in Nat /\ MaxCalls \in Nat /\ MaxLost \in Nat /\ NumWords \in Nat
    BY UsbLinkAssumption DEF Addr
  <2>2. /\ cmd \in Cmds /\ ver \in Versions \cup {0} /\ core \in Cores /\ ack \in BOOLEAN
        /\ from \in Addr /\ late \in BOOLEAN /\ curCore \in Cores /\ alive \in BOOLEAN
    BY <2>1 DEF Init, Cmds, MemCmds
  <2>3. /\ pc \in {"idle", "send", "await", "spin", "runt"} /\ tries \in 0 .. MaxTries
        /\ base \in Nat /\ left \in Nat /\ base + left <= NumWords
        /\ pc # "idle" => base \in Addr
        /\ ret \in {"none", "ok", "err"}
        /\ calls \in 0 .. MaxCalls /\ lost \in 0 .. MaxLost
    BY <2>1 DEF Init
  <2>4. QED
    BY <2>2, <2>3 DEF CallInv
<1>2. DevInv
  BY DEF Init, DevInv, Words
<1>3. StepInv
  BY UnseenEmpty DEF Init, StepInv
<1>4. QED
  BY <1>0, <1>1, <1>2, <1>3

LEMMA IInvNext == IInv /\ [Next]_vars => IInv'
<1> SUFFICES ASSUME PipeInv, DevInv, CallInv, OutInv, StepInv, [Next]_vars
             PROVE  PipeInv' /\ DevInv' /\ CallInv' /\ OutInv' /\ StepInv'
  <2>1. IInv' <=> (PipeInv /\ DevInv /\ CallInv /\ OutInv /\ StepInv)'
    BY Parts, PTL
  <2>2. QED
    BY <2>1, Parts
<1>1. CASE HostStep
  BY <1>1, SendStep, GiveUpStep, TimeoutStep, ReceiveStep DEF HostStep
<1>2. CASE Handle
  BY <1>2, HandleStep
<1>3. CASE Lose
  BY <1>3, LoseStep
<1>4. CASE CallMem \/ CallSelect \/ CallRun
  BY <1>4, CallsStep
<1>5. CASE UNCHANGED vars
  BY <1>5 DEF PipeInv, DevInv, CallInv, OutInv, StepInv, Serves,
              vars, device, call, tool
<1>6. QED
  BY <1>1, <1>2, <1>3, <1>4, <1>5 DEF Next

\* What is in the pipes keeps its address, and answers never outnumber steps.
THEOREM Inductive == Spec => []IInv
BY IInvInit, IInvNext, PTL DEF Spec

\* Every variable keeps its type, and a range never leaves memory.
THEOREM TypeCorrect == Spec => []TypeOK
<1>1. IInv => TypeOK
  BY DEF IInv
<1>2. QED
  BY <1>1, Inductive, PTL

\* Every word that cpuMemRead returns comes from the address it was asked of,
\* with any number of stale, lost and damaged answers.
THEOREM RightAddress == Spec => []ReadRightAddress
<1>1. IInv => ReadRightAddress
  BY DEF IInv, ReadRightAddress, Done, Serves
<1>2. QED
  BY <1>1, Inductive, PTL

\* cpuStep never reports more successful steps than the firmware made.
THEOREM StepsReal == Spec => []StepsExecuted
<1>1. IInv => StepsExecuted
  <2>1. IInv => Cardinality(Unseen(toHost)) \in Nat
    BY Parts, UnseenFinite DEF PipeInv
  <2>2. IInv => ran["STEP"] \in Nat /\ oks["STEP"] \in Nat
    BY DEF IInv, TypeOK
  <2>3. QED
    BY <2>1, <2>2 DEF IInv, StepsExecuted
<1>2. QED
  BY <1>1, Inductive, PTL

-----------------------------------------------------------------------------
(* As long as no answer is late                                             *)

\* What the pipes hold: full packets of unacknowledged writes, for the core that
\* is selected, and behind them at most the request that the tool waits for.
Queued ==
  \A i \in 1 .. Len(toDev) :
    /\ toDev[i].reply => i = Len(toDev) /\ pc = "await" /\ toDev[i] = Request
    /\ ~toDev[i].reply => /\ toDev[i].cmd = "WRITE"
                          /\ \A j \in 1 .. Len(toDev[i].words) :
                               toDev[i].words[j][1] = devCore

\* What an answer that reports success tells of the packet the tool is at.
Tells(m) ==
  /\ m.cmd = cmd
  /\ cmd = "READ" => \A i \in 1 .. Len(m.words) :
                       m.words[i] \in since[<<curCore, base + i - 1>>]
  /\ m.ok /\ cmd = "WRITE" => \A a \in base .. base + Now - 1 :
                                mem[<<curCore, a>>] = <<curCore, a, ver>>
  /\ cmd = "SELECT" => devCore = core

\* The only answer is the one the tool waits for; all before it is executed.
Answered ==
  toHost # <<>> =>
    /\ pc = "await" /\ toDev = <<>> /\ Tail(toHost) = <<>>
    /\ Head(toHost).cmd \in {"garbage", "runt"} \/ Tells(Head(toHost))

\* The two sides agree on the core, except while a SELECT is under way; the tool
\* has met no other call's answer.
Agreed ==
  /\ pc # "spin"
  /\ pc # "idle" => alive
  /\ alive /\ (pc = "idle" \/ cmd # "SELECT") => devCore = curCore

\* The history of the call knows what is in memory; the words read are from it.
ReadSoFar ==
  /\ pc # "idle" => \A l \in Cores \X Addr : mem[l] \in since[l]
  /\ cmd = "READ" => \A i \in 1 .. Len(out) : out[i] \in since[<<curCore, from + i - 1>>]

\* From the first acknowledgement on, nothing but this call's packet is queued.
WrittenSoFar ==
  cmd = "WRITE" /\ ack /\ base # from =>
    /\ \A i \in 1 .. Len(toDev) : toDev[i].reply
    /\ \A a \in from .. base - 1 : mem[<<curCore, a>>] = <<curCore, a, ver>>

AtHome == \A l \in Cores \X Addr : mem[l][1] = l[1]

TimeInv == Queued /\ Answered /\ Agreed /\ ReadSoFar /\ WrittenSoFar /\ AtHome

InTime == ~late => TimeInv

Frame == PipeInv /\ DevInv /\ CallInv /\ OutInv /\ StepInv

LEMMA QueueTail ==
  ASSUME NEW S, NEW q \in Seq(S), q # <<>>, NEW t, t = Tail(q)
  PROVE  /\ Len(q) \in Nat \ {0} /\ Head(q) = q[1]
         /\ Len(q) = 1 => t = <<>>
         /\ Len(t) \in Nat
         /\ \A i \in 1 .. Len(t) : /\ i + 1 \in 1 .. Len(q) /\ t[i] = q[i + 1]
                                   /\ i + 1 = Len(q) => i = Len(t)
<1>1. /\ Len(q) \in Nat \ {0} /\ Head(q) = q[1] /\ t \in Seq(S) /\ Len(t) = Len(q) - 1
      /\ \A i \in 1 .. Len(t) : t[i] = q[i + 1]
  OBVIOUS
<1>2. Len(t) = 0 => t = <<>>
  BY <1>1
<1>3. Len(t) \in Nat /\ (Len(q) = 1 => t = <<>>)
  BY <1>1, <1>2
<1>4. ASSUME NEW i \in 1 .. Len(t)
      PROVE  i + 1 \in 1 .. Len(q) /\ (i + 1 = Len(q) => i = Len(t))
  <2> DEFINE n == Len(q)
             k == Len(t)
  <2>1. n \in Nat /\ k = n - 1 /\ i \in 1 .. k
    BY <1>1
  <2> HIDE DEF n, k
  <2>2. i + 1 \in 1 .. n /\ (i + 1 = n => i = k)
    BY <2>1
  <2>3. QED
    BY <2>2 DEF n, k
<1>5. QED
  BY <1>1, <1>3, <1>4

LEMMA Joined ==
  ASSUME NEW p \in Seq(Words), NEW q \in Seq(Words), NEW s, s = p \o q,
         NEW i \in 1 .. Len(s)
  PROVE  \/ i \in 1 .. Len(p) /\ s[i] = p[i]
         \/ i - Len(p) \in 1 .. Len(q) /\ s[i] = q[i - Len(p)]
<1>1. /\ Len(p) \in Nat /\ Len(q) \in Nat /\ Len(s) = Len(p) + Len(q)
      /\ \A j \in 1 .. Len(p) : s[j] = p[j]
      /\ \A j \in Len(p) + 1 .. Len(p) + Len(q) : s[j] = q[j - Len(p)]
  OBVIOUS
<1>2. CASE i <= Len(p)
  BY <1>1, <1>2
<1>3. CASE i > Len(p)
  BY <1>1, <1>3
<1>4. QED
  BY <1>1, <1>2, <1>3

LEMMA QueueAppend ==
  ASSUME NEW S, NEW q \in Seq(S), NEW m \in S
  PROVE  /\ Len(q) \in Nat /\ Len(Append(q, m)) = Len(q) + 1
         /\ Append(q, m)[Len(q) + 1] = m
         /\ \A i \in 1 .. Len(q) : Append(q, m)[i] = q[i]
OBVIOUS

\* While the tool sends or is idle, no answer is due.
LEMMA Quiet ==
  ASSUME Frame, TimeInv, pc # "await"
  PROVE  /\ toHost = <<>>
         /\ \A i \in 1 .. Len(toDev) :
              /\ ~toDev[i].reply /\ toDev[i].cmd = "WRITE"
              /\ \A j \in 1 .. Len(toDev[i].words) : toDev[i].words[j][1] = devCore
         /\ cmd = "WRITE" /\ ack /\ base # from => Len(toDev) = 0
<1>1. toHost = <<>>
  BY DEF TimeInv, Answered
<1>2. \A i \in 1 .. Len(toDev) : ~toDev[i].reply
  BY DEF TimeInv, Queued
<1>3. ASSUME cmd = "WRITE", ack, base # from
      PROVE  Len(toDev) = 0
  <2>1. \A i \in 1 .. Len(toDev) : toDev[i].reply
    BY <1>3 DEF TimeInv, WrittenSoFar
  <2>2. Len(toDev) \in Nat
    BY DEF Frame, PipeInv
  <2>3. QED
    BY <1>2, <2>1, <2>2
<1>4. QED
  BY <1>1, <1>2, <1>3 DEF TimeInv, Queued

\* What a step of the tool that asks for nothing leaves alone.
LEMMA CallerStep ==
  ASSUME Frame, TimeInv, pc # "await", pc' # "await", UNCHANGED <<toDev, toHost, device>>
  PROVE  Queued' /\ Answered' /\ AtHome'
<1>1. Queued'
  BY Quiet DEF Queued, device
<1>2. Answered'
  BY Quiet DEF Answered
<1>3. AtHome'
  BY DEF TimeInv, AtHome, device
<1>4. QED
  BY <1>1, <1>2, <1>3

\* A packet that asks for an answer is queued behind those that do not.
LEMMA AskTime ==
  ASSUME Frame, TimeInv, Send, pc' = "await", UNCHANGED <<base, left, ret, oks>>,
         WantsReply
  PROVE  TimeInv'
<1>1. /\ pc = "send" /\ toDev' = Append(toDev, Request)
      /\ UNCHANGED <<mem, devCore, toHost, cmd, ver, core, ack, from, curCore, alive, out, since>>
  BY SendCases DEF device, call
<1>2. /\ Request \in GoodRequests /\ toDev \in Seq(GoodRequests)
      /\ Request.reply = WantsReply
  <2>1. Request \in GoodRequests
    BY <1>1, RequestGood DEF Frame
  <2>2. QED
    BY <2>1 DEF Frame, PipeInv, Request
<1>3. Request' = Request
  BY <1>1 DEF Request, WantsReply, Now
<1> DEFINE r == Request
<1> HIDE DEF r
<1>4. /\ Len(toDev) \in Nat /\ Len(toDev') = Len(toDev) + 1
      /\ toDev'[Len(toDev) + 1] = r
      /\ \A i \in 1 .. Len(toDev) : toDev'[i] = toDev[i]
  BY <1>1, <1>2, QueueAppend DEF r
<1>5. Queued'
  <2>1. ASSUME NEW i \in 1 .. Len(toDev'), toDev'[i].reply
        PROVE  i = Len(toDev') /\ toDev'[i] = r
    BY <1>1, <1>4, <2>1, Quiet
  <2>2. ASSUME NEW i \in 1 .. Len(toDev'), ~toDev'[i].reply
        PROVE  /\ toDev'[i].cmd = "WRITE"
               /\ \A j \in 1 .. Len(toDev'[i].words) : toDev'[i].words[j][1] = devCore
    <3>1. i # Len(toDev) + 1
      BY <1>2, <1>4, <2>2 DEF r
    <3>2. i \in 1 .. Len(toDev)
      BY <1>4, <3>1
    <3>3. QED
      BY <1>1, <1>4, <3>2, Quiet
  <2>3. r = Request'
    BY <1>3 DEF r
  <2>4. QED
    BY <1>1, <2>1, <2>2, <2>3 DEF Queued
<1>6. Answered' /\ AtHome'
  BY <1>1, Quiet DEF TimeInv, Answered, AtHome
<1>7. Agreed' /\ ReadSoFar'
  BY <1>1 DEF TimeInv, Agreed, ReadSoFar
<1>8. WrittenSoFar'
  <2>1. ASSUME cmd = "WRITE", ack, base # from
        PROVE  /\ \A i \in 1 .. Len(toDev') : toDev'[i].reply
               /\ \A a \in from .. base - 1 : mem[<<curCore, a>>] = <<curCore, a, ver>>
    <3>1. Len(toDev) = 0
      BY <1>1, <2>1, Quiet
    <3>2. \A i \in 1 .. Len(toDev') : i = Len(toDev) + 1
      BY <1>4, <3>1
    <3>3. QED
      BY <1>2, <1>4, <2>1, <3>2 DEF TimeInv, WrittenSoFar, r
  <2>2. QED
    BY <1>1, <2>1 DEF WrittenSoFar
<1>9. QED
  BY <1>5, <1>6, <1>7, <1>8 DEF TimeInv

\* A packet that asks for no answer is for the selected core.
LEMMA TellTime ==
  ASSUME Frame, TimeInv, Send, ~WantsReply, PacketDone
  PROVE  TimeInv'
<1>1. /\ pc = "send" /\ toDev' = Append(toDev, Request)
      /\ UNCHANGED <<mem, devCore, toHost, cmd, ver, core, ack, from, curCore, alive, out, since>>
  BY SendCases DEF device, call
<1>2. cmd = "WRITE" /\ ~ack
  BY DEF WantsReply
<1>3. pc' \in {"idle", "send"}
  BY <1>1, <1>2, PacketDoneStep DEF Frame
<1>4. Request \in GoodRequests /\ toDev \in Seq(GoodRequests)
  BY <1>1, RequestGood DEF Frame, PipeInv
<1>5. devCore = curCore /\ alive
  BY <1>1, <1>2 DEF TimeInv, Agreed
<1>6. /\ ~Request.reply /\ Request.cmd = "WRITE"
      /\ \A j \in 1 .. Len(Request.words) : Request.words[j][1] = devCore
  <2>1. Now \in Nat
    BY NowBounds DEF Frame, CallInv
  <2>2. QED
    BY <1>2, <1>5, <2>1 DEF Request
<1> DEFINE r == Request
<1>7. /\ ~r.reply /\ r.cmd = "WRITE"
      /\ \A j \in 1 .. Len(r.words) : r.words[j][1] = devCore
  BY <1>6
<1> HIDE DEF r
<1>8. /\ Len(toDev) \in Nat /\ Len(toDev') = Len(toDev) + 1
      /\ toDev'[Len(toDev) + 1] = r
      /\ \A i \in 1 .. Len(toDev) : toDev'[i] = toDev[i]
  BY <1>1, <1>4, QueueAppend DEF r
<1>9. Queued'
  <2>1. ASSUME NEW i \in 1 .. Len(toDev')
        PROVE  /\ ~toDev'[i].reply /\ toDev'[i].cmd = "WRITE"
               /\ \A j \in 1 .. Len(toDev'[i].words) : toDev'[i].words[j][1] = devCore
    <3>1. CASE i \in 1 .. Len(toDev)
      BY <1>1, <1>8, <3>1, Quiet
    <3>2. CASE i = Len(toDev) + 1
      BY <1>7, <1>8, <3>2
    <3>3. QED
      BY <1>8, <3>1, <3>2
  <2>2. QED
    BY <1>1, <2>1 DEF Queued
<1>10. Answered' /\ AtHome'
  BY <1>1, Quiet DEF TimeInv, Answered, AtHome
<1>11. Agreed' /\ ReadSoFar' /\ WrittenSoFar'
  BY <1>1, <1>2, <1>3, <1>5 DEF TimeInv, Agreed, ReadSoFar, WrittenSoFar
<1>12. QED
  BY <1>9, <1>10, <1>11 DEF TimeInv

LEMMA SendTime ==
  ASSUME Frame, TimeInv, Send
  PROVE  TimeInv'
<1>1. \/ WantsReply /\ pc' = "await" /\ UNCHANGED <<base, left, ret, oks>>
      \/ ~WantsReply /\ PacketDone
  BY Zenon DEF Send
<1>2. QED
  BY <1>1, AskTime, TellTime

\* A call that fails leaves a core behind on which both sides agree, or none.
LEMMA FailTime ==
  ASSUME Frame, TimeInv, pc # "idle", Fail,
         UNCHANGED <<mem, devCore, toDev, cmd, ver, ack, from, since>>
  PROVE  Agreed' /\ ReadSoFar' /\ WrittenSoFar'
<1>1. /\ pc' = "idle" /\ alive' = (cmd # "SELECT")
      /\ UNCHANGED <<base, out, curCore>>
  BY DEF Fail, Return
<1>2. cmd # "SELECT" => devCore = curCore
  BY DEF TimeInv, Agreed
<1>3. Agreed'
  BY <1>1, <1>2 DEF Agreed
<1>4. ReadSoFar' /\ WrittenSoFar'
  BY <1>1 DEF TimeInv, ReadSoFar, WrittenSoFar
<1>5. QED
  BY <1>3, <1>4

LEMMA GiveUpTime ==
  ASSUME Frame, TimeInv, GiveUp
  PROVE  TimeInv'
<1>1. /\ pc = "send" /\ Fail
      /\ UNCHANGED <<device, toDev, toHost, call, since>>
  BY Zenon DEF GiveUp
<1>2. pc' = "idle"
  BY <1>1 DEF Fail, Return
<1>3. QED
  BY <1>1, <1>2, CallerStep, FailTime DEF TimeInv, device, call

LEMMA TimeoutTime ==
  ASSUME Frame, TimeInv, Timeout, ~late'
  PROVE  TimeInv'
<1>1. /\ pc = "await" /\ pc' = "send" /\ toDev = <<>> /\ toHost = <<>>
      /\ UNCHANGED <<mem, devCore, toDev, toHost, cmd, ver, core, ack, from, base, left,
                     curCore, alive, out, since>>
  BY Zenon DEF Timeout, device, tool
<1>2. QED
  BY <1>1 DEF TimeInv, Queued, Answered, Agreed, ReadSoFar, WrittenSoFar, AtHome

\* The answer that Receive takes is to the packet the tool is at.
LEMMA TakenTells ==
  ASSUME Frame, TimeInv, toHost # <<>>, NEW m, m = Head(toHost), m.cmd = cmd
  PROVE  Tells(m)
<1>1. cmd \notin {"garbage", "runt"}
  BY DEF Frame, CallInv
<1>2. QED
  BY <1>1 DEF TimeInv, Answered

\* A packet of a memory transfer is answered.
LEMMA AcknowledgedTime ==
  ASSUME Frame, TimeInv, pc = "await", NEW m \in GoodReplies, Tells(m), ~Refused(m),
         cmd \in MemCmds, out' = out \o m.words, PacketDone, toDev = <<>>,
         UNCHANGED <<mem, devCore, toDev, cmd, ver, core, ack, from, since, curCore, alive>>
  PROVE  Agreed' /\ ReadSoFar' /\ WrittenSoFar'
<1>1. base' = base + Now /\ Now \in Nat /\ base \in Nat /\ from \in Nat
  BY NowBounds DEF PacketDone, Frame, CallInv
<1>2. Agreed'
  <2>1. pc' \in {"idle", "send"}
    BY DEF PacketDone, Return, Begin
  <2>2. QED
    BY <2>1 DEF TimeInv, Agreed
<1>3. ReadSoFar'
  <2>1. ASSUME cmd = "READ", NEW i \in 1 .. Len(out')
        PROVE  out'[i] \in since[<<curCore, from + i - 1>>]
    <3>1. /\ out \in Seq(Words) /\ m.words \in Seq(Words) /\ Len(out) = base - from
      BY <2>1 DEF Frame, OutInv, GoodReplies, Replies
    <3>2. \/ i \in 1 .. Len(out) /\ out'[i] = out[i]
          \/ i - Len(out) \in 1 .. Len(m.words) /\ out'[i] = m.words[i - Len(out)]
      BY <3>1, Joined
    <3>3. CASE i \in 1 .. Len(out) /\ out'[i] = out[i]
      BY <2>1, <3>3 DEF TimeInv, ReadSoFar
    <3>4. CASE i - Len(out) \in 1 .. Len(m.words) /\ out'[i] = m.words[i - Len(out)]
      <4>1. m.words[i - Len(out)] \in since[<<curCore, base + (i - Len(out)) - 1>>]
        BY <2>1, <3>4 DEF Tells
      <4>2. base + (i - Len(out)) - 1 = from + i - 1
        BY <1>1, <3>1, <3>4
      <4>3. QED
        BY <3>4, <4>1, <4>2
    <3>5. QED
      BY <3>2, <3>3, <3>4
  <2>2. QED
    BY <2>1 DEF TimeInv, ReadSoFar
<1>4. WrittenSoFar'
  <2>1. ASSUME cmd = "WRITE", ack, NEW a \in from .. base + Now - 1
        PROVE  mem[<<curCore, a>>] = <<curCore, a, ver>>
    <3>1. CASE a < base
      <4>1. a \in from .. base - 1 /\ base # from
        BY <1>1, <3>1
      <4>2. QED
        BY <2>1, <4>1 DEF TimeInv, WrittenSoFar
    <3>2. CASE a >= base
      <4>1. a \in base .. base + Now - 1
        BY <1>1, <3>2
      <4>2. QED
        BY <2>1, <4>1 DEF Tells, Refused
    <3>3. a < base \/ a >= base
      <4>1. Now \in Nat /\ base \in Nat /\ from \in Nat
        BY <1>1
      <4>2. QED
        BY <4>1
    <3>4. QED
      BY <3>1, <3>2, <3>3
  <2>2. QED
    BY <1>1, <2>1 DEF WrittenSoFar
<1>5. QED
  BY <1>2, <1>3, <1>4

LEMMA ReceiveTime ==
  ASSUME Frame, TimeInv, Receive
  PROVE  TimeInv'
<1> DEFINE m == Head(toHost)
<1>1. /\ pc = "await" /\ toHost # <<>> /\ toHost' = Tail(toHost)
      /\ UNCHANGED <<mem, devCore, toDev, cmd, ver, core, ack, from, since>>
  BY Zenon DEF Receive, device, call
<1>2. m \in GoodReplies
  BY <1>1, HeadGood DEF Frame
<1>3. toDev = <<>> /\ toHost' = <<>>
  BY <1>1 DEF TimeInv, Answered
<1>4. m.cmd = cmd => Tells(m)
  BY <1>1, TakenTells
<1>5. Queued' /\ Answered' /\ AtHome'
  BY <1>1, <1>3 DEF TimeInv, Queued, Answered, AtHome
<1>a. m.cmd \in {"garbage", "runt"} \/ Tells(m)
  BY <1>1 DEF TimeInv, Answered
<1>b. ~ (m.cmd # cmd /\ Empty(m))
  BY <1>a DEF Tells, Empty
<1>6. \/ pc' \in {"send", "runt"} /\ UNCHANGED <<base, left, tries, tool>>
      \/ Fail
      \/ Begin /\ UNCHANGED <<base, left, tool>>
      \/ /\ m.cmd = cmd /\ ~Refused(m) /\ cmd \in MemCmds
         /\ out' = out \o m.words
         /\ PacketDone
         /\ UNCHANGED <<curCore, alive>>
      \/ /\ m.cmd = cmd /\ cmd \notin MemCmds
         /\ Return(IF m.ok \/ cmd = "TRACE" THEN "ok" ELSE "err")
         /\ curCore' = IF cmd = "SELECT" THEN core ELSE curCore
         /\ UNCHANGED <<base, left, tries, out, alive>>
  BY <1>b, Zenon DEF Receive
<1> HIDE DEF m
<1>7. CASE pc' \in {"send", "runt"} /\ UNCHANGED <<base, left, tries, tool>>
  BY <1>1, <1>3, <1>5, <1>7 DEF TimeInv, Agreed, ReadSoFar, WrittenSoFar, tool
<1>8. CASE Fail
  BY <1>1, <1>5, <1>8, FailTime DEF TimeInv
<1>9. CASE Begin /\ UNCHANGED <<base, left, tool>>
  BY <1>1, <1>3, <1>5, <1>9 DEF TimeInv, Agreed, ReadSoFar, WrittenSoFar, tool, Begin
<1>10. CASE /\ m.cmd = cmd /\ ~Refused(m) /\ cmd \in MemCmds
            /\ out' = out \o m.words
            /\ PacketDone
            /\ UNCHANGED <<curCore, alive>>
  BY <1>1, <1>2, <1>3, <1>4, <1>5, <1>10, AcknowledgedTime DEF TimeInv
<1>11. CASE /\ m.cmd = cmd /\ cmd \notin MemCmds
            /\ Return(IF m.ok \/ cmd = "TRACE" THEN "ok" ELSE "err")
            /\ curCore' = IF cmd = "SELECT" THEN core ELSE curCore
            /\ UNCHANGED <<base, left, tries, out, alive>>
  <2>1. cmd = "SELECT" => devCore = core
    BY <1>4, <1>11 DEF Tells
  <2>2. pc' = "idle"
    BY <1>11 DEF Return
  <2>3. Agreed'
    BY <1>1, <1>11, <2>1, <2>2 DEF TimeInv, Agreed
  <2>4. ReadSoFar' /\ WrittenSoFar'
    BY <1>1, <1>11, <2>2 DEF ReadSoFar, WrittenSoFar
  <2>5. QED
    BY <1>5, <2>3, <2>4 DEF TimeInv
<1>12. QED
  BY <1>6, <1>7, <1>8, <1>9, <1>10, <1>11

-----------------------------------------------------------------------------
(* The firmware, as long as no answer is late                               *)

\* The request at the head is the one the tool waits for, and the last, or a
\* full packet of a write that asked for no answer.
LEMMA HeadTime ==
  ASSUME Frame, TimeInv, toDev # <<>>, NEW m, m = Head(toDev)
  PROVE  /\ toHost = <<>> /\ m \in GoodRequests
         /\ \/ m.reply /\ pc = "await" /\ m = Request /\ Tail(toDev) = <<>>
            \/ /\ ~m.reply /\ m.cmd = "WRITE"
               /\ \A j \in 1 .. Len(m.words) : m.words[j][1] = devCore
<1>1. toDev \in Seq(GoodRequests)
  BY DEF Frame, PipeInv
<1>2. /\ Len(toDev) \in Nat \ {0} /\ m = toDev[1] /\ m \in GoodRequests
      /\ (Len(toDev) = 1 => Tail(toDev) = <<>>)
  BY <1>1, QueueTail
<1>3. 1 \in 1 .. Len(toDev)
  BY <1>2
<1>4. QED
  BY <1>2, <1>3 DEF TimeInv, Queued, Answered

\* The requests behind the head stay what they are.
LEMMA QueueTime ==
  ASSUME Frame, TimeInv, toDev # <<>>, toDev' = Tail(toDev),
         UNCHANGED <<cmd, ver, core, ack, base, left, pc, curCore>>,
         devCore' = devCore \/ toDev' = <<>>
  PROVE  /\ Queued'
         /\ (\A i \in 1 .. Len(toDev) : toDev[i].reply) => \A i \in 1 .. Len(toDev') : toDev'[i].reply
<1>1. \A i \in 1 .. Len(toDev') : /\ i + 1 \in 1 .. Len(toDev) /\ toDev'[i] = toDev[i + 1]
                                   /\ i + 1 = Len(toDev) => i = Len(toDev')
  BY QueueTail DEF Frame, PipeInv
<1>2. Request' = Request
  BY DEF Request, WantsReply, Now
<1> DEFINE r == Request
<1>3. Request' = r
  BY <1>2
<1>4. ASSUME NEW i \in 1 .. Len(toDev')
      PROVE  /\ toDev'[i].reply => i = Len(toDev') /\ pc = "await" /\ toDev'[i] = r
             /\ ~toDev'[i].reply => /\ toDev'[i].cmd = "WRITE"
                                    /\ \A j \in 1 .. Len(toDev'[i].words) :
                                         toDev'[i].words[j][1] = devCore
  <2>1. i + 1 \in 1 .. Len(toDev) /\ toDev'[i] = toDev[i + 1]
        /\ (i + 1 = Len(toDev) => i = Len(toDev'))
    BY <1>1
  <2>2. QED
    BY <2>1 DEF TimeInv, Queued
<1> HIDE DEF r
<1>5. ASSUME devCore' = devCore
      PROVE  Queued'
  BY <1>3, <1>4, <1>5 DEF Queued
<1>6. ASSUME toDev' = <<>>
      PROVE  Queued'
  BY <1>6 DEF Queued
<1>7. ASSUME \A i \in 1 .. Len(toDev) : toDev[i].reply, NEW i \in 1 .. Len(toDev')
      PROVE  toDev'[i].reply
  BY <1>1, <1>7
<1>8. QED
  BY <1>5, <1>6, <1>7

\* A command that changes no memory answers the packet the tool is at.
LEMMA AnswerTime ==
  ASSUME Frame, TimeInv, toDev # <<>>, toDev' = Tail(toDev), NEW m, m = Head(toDev),
         m.reply, NEW ok \in BOOLEAN, NEW ws \in Seq(Words), Answer(m, ok, ws),
         cmd = "READ" => \A i \in 1 .. Len(ws) : ws[i] \in since[<<curCore, base + i - 1>>],
         cmd # "WRITE", cmd = "SELECT" => devCore' = core,
         cmd # "SELECT" => devCore' = devCore,
         UNCHANGED <<mem, cmd, ver, core, ack, from, base, left, pc, curCore, alive, out, since>>
  PROVE  TimeInv'
<1>1. toHost = <<>> /\ pc = "await" /\ m = Request /\ toDev' = <<>>
  BY HeadTime
<1> DEFINE r == [cmd |-> m.cmd, addr |-> m.addr, ok |-> ok, words |-> ws]
<1>2. toHost' = <<r>>
  BY <1>1 DEF Answer
<1>3. Head(toHost') = r /\ Tail(toHost') = <<>>
  BY <1>2
<1>4. r.cmd = cmd /\ r.words = ws
  BY <1>1 DEF Request
<1> HIDE DEF r
<1>5. Tells(r)'
  BY <1>4 DEF Tells
<1>6. Answered'
  BY <1>1, <1>3, <1>5 DEF Answered, Tells
<1>7. Queued'
  BY <1>1, QueueTime
<1>8. Agreed' /\ ReadSoFar' /\ WrittenSoFar' /\ AtHome'
  BY <1>1 DEF TimeInv, Agreed, ReadSoFar, WrittenSoFar, AtHome
<1>9. QED
  BY <1>6, <1>7, <1>8 DEF TimeInv

LEMMA ReadTime ==
  ASSUME Frame, TimeInv, toDev # <<>>, toDev' = Tail(toDev), NEW m, m = Head(toDev),
         HandleRead(m), UNCHANGED <<call, base, left, pc, tries, tool>>
  PROVE  TimeInv'
<1>1. m.reply /\ pc = "await" /\ m = Request /\ m \in GoodRequests /\ m.cmd = "READ"
  BY HeadTime DEF HandleRead
<1>2. cmd = "READ" /\ m.addr = base /\ devCore = curCore
  BY <1>1 DEF Request, TimeInv, Agreed
<1>3. UNCHANGED <<mem, devCore, since, cmd, ver, core, ack, from, curCore, alive, out>>
  BY DEF HandleRead, device, call, tool
<1> DEFINE ws == [i \in 1 .. m.n |-> mem[Target(m, i)]]
<1>4. m.n \in Nat /\ ws \in Seq(Words)
  BY <1>1, ReadAnswer DEF GoodRequests, Requests, Frame
<1>5. ASSUME NEW i \in 1 .. m.n
      PROVE  mem[Target(m, i)] \in since[<<curCore, base + i - 1>>]
  <2>1. Target(m, i) \in Cores \X Addr
    BY <1>1, TargetGood DEF Frame
  <2>2. Target(m, i) = <<curCore, base + i - 1>>
    BY <1>2 DEF Target
  <2>3. QED
    BY <1>1, <2>1, <2>2 DEF TimeInv, ReadSoFar
<1>6. Len(ws) = m.n /\ \A i \in 1 .. Len(ws) : ws[i] \in since[<<curCore, base + i - 1>>]
  BY <1>4, <1>5
<1>7. CASE Answer(m, TRUE, ws)
  <2> HIDE DEF ws
  <2>1. QED
    BY <1>1, <1>2, <1>3, <1>4, <1>6, <1>7, AnswerTime
<1>8. CASE Answer(m, FALSE, <<>>)
  <2>1. <<>> \in Seq(Words) /\ \A i \in 1 .. Len(<<>>) : FALSE
    OBVIOUS
  <2>2. \A i \in 1 .. Len(<<>>) : <<>>[i] \in since[<<curCore, base + i - 1>>]
    BY <2>1
  <2> DEFINE none == <<>>
  <2> HIDE DEF none
  <2>3. /\ none \in Seq(Words) /\ Answer(m, FALSE, none)
        /\ \A i \in 1 .. Len(none) : none[i] \in since[<<curCore, base + i - 1>>]
    BY <1>8, <2>1, <2>2 DEF none
  <2>4. QED
    BY <1>1, <1>2, <1>3, <2>3, AnswerTime
<1>9. QED
  BY <1>7, <1>8 DEF HandleRead

LEMMA SelectTime ==
  ASSUME Frame, TimeInv, toDev # <<>>, toDev' = Tail(toDev), NEW m, m = Head(toDev),
         HandleSelect(m), UNCHANGED <<call, base, left, pc, tries, tool>>
  PROVE  TimeInv'
<1>1. m.reply /\ m = Request /\ m.cmd = "SELECT"
  BY HeadTime DEF HandleSelect
<1>2. cmd = "SELECT" /\ m.core = core
  BY <1>1 DEF Request
<1>3. UNCHANGED <<mem, since, cmd, ver, core, ack, from, curCore, alive, out>>
  BY DEF HandleSelect, call, tool
<1>4. <<>> \in Seq(Words)
  OBVIOUS
<1>5. devCore' = core /\ Answer(m, TRUE, <<>>)
  BY <1>2 DEF HandleSelect
<1>6. QED
  BY <1>1, <1>2, <1>3, <1>4, <1>5, AnswerTime

LEMMA RunTime ==
  ASSUME Frame, TimeInv, toDev # <<>>, toDev' = Tail(toDev), NEW m, m = Head(toDev),
         HandleRun(m), UNCHANGED <<call, base, left, pc, tries, tool>>
  PROVE  TimeInv'
<1>1. m.reply /\ m = Request /\ m.cmd \in RunCmds
  BY HeadTime DEF HandleRun
<1>2. cmd \in RunCmds
  BY <1>1 DEF Request
<1>3. UNCHANGED <<mem, devCore, since, cmd, ver, core, ack, from, curCore, alive, out>>
  BY DEF HandleRun, device, call, tool
<1>4. <<>> \in Seq(Words)
  OBVIOUS
<1>5. PICK ok \in BOOLEAN : Answer(m, ok, <<>>)
  BY DEF HandleRun
<1>6. QED
  BY <1>1, <1>2, <1>3, <1>4, <1>5, AnswerTime

LEMMA TraceTime ==
  ASSUME Frame, TimeInv, toDev # <<>>, toDev' = Tail(toDev), NEW m, m = Head(toDev),
         HandleTrace(m), UNCHANGED <<call, base, left, pc, tries, tool>>
  PROVE  TimeInv'
<1>1. m.reply /\ m = Request /\ m.cmd = "TRACE"
  BY HeadTime DEF HandleTrace
<1>2. cmd = "TRACE"
  BY <1>1 DEF Request
<1>3. UNCHANGED <<mem, devCore, since, cmd, ver, core, ack, from, curCore, alive, out>>
  BY DEF HandleTrace, device, call, tool
<1>4. <<>> \in Seq(Words)
  OBVIOUS
<1>5. PICK some \in BOOLEAN : Answer(m, some, <<>>)
  BY DEF HandleTrace
<1>6. QED
  BY <1>1, <1>2, <1>3, <1>4, <1>5, AnswerTime

LEMMA InsidePacket ==
  ASSUME NEW b \in Nat, NEW n \in Nat, b + n <= NumWords, NEW k \in 0 .. n,
         NEW a \in b .. b + k - 1
  PROVE  a \in Addr /\ a - b \in 0 .. k - 1 /\ a - b + 1 \in 1 .. n
OBVIOUS

\* What a write has done to memory when it stored its first k words.
LEMMA StoreTime ==
  ASSUME Frame, TimeInv, toDev # <<>>, NEW m, m = Head(toDev), m.cmd = "WRITE",
         NEW k \in 0 .. m.n,
         mem' = [l \in DOMAIN mem |->
                   IF l[1] = devCore /\ l[2] - m.addr \in 0 .. k - 1
                   THEN m.words[l[2] - m.addr + 1] ELSE mem[l]]
  PROVE  /\ AtHome'
         /\ m.reply => /\ cmd = "WRITE" /\ m.addr = base /\ m.n = Now
                       /\ \A a \in 0 .. base - 1 : a \in Addr => mem'[<<curCore, a>>] = mem[<<curCore, a>>]
                       /\ \A a \in base .. base + k - 1 : mem'[<<curCore, a>>] = <<curCore, a, ver>>
<1>1. /\ m \in GoodRequests
      /\ m.reply => m = Request /\ pc = "await"
      /\ ~m.reply => \A j \in 1 .. Len(m.words) : m.words[j][1] = devCore
  BY HeadTime
<1>2. /\ m.addr \in Nat /\ m.n \in Nat /\ m.addr + m.n <= NumWords
      /\ Len(m.words) = m.n /\ k \in Nat /\ k <= m.n
  BY <1>1 DEF GoodRequests, GoodRequest, Requests
<1>3. DOMAIN mem = Cores \X Addr /\ devCore \in Cores
  BY DEF Frame, DevInv
<1>4. ASSUME m.reply
      PROVE  /\ cmd = "WRITE" /\ m.addr = base /\ m.n = Now /\ devCore = curCore
             /\ m.words = [i \in 1 .. Now |-> <<curCore, base + i - 1, ver>>]
  BY <1>1, <1>4 DEF Request, TimeInv, Agreed
<1>5. \A j \in 1 .. m.n : m.words[j][1] = devCore
  BY <1>1, <1>2, <1>4
<1>6. ASSUME NEW l \in Cores \X Addr
      PROVE  mem'[l][1] = l[1]
  <2>1. mem[l][1] = l[1] /\ l[2] \in Int
    BY DEF TimeInv, AtHome
  <2>2. CASE l[1] = devCore /\ l[2] - m.addr \in 0 .. k - 1
    <3>1. l[2] - m.addr + 1 \in 1 .. m.n
      <4> DEFINE d == l[2] - m.addr
      <4>1. d \in Int
        BY <1>2, <2>1
      <4> HIDE DEF d
      <4>2. d + 1 \in 1 .. m.n
        BY <1>2, <2>2, <4>1, WithinPrefix DEF d
      <4>3. QED
        BY <4>2 DEF d
    <3>2. mem'[l] = m.words[l[2] - m.addr + 1]
      BY <1>3, <2>2
    <3>3. QED
      BY <1>5, <2>2, <3>1, <3>2
  <2>3. CASE ~(l[1] = devCore /\ l[2] - m.addr \in 0 .. k - 1)
    BY <1>3, <2>1, <2>3
  <2>4. QED
    BY <2>2, <2>3
<1>7. AtHome'
  BY <1>6 DEF AtHome
<1>8. ASSUME m.reply, NEW a \in 0 .. base - 1, a \in Addr
      PROVE  mem'[<<curCore, a>>] = mem[<<curCore, a>>]
  <2>1. base \in Nat /\ <<curCore, a>> \in Cores \X Addr
    BY <1>8 DEF Frame, CallInv
  <2>2. a - m.addr \notin 0 .. k - 1
    BY <1>2, <1>4, <1>8, <2>1
  <2>3. QED
    BY <1>3, <2>1, <2>2
<1>9. ASSUME m.reply, NEW a \in base .. base + k - 1
      PROVE  mem'[<<curCore, a>>] = <<curCore, a, ver>>
  <2>1. base = m.addr /\ curCore = devCore /\ curCore \in Cores /\ Now = m.n
    BY <1>4, <1>9 DEF Frame, CallInv
  <2>2. a \in Addr /\ a - m.addr \in 0 .. k - 1 /\ a - m.addr + 1 \in 1 .. Now
    BY <1>2, <2>1, InsidePacket
  <2>3. mem'[<<curCore, a>>] = m.words[a - m.addr + 1]
    BY <1>3, <2>1, <2>2
  <2>4. m.words[a - m.addr + 1] = <<curCore, base + (a - m.addr + 1) - 1, ver>>
    BY <1>4, <1>9, <2>2
  <2>5. base + (a - m.addr + 1) - 1 = a
    BY <1>2, <2>1, <2>2
  <2>6. QED
    BY <2>3, <2>4, <2>5
<1>10. QED
  BY <1>4, <1>7, <1>8, <1>9

LEMMA WriteTime ==
  ASSUME Frame, TimeInv, toDev # <<>>, toDev' = Tail(toDev), NEW m, m = Head(toDev),
         HandleWrite(m), UNCHANGED <<call, base, left, pc, tries, tool>>
  PROVE  TimeInv'
<1>1. PICK k \in 0 .. m.n, ok \in BOOLEAN :
        /\ ok => k = m.n
        /\ mem' = [l \in DOMAIN mem |->
                     IF l[1] = devCore /\ l[2] - m.addr \in 0 .. k - 1
                     THEN m.words[l[2] - m.addr + 1] ELSE mem[l]]
        /\ Answer(m, ok, <<>>)
  BY DEF HandleWrite
<1>2. /\ m.cmd = "WRITE" /\ since' = [l \in DOMAIN since |-> since[l] \cup {mem'[l]}]
      /\ UNCHANGED <<devCore, cmd, ver, core, ack, from, base, left, pc, curCore, alive, out>>
  BY DEF HandleWrite, call, tool
<1>3. /\ toHost = <<>>
      /\ m.reply => pc = "await" /\ m = Request /\ toDev' = <<>>
  BY HeadTime
<1>4. /\ AtHome'
      /\ m.reply => /\ cmd = "WRITE" /\ m.addr = base /\ m.n = Now
                    /\ \A a \in 0 .. base - 1 : a \in Addr => mem'[<<curCore, a>>] = mem[<<curCore, a>>]
                    /\ \A a \in base .. base + k - 1 : mem'[<<curCore, a>>] = <<curCore, a, ver>>
  BY <1>1, <1>2, StoreTime
<1>5. /\ Queued'
      /\ (\A i \in 1 .. Len(toDev) : toDev[i].reply) => \A i \in 1 .. Len(toDev') : toDev'[i].reply
  BY <1>2, QueueTime
<1>6. Agreed'
  BY <1>2 DEF TimeInv, Agreed
<1>7. /\ curCore \in Cores /\ base \in Nat /\ from \in Addr /\ base + left <= NumWords /\ left \in Nat
      /\ DOMAIN since = Cores \X Addr
  BY DEF Frame, CallInv, DevInv
<1>8. ReadSoFar'
  <2>1. \A l \in Cores \X Addr : mem'[l] \in since'[l] /\ since[l] \subseteq since'[l]
    BY <1>2, <1>7
  <2>2. ASSUME cmd = "READ", NEW i \in 1 .. Len(out)
        PROVE  out[i] \in since'[<<curCore, from + i - 1>>]
    <3>1. out[i] \in since[<<curCore, from + i - 1>>]
      BY <2>2 DEF TimeInv, ReadSoFar
    <3>2. Len(out) = base - from /\ from \in Nat /\ from + i - 1 \in Addr
      BY <1>7, <2>2 DEF Frame, OutInv
    <3>3. QED
      BY <1>7, <2>1, <3>1, <3>2
  <2>3. QED
    BY <1>2, <2>1, <2>2 DEF ReadSoFar
<1>9. WrittenSoFar'
  <2>1. ASSUME cmd = "WRITE", ack, base # from
        PROVE  /\ \A i \in 1 .. Len(toDev') : toDev'[i].reply
               /\ \A a \in from .. base - 1 : mem'[<<curCore, a>>] = <<curCore, a, ver>>
    <3>1. \A i \in 1 .. Len(toDev) : toDev[i].reply
      BY <2>1 DEF TimeInv, WrittenSoFar
    <3>2. m.reply
      <4>1. m = toDev[1] /\ 1 \in 1 .. Len(toDev)
        BY QueueTail DEF Frame, PipeInv
      <4>2. QED
        BY <3>1, <4>1
    <3>3. ASSUME NEW a \in from .. base - 1
          PROVE  mem'[<<curCore, a>>] = <<curCore, a, ver>>
      <4>1. a \in 0 .. base - 1 /\ a \in Addr
        BY <1>7
      <4>2. mem[<<curCore, a>>] = <<curCore, a, ver>>
        BY <2>1 DEF TimeInv, WrittenSoFar
      <4>3. QED
        BY <1>4, <3>2, <4>1, <4>2
    <3>4. QED
      BY <1>5, <3>1, <3>3
  <2>2. QED
    BY <1>2, <2>1, Zenon DEF WrittenSoFar
<1>10. Answered'
  <2>1. CASE m.reply
    <3> DEFINE r == [cmd |-> m.cmd, addr |-> m.addr, ok |-> ok, words |-> <<>>]
    <3>1. toHost' = <<r>>
      BY <1>1, <1>3, <2>1 DEF Answer
    <3>2. Head(toHost') = r /\ Tail(toHost') = <<>>
      BY <3>1
    <3>3. r.cmd = cmd /\ cmd = "WRITE" /\ r.ok = ok
      BY <1>2, <1>4, <2>1
    <3> HIDE DEF r
    <3>4. Now' = Now /\ (ok => k = Now)
      BY <1>1, <1>2, <1>4, <2>1 DEF Now
    <3>5. ok => \A a \in base .. base + Now - 1 : mem'[<<curCore, a>>] = <<curCore, a, ver>>
      BY <1>4, <2>1, <3>4
    <3>6. Tells(r)'
      BY <1>2, <3>3, <3>4, <3>5 DEF Tells
    <3>7. pc' = "await" /\ toDev' = <<>>
      BY <1>2, <1>3, <2>1
    <3>8. QED
      BY <3>2, <3>6, <3>7 DEF Answered, Tells
  <2>2. CASE ~m.reply
    BY <1>1, <1>3, <2>2 DEF Answer, Answered
  <2>3. QED
    BY <2>1, <2>2
<1>11. QED
  BY <1>4, <1>5, <1>6, <1>8, <1>9, <1>10 DEF TimeInv

LEMMA HandleTime ==
  ASSUME Frame, TimeInv, Handle
  PROVE  TimeInv'
<1> DEFINE m == Head(toDev)
<1>1. /\ toDev # <<>> /\ toDev' = Tail(toDev)
      /\ HandleRead(m) \/ HandleWrite(m) \/ HandleSelect(m) \/ HandleRun(m) \/ HandleTrace(m)
      /\ UNCHANGED <<call, base, left, pc, tries, tool>>
  BY Zenon DEF Handle
<1> HIDE DEF m
<1>2. m = Head(toDev)
  BY DEF m
<1>3. QED
  BY <1>1, <1>2, ReadTime, WriteTime, SelectTime, RunTime, TraceTime

-----------------------------------------------------------------------------
(* The pipes and a new call, as long as no answer is late                   *)

\* The only answer in the pipe is damaged.
LEMMA OnlyDamaged ==
  ASSUME NEW S, NEW q \in Seq(S), q # <<>>, Tail(q) = <<>>, NEW g \in S,
         NEW e, e = [q EXCEPT ![1] = g]
  PROVE  Head(e) = g /\ Tail(e) = <<>>
<1>1. Len(q) \in Nat /\ Len(q) # 0 /\ Len(Tail(q)) = Len(q) - 1
  BY EmptySeq, HeadTailProperties
<1>2. Len(Tail(q)) = 0
  <2>1. Len(<<>>) = 0
    OBVIOUS
  <2>2. QED
    BY <2>1, Zenon
<1>3. Len(q) = 1
  BY <1>1, <1>2
<1>4. q \in [1 .. 1 -> S]
  BY <1>3
<1>5. e \in [1 .. 1 -> S] /\ e[1] = g
  BY <1>4
<1>6. e \in Seq(S) /\ Len(e) = 1
  BY <1>5
<1>7. e = <<g>>
  BY <1>5, <1>6
<1>8. QED
  BY <1>7

LEMMA LoseTime ==
  ASSUME Frame, TimeInv, Lose
  PROVE  TimeInv'
<1>1. /\ \/ toDev # <<>> /\ toDev' = Tail(toDev) /\ UNCHANGED toHost
         \/ toHost # <<>> /\ toHost' = Tail(toHost) /\ UNCHANGED toDev
         \/ /\ toHost # <<>> /\ UNCHANGED toDev
            /\ \E d \in Damaged : toHost' = [toHost EXCEPT ![1] = d]
      /\ UNCHANGED <<mem, devCore, cmd, ver, core, ack, from, base, left, pc, curCore, alive, out, since>>
  BY Zenon DEF Lose, device, call, tool
<1>2. Agreed' /\ ReadSoFar' /\ AtHome'
  BY <1>1 DEF TimeInv, Agreed, ReadSoFar, AtHome
<1>3. CASE toDev # <<>> /\ toDev' = Tail(toDev) /\ UNCHANGED toHost
  <2>1. toHost = <<>>
    BY <1>3, HeadTime
  <2>2. Answered'
    BY <1>3, <2>1 DEF Answered
  <2>3. /\ Queued'
        /\ (\A i \in 1 .. Len(toDev) : toDev[i].reply)
             => \A i \in 1 .. Len(toDev') : toDev'[i].reply
    BY <1>1, <1>3, QueueTime
  <2>4. WrittenSoFar'
    BY <1>1, <2>3, Zenon DEF TimeInv, WrittenSoFar
  <2>5. QED
    BY <1>2, <2>2, <2>3, <2>4 DEF TimeInv
<1>4. CASE toHost # <<>> /\ UNCHANGED toDev
           /\ \/ toHost' = Tail(toHost)
              \/ \E d \in Damaged : toHost' = [toHost EXCEPT ![1] = d]
  <2>1. /\ pc = "await" /\ toDev = <<>> /\ Tail(toHost) = <<>> /\ toHost \in Seq(GoodReplies)
    BY <1>4 DEF TimeInv, Answered, Frame, PipeInv
  <2>2. Queued' /\ WrittenSoFar'
    BY <1>1, <1>4, <2>1 DEF TimeInv, Queued, WrittenSoFar
  <2>3. CASE toHost' = Tail(toHost)
    BY <1>2, <2>1, <2>2, <2>3 DEF TimeInv, Answered
  <2>4. CASE \E d \in Damaged : toHost' = [toHost EXCEPT ![1] = d]
    <3>0. PICK d \in Damaged : toHost' = [toHost EXCEPT ![1] = d]
      BY <2>4
    <3>1. d \in GoodReplies /\ d.cmd \in {"garbage", "runt"}
      BY DamagedGood
    <3>2. Head(toHost') = d /\ Tail(toHost') = <<>>
      BY <1>4, <2>1, <3>0, <3>1, OnlyDamaged
    <3>3. Answered'
      BY <1>1, <1>4, <2>1, <3>1, <3>2 DEF Answered
    <3>4. QED
      BY <1>2, <2>2, <3>3 DEF TimeInv
  <2>5. QED
    BY <1>4, <2>3, <2>4
<1>5. QED
  BY <1>1, <1>3, <1>4

LEMMA CallTime ==
  ASSUME Frame, TimeInv, NEW c, NEW a \in Nat, NEW n, NEW v, NEW k, NEW w, Call(c, a, n, v, k, w)
  PROVE  TimeInv'
<1>1. /\ pc = "idle" /\ alive /\ alive' = alive /\ pc' = "send"
      /\ cmd' = c /\ base' = a /\ from' = a /\ out' = <<>> /\ ack' = w
      /\ since' = [l \in DOMAIN mem |-> {mem[l]}]
      /\ UNCHANGED <<mem, devCore, toDev, toHost, curCore>>
  BY DEF Call, Begin, device
<1>2. Queued' /\ Answered' /\ AtHome'
  BY <1>1, CallerStep DEF device
<1>3. Agreed'
  BY <1>1 DEF TimeInv, Agreed
<1>4. DOMAIN mem = Cores \X Addr
  BY DEF Frame, DevInv
<1>5. ReadSoFar' /\ WrittenSoFar'
  BY <1>1, <1>4 DEF ReadSoFar, WrittenSoFar
<1>6. QED
  BY <1>2, <1>3, <1>5 DEF TimeInv

LEMMA CallsTime ==
  ASSUME Frame, TimeInv, CallMem \/ CallSelect \/ CallRun
  PROVE  TimeInv'
<1>1. CASE CallMem
  <2>1. PICK a \in Addr : \E n \in 1 .. NumWords - a :
          \/ Call("READ", a, n, 0, curCore, TRUE)
          \/ \E v \in Versions, k \in BOOLEAN : Call("WRITE", a, n, v, curCore, k)
    BY <1>1, Zenon DEF CallMem
  <2>2. a \in Nat
    OBVIOUS
  <2>3. QED
    BY <2>1, <2>2, CallTime
<1>2. CASE CallSelect
  BY <1>2, CallTime DEF CallSelect
<1>3. CASE CallRun
  BY <1>3, CallTime DEF CallRun
<1>4. QED
  BY <1>1, <1>2, <1>3

LEMMA InTimeInit == Init => InTime
<1> SUFFICES ASSUME Init PROVE TimeInv
  BY DEF InTime
<1>1. \A l \in Cores \X Addr : mem[l] = <<l[1], l[2], 0>>
  BY DEF Init
<1>2. Queued /\ Answered
  BY DEF Init, Queued, Answered
<1>3. Agreed /\ ReadSoFar /\ WrittenSoFar
  BY DEF Init, Agreed, ReadSoFar, WrittenSoFar
<1>4. AtHome
  BY <1>1 DEF AtHome
<1>5. QED
  BY <1>2, <1>3, <1>4 DEF TimeInv

\* A late answer is never forgotten.
LEMMA LateStays ==
  ASSUME CallInv, Next
  PROVE  late => late'
<1>1. CASE HostStep
  BY <1>1, Zenon DEF HostStep, Send, GiveUp, Timeout, Receive, call
<1>2. CASE Handle \/ Lose
  BY <1>2, Zenon DEF Handle, Lose, call
<1>3. CASE CallMem \/ CallSelect \/ CallRun
  BY <1>3, Zenon DEF CallMem, CallSelect, CallRun, Call
<1>4. QED
  BY <1>1, <1>2, <1>3 DEF Next

LEMMA InTimeNext == IInv /\ InTime /\ [Next]_vars => InTime'
<1> SUFFICES ASSUME Frame, InTime, [Next]_vars, ~late' PROVE TimeInv'
  BY Parts DEF Frame, InTime
<1>1. CASE UNCHANGED vars
  <2>1. TimeInv
    BY <1>1 DEF InTime, vars, call
  <2>2. /\ Request' = Request /\ Now' = Now
    BY <1>1 DEF Request, WantsReply, Now, vars, call, tool
  <2>3. Queued'
    BY <1>1, <2>1, <2>2 DEF TimeInv, Queued, vars, device
  <2>4. Answered'
    BY <1>1, <2>1, <2>2 DEF TimeInv, Answered, Tells, vars, device, call, tool
  <2>5. Agreed' /\ ReadSoFar' /\ WrittenSoFar' /\ AtHome'
    BY <1>1, <2>1 DEF TimeInv, Agreed, ReadSoFar, WrittenSoFar, AtHome, vars, device, call, tool
  <2>6. QED
    BY <2>3, <2>4, <2>5 DEF TimeInv
<1>2. CASE Next
  <2>1. TimeInv
    BY <1>2, LateStays DEF InTime, Frame
  <2>2. CASE HostStep
    BY <2>1, <2>2, SendTime, GiveUpTime, TimeoutTime, ReceiveTime DEF HostStep
  <2>3. CASE Handle
    BY <2>1, <2>3, HandleTime
  <2>4. CASE Lose
    BY <2>1, <2>4, LoseTime
  <2>5. CASE CallMem \/ CallSelect \/ CallRun
    BY <2>1, <2>5, CallsTime
  <2>6. QED
    BY <1>2, <2>2, <2>3, <2>4, <2>5 DEF Next
<1>3. QED
  BY <1>1, <1>2

\* As long as every answer comes while the host waits for it, or not at all,
\* reads are fresh, acknowledged writes applied and words at home, through any
\* number of losses, damages, retries and failures of the loop of debugger.c, and
\* the loop never stays at another call's answer.
THEOREM TransfersInTime == Spec => []TransfersRight
<1>1. InTime /\ IInv => TransfersRight
  <2> SUFFICES ASSUME InTime, IInv, ~late
               PROVE  ReadFresh /\ WriteApplied /\ WordsAtHome /\ pc # "spin"
    BY DEF TransfersRight
  <2>1. TimeInv
    BY DEF InTime
  <2>2. ReadFresh
    BY <2>1 DEF TimeInv, ReadSoFar, ReadFresh, Done
  <2>3. WriteApplied
    <3>1. base \in Nat /\ from \in Nat
      BY DEF IInv, TypeOK
    <3>2. base = from => from .. base - 1 = {}
      BY <3>1
    <3>3. QED
      BY <2>1, <3>2 DEF TimeInv, WrittenSoFar, WriteApplied, Done
  <2>4. WordsAtHome
    <3>1. DOMAIN mem = Cores \X Addr /\ \A l \in Cores \X Addr : mem[l][2] = l[2]
      BY Parts DEF DevInv
    <3>2. QED
      BY <2>1, <3>1 DEF TimeInv, AtHome, WordsAtHome
  <2>5. pc # "spin"
    BY <2>1 DEF TimeInv, Agreed
  <2>6. QED
    BY <2>2, <2>3, <2>4, <2>5
<1>2. QED
  BY <1>1, InTimeInit, InTimeNext, Inductive, PTL DEF Spec
=============================================================================
