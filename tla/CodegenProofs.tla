---------------------------- MODULE CodegenProofs ----------------------------
(* Proofs about the array that code and label cells share, and that what it  *)
(* holds runs as the host asked, for arrays and words of every size, scripts *)
(* of every length and any number of labels.                                 *)
EXTENDS CodegenImpl, FiniteSetTheorems, SequenceTheorems, WellFoundedInduction, TLAPS

LEMMA Sizes ==
  /\ M \in Nat \ {0} /\ MaxCalls \in Nat /\ MaxStack \in Nat /\ CheckEvery \in Nat \ {0}
  /\ Quarter \in Nat \ {0, 1} /\ Failed \in Nat /\ Failed = Quarter - 1
BY CodegenAssumption DEF Failed

-----------------------------------------------------------------------------
(* Opcodes and labels.  The operators have the state as parameters, so that  *)
(* what a step does to it can be stated without it.                          *)

AllLabels == [at : Nat] \cup [cell : Nat]
AnyInstr == {i \in Source : ~ Jump(i)} \cup {Labelled(i, l) : i \in {j \in Source : Jump(j)}, l \in AllLabels}

\* The opcodes of an instruction whose label is legal.
Opcodes(i, lbl) ==
  CASE i.op = "alu" /\ i.f = "mov" /\ i.imm -> LoadImm(i.dst, i.src)
    [] i.op = "alu" /\ ~ (i.f = "mov" /\ i.imm) -> <<i>>
    [] i.op = "br" -> IF i.f = "al" THEN <<[op |-> "b", to |-> lbl]>>
                                    ELSE <<Skip(i), [op |-> "b", to |-> lbl]>>
    [] i.op = "call" -> <<[op |-> "bl", to |-> lbl]>>
    [] i.op = "exit" -> <<[op |-> "exit", v |-> i.src]>>
    [] i.op \in {"ret", "native", "push", "pop"} -> <<i>>

\* What the interpreter relies on.
GoodOp(w) ==
  /\ w.op \in {"b", "bl"} => w.to \in 0 .. M
  /\ w.op = "exit" => w.v \in 0 .. Failed

\* Where a label leads, and whether it leads anywhere, given the starts of the
\* instructions, the end of the code and the label cells.
Where(l, s, h, c) ==
  IF "cell" \in DOMAIN l THEN c[l.cell].pos ELSE IF l.at \in 1 .. Len(s) THEN s[l.at] ELSE h
Known(l, s, c) ==
  IF "cell" \in DOMAIN l THEN l.cell \in 1 .. Len(c) ELSE l.at \in 1 .. Len(s) + 1
Place(i, s, h, c) == IF "to" \in DOMAIN i THEN Where(i.to, s, h, c) ELSE 0

-----------------------------------------------------------------------------
(* The parts of the invariant                                               *)

Array(o, h, t) ==
  /\ DOMAIN o = 0 .. M - 1 /\ h \in 0 .. M /\ t \in 0 .. M /\ h <= t
  /\ \A p \in 0 .. M - 1 : GoodOp(o[p])

CellRecords == [pos : 0 .. M - 1, to : SUBSET AllLabels]
Lists(h, t, a, s, c) ==
  /\ a \in Seq(AnyInstr) /\ s \in Seq(0 .. M) /\ Len(s) = Len(a)
  /\ c \in Seq(CellRecords)
  /\ \A k \in 1 .. Len(s) : s[k] <= h

\* The opcodes stand at x, in the code.
At(o, h, x, ws) == \A j \in 1 .. Len(ws) : x + j - 1 < h /\ o[x + j - 1] = ws[j]

\* Every instruction keeps its opcodes, with the place its label leads to.
Code(o, h, a, s, c) ==
  \A k \in 1 .. Len(a) :
    /\ "to" \in DOMAIN a[k] => a[k].to \in AllLabels /\ Known(a[k].to, s, c)
    /\ At(o, h, s[k], Opcodes(a[k], Place(a[k], s, h, c)))

\* Every predeclared label has a cell of its own behind the code, unfilled or
\* with a branch to the label it was filled with.
Cell(o, h, s, c, i) ==
  \/ c[i].to = {} /\ o[c[i].pos] = Unfilled
  \/ \E l \in AllLabels : /\ c[i].to = {l} /\ Known(l, s, c)
                          /\ o[c[i].pos] = [op |-> "b", to |-> Where(l, s, h, c)]
CellsApart(o, h, t, s, c) ==
  /\ \A i \in 1 .. Len(c) : c[i].pos \in t .. M - 1 /\ Cell(o, h, s, c, i)
  /\ \A i, j \in 1 .. Len(c) : c[i].pos = c[j].pos => i = j

Built(o, h, t, a, s, c) ==
  Array(o, h, t) /\ Lists(h, t, a, s, c) /\ Code(o, h, a, s, c) /\ CellsApart(o, h, t, s, c)
GenInv ==
  /\ Array(ops, head, tail) /\ ok \in BOOLEAN
  /\ ok => Built(ops, head, tail, asked, start, cells)
  /\ ~ ok => head = tail

RunInv ==
  /\ phase \in {"build", "run", "done"} /\ expired \in BOOLEAN /\ code \in 0 .. Failed
  /\ vpc \in 0 .. M + 1 /\ ofst \in 0 .. CheckEvery - 1
  /\ recur \in Seq(0 .. M + 1) /\ Len(recur) <= MaxCalls
  /\ data \in Seq(Nat) /\ Len(data) <= MaxStack

IInv == GenInv /\ RunInv

-----------------------------------------------------------------------------
(* Encoding                                                                  *)

LEMMA LoadGood ==
  ASSUME NEW r, NEW v, NEW ws, ws = LoadImm(r, v)
  PROVE  /\ Len(ws) \in Nat /\ DOMAIN ws = 1 .. Len(ws)
         /\ \A j \in 1 .. Len(ws) : GoodOp(ws[j])
<1> DEFINE Mov8(x) == [op |-> "mov8", r |-> r, v |-> x]
           Good(q) == /\ Len(q) \in Nat /\ DOMAIN q = 1 .. Len(q)
                      /\ \A j \in 1 .. Len(q) : GoodOp(q[j])
<1>1. \A x : Good(<<Mov8(x)>>)
  BY DEF GoodOp
<1>2. \A x, y : Good(<<[op |-> "mov24", r |-> r, v |-> x], [op |-> "word", v |-> y]>>)
  BY DEF GoodOp
<1>3. \A x, f, y, z : Good(<<Mov8(x), [op |-> "alu", f |-> f, dst |-> r, src |-> y, imm |-> z]>>)
  BY DEF GoodOp
<1>4. \A x, y : Good(<<[op |-> "mov32", r |-> r], [op |-> "word", v |-> x], [op |-> "word", v |-> y]>>)
  BY DEF GoodOp
<1> HIDE DEF Good
<1>5. Good(LoadImm(r, v))
  BY <1>1, <1>2, <1>3, <1>4 DEF LoadImm
<1>6. QED
  BY <1>5 DEF Good

LEMMA SourceKinds ==
  ASSUME NEW i \in Source
  PROVE  /\ i.op \in {"alu", "br", "call", "ret", "exit", "native", "push", "pop"}
         /\ "to" \notin DOMAIN i /\ i.imm \in BOOLEAN
         /\ i.op = "br" => i.f \in {"al", "eq", "ne", "ge", "gt", "le", "lt", "eqImm", "neImm", "neg", "notNeg"}
         /\ i.op = "exit" => i.src \in 0 .. Failed
BY CodegenAssumption

LEMMA InstrKinds ==
  ASSUME NEW i \in AnyInstr
  PROVE  /\ i.op \in {"alu", "br", "call", "ret", "exit", "native", "push", "pop"}
         /\ i.imm \in BOOLEAN
         /\ i.op = "br" => i.f \in {"al", "eq", "ne", "ge", "gt", "le", "lt", "eqImm", "neImm", "neg", "notNeg"}
         /\ i.op = "exit" => i.src \in 0 .. Failed
BY SourceKinds DEF AnyInstr, Labelled

LEMMA SkipOp ==
  ASSUME NEW i \in AnyInstr, i.op = "br", i.f # "al"
  PROVE  Skip(i).op = "sk"
BY InstrKinds DEF Skip

LEMMA OpcodesGood ==
  ASSUME NEW i \in AnyInstr, NEW p \in 0 .. M, NEW ws, ws = Opcodes(i, p)
  PROVE  /\ Len(ws) \in Nat /\ DOMAIN ws = 1 .. Len(ws)
         /\ \A j \in 1 .. Len(ws) : GoodOp(ws[j])
<1>1. CASE i.op = "alu" /\ i.f = "mov" /\ i.imm
  BY <1>1, LoadGood DEF Opcodes
<1>2. CASE \/ i.op = "alu" /\ ~ (i.f = "mov" /\ i.imm)
           \/ i.op \in {"ret", "native", "push", "pop"}
  <2>1. ws = <<i>>
    BY <1>2 DEF Opcodes
  <2>2. GoodOp(i)
    BY <1>2 DEF GoodOp
  <2>3. QED
    BY <2>1, <2>2
<1>3. CASE i.op = "br"
  <2> DEFINE b == [op |-> "b", to |-> p]
  <2>1. GoodOp(b)
    BY DEF GoodOp
  <2>2. i.f # "al" => GoodOp(Skip(i))
    BY <1>3, SkipOp DEF GoodOp
  <2>3. ws = IF i.f = "al" THEN <<b>> ELSE <<Skip(i), b>>
    BY <1>3 DEF Opcodes
  <2> HIDE DEF b
  <2>4. CASE i.f = "al"
    BY <2>1, <2>3, <2>4
  <2>5. CASE i.f # "al"
    <3>1. ws = <<Skip(i), b>> /\ GoodOp(Skip(i))
      BY <2>2, <2>3, <2>5
    <3>2. Len(ws) = 2 /\ DOMAIN ws = 1 .. 2 /\ ws[1] = Skip(i) /\ ws[2] = b
      BY <3>1
    <3>3. QED
      BY <2>1, <3>1, <3>2
  <2>6. QED
    BY <2>4, <2>5
<1>4. CASE i.op = "call"
  BY <1>4 DEF Opcodes, GoodOp
<1>5. CASE i.op = "exit"
  BY <1>5, InstrKinds DEF Opcodes, GoodOp
<1>6. QED
  BY <1>1, <1>2, <1>3, <1>4, <1>5, InstrKinds

\* With a legal label, or without one, nothing is left out of an instruction.
LEMMA EncodeLegal ==
  ASSUME NEW i \in Source \cup AnyInstr, NEW p, VerifyLabel(p) \/ ~ Jump(i)
  PROVE  Encode(i, p) = Opcodes(i, p)
<1>1. CASE i.op = "br"
  <2>1. VerifyLabel(p)
    BY <1>1 DEF Jump
  <2>2. ASSUME NEW b
        PROVE  <<>> \o <<b>> = <<b>>
    <3>1. <<b>> \in Seq({b})
      OBVIOUS
    <3>2. QED
      BY <3>1, ConcatEmptySeq
  <2>3. ASSUME NEW a, NEW b
        PROVE  <<a>> \o <<b>> = <<a, b>>
    <3>1. <<a>> \in Seq({a, b})
      OBVIOUS
    <3>2. <<a>> \o <<b>> = Append(<<a>>, b)
      BY <3>1, AppendIsConcat
    <3>3. /\ Append(<<a>>, b) \in Seq({a, b}) /\ Len(Append(<<a>>, b)) = 2
          /\ Append(<<a>>, b)[1] = a /\ Append(<<a>>, b)[2] = b
      BY <3>1, AppendProperties
    <3>4. <<a, b>> \in Seq({a, b}) /\ Len(<<a, b>>) = 2
      OBVIOUS
    <3>5. \A k \in 1 .. 2 : Append(<<a>>, b)[k] = <<a, b>>[k]
      BY <3>3
    <3> DEFINE u == Append(<<a>>, b)
               v == <<a, b>>
    <3>a. /\ u \in Seq({a, b}) /\ v \in Seq({a, b}) /\ Len(u) = Len(v)
          /\ \A k \in 1 .. Len(u) : u[k] = v[k]
      BY <3>3, <3>4, <3>5
    <3> HIDE DEF u, v
    <3>b. u = v
      BY <3>a, SeqEqual
    <3>6. QED
      BY <3>2, <3>b DEF u, v
  <2>4. QED
    BY <1>1, <2>1, <2>2, <2>3 DEF Encode, Opcodes
<1>2. CASE i.op # "br"
  BY <1>2, InstrKinds, SourceKinds DEF Encode, Opcodes, Jump
<1>3. QED
  BY <1>1, <1>2

LEMMA LabelledSame ==
  ASSUME NEW i \in Source, NEW l, NEW p, Jump(i)
  PROVE  /\ Opcodes(Labelled(i, l), p) = Opcodes(i, p)
         /\ "to" \in DOMAIN Labelled(i, l) /\ Labelled(i, l).to = l
<1>1. Skip(Labelled(i, l)) = Skip(i)
  BY DEF Skip, Labelled
<1>2. QED
  BY <1>1 DEF Opcodes, Labelled, Jump

-----------------------------------------------------------------------------
(* Labels stay valid                                                         *)

LEMMA InstrLabel ==
  ASSUME NEW i \in AnyInstr, "to" \in DOMAIN i
  PROVE  i.to \in AllLabels
BY SourceKinds DEF AnyInstr, Labelled

LEMMA LabelKinds ==
  ASSUME NEW l \in AllLabels
  PROVE  /\ "cell" \in DOMAIN l => l.cell \in Nat
         /\ "cell" \notin DOMAIN l => l.at \in Nat
BY DEF AllLabels

LEMMA WhereInside ==
  ASSUME NEW h \in 0 .. M, NEW t \in 0 .. M, NEW a, NEW s, NEW c, Lists(h, t, a, s, c),
         \A i \in 1 .. Len(c) : c[i].pos \in t .. M - 1,
         NEW l \in AllLabels, Known(l, s, c)
  PROVE  /\ Where(l, s, h, c) \in 0 .. M
         /\ Where(l, s, h, c) <= h \/ Where(l, s, h, c) \in t .. M - 1
<1>1. CASE "cell" \in DOMAIN l
  <2>1. c[l.cell].pos \in t .. M - 1
    BY <1>1 DEF Known
  <2>2. c[l.cell].pos \in 0 .. M
    BY <2>1, Sizes
  <2>3. QED
    BY <1>1, <2>1, <2>2 DEF Where
<1>2. CASE "cell" \notin DOMAIN l
  <2>1. CASE l.at \in 1 .. Len(s)
    <3>1. s[l.at] \in 0 .. M /\ s[l.at] <= h
      BY <2>1, ElementOfSeq DEF Lists
    <3>2. QED
      BY <1>2, <2>1, <3>1 DEF Where
  <2>2. CASE l.at \notin 1 .. Len(s)
    BY <1>2, <2>2 DEF Where
  <2>3. QED
    BY <2>1, <2>2
<1>3. QED
  BY <1>1, <1>2

\* The next instruction takes the place that the label of the moment stands for.
LEMMA WhereKept ==
  ASSUME NEW h \in 0 .. M, NEW g, NEW s \in Seq(0 .. M),
         NEW c, NEW l \in AllLabels, Known(l, s, c)
  PROVE  Known(l, Append(s, h), c) /\ Where(l, Append(s, h), g, c) = Where(l, s, h, c)
<1> DEFINE r == Append(s, h)
<1>1. /\ Len(s) \in Nat /\ Len(r) = Len(s) + 1 /\ r[Len(s) + 1] = h
      /\ \A k \in 1 .. Len(s) : r[k] = s[k]
  BY AppendProperties, LenProperties
<1> HIDE DEF r
<1>2. CASE "cell" \in DOMAIN l
  BY <1>2 DEF Known, Where
<1>3. CASE "cell" \notin DOMAIN l
  <2>1. l.at \in 1 .. Len(s) + 1
    BY <1>3 DEF Known
  <2>2. l.at \in 1 .. Len(r) /\ r[l.at] = IF l.at \in 1 .. Len(s) THEN s[l.at] ELSE h
    BY <1>1, <2>1
  <2>3. QED
    BY <1>1, <1>3, <2>2 DEF Known, Where
<1>4. QED
  BY <1>2, <1>3 DEF r

\* A new label cell moves no label.
LEMMA WhereKeptByCells ==
  ASSUME NEW h, NEW s, NEW S, NEW c \in Seq(S), NEW d, Len(d) \in Nat, Len(c) <= Len(d),
         \A i \in 1 .. Len(c) : d[i].pos = c[i].pos,
         NEW l \in AllLabels, Known(l, s, c)
  PROVE  Known(l, s, d) /\ Where(l, s, h, d) = Where(l, s, h, c)
<1>1. Len(c) \in Nat
  BY LenProperties
<1>2. CASE "cell" \in DOMAIN l
  <2>1. l.cell \in 1 .. Len(c) /\ l.cell \in 1 .. Len(d)
    BY <1>1, <1>2 DEF Known
  <2>2. QED
    BY <1>2, <2>1 DEF Known, Where
<1>3. CASE "cell" \notin DOMAIN l
  BY <1>3 DEF Known, Where
<1>4. QED
  BY <1>2, <1>3

-----------------------------------------------------------------------------
(* What the calls do to the array                                            *)

\* codegenEmit: what of the opcodes fits is written behind the code.
Written(o, h, n, ws) ==
  [p \in 0 .. M - 1 |-> IF p \in h .. h + n - 1 THEN ws[p - h + 1] ELSE o[p]]

LEMMA WrittenArray ==
  ASSUME NEW o, NEW h, NEW t, Array(o, h, t), NEW ws, Len(ws) \in Nat,
         \A j \in 1 .. Len(ws) : GoodOp(ws[j]), NEW n \in Nat, n <= Len(ws), n <= t - h
  PROVE  /\ Array(Written(o, h, n, ws), h + n, t)
         /\ \A j \in 1 .. n : h + j - 1 < h + n /\ Written(o, h, n, ws)[h + j - 1] = ws[j]
         /\ \A p \in 0 .. M - 1 : p < h \/ p >= h + n => Written(o, h, n, ws)[p] = o[p]
<1> DEFINE q == Written(o, h, n, ws)
<1>1. h \in Nat /\ t \in Nat /\ M \in Nat /\ h <= t /\ t <= M
  BY Sizes DEF Array
<1>2. /\ DOMAIN q = 0 .. M - 1
      /\ \A p \in 0 .. M - 1 : q[p] = IF p \in h .. h + n - 1 THEN ws[p - h + 1] ELSE o[p]
  BY DEF Written
<1> HIDE DEF q
<1>3. ASSUME NEW p \in 0 .. M - 1
      PROVE  GoodOp(q[p])
  <2>1. CASE p \in h .. h + n - 1
    <3>1. p - h + 1 \in 1 .. Len(ws)
      BY <1>1, <2>1
    <3>2. QED
      BY <1>2, <2>1, <3>1
  <2>2. CASE p \notin h .. h + n - 1
    BY <1>2, <2>2 DEF Array
  <2>3. QED
    BY <2>1, <2>2
<1>4. h + n \in 0 .. M /\ h + n <= t /\ t \in 0 .. M
  BY <1>1
<1>5. Array(q, h + n, t)
  BY <1>2, <1>3, <1>4 DEF Array
<1>6. ASSUME NEW j \in 1 .. n
      PROVE  h + j - 1 < h + n /\ q[h + j - 1] = ws[j]
  <2>1. h + j - 1 \in 0 .. M - 1 /\ h + j - 1 \in h .. h + n - 1 /\ (h + j - 1) - h + 1 = j
    BY <1>1
  <2>2. QED
    BY <1>1, <1>2, <2>1
<1>7. ASSUME NEW p \in 0 .. M - 1, p < h \/ p >= h + n
      PROVE  q[p] = o[p]
  BY <1>1, <1>2, <1>7
<1>8. QED
  BY <1>5, <1>6, <1>7 DEF q

\* All of the opcodes are written, or what fits before the label cells.
LEMMA Emitted ==
  ASSUME Array(ops, head, tail), NEW ws, Len(ws) \in Nat,
         \A j \in 1 .. Len(ws) : GoodOp(ws[j]), EmitUpTo(ws, TRUE)
  PROVE  /\ tail' = tail /\ Array(ops', head', tail)
         /\ head' \in 0 .. M /\ head <= head' /\ head' <= tail
         /\ \A p \in 0 .. M - 1 : p < head \/ p >= head' => ops'[p] = ops[p]
         /\ (ok' = TRUE /\ At(ops', head', head, ws)) \/ (ok' = FALSE /\ head' = tail)
<1>1. head \in Nat /\ tail \in Nat /\ head <= tail /\ head \in 0 .. M /\ tail \in 0 .. M
  BY DEF Array
<1>2. ASSUME NEW n \in Nat, n <= Len(ws), n <= tail - head,
             ops' = Written(ops, head, n, ws), head' = head + n
      PROVE  /\ Array(ops', head', tail)
             /\ head' \in 0 .. M /\ head <= head' /\ head' <= tail
             /\ \A p \in 0 .. M - 1 : p < head \/ p >= head' => ops'[p] = ops[p]
             /\ n = Len(ws) => At(ops', head', head, ws)
  <2>1. /\ Array(Written(ops, head, n, ws), head + n, tail)
        /\ \A j \in 1 .. n : /\ head + j - 1 < head + n
                             /\ Written(ops, head, n, ws)[head + j - 1] = ws[j]
        /\ \A p \in 0 .. M - 1 :
             p < head \/ p >= head + n => Written(ops, head, n, ws)[p] = ops[p]
    <3>1. n <= Len(ws) /\ n <= tail - head
      BY <1>2
    <3>2. QED
      BY <3>1, WrittenArray, SMTT(60)
  <2>2. /\ Array(ops', head', tail)
        /\ \A j \in 1 .. n : head + j - 1 < head' /\ ops'[head + j - 1] = ws[j]
        /\ \A p \in 0 .. M - 1 : p < head \/ p >= head' => ops'[p] = ops[p]
    BY <1>2, <2>1, Zenon
  <2>3. head' \in 0 .. M /\ head' <= tail
    BY <2>2 DEF Array
  <2>4. head <= head'
    BY <1>1, <1>2
  <2>5. n = Len(ws) => At(ops', head', head, ws)
    BY <2>2 DEF At
  <2>6. QED
    BY <2>2, <2>3, <2>4, <2>5
<1>3. CASE Len(ws) <= tail - head
  <2>1. /\ ops' = Written(ops, head, Len(ws), ws) /\ head' = head + Len(ws)
        /\ ok' = TRUE /\ tail' = tail
    BY <1>3 DEF EmitUpTo, Written
  <2>2. Len(ws) <= Len(ws)
    OBVIOUS
  <2>3. /\ Array(ops', head', tail)
        /\ head' \in 0 .. M /\ head <= head' /\ head' <= tail
        /\ \A p \in 0 .. M - 1 : p < head \/ p >= head' => ops'[p] = ops[p]
        /\ Len(ws) = Len(ws) => At(ops', head', head, ws)
    BY <1>2, <1>3, <2>1, <2>2, Zenon
  <2>4. QED
    BY <2>1, <2>3
<1>4. CASE ~ (Len(ws) <= tail - head)
  <2>1. /\ ops' = Written(ops, head, tail - head, ws) /\ head' = head + (tail - head)
        /\ tail' = tail
    BY <1>4 DEF EmitUpTo, Written
  <2>2. tail - head \in Nat /\ tail - head <= Len(ws) /\ tail - head <= tail - head
    BY <1>1, <1>4
  <2>3. /\ Array(ops', head', tail)
        /\ head' \in 0 .. M /\ head <= head' /\ head' <= tail
        /\ \A p \in 0 .. M - 1 : p < head \/ p >= head' => ops'[p] = ops[p]
    BY <1>2, <2>1, <2>2, Zenon
  <2>4. ok' = FALSE /\ head' = tail
    <3>1. tail - head # Len(ws)
      BY <1>4, <2>2
    <3>2. ok' = FALSE
      BY <1>4, <3>1 DEF EmitUpTo
    <3>3. head' = tail
      BY <1>1, <2>1
    <3>4. QED
      BY <3>2, <3>3
  <2>5. QED
    BY <2>1, <2>3, <2>4
<1>5. QED
  BY <1>3, <1>4

LEMMA AtKept ==
  ASSUME NEW o, NEW q, NEW h \in 0 .. M, NEW g \in 0 .. M, h <= g, NEW x \in 0 .. M, NEW ws,
         At(o, h, x, ws), \A p \in 0 .. M - 1 : p < h => q[p] = o[p]
  PROVE  At(q, g, x, ws)
<1>1. ASSUME NEW j \in 1 .. Len(ws)
      PROVE  x + j - 1 < g /\ q[x + j - 1] = ws[j]
  <2>1. j \in Int /\ j >= 1 /\ M \in Nat
    BY Sizes
  <2>2. x + j - 1 < h /\ o[x + j - 1] = ws[j]
    BY DEF At
  <2>3. x + j - 1 \in 0 .. M - 1 /\ x + j - 1 < g
    BY <2>1, <2>2
  <2>4. QED
    BY <2>2, <2>3
<1>2. QED
  BY <1>1 DEF At

\* An instruction that is added to the code leaves labels and cells as they were.
LEMMA CodeGrows ==
  ASSUME NEW o, NEW h, NEW t, NEW a, NEW s, NEW c,
         Array(o, h, t), Lists(h, t, a, s, c), Code(o, h, a, s, c), CellsApart(o, h, t, s, c),
         NEW i \in AnyInstr, "to" \in DOMAIN i => Known(i.to, s, c),
         NEW q, NEW g \in 0 .. M, h <= g, g <= t,
         \A p \in 0 .. M - 1 : p < h \/ p >= g => q[p] = o[p],
         At(q, g, h, Opcodes(i, Place(i, s, h, c))),
         NEW b, b = Append(a, i), NEW r, r = Append(s, h)
  PROVE  Lists(g, t, b, r, c) /\ Code(q, g, b, r, c) /\ CellsApart(q, g, t, r, c)
<1>0. /\ h \in 0 .. M /\ t \in 0 .. M /\ h <= t /\ M \in Nat
      /\ a \in Seq(AnyInstr) /\ s \in Seq(0 .. M) /\ Len(s) = Len(a)
      /\ \A k \in 1 .. Len(s) : s[k] <= h
  BY Sizes DEF Array, Lists
<1>1. /\ Len(a) \in Nat /\ Len(b) = Len(a) + 1 /\ b[Len(a) + 1] = i /\ b \in Seq(AnyInstr)
      /\ \A k \in 1 .. Len(a) : b[k] = a[k]
  BY <1>0, AppendProperties, LenProperties
<1>2. /\ Len(r) = Len(a) + 1 /\ r[Len(a) + 1] = h /\ r \in Seq(0 .. M)
      /\ \A k \in 1 .. Len(a) : r[k] = s[k]
  BY <1>0, AppendProperties
<1>3. /\ At(q, g, h, Opcodes(i, Place(i, s, h, c)))
      /\ \A p \in 0 .. M - 1 : p < h \/ p >= g => q[p] = o[p]
      /\ g \in 0 .. M /\ h <= g /\ g <= t
  OBVIOUS
<1>4. ASSUME NEW l \in AllLabels, Known(l, s, c)
      PROVE  Known(l, r, c) /\ Where(l, r, g, c) = Where(l, s, h, c)
  <2>1. s \in Seq(0 .. M) /\ h \in 0 .. M /\ r = Append(s, h)
    BY <1>0
  <2>2. QED
    BY <1>4, <2>1, WhereKept
<1>5. Lists(g, t, b, r, c)
  <2>1. ASSUME NEW k \in 1 .. Len(r)
        PROVE  r[k] <= g
    <3>1. CASE k = Len(a) + 1
      BY <1>2, <1>3, <3>1
    <3>2. CASE k # Len(a) + 1
      <4>1. k \in 1 .. Len(a) /\ k \in 1 .. Len(s)
        BY <1>0, <1>1, <1>2, <3>2
      <4>2. s[k] \in Int /\ s[k] <= h /\ r[k] = s[k]
        BY <1>0, <1>2, <4>1, ElementOfSeq
      <4>3. QED
        BY <1>0, <1>3, <4>2
    <3>3. QED
      BY <3>1, <3>2
  <2>2. QED
    BY <1>1, <1>2, <2>1 DEF Lists
<1>6. ASSUME NEW k \in 1 .. Len(b)
      PROVE  /\ "to" \in DOMAIN b[k] => b[k].to \in AllLabels /\ Known(b[k].to, r, c)
             /\ At(q, g, r[k], Opcodes(b[k], Place(b[k], r, g, c)))
  <2>1. CASE k = Len(a) + 1
    <3>1. b[k] = i /\ r[k] = h
      BY <1>1, <1>2, <2>1
    <3>2. "to" \in DOMAIN i => i.to \in AllLabels /\ Known(i.to, r, c)
      BY <1>4, InstrLabel
    <3>3. Place(i, r, g, c) = Place(i, s, h, c)
      BY <1>4, InstrLabel DEF Place
    <3>4. QED
      BY <1>3, <3>1, <3>2, <3>3
  <2>2. CASE k # Len(a) + 1
    <3>1. k \in 1 .. Len(a) /\ b[k] = a[k] /\ r[k] = s[k] /\ s[k] \in 0 .. M
      BY <1>0, <1>1, <1>2, <2>2, ElementOfSeq
    <3>2. "to" \in DOMAIN a[k] => a[k].to \in AllLabels /\ Known(a[k].to, s, c)
      BY <3>1 DEF Code
    <3>3. Place(a[k], r, g, c) = Place(a[k], s, h, c)
      BY <1>4, <3>2 DEF Place
    <3>4. At(o, h, s[k], Opcodes(a[k], Place(a[k], s, h, c)))
      BY <3>1 DEF Code
    <3>5. At(q, g, s[k], Opcodes(a[k], Place(a[k], s, h, c)))
      <4>1. h \in 0 .. M /\ g \in 0 .. M /\ h <= g
        BY <1>0, <1>3
      <4>2. QED
        BY <1>3, <3>1, <3>4, <4>1, AtKept
    <3>6. QED
      BY <1>4, <3>1, <3>2, <3>3, <3>5
  <2>3. QED
    BY <2>1, <2>2
<1>7. Code(q, g, b, r, c)
  BY <1>6 DEF Code
<1>8. ASSUME NEW k \in 1 .. Len(c)
      PROVE  c[k].pos \in t .. M - 1 /\ Cell(q, g, r, c, k)
  <2>1. c[k].pos \in t .. M - 1 /\ Cell(o, h, s, c, k)
    BY DEF CellsApart
  <2>2. q[c[k].pos] = o[c[k].pos]
    <3>1. c[k].pos \in 0 .. M - 1 /\ c[k].pos >= g
      BY <1>0, <1>3, <2>1
    <3>2. QED
      BY <1>3, <3>1
  <2>3. QED
    BY <1>4, <2>1, <2>2 DEF Cell
<1>9. CellsApart(q, g, t, r, c)
  BY <1>8 DEF CellsApart
<1>10. QED
  BY <1>5, <1>7, <1>9

-----------------------------------------------------------------------------
(* The calls of codegen.c                                                    *)

LEMMA PlaceInside ==
  ASSUME NEW o, NEW h, NEW t, NEW a, NEW s, NEW c,
         Array(o, h, t), Lists(h, t, a, s, c), CellsApart(o, h, t, s, c),
         NEW i \in AnyInstr, "to" \in DOMAIN i => Known(i.to, s, c)
  PROVE  /\ Place(i, s, h, c) \in 0 .. M
         /\ Place(i, s, h, c) <= h \/ Place(i, s, h, c) \in t .. M - 1
<1>1. h \in 0 .. M /\ t \in 0 .. M /\ M \in Nat /\ \A k \in 1 .. Len(c) : c[k].pos \in t .. M - 1
  BY Sizes DEF Array, CellsApart
<1>2. CASE "to" \in DOMAIN i
  <2>1. i.to \in AllLabels /\ Known(i.to, s, c)
    BY <1>2, InstrLabel
  <2>2. QED
    BY <1>1, <1>2, <2>1, WhereInside DEF Place
<1>3. CASE "to" \notin DOMAIN i
  <2>1. Place(i, s, h, c) = 0
    BY <1>3 DEF Place
  <2>2. QED
    BY <1>1, <2>1
<1>4. QED
  BY <1>2, <1>3

\* An instruction is added as a whole, or the code ends where the cells begin.
LEMMA EmitStep ==
  ASSUME GenInv, ok, NEW i \in AnyInstr, "to" \in DOMAIN i => Known(i.to, start, cells),
         EmitUpTo(Opcodes(i, Place(i, start, head, cells)), TRUE), Remember(i), UNCHANGED cells
  PROVE  GenInv'
<1>1. /\ Array(ops, head, tail) /\ Lists(head, tail, asked, start, cells)
      /\ Code(ops, head, asked, start, cells) /\ CellsApart(ops, head, tail, start, cells)
  BY DEF GenInv, Built
<1> DEFINE ws == Opcodes(i, Place(i, start, head, cells))
<1>2. /\ Len(ws) \in Nat /\ \A j \in 1 .. Len(ws) : GoodOp(ws[j])
  BY <1>1, PlaceInside, OpcodesGood
<1>a. EmitUpTo(ws, TRUE)
  OBVIOUS
<1> HIDE DEF ws
<1>3. /\ tail' = tail /\ Array(ops', head', tail)
      /\ head' \in 0 .. M /\ head <= head' /\ head' <= tail
      /\ \A p \in 0 .. M - 1 : p < head \/ p >= head' => ops'[p] = ops[p]
      /\ (ok' = TRUE /\ At(ops', head', head, ws)) \/ (ok' = FALSE /\ head' = tail)
  BY <1>1, <1>2, <1>a, Emitted
<1>4. CASE ok' = TRUE /\ At(ops', head', head, ws)
  <2>1. asked' = Append(asked, i) /\ start' = Append(start, head) /\ cells' = cells
    BY <1>4 DEF Remember
  <2>2. At(ops', head', head, Opcodes(i, Place(i, start, head, cells)))
    BY <1>4 DEF ws
  <2>3. /\ Lists(head', tail, asked', start', cells)
        /\ Code(ops', head', asked', start', cells)
        /\ CellsApart(ops', head', tail, start', cells)
    BY <1>1, <1>3, <2>1, <2>2, CodeGrows
  <2>4. QED
    BY <1>3, <1>4, <2>1, <2>3 DEF GenInv, Built
<1>5. CASE ok' = FALSE /\ head' = tail
  BY <1>3, <1>5 DEF GenInv, Built
<1>6. QED
  BY <1>3, <1>4, <1>5

\* Every label that the host has is one of the invariant's, and legal.
LEMMA HostLabel ==
  ASSUME GenInv, ok, NEW l \in Labels
  PROVE  /\ l \in AllLabels /\ Known(l, start, cells)
         /\ Position(l) = Where(l, start, head, cells)
         /\ Position(l) \in 0 .. M /\ VerifyLabel(Position(l))
<1>1. /\ Array(ops, head, tail) /\ Lists(head, tail, asked, start, cells)
      /\ CellsApart(ops, head, tail, start, cells)
  BY DEF GenInv, Built
<1>2. /\ Len(asked) \in Nat /\ Len(start) = Len(asked) /\ DOMAIN start = 1 .. Len(start)
      /\ Len(cells) \in Nat /\ DOMAIN cells = 1 .. Len(cells)
  BY <1>1, LenProperties DEF Lists
<1>3. l \in AllLabels
  BY <1>2 DEF Labels, AllLabels
<1>4. Known(l, start, cells)
  BY <1>2 DEF Labels, Known
<1>5. Position(l) = Where(l, start, head, cells)
  BY <1>2 DEF Position, Where
<1>6. /\ Where(l, start, head, cells) \in 0 .. M
      /\ Where(l, start, head, cells) <= head \/ Where(l, start, head, cells) \in tail .. M - 1
  <2>1. head \in 0 .. M /\ tail \in 0 .. M /\ \A k \in 1 .. Len(cells) : cells[k].pos \in tail .. M - 1
    BY <1>1 DEF Array, CellsApart
  <2>2. QED
    BY <1>1, <1>3, <1>4, <2>1, WhereInside
<1>7. QED
  BY <1>3, <1>4, <1>5, <1>6 DEF VerifyLabel

LEMMA AddOpcodeStep ==
  ASSUME GenInv, AddOpcode
  PROVE  GenInv'
<1>1. PICK i \in Source : /\ ~ Jump(i) /\ EmitUpTo(Encode(i, 0), TRUE)
                          /\ Remember(i)
  BY DEF AddOpcode
<1>2. i \in AnyInstr /\ "to" \notin DOMAIN i
  BY <1>1, SourceKinds DEF AnyInstr
<1>3. Place(i, start, head, cells) = 0
  BY <1>2 DEF Place
<1>4. Encode(i, 0) = Opcodes(i, Place(i, start, head, cells))
  BY <1>1, <1>2, <1>3, EncodeLegal
<1>5. ok /\ UNCHANGED cells
  BY DEF AddOpcode, Building
<1>6. QED
  BY <1>1, <1>2, <1>4, <1>5, EmitStep

LEMMA AddBranchStep ==
  ASSUME GenInv, AddBranch
  PROVE  GenInv'
<1>1. PICK i \in Source, l \in Labels :
        /\ Jump(i) /\ EmitUpTo(Encode(i, Position(l)), VerifyLabel(Position(l)))
        /\ Remember(Labelled(i, l))
  BY DEF AddBranch
<1>2. ok /\ UNCHANGED cells
  BY DEF AddBranch, Building
<1> DEFINE j == Labelled(i, l)
<1>3. /\ l \in AllLabels /\ Known(l, start, cells)
      /\ Position(l) = Where(l, start, head, cells) /\ VerifyLabel(Position(l))
  BY <1>2, HostLabel
<1>4. j \in AnyInstr
  BY <1>1, <1>3 DEF AnyInstr
<1>5. /\ "to" \in DOMAIN j /\ j.to = l
      /\ Opcodes(j, Position(l)) = Opcodes(i, Position(l))
  BY <1>1, LabelledSame
<1>6. Encode(i, Position(l)) = Opcodes(i, Position(l))
  BY <1>3, EncodeLegal
<1> HIDE DEF j
<1>7. Encode(i, Position(l)) = Opcodes(j, Place(j, start, head, cells))
  BY <1>3, <1>5, <1>6 DEF Place
<1>8. EmitUpTo(Encode(i, Position(l)), TRUE)
  BY <1>1, <1>3 DEF EmitUpTo
<1>9. EmitUpTo(Opcodes(j, Place(j, start, head, cells)), TRUE)
  BY <1>7, <1>8
<1>10. Remember(j)
  BY <1>1 DEF j
<1>11. Known(j.to, start, cells)
  BY <1>3, <1>5
<1>12. QED
  BY <1>2, <1>4, <1>9, <1>10, <1>11, EmitStep

\* Where the array's cells hold no code, a new one may be put or one be filled:
\* the code stays as it is if no label moves.
LEMMA CodeKept ==
  ASSUME NEW o, NEW h \in 0 .. M, NEW t, NEW a, NEW s, NEW c, Lists(h, t, a, s, c),
         Code(o, h, a, s, c), NEW q, NEW d,
         \A p \in 0 .. M - 1 : p < h => q[p] = o[p],
         \A l \in AllLabels : Known(l, s, c) => Known(l, s, d) /\ Where(l, s, h, d) = Where(l, s, h, c)
  PROVE  Code(q, h, a, s, d)
<1>1. /\ a \in Seq(AnyInstr) /\ s \in Seq(0 .. M) /\ Len(s) = Len(a)
  BY DEF Lists
<1>2. ASSUME NEW k \in 1 .. Len(a)
      PROVE  /\ "to" \in DOMAIN a[k] => a[k].to \in AllLabels /\ Known(a[k].to, s, d)
             /\ At(q, h, s[k], Opcodes(a[k], Place(a[k], s, h, d)))
  <2>1. "to" \in DOMAIN a[k] => a[k].to \in AllLabels /\ Known(a[k].to, s, c)
    BY DEF Code
  <2>2. Place(a[k], s, h, d) = Place(a[k], s, h, c)
    BY <2>1 DEF Place
  <2>3. At(o, h, s[k], Opcodes(a[k], Place(a[k], s, h, c)))
    BY DEF Code
  <2>4. s[k] \in 0 .. M
    BY <1>1, ElementOfSeq
  <2>5. h <= h
    BY Sizes
  <2>6. At(q, h, s[k], Opcodes(a[k], Place(a[k], s, h, c)))
    BY <2>3, <2>4, <2>5, AtKept
  <2>7. QED
    BY <2>1, <2>2, <2>6
<1>3. QED
  BY <1>2 DEF Code

LEMMA CellKept ==
  ASSUME NEW o, NEW h, NEW s, NEW c, NEW q, NEW d, NEW i, Cell(o, h, s, c, i),
         d[i] = c[i], q[c[i].pos] = o[c[i].pos],
         \A l \in AllLabels : Known(l, s, c) => Known(l, s, d) /\ Where(l, s, h, d) = Where(l, s, h, c)
  PROVE  Cell(q, h, s, d, i)
<1>1. CASE c[i].to = {} /\ o[c[i].pos] = Unfilled
  BY <1>1 DEF Cell
<1>2. ASSUME NEW l \in AllLabels, c[i].to = {l}, Known(l, s, c),
             o[c[i].pos] = [op |-> "b", to |-> Where(l, s, h, c)]
      PROVE  Cell(q, h, s, d, i)
  <2>1. d[i].to = {l} /\ Known(l, s, d) /\ q[d[i].pos] = [op |-> "b", to |-> Where(l, s, h, d)]
    BY <1>2
  <2>2. QED
    BY <2>1 DEF Cell
<1>3. QED
  BY <1>1, <1>2 DEF Cell

\* A free cell is taken for a label.
AddsCell(o, t, c, q, d) ==
  /\ DOMAIN q = 0 .. M - 1
  /\ \A p \in 0 .. M - 1 : q[p] = IF p = t - 1 THEN Unfilled ELSE o[p]
  /\ d \in Seq(CellRecords) /\ Len(d) = Len(c) + 1
  /\ \A k \in 1 .. Len(c) : d[k] = c[k]
  /\ d[Len(c) + 1].pos = t - 1 /\ d[Len(c) + 1].to = {}

\* A branch to a place is put into the cell of label n.
FillsCell(o, c, n, l, to, q, d) ==
  /\ DOMAIN q = 0 .. M - 1
  /\ q[c[n].pos] = [op |-> "b", to |-> to]
  /\ \A p \in 0 .. M - 1 : p # c[n].pos => q[p] = o[p]
  /\ d \in Seq(CellRecords) /\ Len(d) = Len(c)
  /\ \A k \in 1 .. Len(c) : k # n => d[k] = c[k]
  /\ d[n].pos = c[n].pos /\ d[n].to = {l}

LEMMA CellAdded ==
  ASSUME NEW o, NEW h, NEW t, NEW a, NEW s, NEW c, Built(o, h, t, a, s, c), h # t,
         NEW q, NEW d, AddsCell(o, t, c, q, d)
  PROVE  Built(q, h, t - 1, a, s, d)
<1>0. /\ Array(o, h, t) /\ Lists(h, t, a, s, c) /\ Code(o, h, a, s, c) /\ CellsApart(o, h, t, s, c)
      /\ DOMAIN q = 0 .. M - 1
      /\ \A p \in 0 .. M - 1 : q[p] = IF p = t - 1 THEN Unfilled ELSE o[p]
      /\ d \in Seq(CellRecords) /\ Len(d) = Len(c) + 1
      /\ \A k \in 1 .. Len(c) : d[k] = c[k]
      /\ d[Len(c) + 1].pos = t - 1 /\ d[Len(c) + 1].to = {}
  BY DEF Built, AddsCell
<1>1. /\ h \in Nat /\ t \in Nat /\ M \in Nat /\ h <= t - 1 /\ t <= M
      /\ h \in 0 .. M /\ t - 1 \in 0 .. M - 1 /\ t - 1 \in 0 .. M /\ DOMAIN o = 0 .. M - 1
  BY <1>0, Sizes DEF Array
<1>2. c \in Seq(CellRecords) /\ Len(c) \in Nat
  BY <1>0, LenProperties DEF Lists
<1>7. Array(q, h, t - 1)
  <2>1. GoodOp(Unfilled)
    BY <1>0, <1>1 DEF GoodOp, Unfilled
  <2>2. \A p \in 0 .. M - 1 : GoodOp(q[p])
    BY <1>0, <2>1 DEF Array
  <2>3. QED
    BY <1>0, <1>1, <2>2 DEF Array
<1>8. Lists(h, t - 1, a, s, d)
  BY <1>0 DEF Lists
<1>9. ASSUME NEW l \in AllLabels, Known(l, s, c)
      PROVE  Known(l, s, d) /\ Where(l, s, h, d) = Where(l, s, h, c)
  <2>1. Len(d) \in Nat /\ Len(c) <= Len(d)
    BY <1>0, <1>2
  <2>2. \A k \in 1 .. Len(c) : d[k].pos = c[k].pos
    BY <1>0, <1>2
  <2>3. QED
    BY <1>0, <1>2, <1>9, <2>1, <2>2, WhereKeptByCells
<1>10. Code(q, h, a, s, d)
  <2>1. \A p \in 0 .. M - 1 : p < h => q[p] = o[p]
    BY <1>0, <1>1
  <2>2. QED
    BY <1>0, <1>1, <1>9, <2>1, CodeKept
<1>11. ASSUME NEW k \in 1 .. Len(c)
       PROVE  c[k].pos \in t .. M - 1 /\ Cell(q, h, s, d, k)
  <2>1. c[k].pos \in t .. M - 1 /\ Cell(o, h, s, c, k) /\ d[k] = c[k]
    BY <1>0 DEF CellsApart
  <2>2. q[c[k].pos] = o[c[k].pos]
    BY <1>0, <1>1, <2>1
  <2>3. QED
    BY <1>9, <2>1, <2>2, CellKept
<1>12. d[Len(c) + 1].pos = t - 1 /\ Cell(q, h, s, d, Len(c) + 1)
  BY <1>0, <1>1 DEF Cell
<1>13. ASSUME NEW k \in 1 .. Len(d)
       PROVE  d[k].pos \in t - 1 .. M - 1 /\ Cell(q, h, s, d, k)
  <2>1. CASE k = Len(c) + 1
    BY <1>0, <1>1, <1>12, <2>1
  <2>2. CASE k # Len(c) + 1
    <3>1. k \in 1 .. Len(c)
      BY <1>0, <1>2, <2>2
    <3>2. d[k] = c[k] /\ c[k].pos \in t .. M - 1 /\ Cell(q, h, s, d, k)
      BY <1>0, <1>11, <3>1
    <3>3. QED
      BY <1>0, <1>1, <3>2
  <2>3. QED
    BY <1>0, <2>1, <2>2
<1>14. ASSUME NEW i \in 1 .. Len(d), NEW j \in 1 .. Len(d), d[i].pos = d[j].pos
       PROVE  i = j
  <2>1. \A k \in 1 .. Len(c) : d[k].pos # t - 1
    BY <1>0, <1>1, <1>11
  <2>2. i \in 1 .. Len(c) \/ i = Len(c) + 1
    BY <1>0, <1>2
  <2>3. j \in 1 .. Len(c) \/ j = Len(c) + 1
    BY <1>0, <1>2
  <2>4. \A x, y \in 1 .. Len(c) : d[x].pos = d[y].pos => x = y
    BY <1>0 DEF CellsApart
  <2>5. QED
    BY <1>0, <1>12, <1>14, <2>1, <2>2, <2>3, <2>4
<1>15. CellsApart(q, h, t - 1, s, d)
  BY <1>0, <1>13, <1>14 DEF CellsApart
<1>16. QED
  BY <1>0, <1>7, <1>8, <1>10, <1>15 DEF Built

LEMMA PredeclareStep ==
  ASSUME GenInv, Predeclare
  PROVE  GenInv'
<1>1. /\ Array(ops, head, tail) /\ Lists(head, tail, asked, start, cells) /\ ok
      /\ Code(ops, head, asked, start, cells) /\ CellsApart(ops, head, tail, start, cells)
  BY DEF GenInv, Built, Predeclare, Building
<1>2. head' = head /\ asked' = asked /\ start' = start
  BY DEF Predeclare
<1>3. CASE tail = head
  <2>1. ok' = FALSE /\ ops' = ops /\ tail' = tail
    BY <1>3 DEF Predeclare
  <2>2. QED
    BY <1>1, <1>2, <1>3, <2>1 DEF GenInv, Built
<1>4. CASE tail # head
  <2>1. /\ ops' = [ops EXCEPT ![tail - 1] = Unfilled] /\ tail' = tail - 1
        /\ cells' = Append(cells, [pos |-> tail - 1, to |-> {}]) /\ ok'
    BY <1>1, <1>4 DEF Predeclare
  <2>2. /\ Array(ops', head, tail - 1) /\ Lists(head, tail - 1, asked, start, cells')
        /\ Code(ops', head, asked, start, cells') /\ CellsApart(ops', head, tail - 1, start, cells')
    <3>1. DOMAIN ops = 0 .. M - 1 /\ tail - 1 \in 0 .. M - 1
      BY <1>1, <1>4, Sizes DEF Array
    <3>2. /\ DOMAIN ops' = 0 .. M - 1
          /\ \A p \in 0 .. M - 1 : ops'[p] = IF p = tail - 1 THEN Unfilled ELSE ops[p]
      BY <2>1, <3>1
    <3> DEFINE new == [pos |-> tail - 1, to |-> {}]
    <3>3. new \in CellRecords /\ new.pos = tail - 1 /\ new.to = {}
      BY <3>1 DEF CellRecords
    <3>4. cells' = Append(cells, new) /\ cells \in Seq(CellRecords)
      BY <1>1, <2>1 DEF Lists
    <3> HIDE DEF new
    <3>5. /\ cells' \in Seq(CellRecords) /\ Len(cells') = Len(cells) + 1
          /\ \A k \in 1 .. Len(cells) : cells'[k] = cells[k]
          /\ cells'[Len(cells) + 1] = new
      BY <3>3, <3>4, AppendProperties
    <3>6. head # tail /\ cells'[Len(cells) + 1].pos = tail - 1 /\ cells'[Len(cells) + 1].to = {}
      BY <1>4, <3>3, <3>5
    <3>7. AddsCell(ops, tail, cells, ops', cells')
      BY <3>2, <3>5, <3>6 DEF AddsCell
    <3>8. Built(ops', head, tail - 1, asked, start, cells')
      BY <1>1, <1>4, <3>7, CellAdded DEF Built
    <3>9. QED
      BY <3>8 DEF Built
  <2>3. ok' = TRUE
    BY <1>1, <1>4 DEF Predeclare, GenInv
  <2>4. QED
    BY <1>2, <2>1, <2>2, <2>3 DEF GenInv, Built
<1>5. QED
  BY <1>3, <1>4

LEMMA CellFilled ==
  ASSUME NEW o, NEW h, NEW t, NEW a, NEW s, NEW c, Built(o, h, t, a, s, c),
         NEW n \in 1 .. Len(c), NEW l \in AllLabels, Known(l, s, c), Where(l, s, h, c) \in 0 .. M,
         NEW q, NEW d, FillsCell(o, c, n, l, Where(l, s, h, c), q, d)
  PROVE  Built(q, h, t, a, s, d)
<1>0. /\ Array(o, h, t) /\ Lists(h, t, a, s, c) /\ Code(o, h, a, s, c) /\ CellsApart(o, h, t, s, c)
      /\ DOMAIN q = 0 .. M - 1
      /\ q[c[n].pos] = [op |-> "b", to |-> Where(l, s, h, c)]
      /\ \A p \in 0 .. M - 1 : p # c[n].pos => q[p] = o[p]
      /\ d \in Seq(CellRecords) /\ Len(d) = Len(c)
      /\ \A k \in 1 .. Len(c) : k # n => d[k] = c[k]
      /\ d[n].pos = c[n].pos /\ d[n].to = {l}
  BY DEF Built, FillsCell
<1>1. /\ h \in Nat /\ t \in Nat /\ M \in Nat /\ h <= t /\ t <= M /\ h \in 0 .. M
      /\ DOMAIN o = 0 .. M - 1 /\ \A p \in 0 .. M - 1 : GoodOp(o[p])
  BY <1>0, Sizes DEF Array
<1>2. c \in Seq(CellRecords) /\ Len(c) \in Nat
  BY <1>0, LenProperties DEF Lists
<1>3. c[n].pos \in t .. M - 1 /\ c[n].pos \in 0 .. M - 1
  BY <1>0, <1>1 DEF CellsApart
<1>9. Array(q, h, t)
  <2>1. GoodOp([op |-> "b", to |-> Where(l, s, h, c)])
    BY <1>0 DEF GoodOp
  <2>2. \A p \in 0 .. M - 1 : GoodOp(q[p])
    BY <1>0, <1>1, <2>1
  <2>3. QED
    BY <1>0, <1>1, <2>2 DEF Array
<1>10. Lists(h, t, a, s, d)
  BY <1>0 DEF Lists
<1>11. \A k \in 1 .. Len(c) : d[k].pos = c[k].pos
  BY <1>0
<1>12. ASSUME NEW m \in AllLabels, Known(m, s, c)
       PROVE  Known(m, s, d) /\ Where(m, s, h, d) = Where(m, s, h, c)
  <2>1. Len(d) \in Nat /\ Len(c) <= Len(d)
    BY <1>0, <1>2
  <2>2. QED
    BY <1>0, <1>2, <1>11, <1>12, <2>1, WhereKeptByCells
<1>13. Code(q, h, a, s, d)
  <2>1. \A p \in 0 .. M - 1 : p < h => q[p] = o[p]
    BY <1>0, <1>1, <1>3
  <2>2. QED
    BY <1>0, <1>1, <1>12, <2>1, CodeKept
<1>14. ASSUME NEW k \in 1 .. Len(d)
       PROVE  d[k].pos \in t .. M - 1 /\ Cell(q, h, s, d, k)
  <2>1. k \in 1 .. Len(c) /\ c[k].pos \in t .. M - 1 /\ Cell(o, h, s, c, k)
    BY <1>0 DEF CellsApart
  <2>2. CASE k = n
    <3>1. Known(l, s, d) /\ Where(l, s, h, d) = Where(l, s, h, c)
      BY <1>0, <1>12
    <3>2. QED
      BY <1>0, <1>3, <2>2, <3>1 DEF Cell
  <2>3. CASE k # n
    <3>1. d[k] = c[k] /\ c[k].pos # c[n].pos
      BY <1>0, <2>1, <2>3 DEF CellsApart
    <3>2. q[c[k].pos] = o[c[k].pos]
      BY <1>0, <1>1, <2>1, <3>1
    <3>3. QED
      BY <1>12, <2>1, <3>1, <3>2, CellKept
  <2>4. QED
    BY <1>0, <2>2, <2>3
<1>15. CellsApart(q, h, t, s, d)
  BY <1>0, <1>11, <1>14 DEF CellsApart
<1>16. QED
  BY <1>0, <1>9, <1>10, <1>13, <1>15 DEF Built

LEMMA FillStep ==
  ASSUME GenInv, Fill
  PROVE  GenInv'
<1>1. /\ Array(ops, head, tail) /\ Lists(head, tail, asked, start, cells) /\ ok = TRUE
      /\ Code(ops, head, asked, start, cells) /\ CellsApart(ops, head, tail, start, cells)
  BY DEF GenInv, Built, Fill, Building
<1>2. head' = head /\ tail' = tail /\ asked' = asked /\ start' = start
  BY DEF Fill
<1>3. PICK n \in DOMAIN cells, l \in Labels :
       IF VerifyPredeclared(cells[n].pos) /\ VerifyLabel(Position(l)) /\ ops[cells[n].pos] = Unfilled
       THEN /\ ops' = [ops EXCEPT ![cells[n].pos] = [op |-> "b", to |-> Position(l)]]
            /\ cells' = [cells EXCEPT ![n].to = @ \cup {l}]
            /\ UNCHANGED ok
       ELSE cells[n].to = {} /\ ok' = FALSE /\ UNCHANGED <<ops, cells>>
  BY DEF Fill
<1>4. /\ l \in AllLabels /\ Known(l, start, cells)
      /\ Position(l) = Where(l, start, head, cells)
      /\ Position(l) \in 0 .. M /\ VerifyLabel(Position(l))
  BY <1>1, HostLabel
<1>5. cells \in Seq(CellRecords) /\ n \in 1 .. Len(cells)
  BY <1>1, LenProperties DEF Lists
<1>6. cells[n].pos \in tail .. M - 1 /\ Cell(ops, head, start, cells, n)
  BY <1>1, <1>5 DEF CellsApart
<1>7. cells[n].to = {} <=> ops[cells[n].pos] = Unfilled
  <2>1. \A x, y : [op |-> "b", to |-> x] # [op |-> "bl", to |-> y]
    BY Zenon
  <2>2. QED
    BY <1>6, <2>1 DEF Cell, Unfilled
<1>8. CASE ops[cells[n].pos] = Unfilled
  <2>1. /\ ops' = [ops EXCEPT ![cells[n].pos] = [op |-> "b", to |-> Position(l)]]
        /\ cells' = [cells EXCEPT ![n].to = @ \cup {l}] /\ ok' = ok
    BY <1>3, <1>4, <1>6, <1>8 DEF VerifyPredeclared
  <2>2. /\ DOMAIN ops' = 0 .. M - 1
        /\ ops'[cells[n].pos] = [op |-> "b", to |-> Where(l, start, head, cells)]
        /\ \A p \in 0 .. M - 1 : p # cells[n].pos => ops'[p] = ops[p]
    <3>1. DOMAIN ops = 0 .. M - 1 /\ cells[n].pos \in 0 .. M - 1
      BY <1>1, <1>6, Sizes DEF Array
    <3>2. QED
      BY <1>4, <2>1, <3>1
  <2>3. PICK new \in CellRecords :
           new.pos = cells[n].pos /\ new.to = {l} /\ cells' = [cells EXCEPT ![n] = new]
    <3>1. cells[n] \in CellRecords
      BY <1>5, ElementOfSeq
    <3> DEFINE new == [cells[n] EXCEPT !.to = @ \cup {l}]
    <3>2. new.pos = cells[n].pos /\ new.to = {l} /\ new \in CellRecords
      BY <1>4, <1>7, <1>8, <3>1 DEF CellRecords
    <3>3. cells' = [cells EXCEPT ![n] = new]
      BY <2>1
    <3>4. QED
      BY <3>2, <3>3
  <2>4. /\ cells' \in Seq(CellRecords) /\ Len(cells') = Len(cells)
        /\ \A k \in 1 .. Len(cells) : cells'[k] = IF k = n THEN new ELSE cells[k]
    BY <1>5, <2>3, ExceptSeq
  <2>a. /\ cells'[n].pos = cells[n].pos /\ cells'[n].to = {l}
        /\ \A k \in 1 .. Len(cells) : k # n => cells'[k] = cells[k]
    BY <1>5, <2>3, <2>4
  <2>b. Where(l, start, head, cells) \in 0 .. M
    BY <1>4
  <2>5. /\ Array(ops', head, tail) /\ Lists(head, tail, asked, start, cells')
        /\ Code(ops', head, asked, start, cells') /\ CellsApart(ops', head, tail, start, cells')
    <3>1. FillsCell(ops, cells, n, l, Where(l, start, head, cells), ops', cells')
      BY <2>2, <2>4, <2>a DEF FillsCell
    <3>2. Built(ops', head, tail, asked, start, cells')
      BY <1>1, <1>4, <1>5, <2>b, <3>1, CellFilled DEF Built
    <3>3. QED
      BY <3>2 DEF Built
  <2>6. QED
    BY <1>1, <1>2, <2>1, <2>5 DEF GenInv, Built
<1>9. CASE ops[cells[n].pos] # Unfilled
  <2>1. cells[n].to = {}
    BY <1>3, <1>9
  <2>2. QED
    BY <1>7, <1>9, <2>1
<1>10. QED
  BY <1>8, <1>9

\* The array and the history as codegenInit leaves them.
LEMMA Fresh ==
  ASSUME NEW o, o = [p \in 0 .. M - 1 |-> Erased]
  PROVE  /\ Array(o, 0, M) /\ Lists(0, M, <<>>, <<>>, <<>>)
         /\ Code(o, 0, <<>>, <<>>, <<>>) /\ CellsApart(o, 0, M, <<>>, <<>>)
<1>1. M \in Nat /\ GoodOp(Erased)
  BY Sizes DEF GoodOp, Erased
<1>2. Array(o, 0, M)
  BY <1>1 DEF Array
<1>3. \A S : <<>> \in Seq(S)
  OBVIOUS
<1>4. Len(<<>>) = 0 /\ 1 .. 0 = {}
  OBVIOUS
<1>5. QED
  BY <1>2, <1>3, <1>4 DEF Lists, Code, CellsApart

LEMMA GenInitStep ==
  ASSUME GenInit
  PROVE  GenInv'
<1>1. /\ ops' = [p \in 0 .. M - 1 |-> Erased] /\ head' = 0 /\ tail' = M /\ ok' = TRUE
      /\ asked' = <<>> /\ start' = <<>> /\ cells' = <<>>
  BY DEF GenInit
<1>2. QED
  BY <1>1, Fresh DEF GenInv, Built

-----------------------------------------------------------------------------
(* The interpreter                                                           *)

LEMMA FrontLast ==
  ASSUME NEW S, NEW q \in Seq(S), q # <<>>
  PROVE  Front(q) \in Seq(S) /\ Len(Front(q)) = Len(q) - 1 /\ Last(q) \in S
<1>1. Len(q) \in Nat /\ Len(q) # 0
  BY LenProperties, EmptySeq
<1>2. Len(q) - 1 \in Nat /\ Len(q) \in 1 .. Len(q)
  BY <1>1
<1>3. \A i \in 1 .. Len(q) - 1 : q[i] \in S
  BY <1>1, ElementOfSeq
<1>4. SubSeq(q, 1, Len(q) - 1) \in Seq(S)
  BY <1>2, <1>3, SubSeqProperties
<1>5. Len(SubSeq(q, 1, Len(q) - 1)) = IF 1 <= Len(q) - 1 THEN Len(q) - 1 - 1 + 1 ELSE 0
  BY <1>2, <1>3, SubSeqProperties
<1>6. Len(SubSeq(q, 1, Len(q) - 1)) = Len(q) - 1
  <2>1. ASSUME NEW n \in Nat, n # 0, NEW x, x = IF 1 <= n - 1 THEN n - 1 - 1 + 1 ELSE 0
        PROVE  x = n - 1
    BY <2>1
  <2>2. QED
    BY <1>1, <1>5, <2>1
<1>7. q[Len(q)] \in S
  BY <1>2, ElementOfSeq
<1>8. QED
  BY <1>4, <1>6, <1>7 DEF Front, Last

LEMMA NextTurn ==
  ASSUME NEW n \in 0 .. CheckEvery - 1
  PROVE  (n + 1) % CheckEvery \in 0 .. CheckEvery - 1
BY Sizes

\* The run ends.
LEMMA EndStep ==
  ASSUME RunInv, phase' = "done", code' \in 0 .. Failed, expired' = expired,
         vpc' = 0, recur' = <<>>, data' = <<>>, ofst' = 0
  PROVE  RunInv'
<1>1. 0 \in 0 .. M + 1 /\ 0 \in 0 .. CheckEvery - 1 /\ 0 <= MaxCalls /\ 0 <= MaxStack
  BY Sizes
<1>2. <<>> \in Seq(0 .. M + 1) /\ <<>> \in Seq(Nat) /\ Len(<<>>) = 0
  OBVIOUS
<1>3. QED
  BY <1>1, <1>2 DEF RunInv

LEMMA OutStep ==
  ASSUME RunInv, NEW c \in 0 .. Failed, Out(c)
  PROVE  RunInv'
BY EndStep DEF Out

\* The run goes on, with the next opcode.
LEMMA GoStep ==
  ASSUME RunInv, NEW p \in 0 .. M + 1, Go(p),
         recur' \in Seq(0 .. M + 1), Len(recur') <= MaxCalls,
         data' \in Seq(Nat), Len(data') <= MaxStack
  PROVE  RunInv'
<1>1. ofst' \in 0 .. CheckEvery - 1
  BY NextTurn DEF Go, RunInv
<1>2. QED
  BY <1>1 DEF Go, RunInv

LEMMA GoOnStep ==
  ASSUME RunInv, NEW p \in 0 .. M + 1, Go(p), UNCHANGED <<recur, data>>
  PROVE  RunInv'
BY GoStep DEF RunInv

LEMMA Fetched ==
  ASSUME Array(ops, head, tail), RunInv, NEW op, Fetch(op)
  PROVE  /\ vpc \in 0 .. M - 1 /\ vpc + 1 \in 0 .. M + 1 /\ vpc + 2 \in 0 .. M + 1
         /\ vpc + 1 \in Nat /\ Word.op = op /\ GoodOp(Word)
<1>1. M \in Nat /\ vpc \in 0 .. M + 1 /\ vpc < M
  BY Sizes DEF Fetch, RunInv
<1>2. vpc \in 0 .. M - 1 /\ vpc + 1 \in 0 .. M + 1 /\ vpc + 2 \in 0 .. M + 1 /\ vpc + 1 \in Nat
  BY <1>1
<1>3. QED
  BY <1>2 DEF Fetch, Array, Word

LEMMA FailedIsCode == Failed \in 0 .. Failed
BY Sizes

LEMMA InterpretStep ==
  ASSUME Array(ops, head, tail), RunInv, Interpret
  PROVE  RunInv' /\ UNCHANGED genVars
<1>0. UNCHANGED genVars
  BY DEF Interpret, RunB, RunBl, RunRet, RunSkip, RunMov8, RunMov24, RunMov32, RunAlu, RunPush,
         RunPop, RunNative, RunExit, RunTimeOut, RunEnd, Go, Out, Load
<1>1. CASE RunB
  <2>1. Word.to \in 0 .. M
    BY <1>1, Fetched DEF RunB, GoodOp
  <2>2. Word.to \in 0 .. M + 1
    BY <2>1, Sizes
  <2>3. QED
    BY <1>0, <1>1, <2>2, GoOnStep DEF RunB
<1>2. CASE RunBl
  <2>1. CASE Len(recur) = MaxCalls
    BY <1>0, <1>2, <2>1, OutStep, FailedIsCode DEF RunBl
  <2>2. CASE Len(recur) # MaxCalls
    <3>1. Word.to \in 0 .. M /\ vpc + 1 \in 0 .. M + 1
      BY <1>2, Fetched DEF RunBl, GoodOp
    <3>2. Word.to \in 0 .. M + 1
      BY <3>1, Sizes
    <3>3. recur' = Append(recur, vpc + 1) /\ Go(Word.to) /\ data' = data
      BY <1>2, <2>2 DEF RunBl
    <3>4. recur \in Seq(0 .. M + 1) /\ Len(recur) \in Nat /\ Len(recur) <= MaxCalls
      BY LenProperties DEF RunInv
    <3>5. recur' \in Seq(0 .. M + 1) /\ Len(recur') = Len(recur) + 1
      BY <3>1, <3>3, <3>4, AppendProperties
    <3>6. Len(recur') <= MaxCalls
      BY <2>2, <3>4, <3>5, Sizes
    <3>7. data' \in Seq(Nat) /\ Len(data') <= MaxStack
      BY <3>3 DEF RunInv
    <3>8. QED
      BY <1>0, <3>2, <3>3, <3>5, <3>6, <3>7, GoStep
  <2>3. QED
    BY <2>1, <2>2
<1>3. CASE RunRet
  <2>1. CASE recur = <<>>
    BY <1>0, <1>3, <2>1, OutStep, FailedIsCode DEF RunRet
  <2>2. CASE recur # <<>>
    <3>1. recur' = Front(recur) /\ Go(Last(recur)) /\ data' = data
      BY <1>3, <2>2 DEF RunRet
    <3>2. recur \in Seq(0 .. M + 1) /\ Len(recur) \in Nat /\ Len(recur) <= MaxCalls
      BY LenProperties DEF RunInv
    <3>3. recur' \in Seq(0 .. M + 1) /\ Len(recur') = Len(recur) - 1 /\ Last(recur) \in 0 .. M + 1
      BY <2>2, <3>1, <3>2, FrontLast
    <3>4. Len(recur') <= MaxCalls
      BY <3>2, <3>3, Sizes
    <3>5. data' \in Seq(Nat) /\ Len(data') <= MaxStack
      BY <3>1 DEF RunInv
    <3>6. QED
      BY <1>0, <3>1, <3>3, <3>4, <3>5, GoStep
  <2>3. QED
    BY <2>1, <2>2
<1>4. CASE RunSkip
  <2>1. vpc + 1 \in 0 .. M + 1 /\ vpc + 2 \in 0 .. M + 1
    BY <1>4, Fetched DEF RunSkip
  <2>2. PICK p \in {vpc + 1, vpc + 2} : Go(p)
    BY <1>4 DEF RunSkip
  <2>3. UNCHANGED <<recur, data>>
    BY <1>4 DEF RunSkip
  <2>4. QED
    BY <1>0, <2>1, <2>2, <2>3, GoOnStep
<1>5. CASE RunMov8
  <2>1. vpc + 1 \in 0 .. M + 1
    BY <1>5, Fetched DEF RunMov8
  <2>2. QED
    BY <1>0, <1>5, <2>1, GoOnStep DEF RunMov8, Load
<1>6. CASE RunMov24
  <2>1. CASE vpc + 2 >= M
    BY <1>0, <1>6, <2>1, OutStep, FailedIsCode DEF RunMov24
  <2>2. CASE ~ (vpc + 2 >= M)
    <3>1. vpc + 2 \in 0 .. M + 1
      BY <1>6, Fetched DEF RunMov24
    <3>2. Go(vpc + 2) /\ UNCHANGED <<recur, data>>
      BY <1>6, <2>2 DEF RunMov24, Load
    <3>3. QED
      BY <1>0, <3>1, <3>2, GoOnStep
  <2>3. QED
    BY <2>1, <2>2
<1>7. CASE RunMov32
  <2>1. CASE vpc + 3 >= M
    BY <1>0, <1>7, <2>1, OutStep, FailedIsCode DEF RunMov32
  <2>2. CASE ~ (vpc + 3 >= M)
    <3>1. vpc \in 0 .. M - 1
      BY <1>7, Fetched DEF RunMov32
    <3>2. vpc + 3 \in 0 .. M + 1
      BY <2>2, <3>1, Sizes
    <3>3. Go(vpc + 3) /\ UNCHANGED <<recur, data>>
      BY <1>7, <2>2 DEF RunMov32, Load
    <3>4. QED
      BY <1>0, <3>2, <3>3, GoOnStep
  <2>3. QED
    BY <2>1, <2>2
<1>8. CASE RunAlu
  <2>1. CASE Word.f = "lsl" /\ Word.imm
    BY <1>0, <1>8, <2>1, EndStep, FailedIsCode DEF RunAlu
  <2>2. CASE ~ (Word.f = "lsl" /\ Word.imm)
    <3>1. vpc + 1 \in 0 .. M + 1
      BY <1>8, Fetched DEF RunAlu
    <3>2. Go(vpc + 1) /\ UNCHANGED <<recur, data>>
      BY <1>8, <2>2 DEF RunAlu, Load
    <3>3. QED
      BY <1>0, <3>1, <3>2, GoOnStep
  <2>3. QED
    BY <2>1, <2>2
<1>9. CASE RunPush
  <2>1. CASE Len(data) = MaxStack
    BY <1>0, <1>9, <2>1, OutStep, FailedIsCode DEF RunPush
  <2>2. CASE Len(data) # MaxStack
    <3>1. vpc + 1 \in 0 .. M + 1 /\ vpc + 1 \in Nat
      BY <1>9, Fetched DEF RunPush
    <3>2. data' = Append(data, vpc + 1) /\ Go(vpc + 1) /\ recur' = recur
      BY <1>9, <2>2 DEF RunPush
    <3>3. data \in Seq(Nat) /\ Len(data) \in Nat /\ Len(data) <= MaxStack
      BY LenProperties DEF RunInv
    <3>4. data' \in Seq(Nat) /\ Len(data') = Len(data) + 1
      BY <3>1, <3>2, <3>3, AppendProperties
    <3>5. Len(data') <= MaxStack
      BY <2>2, <3>3, <3>4, Sizes
    <3>6. recur' \in Seq(0 .. M + 1) /\ Len(recur') <= MaxCalls
      BY <3>2 DEF RunInv
    <3>7. QED
      BY <1>0, <3>1, <3>2, <3>4, <3>5, <3>6, GoStep
  <2>3. QED
    BY <2>1, <2>2
<1>10. CASE RunPop
  <2>1. CASE data = <<>>
    BY <1>0, <1>10, <2>1, OutStep, FailedIsCode DEF RunPop
  <2>2. CASE data # <<>>
    <3>1. data' = Front(data) /\ Go(vpc + 1) /\ recur' = recur
      BY <1>10, <2>2 DEF RunPop
    <3>2. data \in Seq(Nat) /\ Len(data) \in Nat /\ Len(data) <= MaxStack
      BY LenProperties DEF RunInv
    <3>3. data' \in Seq(Nat) /\ Len(data') = Len(data) - 1
      BY <2>2, <3>1, <3>2, FrontLast
    <3>4. Len(data') <= MaxStack /\ vpc + 1 \in 0 .. M + 1
      <4>1. Len(data') <= MaxStack
        BY <3>2, <3>3, Sizes
      <4>2. vpc + 1 \in 0 .. M + 1
        BY <1>10, Fetched DEF RunPop
      <4>3. QED
        BY <4>1, <4>2
    <3>5. recur' \in Seq(0 .. M + 1) /\ Len(recur') <= MaxCalls
      BY <3>1 DEF RunInv
    <3>6. QED
      BY <1>0, <3>1, <3>3, <3>4, <3>5, GoStep
  <2>3. QED
    BY <2>1, <2>2
<1>11. CASE RunNative
  <2>1. CASE Word.src \in DOMAIN NativeRets
    <3>1. vpc + 1 \in 0 .. M + 1
      BY <1>11, Fetched DEF RunNative
    <3>2. Go(vpc + 1) /\ UNCHANGED <<recur, data>>
      BY <1>11, <2>1 DEF RunNative, Load
    <3>3. QED
      BY <1>0, <3>1, <3>2, GoOnStep
  <2>2. CASE Word.src \notin DOMAIN NativeRets
    BY <1>0, <1>11, <2>2, OutStep, FailedIsCode DEF RunNative
  <2>3. QED
    BY <2>1, <2>2
<1>12. CASE RunExit
  <2>1. Word.v \in 0 .. Failed
    BY <1>12, Fetched DEF RunExit, GoodOp
  <2>2. QED
    BY <1>0, <1>12, <2>1, OutStep DEF RunExit
<1>13. CASE RunTimeOut
  BY <1>0, <1>13, OutStep, FailedIsCode DEF RunTimeOut
<1>14. CASE RunEnd
  BY <1>0, <1>14, OutStep, FailedIsCode DEF RunEnd
<1>15. QED
  BY <1>1, <1>2, <1>3, <1>4, <1>5, <1>6, <1>7, <1>8, <1>9, <1>10, <1>11, <1>12, <1>13, <1>14
     DEF Interpret

-----------------------------------------------------------------------------
(* The invariant holds, and what it implies                                  *)

LEMMA InitInv == Init => IInv
<1> SUFFICES ASSUME Init PROVE IInv
  OBVIOUS
<1>1. GenInv
  <2>1. /\ ops = [p \in 0 .. M - 1 |-> Erased] /\ head = 0 /\ tail = M /\ ok = TRUE
        /\ asked = <<>> /\ start = <<>> /\ cells = <<>>
    BY DEF Init
  <2>2. QED
    BY <2>1, Fresh DEF GenInv, Built
<1>2. RunInv
  <2>1. <<>> \in Seq(0 .. M + 1) /\ <<>> \in Seq(Nat) /\ Len(<<>>) = 0
    OBVIOUS
  <2>2. /\ 0 \in 0 .. M + 1 /\ 0 \in 0 .. CheckEvery - 1 /\ 0 <= MaxCalls /\ 0 <= MaxStack
        /\ Failed \in 0 .. Failed
    BY Sizes, FailedIsCode
  <2>3. QED
    BY <2>1, <2>2 DEF Init, RunInv
<1>3. QED
  BY <1>1, <1>2 DEF IInv

LEMMA GenKept ==
  ASSUME GenInv, UNCHANGED genVars
  PROVE  GenInv'
<1>1. /\ ops' = ops /\ head' = head /\ tail' = tail /\ ok' = ok
      /\ asked' = asked /\ start' = start /\ cells' = cells
  BY DEF genVars
<1>2. QED
  BY <1>1 DEF GenInv

LEMMA RunKept ==
  ASSUME RunInv, UNCHANGED <<phase, runVars, expired, code>>
  PROVE  RunInv'
<1>1. /\ phase' = phase /\ vpc' = vpc /\ recur' = recur /\ data' = data /\ ofst' = ofst
      /\ expired' = expired /\ code' = code
  BY DEF runVars
<1>2. QED
  BY <1>1 DEF RunInv

LEMMA RunStep ==
  ASSUME RunInv, Run
  PROVE  RunInv'
<1>1. 0 \in 0 .. M + 1 /\ 0 \in 0 .. CheckEvery - 1 /\ 0 <= MaxCalls /\ 0 <= MaxStack
  BY Sizes
<1>2. <<>> \in Seq(0 .. M + 1) /\ <<>> \in Seq(Nat) /\ Len(<<>>) = 0
  OBVIOUS
<1>3. QED
  BY <1>1, <1>2 DEF RunInv, Run

LEMMA NextInv == IInv /\ [Next]_vars => IInv'
<1> SUFFICES ASSUME IInv, [Next]_vars
             PROVE  IInv'
  OBVIOUS
<1>0. GenInv /\ RunInv /\ Array(ops, head, tail)
  BY DEF IInv, GenInv
<1>1. CASE AddOpcode
  BY <1>0, <1>1, AddOpcodeStep, RunKept DEF AddOpcode, Building, IInv
<1>2. CASE AddBranch
  BY <1>0, <1>2, AddBranchStep, RunKept DEF AddBranch, Building, IInv
<1>3. CASE Predeclare
  BY <1>0, <1>3, PredeclareStep, RunKept DEF Predeclare, Building, IInv
<1>4. CASE Fill
  BY <1>0, <1>4, FillStep, RunKept DEF Fill, Building, IInv
<1>5. CASE GenInit
  BY <1>0, <1>5, GenInitStep, RunKept DEF GenInit, IInv
<1>6. CASE Run
  BY <1>0, <1>6, RunStep, GenKept DEF Run, IInv
<1>7. CASE Interpret
  BY <1>0, <1>7, InterpretStep, GenKept DEF IInv
<1>8. CASE Answered
  <2>1. RunInv'
    BY <1>0, <1>8, FailedIsCode DEF Answered, RunInv
  <2>2. QED
    BY <1>0, <1>8, <2>1, GenKept DEF Answered, IInv
<1>9. CASE Tick
  <2>1. RunInv'
    BY <1>0, <1>9 DEF Tick, RunInv, runVars
  <2>2. QED
    BY <1>0, <1>9, <2>1, GenKept DEF Tick, IInv
<1>10. CASE UNCHANGED vars
  BY <1>0, <1>10, GenKept, RunKept DEF vars, IInv
<1>11. QED
  BY <1>1, <1>2, <1>3, <1>4, <1>5, <1>6, <1>7, <1>8, <1>9, <1>10 DEF Next

LEMMA InvFull == IInv => FailsOnlyWhenFull
BY DEF IInv, GenInv, FailsOnlyWhenFull

LEMMA EncodeKept ==
  ASSUME GenInv, ok, NEW k \in 1 .. Len(asked)
  PROVE  /\ Encode(asked[k], IF "to" \in DOMAIN asked[k] THEN Position(asked[k].to) ELSE 0)
              = Opcodes(asked[k], Place(asked[k], start, head, cells))
         /\ At(ops, head, start[k], Opcodes(asked[k], Place(asked[k], start, head, cells)))
         /\ LET ws == Opcodes(asked[k], Place(asked[k], start, head, cells))
            IN  Len(ws) \in Nat /\ DOMAIN ws = 1 .. Len(ws)
<1>1. /\ Array(ops, head, tail) /\ Lists(head, tail, asked, start, cells)
      /\ Code(ops, head, asked, start, cells) /\ CellsApart(ops, head, tail, start, cells)
  BY DEF GenInv, Built
<1> DEFINE i == asked[k]
<1>2. i \in AnyInstr
  BY <1>1, ElementOfSeq DEF Lists
<1>3. /\ "to" \in DOMAIN i => i.to \in AllLabels /\ Known(i.to, start, cells)
      /\ At(ops, head, start[k], Opcodes(i, Place(i, start, head, cells)))
  BY <1>1 DEF Code
<1> HIDE DEF i
<1>4. /\ Place(i, start, head, cells) \in 0 .. M
      /\ Place(i, start, head, cells) <= head \/ Place(i, start, head, cells) \in tail .. M - 1
  BY <1>1, <1>2, <1>3, PlaceInside
<1>5. Place(i, start, head, cells) = IF "to" \in DOMAIN i THEN Position(i.to) ELSE 0
  <2>1. DOMAIN start = 1 .. Len(start)
    BY <1>1, LenProperties DEF Lists
  <2>2. \A l \in AllLabels : Position(l) = Where(l, start, head, cells)
    BY <2>1 DEF Position, Where
  <2>3. QED
    BY <1>3, <2>2 DEF Place
<1>6. VerifyLabel(Place(i, start, head, cells))
  BY <1>4 DEF VerifyLabel
<1>7. Encode(i, Place(i, start, head, cells)) = Opcodes(i, Place(i, start, head, cells))
  BY <1>2, <1>6, EncodeLegal
<1>8. LET ws == Opcodes(i, Place(i, start, head, cells))
      IN  Len(ws) \in Nat /\ DOMAIN ws = 1 .. Len(ws)
  BY <1>2, <1>4, OpcodesGood
<1>9. QED
  BY <1>3, <1>5, <1>7, <1>8 DEF i

LEMMA InvIntact == IInv /\ regs \in [Regs -> Words] => Intact
<1> SUFFICES ASSUME IInv, regs \in [Regs -> Words]
             PROVE  Intact
  OBVIOUS
<1>1. TypeOK
  BY Sizes DEF IInv, GenInv, RunInv, Array, TypeOK
<1>2. head <= tail
  BY DEF IInv, GenInv, Array
<1>3. ASSUME ok, NEW k \in DOMAIN asked
      PROVE  LET i == asked[k] IN
             LET ws == Encode(i, IF "to" \in DOMAIN i THEN Position(i.to) ELSE 0) IN
             \A j \in DOMAIN ws : start[k] + j - 1 < head /\ ops[start[k] + j - 1] = ws[j]
  <2>1. k \in 1 .. Len(asked)
    BY <1>3, LenProperties DEF IInv, GenInv, Built, Lists
  <2>2. QED
    BY <1>3, <2>1, EncodeKept DEF At, IInv
<1>4. ASSUME ok, NEW c \in DOMAIN cells
      PROVE  /\ cells[c].pos \in tail .. M - 1 /\ Cardinality(cells[c].to) <= 1
             /\ ops[cells[c].pos] \in IF cells[c].to = {} THEN {Unfilled}
                                      ELSE {[op |-> "b", to |-> Position(l)] : l \in cells[c].to}
  <2>1. c \in 1 .. Len(cells)
    BY <1>4, LenProperties DEF IInv, GenInv, Built, Lists
  <2>2. cells[c].pos \in tail .. M - 1 /\ Cell(ops, head, start, cells, c)
    BY <1>4, <2>1 DEF IInv, GenInv, Built, CellsApart
  <2>3. CASE cells[c].to = {} /\ ops[cells[c].pos] = Unfilled
    <3>1. Cardinality({}) = 0
      BY FS_EmptySet
    <3>2. QED
      BY <2>2, <2>3, <3>1
  <2>4. ASSUME NEW l \in AllLabels, cells[c].to = {l}, Known(l, start, cells),
               ops[cells[c].pos] = [op |-> "b", to |-> Where(l, start, head, cells)]
        PROVE  /\ Cardinality(cells[c].to) <= 1
               /\ ops[cells[c].pos] \in IF cells[c].to = {} THEN {Unfilled}
                                        ELSE {[op |-> "b", to |-> Position(m)] : m \in cells[c].to}
    <3>1. Cardinality({l}) = 1
      BY FS_Singleton
    <3>2. DOMAIN start = 1 .. Len(start)
      BY <1>4, LenProperties DEF IInv, GenInv, Built, Lists
    <3>3. Position(l) = Where(l, start, head, cells)
      BY <3>2 DEF Position, Where
    <3>4. QED
      BY <2>4, <3>1, <3>3
  <2>5. QED
    BY <2>2, <2>3, <2>4 DEF Cell
<1>5. QED
  BY <1>1, <1>2, <1>3, <1>4 DEF Intact

\* Labels stay valid whatever instructions and label cells come in between: a
\* request that is legal fails only when code and label cells have met
\* (codegenAllocFront, codegenVerifyLabel, codegenGetPredeclaredLabelFillTarget).
THEOREM FullOnly == Spec => []FailsOnlyWhenFull
BY InitInv, NextInv, InvFull, PTL DEF Spec

-----------------------------------------------------------------------------
(* Where the instructions lie                                                *)

\* How many opcodes an instruction has, wherever its label leads.
Width(i) == Len(Opcodes(i, 0))

\* The code has no gaps, and nothing has been put between it and the cells.
Packed(h, a, s) ==
  /\ \A k \in 1 .. Len(a) : s[k] + Width(a[k]) = IF k < Len(a) THEN s[k + 1] ELSE h
  /\ \A j, k \in 1 .. Len(a) : j < k => s[j] + Width(a[j]) <= s[k]
  /\ IF Len(a) = 0 THEN h = 0 ELSE s[1] = 0
Blank(o, h, t) == \A p \in 0 .. M - 1 : h <= p /\ p < t => o[p] = Erased
HistInv == ok => Packed(head, asked, start) /\ Blank(ops, head, tail)

LEMMA LoadWidth ==
  ASSUME NEW r, NEW v
  PROVE  Len(LoadImm(r, v)) \in 1 .. 3
<1> DEFINE Mov8(x) == [op |-> "mov8", r |-> r, v |-> x]
           Good(q) == Len(q) \in 1 .. 3
<1>1. \A x : Good(<<x>>)
  OBVIOUS
<1>2. \A x, y : Good(<<x, y>>)
  OBVIOUS
<1>3. \A x, y, z : Good(<<x, y, z>>)
  OBVIOUS
<1> HIDE DEF Good
<1>5. Good(LoadImm(r, v))
  BY <1>1, <1>2, <1>3 DEF LoadImm
<1>6. QED
  BY <1>5 DEF Good

\* The place of a label does not count.
LEMMA WidthIs ==
  ASSUME NEW i \in AnyInstr, NEW p
  PROVE  Len(Opcodes(i, p)) = Width(i) /\ Width(i) \in 1 .. 3
<1>1. CASE i.op = "alu" /\ i.f = "mov" /\ i.imm
  BY <1>1, LoadWidth DEF Opcodes, Width
<1>2. CASE \/ i.op = "alu" /\ ~ (i.f = "mov" /\ i.imm)
           \/ i.op \in {"ret", "native", "push", "pop"}
  BY <1>2 DEF Opcodes, Width
<1>3. CASE i.op = "br"
  <2>1. \A x, y, z : Len(<<x>>) = 1 /\ Len(<<y, z>>) = 2
    OBVIOUS
  <2>2. QED
    BY <1>3, <2>1 DEF Opcodes, Width
<1>4. CASE i.op = "call" \/ i.op = "exit"
  BY <1>4 DEF Opcodes, Width
<1>5. QED
  BY <1>1, <1>2, <1>3, <1>4, InstrKinds

\* What a written word leaves of the rest, exactly.
LEMMA EmittedLen ==
  ASSUME Array(ops, head, tail), NEW ws, Len(ws) \in Nat, EmitUpTo(ws, TRUE), ok'
  PROVE  head' = head + Len(ws) /\ tail' = tail
<1>1. head \in Nat /\ tail \in Nat /\ head <= tail
  BY Sizes DEF Array
<1>2. QED
  BY <1>1 DEF EmitUpTo

LEMMA PackedGrows ==
  ASSUME NEW h \in Nat, NEW a \in Seq(AnyInstr), NEW s \in Seq(0 .. M), Len(s) = Len(a),
         \A k \in 1 .. Len(s) : s[k] <= h,
         Packed(h, a, s), NEW i \in AnyInstr, NEW g, g = h + Width(i)
  PROVE  Packed(g, Append(a, i), Append(s, h))
<1> DEFINE b == Append(a, i)
           t == Append(s, h)
           n == Len(a)
<1>1. n \in Nat /\ Width(i) \in Nat
  BY WidthIs, LenProperties
<1>2. Len(b) = n + 1 /\ b[n + 1] = i /\ \A k \in 1 .. n : b[k] = a[k]
  BY AppendProperties
<1>3. /\ Len(t) = n + 1 /\ t[n + 1] = h /\ \A k \in 1 .. n : t[k] = s[k]
  BY AppendProperties, <1>1
<1>4. ASSUME NEW k \in 1 .. n
      PROVE  s[k] \in Nat /\ Width(a[k]) \in Nat
  <2>1. a[k] \in AnyInstr
    BY ElementOfSeq
  <2>2. s[k] \in 0 .. M
    BY ElementOfSeq
  <2>3. Width(a[k]) \in 1 .. 3
    BY <2>1, WidthIs
  <2>4. QED
    BY <2>2, <2>3, Sizes
<1> HIDE DEF b, t, n
<1>5. \A k \in 1 .. n : s[k] + Width(a[k]) = IF k < n THEN s[k + 1] ELSE h
  BY DEF Packed, n
<1>6. \A j, k \in 1 .. n : j < k => s[j] + Width(a[j]) <= s[k]
  BY DEF Packed, n
<1>7. IF n = 0 THEN h = 0 ELSE s[1] = 0
  BY DEF Packed, n
<1>8. ASSUME NEW k \in 1 .. n + 1
      PROVE  t[k] + Width(b[k]) = IF k < n + 1 THEN t[k + 1] ELSE g
  <2>1. CASE k = n + 1
    BY <1>1, <1>2, <1>3, <2>1
  <2>2. CASE k = n
    <3>1. k \in 1 .. n /\ k < n + 1 /\ ~ (k < n)
      BY <1>1, <2>2
    <3>2. t[k] = s[k] /\ b[k] = a[k] /\ t[k + 1] = h
      BY <1>2, <1>3, <2>2, <3>1
    <3>3. s[k] + Width(a[k]) = h
      BY <1>5, <3>1
    <3>4. QED
      BY <3>1, <3>2, <3>3
  <2>3. CASE k < n
    <3>1. k \in 1 .. n /\ k + 1 \in 1 .. n /\ k < n + 1
      BY <1>1, <2>3
    <3>2. t[k] = s[k] /\ b[k] = a[k] /\ t[k + 1] = s[k + 1]
      BY <1>2, <1>3, <3>1
    <3>3. s[k] + Width(a[k]) = s[k + 1]
      BY <1>5, <2>3, <3>1
    <3>4. QED
      BY <3>1, <3>2, <3>3
  <2>4. QED
    BY <1>1, <2>1, <2>2, <2>3
<1>9. ASSUME NEW k \in 1 .. n
      PROVE  s[k] + Width(a[k]) <= h
  <2>1. CASE k = n
    BY <1>4, <1>5, <2>1
  <2>2. CASE k < n
    <3>1. k + 1 \in 1 .. n
      BY <1>1, <2>2
    <3>2. s[k] + Width(a[k]) = s[k + 1] /\ s[k + 1] <= h
      BY <1>1, <1>5, <2>2, <3>1 DEF n
    <3>3. QED
      BY <3>2
  <2>3. QED
    BY <1>1, <2>1, <2>2
<1>10. ASSUME NEW j \in 1 .. n + 1, NEW k \in 1 .. n + 1, j < k
       PROVE  t[j] + Width(b[j]) <= t[k]
  <2>1. j \in 1 .. n /\ t[j] = s[j] /\ b[j] = a[j]
    BY <1>1, <1>2, <1>3, <1>10
  <2>2. CASE k = n + 1
    BY <1>3, <1>9, <2>1, <2>2
  <2>3. CASE k # n + 1
    <3>1. k \in 1 .. n /\ t[k] = s[k]
      BY <1>1, <1>3, <2>3
    <3>2. QED
      BY <1>6, <1>10, <2>1, <3>1
  <2>4. QED
    BY <2>2, <2>3
<1>11. n + 1 # 0 /\ t[1] = 0
  <2>1. CASE n = 0
    BY <1>3, <1>7, <2>1
  <2>2. CASE n # 0
    <3>1. 1 \in 1 .. n
      BY <1>1, <2>2
    <3>2. QED
      BY <1>1, <1>3, <1>7, <2>2, <3>1
  <2>3. QED
    BY <1>1, <2>1, <2>2
<1>12. Packed(g, b, t)
  BY <1>2, <1>8, <1>10, <1>11 DEF Packed
<1>13. QED
  BY <1>12 DEF b, t

\* An instruction that is added joins the others.
LEMMA EmitHist ==
  ASSUME GenInv, HistInv, ok, NEW i \in AnyInstr, "to" \in DOMAIN i => Known(i.to, start, cells),
         EmitUpTo(Opcodes(i, Place(i, start, head, cells)), TRUE), Remember(i)
  PROVE  HistInv'
<1> SUFFICES ASSUME ok'
             PROVE  Packed(head', asked', start') /\ Blank(ops', head', tail')
  BY DEF HistInv
<1>1. /\ Array(ops, head, tail) /\ Lists(head, tail, asked, start, cells)
      /\ Code(ops, head, asked, start, cells) /\ CellsApart(ops, head, tail, start, cells)
  BY DEF GenInv, Built
<1> DEFINE ws == Opcodes(i, Place(i, start, head, cells))
<1>2. /\ Len(ws) \in Nat /\ \A j \in 1 .. Len(ws) : GoodOp(ws[j])
  BY <1>1, PlaceInside, OpcodesGood
<1>3. Len(ws) = Width(i)
  BY WidthIs
<1>a. EmitUpTo(ws, TRUE)
  OBVIOUS
<1> HIDE DEF ws
<1>4. head' = head + Width(i) /\ tail' = tail
  BY <1>1, <1>2, <1>3, <1>a, EmittedLen
<1>5. \A p \in 0 .. M - 1 : p < head \/ p >= head' => ops'[p] = ops[p]
  BY <1>1, <1>2, <1>a, Emitted
<1>6. head \in Nat /\ head' \in Nat /\ head <= head'
  BY <1>1, <1>4, WidthIs, Sizes DEF Array
<1>7. Blank(ops', head', tail')
  BY <1>4, <1>5, <1>6 DEF HistInv, Blank
<1>8. asked' = Append(asked, i) /\ start' = Append(start, head)
  BY DEF Remember
<1>9. Packed(head', Append(asked, i), Append(start, head))
  BY <1>1, <1>4, <1>6, PackedGrows DEF Lists, HistInv
<1>10. QED
  BY <1>7, <1>8, <1>9

LEMMA AddOpcodeHist ==
  ASSUME GenInv, HistInv, AddOpcode
  PROVE  HistInv'
<1>1. PICK i \in Source : /\ ~ Jump(i) /\ EmitUpTo(Encode(i, 0), TRUE)
                          /\ Remember(i)
  BY DEF AddOpcode
<1>2. i \in AnyInstr /\ "to" \notin DOMAIN i
  BY <1>1, SourceKinds DEF AnyInstr
<1>3. Place(i, start, head, cells) = 0
  BY <1>2 DEF Place
<1>4. Encode(i, 0) = Opcodes(i, Place(i, start, head, cells))
  BY <1>1, <1>2, <1>3, EncodeLegal
<1>5. ok
  BY DEF AddOpcode, Building
<1>6. QED
  BY <1>1, <1>2, <1>4, <1>5, EmitHist

LEMMA AddBranchHist ==
  ASSUME GenInv, HistInv, AddBranch
  PROVE  HistInv'
<1>1. PICK i \in Source, l \in Labels :
        /\ Jump(i) /\ EmitUpTo(Encode(i, Position(l)), VerifyLabel(Position(l)))
        /\ Remember(Labelled(i, l))
  BY DEF AddBranch
<1>2. ok
  BY DEF AddBranch, Building
<1> DEFINE j == Labelled(i, l)
<1>3. /\ l \in AllLabels /\ Known(l, start, cells)
      /\ Position(l) = Where(l, start, head, cells) /\ VerifyLabel(Position(l))
  BY <1>2, HostLabel
<1>4. j \in AnyInstr
  BY <1>1, <1>3 DEF AnyInstr
<1>5. /\ "to" \in DOMAIN j /\ j.to = l
      /\ Opcodes(j, Position(l)) = Opcodes(i, Position(l))
  BY <1>1, LabelledSame
<1>6. Encode(i, Position(l)) = Opcodes(i, Position(l))
  BY <1>3, EncodeLegal
<1> HIDE DEF j
<1>7. Encode(i, Position(l)) = Opcodes(j, Place(j, start, head, cells))
  BY <1>3, <1>5, <1>6 DEF Place
<1>8. EmitUpTo(Encode(i, Position(l)), TRUE)
  BY <1>1, <1>3 DEF EmitUpTo
<1>9. EmitUpTo(Opcodes(j, Place(j, start, head, cells)), TRUE)
  BY <1>7, <1>8
<1>10. Remember(j)
  BY <1>1 DEF j
<1>11. Known(j.to, start, cells)
  BY <1>3, <1>5
<1>12. QED
  BY <1>2, <1>4, <1>9, <1>10, <1>11, EmitHist

\* Cells are behind the code.
LEMMA CellsHist ==
  ASSUME GenInv, HistInv, Predeclare \/ Fill
  PROVE  HistInv'
<1>1. /\ Array(ops, head, tail) /\ CellsApart(ops, head, tail, start, cells) /\ ok
      /\ Lists(head, tail, asked, start, cells)
      /\ Packed(head, asked, start) /\ Blank(ops, head, tail)
  BY DEF GenInv, Built, HistInv, Predeclare, Fill, Building
<1>2. head' = head /\ asked' = asked /\ start' = start
  BY DEF Predeclare, Fill
<1>3. head \in Nat /\ tail \in Nat /\ head <= tail /\ tail <= M /\ DOMAIN ops = 0 .. M - 1
  BY <1>1, Sizes DEF Array
<1>4. CASE Predeclare
  <2>1. CASE tail = head
    BY <1>1, <1>2, <1>4, <2>1 DEF Predeclare, HistInv
  <2>2. CASE tail # head
    <3>1. ops' = [ops EXCEPT ![tail - 1] = Unfilled] /\ tail' = tail - 1
      BY <1>4, <2>2 DEF Predeclare
    <3>2. \A p \in 0 .. M - 1 : p # tail - 1 => ops'[p] = ops[p]
      BY <1>3, <3>1
    <3>3. Blank(ops', head, tail - 1)
      BY <1>1, <1>3, <3>2 DEF Blank
    <3>4. QED
      BY <1>1, <1>2, <3>1, <3>3 DEF HistInv
  <2>3. QED
    BY <2>1, <2>2
<1>5. CASE Fill
  <2>0. PICK c \in DOMAIN cells : \E x :
           ops' = [ops EXCEPT ![cells[c].pos] = x] \/ ops' = ops
    BY <1>5 DEF Fill
  <2>1. PICK x :
           ops' = [ops EXCEPT ![cells[c].pos] = x] \/ ops' = ops
    BY <2>0
  <2>2. tail' = tail
    BY <1>5 DEF Fill
  <2>3. cells[c].pos \in tail .. M - 1
    <3>1. c \in 1 .. Len(cells)
      BY <1>1, LenProperties DEF Lists
    <3>2. QED
      BY <1>1, <3>1 DEF CellsApart
  <2>4. ASSUME NEW p \in 0 .. M - 1, p < tail
        PROVE  ops'[p] = ops[p]
    <3>1. p # cells[c].pos
      BY <1>3, <2>3, <2>4
    <3>2. p \in DOMAIN ops
      BY <1>3
    <3>3. CASE ops' = ops
      BY <3>3
    <3>4. CASE ops' = [ops EXCEPT ![cells[c].pos] = x]
      BY <3>1, <3>2, <3>4
    <3>5. QED
      BY <2>1, <3>3, <3>4
  <2>5. Blank(ops', head, tail)
    BY <1>1, <1>3, <2>4 DEF Blank
  <2>6. QED
    BY <1>1, <1>2, <2>2, <2>5 DEF HistInv
<1>6. QED
  BY <1>4, <1>5

\* At first there is no code.
LEMMA FreshHist ==
  ASSUME NEW o, o = [p \in 0 .. M - 1 |-> Erased]
  PROVE  Packed(0, <<>>, <<>>) /\ Blank(o, 0, M)
<1>1. Len(<<>>) = 0 /\ 1 .. 0 = {}
  OBVIOUS
<1>2. QED
  BY <1>1 DEF Packed, Blank

LEMMA HistKept ==
  ASSUME HistInv, UNCHANGED genVars
  PROVE  HistInv'
<1>1. /\ ops' = ops /\ head' = head /\ tail' = tail /\ ok' = ok
      /\ asked' = asked /\ start' = start /\ cells' = cells
  BY DEF genVars
<1>2. QED
  BY <1>1 DEF HistInv

-----------------------------------------------------------------------------
(* A finished program, position by position                                  *)

Complete == GenInv /\ HistInv /\ ok /\ Finished

LEMMA Parts ==
  ASSUME Complete
  PROVE  /\ Len(asked) \in Nat /\ DOMAIN asked = 1 .. Len(asked)
         /\ DOMAIN start = 1 .. Len(asked) /\ Len(start) = Len(asked)
         /\ Len(cells) \in Nat /\ DOMAIN cells = 1 .. Len(cells)
         /\ M \in Nat /\ head \in 0 .. M /\ tail \in 0 .. M /\ head <= tail
         /\ \A k \in 1 .. Len(asked) : /\ asked[k] \in AnyInstr /\ start[k] \in Nat
                                       /\ Width(asked[k]) \in 1 .. 3
                                       /\ start[k] + Width(asked[k]) <= head
         /\ \A j, k \in 1 .. Len(asked) : j < k => start[j] + Width(asked[j]) <= start[k]
<1>1. /\ Array(ops, head, tail) /\ Lists(head, tail, asked, start, cells)
      /\ Packed(head, asked, start)
  BY DEF Complete, GenInv, Built, HistInv
<1>2. /\ Len(asked) \in Nat /\ DOMAIN asked = 1 .. Len(asked)
      /\ DOMAIN start = 1 .. Len(asked) /\ Len(start) = Len(asked)
      /\ Len(cells) \in Nat /\ DOMAIN cells = 1 .. Len(cells)
  BY <1>1, LenProperties DEF Lists
<1>3. M \in Nat /\ head \in 0 .. M /\ tail \in 0 .. M /\ head <= tail
  BY <1>1, Sizes DEF Array
<1>4. \A j, k \in 1 .. Len(asked) : j < k => start[j] + Width(asked[j]) <= start[k]
  BY <1>1 DEF Packed
<1>5. ASSUME NEW k \in 1 .. Len(asked)
      PROVE  /\ asked[k] \in AnyInstr /\ start[k] \in Nat
             /\ Width(asked[k]) \in 1 .. 3
             /\ start[k] + Width(asked[k]) <= head
  <2>1. asked[k] \in AnyInstr
    BY <1>1, ElementOfSeq DEF Lists
  <2>2. start[k] \in 0 .. M /\ start[k] <= head
    BY <1>1, <1>2, ElementOfSeq DEF Lists
  <2>3. Width(asked[k]) \in 1 .. 3
    BY <2>1, WidthIs
  <2>4. start[k] + Width(asked[k]) = IF k < Len(asked) THEN start[k + 1] ELSE head
    BY <1>1 DEF Packed
  <2>5. k < Len(asked) => start[k + 1] <= head
    <3>1. k < Len(asked) => k + 1 \in 1 .. Len(start)
      BY <1>2
    <3>2. QED
      BY <1>1, <3>1 DEF Lists
  <2>6. QED
    BY <1>3, <2>1, <2>2, <2>3, <2>4, <2>5
<1>6. QED
  BY <1>2, <1>3, <1>4, <1>5

LEMMA Lengths ==
  ASSUME Complete
  PROVE  /\ Len(asked) \in Nat /\ DOMAIN asked = 1 .. Len(asked)
         /\ DOMAIN start = 1 .. Len(asked) /\ Len(start) = Len(asked)
         /\ Len(cells) \in Nat /\ DOMAIN cells = 1 .. Len(cells)
         /\ M \in Nat /\ head \in 0 .. M /\ tail \in 0 .. M /\ head <= tail
BY Parts

LEMMA InstrAt ==
  ASSUME Complete, NEW k \in 1 .. Len(asked)
  PROVE  /\ k \in Nat /\ k # 0 /\ asked[k] \in AnyInstr /\ start[k] \in Nat /\ head \in Nat
         /\ Width(asked[k]) \in 1 .. 3
         /\ start[k] + Width(asked[k]) <= head
<1>1. k \in Nat /\ k # 0
  BY Lengths
<1>2. QED
  BY <1>1, Parts

LEMMA Counts ==
  ASSUME Complete
  PROVE  /\ Len(asked) \in Nat /\ Len(cells) \in Nat
         /\ M \in Nat /\ head \in Nat /\ tail \in Nat /\ head <= tail /\ tail <= M
<1>1. M \in Nat /\ head \in 0 .. M /\ tail \in 0 .. M /\ head <= tail
  BY Lengths
<1>2. head \in Nat /\ tail \in Nat /\ tail <= M
  BY <1>1
<1>3. QED
  BY <1>1, <1>2, Lengths

LEMMA Fits ==
  ASSUME Complete, NEW k \in 1 .. Len(asked)
  PROVE  /\ start[k] \in Nat /\ Width(asked[k]) \in Nat /\ Width(asked[k]) > 0
         /\ start[k] + Width(asked[k]) <= head
<1>1. \A w \in 1 .. 3 : w \in Nat /\ w > 0
  OBVIOUS
<1>2. QED
  BY <1>1, InstrAt

\* Position p is one of instruction k's.
Holding(k, p) == k \in 1 .. Len(asked) /\ p \in Nat /\ start[k] <= p /\ p < start[k] + Width(asked[k])

LEMMA AtCode ==
  ASSUME Complete, NEW k, NEW p, Holding(k, p)
  PROVE  Containing(p) = k /\ p < head /\ AtOf(p) = k
<1>1. k \in 1 .. Len(asked) /\ p \in Nat /\ start[k] <= p /\ p < start[k] + Width(asked[k])
  BY DEF Holding
<1>2. p < head
  <2>1. start[k] + Width(asked[k]) <= head /\ start[k] + Width(asked[k]) \in Nat /\ head \in Nat
    BY <1>1, Fits, Counts
  <2>2. \A x, y, z \in Nat : x < y /\ y <= z => x < z
    OBVIOUS
  <2>3. QED
    BY <1>1, <2>1, <2>2
<1>3. ASSUME NEW j \in 1 .. Len(asked), start[j] <= p
      PROVE  j <= k
  <2>1. k < j => start[k] + Width(asked[k]) <= start[j]
    BY <1>1, Parts
  <2>2. start[j] \in Nat /\ start[k] \in Nat /\ Width(asked[k]) \in Nat
    BY <1>1, Parts
  <2>3. ~ (k < j)
    BY <1>1, <1>3, <2>1, <2>2
  <2>4. QED
    BY <1>1, <2>3, Parts
<1> DEFINE Is(i) == start[i] <= p /\ \A j \in DOMAIN start : start[j] <= p => j <= i
<1>4. k \in DOMAIN start /\ Is(k)
  BY <1>1, <1>3, Parts
<1>5. \A i \in DOMAIN start : Is(i) => i = k
  BY <1>1, <1>4, Parts
<1>6. Containing(p) = CHOOSE i \in DOMAIN start : Is(i)
  BY DEF Containing
<1> HIDE DEF Is
<1>7. Containing(p) = k
  BY <1>4, <1>5, <1>6
<1>8. QED
  BY <1>2, <1>7 DEF AtOf

LEMMA AtStart ==
  ASSUME Complete, NEW k \in 1 .. Len(asked)
  PROVE  Holding(k, start[k])
<1>1. \A x, w \in Nat : w > 0 => x <= x /\ x < x + w
  OBVIOUS
<1>2. QED
  BY <1>1, Fits DEF Holding

LEMMA AtSecond ==
  ASSUME Complete, NEW k \in 1 .. Len(asked), Width(asked[k]) # 1
  PROVE  Holding(k, start[k] + 1)
<1>1. \A x, w \in Nat : w > 0 /\ w # 1 => x + 1 \in Nat /\ x <= x + 1 /\ x + 1 < x + w
  OBVIOUS
<1>2. QED
  BY <1>1, Fits DEF Holding

\* Behind the code and before the cells, and beyond the array.
LEMMA AtBlank ==
  ASSUME Complete, NEW p \in Nat, (head <= p /\ p < tail) \/ p >= M
  PROVE  ~ (p < head) /\ AtOf(p) = Len(asked) + 1
<1>1. ~ (p < head)
  BY Parts
<1>2. QED
  BY <1>1 DEF AtOf

\* On a cell.
LEMMA AtCell ==
  ASSUME Complete, NEW c \in 1 .. Len(cells)
  PROVE  /\ cells[c].pos \in Nat /\ ~ (cells[c].pos < head) /\ cells[c].pos < M
         /\ AtOf(cells[c].pos) = Resolve([cell |-> c])
<1>1. /\ \A i \in 1 .. Len(cells) : cells[i].pos \in tail .. M - 1
      /\ \A i, j \in 1 .. Len(cells) : cells[i].pos = cells[j].pos => i = j
  BY DEF Complete, GenInv, Built, CellsApart
<1>2. cells[c].pos \in Nat /\ tail <= cells[c].pos /\ cells[c].pos < M
  BY <1>1, Parts
<1>3. ~ (cells[c].pos < head) /\ ~ (cells[c].pos < tail) /\ ~ (cells[c].pos >= M)
  BY <1>2, Parts
<1>4. CellAt(cells[c].pos) = c
  BY <1>1, Parts DEF CellAt
<1>5. QED
  BY <1>2, <1>3, <1>4 DEF AtOf

\* Where the interpreter may be between two instructions.
Spot(p) ==
  \/ \E k \in 1 .. Len(asked) : p = start[k]
  \/ p \in Nat /\ head <= p /\ p < tail
  \/ \E c \in 1 .. Len(cells) : p = cells[c].pos
  \/ p \in Nat /\ p >= M
LoadingAt(p) == p < head /\ p > start[Containing(p)] /\ asked[Containing(p)].op = "alu"

LEMMA SpotIs ==
  ASSUME Complete, NEW p, Spot(p)
  PROVE  p \in Nat /\ ~ LoadingAt(p)
<1>1. CASE \E k \in 1 .. Len(asked) : p = start[k]
  <2>1. PICK k \in 1 .. Len(asked) : p = start[k]
    BY <1>1
  <2>2. Containing(p) = k /\ p \in Nat
    BY <2>1, AtStart, AtCode, Parts
  <2>3. QED
    BY <2>1, <2>2 DEF LoadingAt
<1>2. CASE p \in Nat /\ ((head <= p /\ p < tail) \/ p >= M)
  BY <1>2, AtBlank DEF LoadingAt
<1>3. CASE \E c \in 1 .. Len(cells) : p = cells[c].pos
  BY <1>3, AtCell DEF LoadingAt
<1>4. QED
  BY <1>1, <1>2, <1>3 DEF Spot

\* The end of the code is a spot, if it is not where the cells begin.
LEMMA EndSpot ==
  ASSUME Complete, head < tail \/ tail = M
  PROVE  Spot(head) /\ AtOf(head) = Len(asked) + 1
<1>1. head \in Nat /\ M \in Nat /\ tail \in Nat /\ head <= tail
  BY Parts
<1>2. (head <= head /\ head < tail) \/ head >= M
  BY <1>1
<1>3. QED
  BY <1>1, <1>2, AtBlank DEF Spot

\* What comes after an instruction is the next one, or the end of the code.
LEMMA NextSpot ==
  ASSUME Complete, NEW k \in 1 .. Len(asked), FallsThrough(asked[k])
  PROVE  /\ start[k] + Width(asked[k]) \in Nat
         /\ Spot(start[k] + Width(asked[k])) /\ AtOf(start[k] + Width(asked[k])) = k + 1
<1>1. start[k] + Width(asked[k]) = IF k < Len(asked) THEN start[k + 1] ELSE head
  BY DEF Complete, HistInv, Packed
<1>2. CASE k < Len(asked)
  <2>1. k + 1 \in 1 .. Len(asked)
    BY <1>2, Parts
  <2>2. Spot(start[k + 1]) /\ start[k + 1] \in Nat
    BY <2>1, Parts DEF Spot
  <2>3. AtOf(start[k + 1]) = k + 1
    BY <2>1, AtStart, AtCode
  <2>4. QED
    BY <1>1, <1>2, <2>2, <2>3
<1>3. CASE ~ (k < Len(asked))
  <2>1. k = Len(asked)
    BY <1>3, Counts
  <2>2. ~ Closed
    BY <2>1 DEF Closed, Last
  <2>3. head < tail \/ tail = M
    BY <2>2 DEF Complete, Finished
  <2>4. QED
    BY <1>1, <1>3, <2>1, <2>3, EndSpot, Parts
<1>4. QED
  BY <1>2, <1>3

\* A label that leads somewhere leads to a spot.
LEMMA LabelSpot ==
  ASSUME Complete, NEW l \in AllLabels, Known(l, start, cells),
         l = [at |-> Len(asked) + 1] => head < tail \/ tail = M
  PROVE  Spot(Where(l, start, head, cells)) /\ AtOf(Where(l, start, head, cells)) = Resolve(l)
<1>1. CASE l \in [cell : Nat]
  <2>1. "cell" \in DOMAIN l /\ "at" \notin DOMAIN l /\ l = [cell |-> l.cell] /\ l.cell \in 1 .. Len(cells)
    BY <1>1 DEF Known
  <2>2. Where(l, start, head, cells) = cells[l.cell].pos
    BY <2>1 DEF Where
  <2>3. AtOf(cells[l.cell].pos) = Resolve([cell |-> l.cell])
    BY <2>1, AtCell
  <2>4. QED
    BY <2>1, <2>2, <2>3 DEF Spot
<1>2. CASE l \in [at : Nat]
  <2>1. "cell" \notin DOMAIN l /\ "at" \in DOMAIN l /\ l = [at |-> l.at] /\ l.at \in 1 .. Len(asked) + 1
    BY <1>2, Parts DEF Known
  <2>2. Resolve(l) = l.at
    BY <2>1 DEF Resolve
  <2>3. Where(l, start, head, cells) = IF l.at \in 1 .. Len(asked) THEN start[l.at] ELSE head
    BY <2>1, Parts DEF Where
  <2>4. CASE l.at \in 1 .. Len(asked)
    <3>1. AtOf(start[l.at]) = l.at
      BY <2>4, AtStart, AtCode
    <3>2. QED
      BY <2>2, <2>3, <2>4, <3>1 DEF Spot
  <2>5. CASE l.at \notin 1 .. Len(asked)
    <3>1. l.at = Len(asked) + 1
      BY <2>1, <2>5, Parts
    <3>2. QED
      BY <2>1, <2>2, <2>3, <2>5, <3>1, EndSpot
  <2>6. QED
    BY <2>4, <2>5
<1>3. QED
  BY <1>1, <1>2 DEF AllLabels

\* A branch or a call leads to where the script's one does.
LEMMA JumpSpot ==
  ASSUME Complete, NEW k \in 1 .. Len(asked), "to" \in DOMAIN asked[k]
  PROVE  LET p == Place(asked[k], start, head, cells)
         IN  Spot(p) /\ AtOf(p) = Resolve(asked[k].to)
<1>1. asked[k].to \in AllLabels /\ Known(asked[k].to, start, cells)
  BY DEF Complete, GenInv, Built, Code
<1>2. asked[k].to = [at |-> Len(asked) + 1] => head < tail \/ tail = M
  <2>1. asked[k].to = [at |-> Len(asked) + 1] => ~ Closed
    BY Parts DEF Closed
  <2>2. QED
    BY <2>1 DEF Complete, Finished
<1>3. Place(asked[k], start, head, cells) = Where(asked[k].to, start, head, cells)
  BY DEF Place
<1>4. QED
  BY <1>1, <1>2, <1>3, LabelSpot

-----------------------------------------------------------------------------
(* Cells that lead to cells                                                  *)

LEMMA FilledCell ==
  ASSUME Complete, NEW c \in 1 .. Len(cells)
  PROVE  \E l \in AllLabels :
           /\ cells[c].to = {l} /\ Known(l, start, cells)
           /\ ops[cells[c].pos] = [op |-> "b", to |-> Where(l, start, head, cells)]
           /\ l = [at |-> Len(asked) + 1] => head < tail \/ tail = M
<1>1. cells[c].to # {}
  BY Parts DEF Complete, Finished
<1>2. Cell(ops, head, start, cells, c)
  BY DEF Complete, GenInv, Built, CellsApart
<1>3. PICK l \in AllLabels : /\ cells[c].to = {l} /\ Known(l, start, cells)
                             /\ ops[cells[c].pos] = [op |-> "b", to |-> Where(l, start, head, cells)]
  BY <1>1, <1>2 DEF Cell
<1>4. l = [at |-> Len(asked) + 1] => ~ Closed
  BY <1>3, Parts DEF Closed
<1>5. l = [at |-> Len(asked) + 1] => head < tail \/ tail = M
  BY <1>4 DEF Complete, Finished
<1>6. QED
  BY <1>3, <1>5

\* The end of a cell that leads to an instruction.
LEMMA ResolveDirect ==
  ASSUME Complete, NEW c \in 1 .. Len(cells), NEW n \in 1 .. Len(asked) + 1, cells[c].to = {[at |-> n]}
  PROVE  Resolve([cell |-> c]) = n
<1>1. Passes({c})
  <2>1. "cell" \notin DOMAIN [at |-> n]
    OBVIOUS
  <2>2. QED
    BY <2>1 DEF Passes
<1>2. c \in Passed(c) /\ Passed(c) \subseteq {c}
  BY <1>1, Parts DEF Passed
<1>3. Passed(c) = {c}
  BY <1>2
<1>4. \A m \in 1 .. Len(asked) + 1 : [at |-> m] = [at |-> n] => m = n
  <2>1. \A m : [at |-> m].at = m
    OBVIOUS
  <2>2. QED
    BY <2>1
<1>5. Ends(c) = {n}
  BY <1>3, <1>4 DEF Ends
<1>6. "at" \notin DOMAIN [cell |-> c] /\ [cell |-> c].cell = c
  OBVIOUS
<1>7. QED
  BY <1>5, <1>6 DEF Resolve

\* The end of a cell that leads to another is the other's.
LEMMA ResolveOn ==
  ASSUME Complete, NEW c \in 1 .. Len(cells), NEW d \in 1 .. Len(cells), cells[c].to = {[cell |-> d]}
  PROVE  Resolve([cell |-> c]) = Resolve([cell |-> d])
<1>0. "cell" \in DOMAIN [cell |-> d] /\ [cell |-> d].cell = d
  OBVIOUS
<1>1. Passed(d) \subseteq Passed(c)
  <2>1. ASSUME NEW S \in SUBSET DOMAIN cells, c \in S, Passes(S)
        PROVE  d \in S
    BY <1>0, <2>1 DEF Passes
  <2>2. QED
    BY <2>1 DEF Passed
<1>2. d \in Passed(d)
  BY Parts DEF Passed
<1>3. Passes(Passed(d) \cup {c})
  <2>1. ASSUME NEW e \in Passed(d), NEW l \in cells[e].to, "cell" \in DOMAIN l
        PROVE  l.cell \in Passed(d)
    <3>1. e \in 1 .. Len(cells)
      BY Parts DEF Passed
    <3>2. PICK m \in AllLabels : cells[e].to = {m} /\ Known(m, start, cells)
      BY <3>1, FilledCell
    <3>3. l.cell \in DOMAIN cells
      BY <2>1, <3>2, Parts DEF Known
    <3>4. ASSUME NEW S \in SUBSET DOMAIN cells, d \in S, Passes(S)
          PROVE  l.cell \in S
      <4>1. e \in S
        BY <3>4 DEF Passed
      <4>2. QED
        BY <2>1, <3>4, <4>1 DEF Passes
    <3>5. QED
      BY <3>3, <3>4 DEF Passed
  <2>2. ASSUME NEW l \in cells[c].to
        PROVE  l.cell \in Passed(d)
    BY <1>0, <1>2
  <2>3. QED
    BY <2>1, <2>2 DEF Passes
<1>4. Passed(c) \subseteq Passed(d) \cup {c}
  <2>1. Passed(d) \cup {c} \in SUBSET DOMAIN cells
    BY Parts DEF Passed
  <2>2. QED
    BY <1>3, <2>1 DEF Passed
<1>5. ASSUME NEW n, [at |-> n] \in cells[c].to
      PROVE  FALSE
  <2>1. [at |-> n] = [cell |-> d]
    BY <1>5
  <2>2. "at" \in DOMAIN [at |-> n] /\ "at" \notin DOMAIN [cell |-> d]
    OBVIOUS
  <2>3. QED
    BY <2>1, <2>2
<1>6. Ends(c) = Ends(d)
  BY <1>1, <1>4, <1>5 DEF Ends
<1>7. /\ "at" \notin DOMAIN [cell |-> c] /\ [cell |-> c].cell = c
      /\ "at" \notin DOMAIN [cell |-> d] /\ [cell |-> d].cell = d
  OBVIOUS
<1>8. QED
  BY <1>6, <1>7 DEF Resolve

\* A branch in a cell goes on to the place that stands for the same label.
LEMMA CellLeads ==
  ASSUME Complete, NEW c \in 1 .. Len(cells)
  PROVE  /\ ops[cells[c].pos].op = "b" /\ Spot(ops[cells[c].pos].to)
         /\ AtOf(ops[cells[c].pos].to) = AtOf(cells[c].pos)
<1>1. PICK l \in AllLabels :
           /\ cells[c].to = {l} /\ Known(l, start, cells)
           /\ ops[cells[c].pos] = [op |-> "b", to |-> Where(l, start, head, cells)]
           /\ l = [at |-> Len(asked) + 1] => head < tail \/ tail = M
  BY FilledCell
<1>2. Spot(Where(l, start, head, cells)) /\ AtOf(Where(l, start, head, cells)) = Resolve(l)
  BY <1>1, LabelSpot
<1>3. Resolve([cell |-> c]) = Resolve(l)
  <2>1. CASE l \in [cell : Nat]
    <3>1. l = [cell |-> l.cell] /\ l.cell \in 1 .. Len(cells)
      BY <1>1, <2>1 DEF Known
    <3>2. QED
      BY <1>1, <3>1, ResolveOn
  <2>2. CASE l \in [at : Nat]
    <3>1. l = [at |-> l.at] /\ l.at \in 1 .. Len(asked) + 1 /\ "at" \in DOMAIN l
      BY <1>1, <2>2, Parts DEF Known
    <3>2. Resolve([cell |-> c]) = l.at
      BY <1>1, <3>1, ResolveDirect
    <3>3. QED
      BY <3>1, <3>2 DEF Resolve
  <2>3. QED
    BY <2>1, <2>2 DEF AllLabels
<1>4. QED
  BY <1>1, <1>2, <1>3, AtCell

-----------------------------------------------------------------------------
(* The script that a state of the interpreter stands for                     *)

\* What AtOf, Loading and Spot say of each position.
Map == [p \in 0 .. M + 1 |-> AtOf(p)]
Loads == {p \in 0 .. M + 1 : LoadingAt(p)}
Spots == {p \in 0 .. M + 1 : Spot(p)}

Sound == \A k \in DOMAIN asked : ~ Broken(k)

LEMMA SameProgram ==
  ASSUME UNCHANGED genVars
  PROVE  /\ Map' = Map /\ Loads' = Loads /\ Spots' = Spots
         /\ Meant' = Meant /\ Claimed' = Claimed /\ Sound' = Sound
<1>1. /\ ops' = ops /\ head' = head /\ tail' = tail /\ ok' = ok
      /\ asked' = asked /\ start' = start /\ cells' = cells
  BY DEF genVars
<1>2. Map' = Map
  BY <1>1 DEF Map, AtOf, Containing, CellAt, Resolve, Ends, Passed, Passes
<1>3. Loads' = Loads
  BY <1>1 DEF Loads, LoadingAt, Containing
<1>4. Spots' = Spots
  BY <1>1 DEF Spots, Spot
<1>5. Meant' = Meant
  BY <1>1 DEF Meant, Traced, Resolve, Ends, Passed, Passes
<1>6. Sound' = Sound
  BY <1>1 DEF Sound, Broken, Encode, VerifyLabel
<1>7. Claimed' = Claimed
  BY <1>6 DEF Sound, Claimed
<1>8. QED
  BY <1>2, <1>3, <1>4, <1>5, <1>6, <1>7

\* The script, seen through these.
View ==
  /\ phase = "run" => AsAt = IF vpc \in Loads THEN Map[vpc] + 1 ELSE Map[vpc]
  /\ ~ (phase = "run" /\ vpc \in Loads) => AsRegs = regs
  /\ phase = "run" /\ vpc \in Loads =>
       AsRegs = [regs EXCEPT ![asked[Map[vpc]].dst] = asked[Map[vpc]].src]
  /\ AsCalls = [j \in 1 .. Len(recur) |-> Map[recur[j]]]
  /\ AsPhase = IF Claimed THEN phase ELSE "build"
  /\ AsProg = IF phase = "run" THEN Meant ELSE <<>>

LEMMA Viewed == RunInv => View
<1> SUFFICES ASSUME RunInv
             PROVE  View
  OBVIOUS
<1>1. vpc \in 0 .. M + 1 /\ recur \in Seq(0 .. M + 1)
  BY DEF RunInv
<1>2. \A p \in 0 .. M + 1 : Map[p] = AtOf(p) /\ (p \in Loads <=> LoadingAt(p))
  BY DEF Map, Loads
<1>3. Loading <=> phase = "run" /\ vpc \in Loads
  BY <1>1, <1>2 DEF Loading, LoadingAt
<1>4. vpc \in Loads => Map[vpc] = Containing(vpc)
  BY <1>1, <1>2 DEF LoadingAt, AtOf
<1>5. AsCalls = [j \in 1 .. Len(recur) |-> Map[recur[j]]]
  <2>1. \A j \in 1 .. Len(recur) : recur[j] \in 0 .. M + 1
    BY <1>1, ElementOfSeq
  <2>2. \A j \in 1 .. Len(recur) : Map[recur[j]] = AtOf(recur[j])
    BY <1>2, <2>1
  <2>3. QED
    BY <2>2 DEF AsCalls
<1>6. phase = "run" => AsAt = IF vpc \in Loads THEN Map[vpc] + 1 ELSE Map[vpc]
  BY <1>1, <1>2, <1>3 DEF AsAt
<1>7. ~ (phase = "run" /\ vpc \in Loads) => AsRegs = regs
  BY <1>3 DEF AsRegs
<1>8. phase = "run" /\ vpc \in Loads =>
       AsRegs = [regs EXCEPT ![asked[Map[vpc]].dst] = asked[Map[vpc]].src]
  BY <1>3, <1>4 DEF AsRegs
<1>9. QED
  BY <1>5, <1>6, <1>7, <1>8 DEF View, AsPhase, AsProg

\* Whether a branch is taken with the registers as they are.
Taken(i) == Script!Holds(i.f, regs[i.dst], IF i.imm THEN i.src ELSE regs[i.src])

\* A load by way of the inverted value.
NotOp(i) == [op |-> "alu", f |-> "not", dst |-> i.dst, src |-> i.dst, imm |-> FALSE]
Inverts(i) == i.op = "alu" /\ i.f = "mov" /\ i.imm /\ Width(i) = 2 /\ Opcodes(i, 0)[2] = NotOp(i)

\* The interpreter is between two instructions, at a branch that is taken, or in
\* the middle of such a load; calls return to between two instructions.
InBranch(k) == asked[k].op = "br" /\ asked[k].f # "al" /\ vpc = start[k] + 1 /\ Taken(asked[k])
InLoad(k) == Inverts(asked[k]) /\ vpc = start[k] + 1 /\ regs[asked[k].dst] = Size - 1 - asked[k].src
Placed == /\ vpc \in Spots \/ \E k \in 1 .. Len(asked) : InBranch(k) \/ InLoad(k)
          /\ \A j \in 1 .. Len(recur) : recur[j] \in Spots
IsRegs(r) == r = [x \in Regs |-> r[x]]

Running == RunInv /\ Complete /\ Sound /\ Placed /\ IsRegs(regs) /\ phase = "run"

\* What a turn leaves to be shown.
Follows == /\ [Script!Next]_(Script!vars)
           /\ phase' = "run" => Placed'

LEMMA ViewNow ==
  ASSUME Running
  PROVE  View
BY Viewed DEF Running

\* The registers stay registers.
LEMMA PutRegs ==
  ASSUME NEW r, IsRegs(r), NEW d, NEW v, NEW q, q = [r EXCEPT ![d] = v]
  PROVE  IsRegs(q)
BY DEF IsRegs

\* The interpreter goes on to a spot.
LEMMA GotoSpot ==
  ASSUME Running, RunInv', NEW q \in 0 .. M + 1, Spot(q), Go(q)
  PROVE  /\ Script!Goto(AtOf(q)) /\ AsRegs' = regs' /\ vpc' \in Spots' /\ phase' = "run"
         /\ recur' = recur => AsCalls' = AsCalls
<1>1. phase' = phase /\ expired' = expired /\ code' = code /\ vpc' = q /\ phase = "run" /\ UNCHANGED genVars
  BY DEF Go, Running
<1>2. View /\ View'
  <2>1. View'
    BY Viewed, PTL
  <2>2. QED
    BY <2>1, ViewNow
<1>3. /\ Map' = Map /\ Loads' = Loads /\ Spots' = Spots
      /\ Meant' = Meant /\ Claimed' = Claimed
  BY <1>1, SameProgram
<1>4. q \in Spots /\ q \notin Loads /\ Map[q] = AtOf(q)
  BY SpotIs DEF Spots, Loads, Map, Running
<1>5. AsAt' = AtOf(q) /\ AsRegs' = regs' /\ AsPhase' = AsPhase /\ AsProg' = AsProg
  BY <1>1, <1>2, <1>3, <1>4 DEF View
<1>6. recur' = recur => AsCalls' = AsCalls
  BY <1>2, <1>3 DEF View
<1>7. QED
  BY <1>1, <1>3, <1>4, <1>5, <1>6 DEF Script!Goto

\* The run ends between two instructions.
LEMMA EndsThere ==
  ASSUME Running, RunInv', vpc \in Spots, NEW c, Out(c)
  PROVE  Script!End(c) /\ phase' = "done"
<1>1. phase' = "done" /\ expired' = expired /\ code' = c /\ regs' = regs /\ UNCHANGED genVars
  BY DEF Out
<1>2. View /\ View'
  <2>1. View'
    BY Viewed, PTL
  <2>2. QED
    BY <2>1, ViewNow
<1>3. Claimed' = Claimed /\ Claimed
  BY <1>1, SameProgram DEF Running, Sound, Claimed
<1>4. vpc \notin Loads
  BY SpotIs DEF Spots, Loads, Running
<1>5. AsRegs' = AsRegs /\ AsPhase' = "done"
  BY <1>1, <1>2, <1>3, <1>4 DEF View
<1>6. QED
  BY <1>1, <1>5 DEF Script!End

\* What the script is about to do.
LEMMA AtInstr ==
  ASSUME Running, NEW k \in 1 .. Len(asked), vpc = start[k]
  PROVE  /\ AsPhase = "run" /\ AsAt = k /\ AsRegs = regs
         /\ k \in DOMAIN AsProg /\ AsProg[k] = Traced(asked[k])
         /\ vpc \in Spots
<1>1. View
  BY ViewNow
<1>2. vpc \in 0 .. M + 1 /\ phase = "run" /\ Complete /\ Sound
  BY DEF Running, RunInv
<1>3. Spot(vpc) /\ AtOf(vpc) = k
  BY <1>2, AtStart, AtCode DEF Spot
<1>4. vpc \in Spots /\ vpc \notin Loads /\ Map[vpc] = k
  BY <1>2, <1>3, SpotIs DEF Spots, Loads, Map
<1>5. Claimed
  BY <1>2 DEF Sound, Claimed
<1>6. AsProg = Meant /\ DOMAIN Meant = 1 .. Len(asked) /\ Meant[k] = Traced(asked[k])
  BY <1>1, <1>2, Lengths DEF View, Meant
<1>7. QED
  BY <1>1, <1>2, <1>4, <1>5, <1>6 DEF View

LEMMA TracedIs ==
  ASSUME NEW i \in AnyInstr
  PROVE  /\ Traced(i).op = i.op /\ Traced(i).f = i.f /\ Traced(i).dst = i.dst
         /\ Traced(i).src = i.src /\ Traced(i).imm = i.imm
         /\ "to" \in DOMAIN i => Traced(i).to = Resolve(i.to)
<1>1. CASE "to" \notin DOMAIN i
  BY <1>1 DEF Traced
<1>2. CASE "to" \in DOMAIN i
  <2>1. PICK s \in Source, l \in AllLabels : i = Labelled(s, l)
    BY <1>2, SourceKinds DEF AnyInstr
  <2>2. Traced(i) = [i EXCEPT !.to = Resolve(i.to)]
    BY <1>2 DEF Traced
  <2>3. QED
    BY <2>1, <2>2 DEF Labelled
<1>3. QED
  BY <1>1, <1>2

\* The opcode of the first, and of the second place of an instruction.
LEMMA FirstOp ==
  ASSUME Complete, NEW k \in 1 .. Len(asked)
  PROVE  ops[start[k]] = Opcodes(asked[k], Place(asked[k], start, head, cells))[1]
<1> DEFINE ws == Opcodes(asked[k], Place(asked[k], start, head, cells))
<1>1. At(ops, head, start[k], ws)
  BY DEF Complete, GenInv, Built, Code
<1>2. Len(ws) = Width(asked[k]) /\ Width(asked[k]) \in 1 .. 3 /\ start[k] \in Nat
  BY WidthIs, InstrAt
<1> HIDE DEF ws
<1>3. 1 \in 1 .. Len(ws)
  <2>1. \A w \in 1 .. 3 : 1 \in 1 .. w
    OBVIOUS
  <2>2. QED
    BY <1>2, <2>1
<1>4. ops[start[k] + 1 - 1] = ws[1]
  BY <1>1, <1>3 DEF At
<1>5. start[k] + 1 - 1 = start[k]
  BY <1>2
<1>6. QED
  BY <1>4, <1>5 DEF ws

LEMMA SecondOp ==
  ASSUME Complete, NEW k \in 1 .. Len(asked), Width(asked[k]) # 1
  PROVE  ops[start[k] + 1] = Opcodes(asked[k], Place(asked[k], start, head, cells))[2]
<1> DEFINE ws == Opcodes(asked[k], Place(asked[k], start, head, cells))
<1>1. At(ops, head, start[k], ws)
  BY DEF Complete, GenInv, Built, Code
<1>2. Len(ws) = Width(asked[k]) /\ Width(asked[k]) \in 1 .. 3 /\ start[k] \in Nat
  BY WidthIs, InstrAt
<1> HIDE DEF ws
<1>3. 2 \in 1 .. Len(ws)
  <2>1. \A w \in 1 .. 3 : w # 1 => 2 \in 1 .. w
    OBVIOUS
  <2>2. QED
    BY <1>2, <2>1
<1>4. ops[start[k] + 2 - 1] = ws[2]
  BY <1>1, <1>3 DEF At
<1>5. start[k] + 2 - 1 = start[k] + 1
  BY <1>2
<1>6. QED
  BY <1>4, <1>5 DEF ws

\* Which turn it is.
LEMMA Turns ==
  ASSUME RunInv, Interpret, ~ SeesTimeOut
  PROVE  /\ vpc >= M => RunEnd
         /\ ~ (vpc >= M) =>
              /\ Word.op = "b" => RunB
              /\ Word.op = "bl" => RunBl
              /\ Word.op = "ret" => RunRet
              /\ Word.op = "sk" => RunSkip
              /\ Word.op = "mov8" => RunMov8
              /\ Word.op = "mov24" => RunMov24
              /\ Word.op = "mov32" => RunMov32
              /\ Word.op = "alu" => RunAlu
              /\ Word.op = "native" => RunNative
              /\ Word.op = "exit" => RunExit
<1> DEFINE Before == ~ (vpc >= M)
<1>1. \A op : Fetch(op) => Before /\ Word.op = op
  <2>1. vpc \in Int /\ M \in Int
    BY Sizes DEF RunInv
  <2>2. vpc < M => Before
    BY <2>1
  <2>3. QED
    BY <2>2 DEF Fetch, Word
<1> HIDE DEF Before
<1>2. /\ RunB => Before /\ Word.op = "b"
      /\ RunBl => Before /\ Word.op = "bl"
      /\ RunRet => Before /\ Word.op = "ret"
      /\ RunSkip => Before /\ Word.op = "sk"
      /\ RunMov8 => Before /\ Word.op = "mov8"
      /\ RunMov24 => Before /\ Word.op = "mov24"
      /\ RunMov32 => Before /\ Word.op = "mov32"
      /\ RunAlu => Before /\ Word.op = "alu"
      /\ RunPush => Before /\ Word.op = "push"
      /\ RunPop => Before /\ Word.op = "pop"
      /\ RunNative => Before /\ Word.op = "native"
      /\ RunExit => Before /\ Word.op = "exit"
  <2>1. RunB => Before /\ Word.op = "b"
    BY <1>1, Zenon DEF RunB
  <2>2. RunBl => Before /\ Word.op = "bl"
    BY <1>1, Zenon DEF RunBl
  <2>3. RunRet => Before /\ Word.op = "ret"
    BY <1>1, Zenon DEF RunRet
  <2>4. RunSkip => Before /\ Word.op = "sk"
    BY <1>1, Zenon DEF RunSkip
  <2>5. RunMov8 => Before /\ Word.op = "mov8"
    BY <1>1, Zenon DEF RunMov8
  <2>6. RunMov24 => Before /\ Word.op = "mov24"
    BY <1>1, Zenon DEF RunMov24
  <2>7. RunMov32 => Before /\ Word.op = "mov32"
    BY <1>1, Zenon DEF RunMov32
  <2>8. RunAlu => Before /\ Word.op = "alu"
    BY <1>1, Zenon DEF RunAlu
  <2>9. RunPush => Before /\ Word.op = "push"
    BY <1>1, Zenon DEF RunPush
  <2>10. RunPop => Before /\ Word.op = "pop"
    BY <1>1, Zenon DEF RunPop
  <2>11. RunNative => Before /\ Word.op = "native"
    BY <1>1, Zenon DEF RunNative
  <2>12. RunExit => Before /\ Word.op = "exit"
    BY <1>1, Zenon DEF RunExit
  <2>13. QED
    BY <2>1, <2>2, <2>3, <2>4, <2>5, <2>6, <2>7, <2>8, <2>9, <2>10, <2>11, <2>12
<1>3. RunEnd => vpc >= M
  BY DEF RunEnd
<1>4. ~ RunTimeOut
  BY DEF RunTimeOut
<1>5. vpc >= M => RunEnd
  BY <1>2, <1>3, <1>4 DEF Interpret, Before
<1>6. ASSUME Before
      PROVE  RunB \/ RunBl \/ RunRet \/ RunSkip \/ RunMov8 \/ RunMov24 \/ RunMov32 \/ RunAlu
             \/ RunPush \/ RunPop \/ RunNative \/ RunExit
  BY <1>3, <1>4, <1>6 DEF Interpret, Before
<1>7. QED
  BY <1>2, <1>5, <1>6 DEF Before

-----------------------------------------------------------------------------
(* One turn of the interpreter, at every place it may be                     *)

LEMMA MoreKinds ==
  ASSUME NEW i \in AnyInstr
  PROVE  /\ "to" \in DOMAIN i <=> i.op \in {"br", "call"}
         /\ i.op = "alu" => i.f \in {"mov", "not", "add", "sub", "and", "orr", "xor", "lsl", "lsr"}
         /\ i.op = "alu" => i.dst \in Regs /\ (i.imm => i.src \in Words)
         /\ i.op = "br" /\ i.f \in {"eq", "ne", "ge", "gt", "le", "lt"} => ~ i.imm
         /\ i.op = "br" /\ i.f \in {"eqImm", "neImm"} => i.imm
<1>1. CASE i \in Source /\ ~ Jump(i)
  BY <1>1, CodegenAssumption DEF Jump
<1>2. CASE \E j \in Source, l \in AllLabels : Jump(j) /\ i = Labelled(j, l)
  BY <1>2, CodegenAssumption DEF Jump, Labelled
<1>3. QED
  BY <1>1, <1>2 DEF AnyInstr

\* What an instruction that is not broken looks like.
LEMMA SoundInstr ==
  ASSUME Complete, Sound, NEW k \in 1 .. Len(asked), NEW i, i = asked[k]
  PROVE  /\ i.op \notin {"push", "pop"}
         /\ i.op = "br" => i.f \notin {"neg", "notNeg"}
         /\ i.op = "alu" => i.f # "orr"
         /\ i.op = "alu" => \A j \in 1 .. Width(i) :
              LET w == Opcodes(i, 0)[j] IN ~ (w.op = "alu" /\ w.f = "lsl" /\ w.imm)
         /\ ops[start[k]].op \in {"mov24", "mov32"} => start[k] + Width(i) # M
<1>1. ~ Broken(k)
  BY Lengths DEF Sound
<1>2. i \in AnyInstr
  BY InstrAt
<1>3. Encode(i, 0) = Opcodes(i, 0)
  <2>1. VerifyLabel(0)
    BY Counts DEF VerifyLabel
  <2>2. QED
    BY <1>2, <2>1, EncodeLegal
<1>4. DOMAIN Opcodes(i, 0) = 1 .. Width(i)
  <2>1. 0 \in 0 .. M
    BY Counts
  <2>2. QED
    BY <1>2, <2>1, OpcodesGood DEF Width
<1>5. \A j \in 1 .. Width(i) : Opcodes(i, 0)[j] \in Range(Encode(i, 0))
  BY <1>3, <1>4 DEF Range
<1>6. Len(Encode(i, 0)) = Width(i)
  BY <1>3 DEF Width
<1>7. QED
  BY <1>1, <1>5, <1>6 DEF Broken

\* The interpreter stays where a script may be.
LEMMA StayPlaced ==
  ASSUME Placed, vpc' \in Spots',
         \A j \in 1 .. Len(recur') : recur'[j] \in Spots'
  PROVE  Placed'
BY DEF Placed

LEMMA OnSpot ==
  ASSUME Running, Spot(vpc)
  PROVE  /\ vpc \in Spots /\ AsPhase = "run" /\ AsAt = AtOf(vpc) /\ AsRegs = regs
         /\ DOMAIN AsProg = 1 .. Len(asked)
<1>1. View
  BY ViewNow
<1>2. vpc \in 0 .. M + 1 /\ phase = "run" /\ Complete /\ Sound
  BY DEF Running, RunInv
<1>3. vpc \in Spots /\ vpc \notin Loads /\ Map[vpc] = AtOf(vpc)
  BY <1>2, SpotIs DEF Spots, Loads, Map
<1>4. Claimed
  BY <1>2 DEF Sound, Claimed
<1>5. AsProg = Meant /\ DOMAIN Meant = 1 .. Len(asked)
  BY <1>1, <1>2, Lengths DEF View, Meant
<1>6. QED
  BY <1>1, <1>2, <1>3, <1>4, <1>5 DEF View

\* The time is over, wherever the interpreter is.
LEMMA FollowTimeOut ==
  ASSUME Running, RunInv', RunTimeOut
  PROVE  Follows
<1>1. /\ phase = "run" /\ expired /\ phase' = "done" /\ expired' = expired /\ code' = Failed
      /\ UNCHANGED genVars
  BY DEF RunTimeOut, SeesTimeOut, Out
<1>2. Claimed' = Claimed /\ Claimed
  BY <1>1, SameProgram DEF Running, Sound, Claimed
<1>3. AsPhase = "run" /\ AsPhase' = "done"
  BY <1>1, <1>2 DEF AsPhase
<1>4. Script!TimeOut
  BY <1>1, <1>3 DEF Script!TimeOut
<1>5. QED
  BY <1>1, <1>4 DEF Follows, Script!Next

\* There is no more instruction.
LEMMA FollowNone ==
  ASSUME Running, RunInv', Spot(vpc), AtOf(vpc) \notin 1 .. Len(asked), Out(Failed)
  PROVE  Follows
<1>1. vpc \in Spots /\ AsPhase = "run" /\ AsAt \notin DOMAIN AsProg
  BY OnSpot
<1>2. Script!End(Failed) /\ phase' = "done"
  BY <1>1, EndsThere
<1>3. Script!RunOff
  BY <1>1, <1>2 DEF Script!RunOff
<1>4. QED
  BY <1>2, <1>3 DEF Follows, Script!Next

LEMMA FollowEnd ==
  ASSUME Running, RunInv', vpc >= M, RunEnd
  PROVE  Follows
<1>1. Complete /\ vpc \in Nat
  BY Sizes DEF Running, RunInv
<1>2. Spot(vpc) /\ AtOf(vpc) = Len(asked) + 1
  BY <1>1, AtBlank DEF Spot
<1>3. Len(asked) + 1 \notin 1 .. Len(asked)
  BY <1>1, Counts
<1>4. QED
  BY <1>2, <1>3, FollowNone DEF RunEnd

\* The erased opcode behind the code ends the run as the script's end does.
LEMMA FollowBlank ==
  ASSUME Running, RunInv', head <= vpc, vpc < tail, Interpret, ~ SeesTimeOut
  PROVE  Follows
<1>1. Complete /\ vpc \in Nat
  BY Sizes DEF Running, RunInv
<1>2. Spot(vpc) /\ AtOf(vpc) = Len(asked) + 1
  BY <1>1, AtBlank DEF Spot
<1>3. Len(asked) + 1 \notin 1 .. Len(asked)
  BY <1>1, Counts
<1>4. vpc \in 0 .. M - 1 /\ ~ (vpc >= M)
  BY <1>1, Counts
<1>5. Word = Erased
  BY <1>1, <1>4 DEF Complete, HistInv, Blank, Word
<1>6. RunExit
  BY <1>4, <1>5, Turns DEF Running, Erased
<1>7. Out(Failed)
  BY <1>5, <1>6 DEF RunExit, Erased
<1>8. QED
  BY <1>2, <1>3, <1>7, FollowNone

\* A cell leads on to the place that stands for the same instruction.
LEMMA FollowCell ==
  ASSUME Running, RunInv', NEW c \in 1 .. Len(cells), vpc = cells[c].pos, Interpret, ~ SeesTimeOut
  PROVE  Follows
<1>1. Complete
  BY DEF Running
<1>2. ~ (vpc >= M)
  <2>1. \A p, m \in Nat : p < m => ~ (p >= m)
    OBVIOUS
  <2>2. cells[c].pos \in Nat /\ cells[c].pos < M
    BY <1>1, AtCell
  <2>3. M \in Nat
    BY Sizes
  <2>4. QED
    BY <2>1, <2>2, <2>3
<1>3. Word.op = "b" /\ Spot(Word.to) /\ AtOf(Word.to) = AtOf(vpc) /\ Spot(vpc)
  BY <1>1, CellLeads DEF Word, Spot
<1>4. RunB
  BY <1>2, <1>3, Turns DEF Running
<1>5. Go(Word.to) /\ UNCHANGED <<regs, recur, data>>
  BY <1>4 DEF RunB
<1>6. Word.to \in 0 .. M + 1
  <2>1. vpc' \in 0 .. M + 1
    BY DEF RunInv
  <2>2. QED
    BY <1>5, <2>1 DEF Go
<1>7. /\ Script!Goto(AtOf(vpc)) /\ AsRegs' = regs' /\ vpc' \in Spots' /\ phase' = "run"
      /\ AsCalls' = AsCalls
  BY <1>3, <1>5, <1>6, GotoSpot
<1>8. AsAt = AtOf(vpc) /\ AsRegs = regs
  BY <1>3, OnSpot
<1>9. UNCHANGED Script!vars
  BY <1>5, <1>7, <1>8 DEF Script!Goto, Script!vars
<1>10. Placed'
  <2>1. Spots' = Spots
    BY <1>5, SameProgram DEF Go
  <2>2. QED
    BY <1>5, <1>7, <2>1, StayPlaced DEF Running, Placed
<1>11. QED
  BY <1>9, <1>10 DEF Follows

\* What the script does next where an instruction begins, and its first opcode.
Reading(k, i) ==
  /\ i \in AnyInstr /\ k \in 1 .. Len(asked) /\ i = asked[k]
  /\ AsPhase = "run" /\ AsAt = k /\ k \in DOMAIN AsProg
  /\ Script!Instr.op = i.op /\ Script!Instr.f = i.f /\ Script!Instr.dst = i.dst
  /\ Script!Instr.src = i.src /\ Script!Instr.imm = i.imm
  /\ "to" \in DOMAIN i => Script!Instr.to = Resolve(i.to)

\* The interpreter takes the first opcode of instruction k.
Turning == Running /\ RunInv' /\ Interpret /\ ~ SeesTimeOut
Turn(k, i) == Turning /\ k \in 1 .. Len(asked) /\ i = asked[k] /\ vpc = start[k]

LEMMA Reads ==
  ASSUME Running, NEW k \in 1 .. Len(asked), AsPhase = "run", AsAt = k,
         k \in DOMAIN AsProg, AsProg[k] = Traced(asked[k])
  PROVE  Reading(k, asked[k])
<1>1. asked[k] \in AnyInstr
  BY InstrAt DEF Running
<1>2. Script!Instr = Traced(asked[k])
  BY DEF Script!Instr
<1>3. QED
  BY <1>1, <1>2, TracedIs DEF Reading

LEMMA TurnReads ==
  ASSUME NEW k, NEW i, Turn(k, i)
  PROVE  /\ Reading(k, i) /\ AsRegs = regs /\ vpc \in Spots
         /\ Complete /\ Sound /\ ~ (vpc >= M)
         /\ Word = Opcodes(i, Place(i, start, head, cells))[1]
<1>1. Running /\ Complete /\ Sound /\ k \in 1 .. Len(asked) /\ vpc = start[k] /\ i = asked[k]
  BY DEF Turn, Turning, Running
<1>2. Reading(k, i) /\ AsRegs = regs /\ vpc \in Spots
  BY <1>1, AtInstr, Reads
<1>3. Word = Opcodes(i, Place(i, start, head, cells))[1]
  BY <1>1, FirstOp DEF Word
<1>4. ~ (vpc >= M)
  <2>1. \A s, w, h, t, m \in Nat : w > 0 /\ s + w <= h /\ h <= t /\ t <= m => ~ (s >= m)
    OBVIOUS
  <2>2. start[k] \in Nat /\ Width(asked[k]) \in Nat /\ Width(asked[k]) > 0
        /\ start[k] + Width(asked[k]) <= head
    BY <1>1, Fits
  <2>3. M \in Nat /\ head \in Nat /\ tail \in Nat /\ head <= tail /\ tail <= M
    BY <1>1, Counts
  <2>4. QED
    BY <1>1, <2>1, <2>2, <2>3
<1>5. QED
  BY <1>1, <1>2, <1>3, <1>4

LEMMA TurnsIt ==
  ASSUME NEW k, NEW i, Turn(k, i)
  PROVE  /\ Word.op = "b" => RunB
         /\ Word.op = "bl" => RunBl
         /\ Word.op = "ret" => RunRet
         /\ Word.op = "sk" => RunSkip
         /\ Word.op = "mov8" => RunMov8
         /\ Word.op = "mov24" => RunMov24
         /\ Word.op = "mov32" => RunMov32
         /\ Word.op = "alu" => RunAlu
         /\ Word.op = "native" => RunNative
         /\ Word.op = "exit" => RunExit
<1>1. ~ (vpc >= M)
  BY TurnReads
<1>2. RunInv /\ Interpret /\ ~ SeesTimeOut
  BY DEF Turn, Turning, Running
<1>3. QED
  BY <1>1, <1>2, Turns

\* The run ends between two instructions.
LEMMA TurnEnds ==
  ASSUME NEW k, NEW i, Turn(k, i), NEW c, Out(c)
  PROVE  Script!End(c) /\ phase' = "done"
<1>1. vpc \in Spots
  BY TurnReads
<1>2. QED
  BY <1>1, EndsThere DEF Turn, Turning

\* The interpreter goes on to where the script does.
LEMMA TurnGoes ==
  ASSUME Turning, NEW q, Spot(q), Go(q)
  PROVE  /\ Script!Goto(AtOf(q)) /\ AsRegs' = regs'
         /\ UNCHANGED <<recur, data>> => Placed' /\ UNCHANGED <<AsCalls, data>>
         /\ UNCHANGED genVars /\ q \in 0 .. M + 1
         /\ Spots' = Spots /\ vpc' \in Spots'
<1>1. UNCHANGED genVars /\ vpc' = q
  BY DEF Go
<1>2. q \in 0 .. M + 1
  BY <1>1 DEF Turning, RunInv
<1>3. /\ Script!Goto(AtOf(q)) /\ AsRegs' = regs' /\ vpc' \in Spots'
      /\ recur' = recur => AsCalls' = AsCalls
  BY <1>2, GotoSpot DEF Turning
<1>4. Spots' = Spots
  BY <1>1, SameProgram
<1>5. recur' = recur => Placed'
  BY <1>3, <1>4, StayPlaced DEF Turning, Running, Placed
<1>6. QED
  BY <1>1, <1>2, <1>3, <1>4, <1>5

\* Instruction k is followed by the next one.
LEMMA TurnNext ==
  ASSUME NEW k, NEW i, Turn(k, i), FallsThrough(i), NEW w, w = Width(i), Go(vpc + w),
         UNCHANGED <<recur, data>>
  PROVE  /\ Script!Goto(AsAt + 1) /\ AsRegs' = regs' /\ AsRegs = regs
         /\ Placed' /\ UNCHANGED <<AsCalls, data>>
<1>1. Complete /\ k \in 1 .. Len(asked) /\ vpc = start[k] /\ i = asked[k] /\ Turning
  BY DEF Turn, Turning, Running
<1>2. Spot(vpc + w) /\ AtOf(vpc + w) = k + 1
  BY <1>1, NextSpot
<1>3. AsAt = k /\ AsRegs = regs
  BY TurnReads DEF Reading
<1>4. QED
  BY <1>1, <1>2, <1>3, TurnGoes

LEMMA FollowNative ==
  ASSUME NEW k, NEW i, Turn(k, i), i.op = "native"
  PROVE  Follows
<1>1. Reading(k, i) /\ Word = i /\ AsRegs = regs
  BY TurnReads DEF Opcodes
<1>2. RunNative
  BY <1>1, TurnsIt
<1>3. Script!Doing("native") /\ Script!Instr.src = i.src
  BY <1>1 DEF Reading, Script!Doing
<1>4. CASE i.src \in DOMAIN NativeRets
  <2>1. (\E v \in NativeRets[i.src] : regs' = With(v)) /\ Go(vpc + 1) /\ UNCHANGED <<recur, data>>
    BY <1>1, <1>2, <1>4 DEF RunNative
  <2>2. Width(i) = 1 /\ FallsThrough(i)
    BY DEF Width, Opcodes, FallsThrough
  <2>3. /\ Script!Goto(AsAt + 1) /\ AsRegs' = regs'
        /\ Placed' /\ UNCHANGED <<AsCalls, data>>
    BY <2>1, <2>2, TurnNext
  <2>4. Script!Native
    BY <1>1, <1>3, <1>4, <2>1, <2>3 DEF Script!Native, With
  <2>5. QED
    BY <2>3, <2>4 DEF Follows, Script!Next
<1>5. CASE i.src \notin DOMAIN NativeRets
  <2>1. Out(Failed)
    BY <1>1, <1>2, <1>5 DEF RunNative
  <2>2. Script!End(Failed) /\ phase' = "done"
    BY <2>1, TurnEnds
  <2>3. Script!Native
    BY <1>3, <1>5, <2>2 DEF Script!Native
  <2>4. QED
    BY <2>2, <2>3 DEF Follows, Script!Next
<1>6. QED
  BY <1>4, <1>5

LEMMA FollowExit ==
  ASSUME NEW k, NEW i, Turn(k, i), i.op = "exit"
  PROVE  Follows
<1>1. Reading(k, i) /\ Word = [op |-> "exit", v |-> i.src]
  BY TurnReads DEF Opcodes
<1>2. RunExit
  BY <1>1, TurnsIt
<1>3. Out(i.src)
  BY <1>1, <1>2 DEF RunExit
<1>4. Script!End(i.src) /\ phase' = "done"
  BY <1>3, TurnEnds
<1>5. Script!Exit
  BY <1>1, <1>4 DEF Reading, Script!Exit, Script!Doing
<1>6. QED
  BY <1>4, <1>5 DEF Follows, Script!Next

-----------------------------------------------------------------------------
(* Calls and branches                                                        *)

LEMMA CallsAre ==
  ASSUME Running
  PROVE  /\ AsCalls \in Seq(Range(Map)) /\ Len(AsCalls) = Len(recur)
         /\ \A j \in 1 .. Len(recur) : AsCalls[j] = Map[recur[j]] /\ recur[j] \in 0 .. M + 1
<1>1. AsCalls = [j \in 1 .. Len(recur) |-> Map[recur[j]]]
  BY ViewNow DEF View
<1>2. recur \in Seq(0 .. M + 1) /\ Len(recur) \in Nat
  BY DEF Running, RunInv
<1>3. \A j \in 1 .. Len(recur) : recur[j] \in 0 .. M + 1
  BY <1>2, ElementOfSeq
<1>4. \A x \in 0 .. M + 1 : Map[x] \in Range(Map)
  BY DEF Map, Range
<1>5. QED
  BY <1>1, <1>2, <1>3, <1>4

LEMMA CallsNext ==
  ASSUME Turning, UNCHANGED genVars
  PROVE  AsCalls' = [j \in 1 .. Len(recur') |-> Map[recur'[j]]]
<1>1. View'
  BY Viewed, PTL DEF Turning
<1>2. Map' = Map
  BY SameProgram
<1>3. QED
  BY <1>1, <1>2 DEF View

\* A call remembers, in the script, the instruction after it.
LEMMA CallsPushed ==
  ASSUME Turning, UNCHANGED genVars, NEW p \in 0 .. M + 1, recur' = Append(recur, p)
  PROVE  AsCalls' = Append(AsCalls, AtOf(p))
<1>1. AsCalls' = [j \in 1 .. Len(recur') |-> Map[recur'[j]]]
  BY CallsNext
<1>2. /\ AsCalls \in Seq(Range(Map)) /\ Len(AsCalls) = Len(recur)
      /\ \A j \in 1 .. Len(recur) : AsCalls[j] = Map[recur[j]]
  BY CallsAre DEF Turning
<1>3. recur \in Seq(0 .. M + 1) /\ Len(recur) \in Nat
  BY DEF Turning, Running, RunInv
<1>4. /\ Len(recur') = Len(recur) + 1 /\ recur'[Len(recur) + 1] = p
      /\ \A j \in 1 .. Len(recur) : recur'[j] = recur[j]
  BY <1>3, AppendProperties
<1>5. Map[p] = AtOf(p) /\ Map[p] \in Range(Map)
  BY DEF Map, Range
<1> DEFINE n == Len(recur)
           f == [j \in 1 .. n + 1 |-> Map[recur'[j]]]
           g == Append(AsCalls, Map[p])
<1>6. /\ g \in Seq(Range(Map)) /\ Len(g) = n + 1 /\ g[n + 1] = Map[p]
      /\ \A j \in 1 .. n : g[j] = AsCalls[j]
  BY <1>2, <1>3, <1>5, AppendProperties
<1>7. DOMAIN g = 1 .. n + 1 /\ g = [j \in 1 .. n + 1 |-> g[j]]
  BY <1>3, <1>6
<1>8. \A j \in 1 .. n + 1 : f[j] = g[j]
  <2>1. \A j \in 1 .. n : f[j] = g[j]
    BY <1>2, <1>3, <1>4, <1>6
  <2>2. f[n + 1] = g[n + 1]
    BY <1>3, <1>4, <1>6
  <2>3. \A j \in 1 .. n + 1 : j \in 1 .. n \/ j = n + 1
    BY <1>3
  <2> HIDE DEF f, g, n
  <2>4. QED
    BY <2>1, <2>2, <2>3
<1>9. f = g
  BY <1>7, <1>8
<1>10. QED
  BY <1>1, <1>4, <1>5, <1>9

LEMMA FrontIs ==
  ASSUME NEW S, NEW q \in Seq(S), q # <<>>
  PROVE  Front(q) = [j \in 1 .. Len(q) - 1 |-> q[j]] /\ Len(Front(q)) = Len(q) - 1
<1>1. Len(q) \in Nat /\ Len(q) # 0
  BY LenProperties, EmptySeq
<1>2. Front(q) \in Seq(S) /\ Len(Front(q)) = Len(q) - 1
  BY FrontLast
<1>3. \A j \in 1 .. Len(q) - 1 : q[j] \in S
  BY <1>1, ElementOfSeq
<1>4. \A j \in 1 .. Len(q) - 1 : SubSeq(q, 1, Len(q) - 1)[j] = q[j]
  <2>1. Len(q) - 1 \in Nat /\ Len(q) - 1 - 1 + 1 = Len(q) - 1
    BY <1>1
  <2>2. \A j \in 1 .. Len(q) - 1 : SubSeq(q, 1, Len(q) - 1)[j] = q[1 + j - 1]
    BY <1>3, <2>1, SubSeqProperties
  <2>3. \A j \in 1 .. Len(q) - 1 : 1 + j - 1 = j
    BY <1>1
  <2>4. QED
    BY <2>2, <2>3
<1>5. \A j \in 1 .. Len(q) - 1 : Front(q)[j] = q[j]
  BY <1>4 DEF Front
<1>6. Front(q) = [j \in 1 .. Len(q) - 1 |-> Front(q)[j]]
  BY <1>1, <1>2
<1>7. QED
  BY <1>2, <1>5, <1>6

\* A return takes, in the script, the last of these.
LEMMA CallsPopped ==
  ASSUME Turning, UNCHANGED genVars, recur # <<>>, recur' = Front(recur)
  PROVE  /\ AsCalls # <<>> /\ AsCalls' = Front(AsCalls) /\ Last(AsCalls) = AtOf(Last(recur))
         /\ Spot(Last(recur))
         /\ \A j \in 1 .. Len(recur') : recur'[j] \in Spots
<1>1. AsCalls' = [j \in 1 .. Len(recur') |-> Map[recur'[j]]]
  BY CallsNext
<1>2. /\ AsCalls \in Seq(Range(Map)) /\ Len(AsCalls) = Len(recur)
      /\ \A j \in 1 .. Len(recur) : AsCalls[j] = Map[recur[j]] /\ recur[j] \in 0 .. M + 1
  BY CallsAre DEF Turning
<1>3. recur \in Seq(0 .. M + 1) /\ Len(recur) \in Nat /\ Len(recur) # 0
  BY EmptySeq DEF Turning, Running, RunInv
<1>4. recur' = [j \in 1 .. Len(recur) - 1 |-> recur[j]] /\ Len(recur') = Len(recur) - 1
  BY <1>3, FrontIs
<1>5. AsCalls # <<>> /\ Front(AsCalls) = [j \in 1 .. Len(recur) - 1 |-> AsCalls[j]]
  <2>1. AsCalls # <<>>
    BY <1>2, <1>3, EmptySeq
  <2>2. QED
    BY <1>2, <2>1, FrontIs
<1>6. AsCalls' = Front(AsCalls)
  BY <1>1, <1>2, <1>3, <1>4, <1>5
<1>7. Len(recur) \in 1 .. Len(recur)
  BY <1>3
<1>8. \A j \in 1 .. Len(recur) : recur[j] \in Spots
  BY DEF Turning, Running, Placed
<1>9. Last(recur) \in Spots /\ Last(AsCalls) = Map[Last(recur)] /\ Last(recur) \in 0 .. M + 1
  BY <1>2, <1>7, <1>8 DEF Last
<1>10. Spot(Last(recur)) /\ Last(AsCalls) = AtOf(Last(recur))
  BY <1>9 DEF Spots, Map
<1>11. \A j \in 1 .. Len(recur') : recur'[j] \in Spots
  BY <1>3, <1>4, <1>8
<1>12. QED
  BY <1>5, <1>6, <1>10, <1>11

LEMMA FollowCall ==
  ASSUME NEW k, NEW i, Turn(k, i), i.op = "call"
  PROVE  Follows
<1> DEFINE p == Place(i, start, head, cells)
<1>1. Reading(k, i) /\ Word = [op |-> "bl", to |-> p] /\ AsRegs = regs
  BY TurnReads DEF Opcodes
<1>2. /\ Running /\ Turning /\ Complete /\ k \in 1 .. Len(asked) /\ i = asked[k]
      /\ vpc = start[k] /\ i \in AnyInstr
  BY <1>1 DEF Turn, Turning, Running, Reading
<1>3. "to" \in DOMAIN i
  BY <1>2, MoreKinds
<1>4. Spot(p) /\ AtOf(p) = Resolve(i.to)
  BY <1>2, <1>3, JumpSpot
<1>5. Script!Doing("call") /\ Script!Instr.to = AtOf(p) /\ AsAt = k
  BY <1>1, <1>3, <1>4 DEF Reading, Script!Doing
<1>6. Len(AsCalls) = Len(recur)
  BY <1>2, CallsAre
<1> HIDE DEF p
<1>7. RunBl /\ Word.to = p
  BY <1>1, TurnsIt
<1>8. CASE Len(recur) = MaxCalls
  <2>1. Out(Failed)
    BY <1>7, <1>8 DEF RunBl
  <2>2. Script!End(Failed) /\ phase' = "done"
    BY <2>1, TurnEnds
  <2>3. Script!Call
    BY <1>5, <1>6, <1>8, <2>2 DEF Script!Call
  <2>4. QED
    BY <2>2, <2>3 DEF Follows, Script!Next
<1>9. CASE Len(recur) # MaxCalls
  <2>1. recur' = Append(recur, vpc + 1) /\ Go(p) /\ UNCHANGED <<regs, data>>
    BY <1>7, <1>9 DEF RunBl
  <2>2. /\ Script!Goto(AtOf(p)) /\ AsRegs' = regs' /\ UNCHANGED genVars
        /\ Spots' = Spots /\ vpc' \in Spots'
    BY <1>2, <1>4, <2>1, TurnGoes
  <2>3. Width(i) = 1 /\ FallsThrough(i)
    BY DEF Width, Opcodes, FallsThrough
  <2>4. Spot(vpc + 1) /\ AtOf(vpc + 1) = k + 1
    BY <1>2, <2>3, NextSpot
  <2>5. vpc + 1 \in 0 .. M + 1
    <3>1. \A v, m \in Nat : ~ (v >= m) => v + 1 \in 0 .. m + 1
      OBVIOUS
    <3>2. vpc \in Nat /\ M \in Nat
      BY <1>2, Sizes DEF Running, RunInv
    <3>3. ~ (vpc >= M)
      BY TurnReads
    <3>4. QED
      BY <3>1, <3>2, <3>3
  <2>6. AsCalls' = Append(AsCalls, k + 1)
    BY <1>2, <2>1, <2>2, <2>4, <2>5, CallsPushed
  <2>7. Placed'
    <3>1. /\ recur \in Seq(0 .. M + 1) /\ Len(recur) \in Nat
          /\ \A j \in 1 .. Len(recur) : recur[j] \in Spots
      BY <1>2 DEF Running, RunInv, Placed
    <3>2. vpc + 1 \in Spots
      BY <2>4, <2>5 DEF Spots
    <3>3. \A j \in 1 .. Len(recur') : recur'[j] \in Spots
      BY <2>1, <3>1, <3>2, AppendProperties
    <3>4. QED
      BY <1>2, <2>2, <3>3, StayPlaced DEF Running
  <2>8. Script!Call
    BY <1>1, <1>5, <1>6, <1>9, <2>1, <2>2, <2>6 DEF Script!Call
  <2>9. QED
    BY <2>7, <2>8 DEF Follows, Script!Next
<1>10. QED
  BY <1>8, <1>9

LEMMA FollowReturn ==
  ASSUME NEW k, NEW i, Turn(k, i), i.op = "ret"
  PROVE  Follows
<1>1. Reading(k, i) /\ Word = i /\ AsRegs = regs
  BY TurnReads DEF Opcodes
<1>2. Running /\ Turning
  BY DEF Turn, Turning
<1>3. Script!Doing("ret")
  BY <1>1 DEF Reading, Script!Doing
<1>4. RunRet
  BY <1>1, TurnsIt
<1>5. CASE recur = <<>>
  <2>1. Out(Failed)
    BY <1>4, <1>5 DEF RunRet
  <2>2. Script!End(Failed) /\ phase' = "done"
    BY <2>1, TurnEnds
  <2>3. AsCalls = <<>>
    BY <1>2, <1>5, CallsAre, EmptySeq
  <2>4. Script!Return
    BY <1>3, <2>2, <2>3 DEF Script!Return
  <2>5. QED
    BY <2>2, <2>4 DEF Follows, Script!Next
<1>6. CASE recur # <<>>
  <2>1. recur' = Front(recur) /\ Go(Last(recur)) /\ UNCHANGED <<regs, data>>
    BY <1>4, <1>6 DEF RunRet
  <2>2. /\ AsCalls # <<>> /\ AsCalls' = Front(AsCalls) /\ Last(AsCalls) = AtOf(Last(recur))
        /\ Spot(Last(recur))
        /\ \A j \in 1 .. Len(recur') : recur'[j] \in Spots
    BY <1>2, <1>6, <2>1, CallsPopped DEF Go
  <2>3. /\ Script!Goto(Last(AsCalls)) /\ AsRegs' = regs'
        /\ Spots' = Spots /\ vpc' \in Spots'
    BY <1>2, <2>1, <2>2, TurnGoes
  <2>4. Placed'
    BY <1>2, <2>2, <2>3, StayPlaced DEF Running
  <2>5. Script!Front(AsCalls) = Front(AsCalls) /\ Script!Last(AsCalls) = Last(AsCalls)
    BY DEF Script!Front, Front, Script!Last, Last
  <2>6. Script!Return
    BY <1>1, <1>3, <2>1, <2>2, <2>3, <2>5 DEF Script!Return
  <2>7. QED
    BY <2>4, <2>6 DEF Follows, Script!Next
<1>7. QED
  BY <1>5, <1>6

\* The place of the second opcode of instruction k is k's, and is in a load if
\* k is one.
LEMMA SecondPlace ==
  ASSUME Complete, NEW k \in 1 .. Len(asked), Width(asked[k]) # 1
  PROVE  /\ start[k] + 1 \in 0 .. M + 1 /\ ~ (start[k] + 1 >= M)
         /\ Map[start[k] + 1] = k
         /\ start[k] + 1 \in Loads <=> asked[k].op = "alu"
<1>1. /\ Containing(start[k] + 1) = k /\ start[k] + 1 < head /\ AtOf(start[k] + 1) = k
  BY AtSecond, AtCode
<1>2. start[k] \in Nat /\ M \in Nat /\ head \in Nat /\ tail \in Nat /\ head <= tail /\ tail <= M
  BY Fits, Counts
<1>3. start[k] + 1 \in 0 .. M + 1 /\ ~ (start[k] + 1 >= M) /\ start[k] + 1 > start[k]
  <2>1. \A s, h, t, m \in Nat : s + 1 < h /\ h <= t /\ t <= m =>
          s + 1 \in 0 .. m + 1 /\ ~ (s + 1 >= m) /\ s + 1 > s
    OBVIOUS
  <2>2. QED
    BY <1>1, <1>2, <2>1
<1>4. QED
  BY <1>1, <1>3 DEF Map, Loads, LoadingAt

\* The interpreter takes the second opcode of instruction k.
Second(k, i) ==
  Turning /\ k \in 1 .. Len(asked) /\ i = asked[k] /\ vpc = start[k] + 1 /\ Width(i) # 1

LEMMA SecondTurn ==
  ASSUME NEW k, NEW i, Second(k, i)
  PROVE  /\ Running /\ Complete /\ Sound /\ ~ (vpc >= M) /\ i \in AnyInstr
         /\ Map[vpc] = k /\ (vpc \in Loads <=> i.op = "alu")
         /\ Word = Opcodes(i, Place(i, start, head, cells))[2]
         /\ Word.op = "b" => RunB
         /\ Word.op = "alu" => RunAlu
<1>1. /\ Running /\ Complete /\ Sound /\ k \in 1 .. Len(asked) /\ vpc = start[k] + 1 /\ i = asked[k]
      /\ RunInv /\ Interpret /\ ~ SeesTimeOut /\ Width(i) # 1
  BY DEF Second, Turning, Running
<1>2. Map[vpc] = k /\ (vpc \in Loads <=> i.op = "alu") /\ ~ (vpc >= M)
  BY <1>1, SecondPlace
<1>3. Word = Opcodes(i, Place(i, start, head, cells))[2]
  BY <1>1, SecondOp DEF Word
<1>4. i \in AnyInstr
  BY <1>1, InstrAt
<1>5. QED
  BY <1>1, <1>2, <1>3, <1>4, Turns

LEMMA FollowAlways ==
  ASSUME NEW k, NEW i, Turn(k, i), i.op = "br", i.f = "al"
  PROVE  Follows
<1> DEFINE p == Place(i, start, head, cells)
<1>1. Reading(k, i) /\ Word = [op |-> "b", to |-> p] /\ AsRegs = regs
  BY TurnReads DEF Opcodes
<1>2. /\ Running /\ Turning /\ Complete /\ k \in 1 .. Len(asked) /\ i = asked[k]
      /\ vpc = start[k] /\ i \in AnyInstr
  BY <1>1 DEF Turn, Turning, Running, Reading
<1>3. "to" \in DOMAIN i
  BY <1>2, MoreKinds
<1>4. Spot(p) /\ AtOf(p) = Resolve(i.to)
  BY <1>2, <1>3, JumpSpot
<1>5. Script!Doing("br") /\ Script!Instr.to = AtOf(p) /\ Script!Instr.f = "al"
  BY <1>1, <1>3, <1>4 DEF Reading, Script!Doing
<1> HIDE DEF p
<1>6. RunB /\ Word.to = p
  BY <1>1, TurnsIt
<1>7. Go(p) /\ UNCHANGED <<regs, recur, data>>
  BY <1>6 DEF RunB
<1>8. Script!Goto(AtOf(p)) /\ AsRegs' = regs' /\ Placed' /\ UNCHANGED <<AsCalls, data>>
  BY <1>2, <1>4, <1>7, TurnGoes
<1>9. Script!Holds("al", regs[Script!Instr.dst], Script!Operand(Script!Instr))
  BY DEF Script!Holds
<1>10. Script!Branch
  BY <1>1, <1>5, <1>7, <1>8, <1>9 DEF Script!Branch
<1>11. QED
  BY <1>8, <1>10 DEF Follows, Script!Next

\* The opcode before a conditional branch skips it when the script does not branch.
LEMMA SkipMeans ==
  ASSUME NEW i \in AnyInstr, i.op = "br", i.f \notin {"al", "neg", "notNeg"}, NEW w, w = Skip(i)
  PROVE  /\ w.op = "sk"
         /\ EvalCc(w.cc, regs[w.a], IF w.imm THEN w.b ELSE regs[w.b]) <=> Taken(i)
<1>1. /\ i.f \in {"eq", "ne", "ge", "gt", "le", "lt", "eqImm", "neImm"}
      /\ i.f \in {"eq", "ne", "ge", "gt", "le", "lt"} => ~ i.imm
      /\ i.f \in {"eqImm", "neImm"} => i.imm
  <2>1. i.f \in {"al", "eq", "ne", "ge", "gt", "le", "lt", "eqImm", "neImm", "neg", "notNeg"}
    BY InstrKinds
  <2>2. QED
    BY <2>1, MoreKinds
<1>2. w.op = "sk" /\ w.imm = i.imm
  BY <1>1 DEF Skip
<1>3. CASE i.f \in {"eq", "eqImm"}
  BY <1>1, <1>3 DEF Skip, EvalCc, Taken, Script!Holds
<1>4. CASE i.f \in {"ne", "neImm"}
  BY <1>1, <1>4 DEF Skip, EvalCc, Taken, Script!Holds
<1>5. CASE i.f = "ge"
  BY <1>1, <1>5 DEF Skip, EvalCc, Taken, Script!Holds
<1>6. CASE i.f = "lt"
  BY <1>1, <1>6 DEF Skip, EvalCc, Taken, Script!Holds
<1>7. CASE i.f = "gt"
  BY <1>1, <1>7 DEF Skip, EvalCc, Taken, Script!Holds
<1>8. CASE i.f = "le"
  BY <1>1, <1>8 DEF Skip, EvalCc, Taken, Script!Holds
<1>9. QED
  BY <1>1, <1>2, <1>3, <1>4, <1>5, <1>6, <1>7, <1>8


LEMMA FollowSkip ==
  ASSUME NEW k, NEW i, Turn(k, i), i.op = "br", i.f # "al"
  PROVE  Follows
<1> DEFINE p == Place(i, start, head, cells)
<1>1. Reading(k, i) /\ Word = <<Skip(i), [op |-> "b", to |-> p]>>[1] /\ AsRegs = regs
  BY TurnReads DEF Opcodes
<1>2. /\ Running /\ Turning /\ Complete /\ Sound /\ k \in 1 .. Len(asked) /\ i = asked[k]
      /\ vpc = start[k] /\ i \in AnyInstr
  BY <1>1 DEF Turn, Turning, Running, Reading
<1>3. i.f \notin {"al", "neg", "notNeg"}
  BY <1>2, SoundInstr
<1>4. Word = Skip(i)
  BY <1>1
<1>5. /\ Word.op = "sk"
      /\ EvalCc(Word.cc, regs[Word.a], IF Word.imm THEN Word.b ELSE regs[Word.b]) <=> Taken(i)
  BY <1>2, <1>3, <1>4, SkipMeans
<1>6. RunSkip
  BY <1>5, TurnsIt
<1>7. Go(IF Taken(i) THEN vpc + 1 ELSE vpc + 2) /\ UNCHANGED <<regs, recur, data>>
  BY <1>5, <1>6 DEF RunSkip
<1>8. Width(i) = 2
  BY DEF Width, Opcodes
<1>9. UNCHANGED genVars /\ phase' = phase
  BY <1>7 DEF Go
<1>10. CASE ~ Taken(i)
  <2>1. FallsThrough(i)
    BY DEF FallsThrough
  <2>2. Go(vpc + 2)
    BY <1>7, <1>10
  <2>3. Script!Goto(AsAt + 1) /\ AsRegs' = regs' /\ Placed' /\ UNCHANGED <<AsCalls, data>>
    BY <1>7, <1>8, <2>1, <2>2, TurnNext
  <2>4. ~ Script!Holds(Script!Instr.f, AsRegs[Script!Instr.dst], Script!Operand(Script!Instr))
    BY <1>1, <1>10 DEF Taken, Script!Operand, Reading
  <2>5. Script!Branch
    BY <1>1, <1>7, <2>3, <2>4 DEF Script!Branch, Script!Doing, Reading
  <2>6. QED
    BY <2>3, <2>5 DEF Follows, Script!Next
<1>11. CASE Taken(i)
  <2>1. Go(vpc + 1)
    BY <1>7, <1>11
  <2>2. vpc' = start[k] + 1 /\ expired' = expired /\ code' = code /\ phase' = phase /\ phase = "run"
    BY <1>2, <2>1 DEF Go, Running
  <2>3. start[k] + 1 \notin Loads /\ Map[start[k] + 1] = k
    BY <1>2, <1>8, SecondPlace
  <2>4. Map' = Map /\ Loads' = Loads /\ Meant' = Meant /\ Claimed' = Claimed /\ Spots' = Spots
    BY <1>9, SameProgram
  <2>5. View' /\ View
    <3>1. View'
      BY <1>2, Viewed, PTL DEF Turning
    <3>2. QED
      BY <1>2, <3>1, ViewNow
  <2>6. AsAt' = k /\ AsRegs' = regs' /\ AsPhase' = AsPhase /\ AsProg' = AsProg /\ AsCalls' = AsCalls
    BY <1>7, <2>2, <2>3, <2>4, <2>5 DEF View
  <2>7. UNCHANGED Script!vars
    BY <1>1, <1>7, <2>2, <2>6 DEF Script!vars, Reading
  <2>8. Placed'
    <3>1. asked' = asked /\ start' = start /\ cells' = cells /\ regs' = regs /\ recur' = recur
      BY <1>7, <1>9 DEF genVars
    <3>2. InBranch(k)'
      BY <1>2, <1>11, <2>2, <3>1 DEF InBranch, Taken
    <3>3. \A j \in 1 .. Len(recur) : recur[j] \in Spots
      BY <1>2 DEF Running, Placed
    <3>4. QED
      BY <1>2, <2>4, <3>1, <3>2, <3>3 DEF Placed
  <2>9. QED
    BY <2>7, <2>8 DEF Follows
<1>12. QED
  BY <1>10, <1>11

\* The branch that was not skipped.
LEMMA FollowTaken ==
  ASSUME NEW k, Turning, k \in 1 .. Len(asked), InBranch(k)
  PROVE  Follows
<1> DEFINE i == asked[k]
           p == Place(i, start, head, cells)
<1>1. i.op = "br" /\ i.f # "al" /\ vpc = start[k] + 1 /\ Taken(i)
  BY DEF InBranch
<1>2. Opcodes(i, p) = <<Skip(i), [op |-> "b", to |-> p]>> /\ Width(i) = 2
  BY <1>1 DEF Width, Opcodes
<1>3. Second(k, i)
  BY <1>1, <1>2 DEF Second
<1>4. /\ Running /\ Complete /\ Sound /\ i \in AnyInstr
      /\ Map[vpc] = k /\ vpc \notin Loads /\ Word = Opcodes(i, p)[2]
      /\ Word.op = "b" => RunB
  BY <1>1, <1>3, SecondTurn
<1>5. Word = [op |-> "b", to |-> p]
  BY <1>2, <1>4
<1>6. "to" \in DOMAIN i
  BY <1>1, <1>4, MoreKinds
<1>7. Spot(p) /\ AtOf(p) = Resolve(i.to)
  BY <1>4, <1>6, JumpSpot
<1>8. Claimed /\ phase = "run"
  BY <1>4 DEF Sound, Claimed, Running
<1>9. AsPhase = "run" /\ AsAt = k /\ AsRegs = regs /\ k \in DOMAIN AsProg /\ AsProg[k] = Traced(asked[k])
  BY <1>4, <1>8, ViewNow, Lengths DEF View, Meant
<1>10. Reading(k, i)
  BY <1>4, <1>9, Reads
<1> HIDE DEF i, p
<1>11. Go(p) /\ UNCHANGED <<regs, recur, data>>
  BY <1>4, <1>5 DEF RunB
<1>12. Script!Goto(AtOf(p)) /\ AsRegs' = regs' /\ Placed' /\ UNCHANGED <<AsCalls, data>>
  BY <1>7, <1>11, TurnGoes
<1>13. Script!Holds(Script!Instr.f, AsRegs[Script!Instr.dst], Script!Operand(Script!Instr))
  BY <1>1, <1>9, <1>10 DEF Taken, Script!Operand, Reading
<1>14. Script!Branch
  BY <1>1, <1>6, <1>7, <1>9, <1>10, <1>11, <1>12, <1>13 DEF Script!Branch, Script!Doing, Reading
<1>15. QED
  BY <1>12, <1>14 DEF Follows, Script!Next

-----------------------------------------------------------------------------
(* Arithmetic and loads                                                      *)

LEMMA Parted ==
  ASSUME NEW v \in Nat, NEW q \in Nat \ {0}
  PROVE  (v % q) + (v \div q) * q = v
OBVIOUS

LEMMA WordSizes ==
  /\ Half \in Nat \ {0} /\ Size \in Nat \ {0} /\ Quarter \in Nat \ {0}
<1>1. \A a \in Nat \ {0} : a * a \in Nat \ {0}
  <2>1. \A a \in Nat : a * a \in Nat /\ (a # 0 => a * a # 0)
    OBVIOUS
  <2>2. QED
    BY <2>1
<1>2. Quarter \in Nat \ {0}
  BY Sizes
<1>3. QED
  BY <1>1, <1>2 DEF Half, Size

\* An instruction that computes in one opcode what it computes in the script.
LEMMA ComputeDone ==
  ASSUME NEW k, NEW i, Turn(k, i), i.op = "alu", NEW w, w = Width(i),
         Go(vpc + w), UNCHANGED <<recur, data>>,
         regs' = [regs EXCEPT ![i.dst] = Alu(i.f, regs[i.dst], IF i.imm THEN i.src ELSE regs[i.src])]
  PROVE  Follows
<1>1. Reading(k, i) /\ AsRegs = regs
  BY TurnReads
<1>2. FallsThrough(i)
  BY DEF FallsThrough
<1>3. Script!Goto(AsAt + 1) /\ AsRegs' = regs' /\ Placed' /\ UNCHANGED <<AsCalls, data>>
  BY <1>2, TurnNext
<1>4. Script!Compute
  BY <1>1, <1>3 DEF Script!Compute, Script!Put, Script!Operand, Script!Doing, Reading
<1>5. QED
  BY <1>3, <1>4 DEF Follows, Script!Next

LEMMA FollowAlu ==
  ASSUME NEW k, NEW i, Turn(k, i), i.op = "alu", ~ (i.f = "mov" /\ i.imm)
  PROVE  Follows
<1>1. Complete /\ Sound /\ Word = i
  BY TurnReads DEF Opcodes
<1>2. Width(i) = 1 /\ Opcodes(i, 0)[1] = i
  BY DEF Width, Opcodes
<1>3. i.f # "orr" /\ ~ (i.f = "lsl" /\ i.imm)
  <2>1. k \in 1 .. Len(asked) /\ i = asked[k]
    BY DEF Turn
  <2>2. 1 \in 1 .. Width(i)
    BY <1>2
  <2>3. QED
    BY <1>1, <1>2, <2>1, <2>2, SoundInstr
<1>4. RunAlu
  BY <1>1, TurnsIt
<1>5. Load(i.dst, AluDo(i.f, regs[i.dst], IF i.imm THEN i.src ELSE regs[i.src]), 1)
  BY <1>1, <1>3, <1>4 DEF RunAlu
<1>6. /\ regs' = [regs EXCEPT ![i.dst] = Alu(i.f, regs[i.dst], IF i.imm THEN i.src ELSE regs[i.src])]
      /\ Go(vpc + 1) /\ UNCHANGED <<recur, data>>
  BY <1>3, <1>5 DEF Load, AluDo
<1>7. QED
  BY <1>2, <1>6, ComputeDone

\* How a value is loaded: by 8 bits, 24, 8 inverted, 8 shifted, or 32.
LoadsAs(i, v, ws) ==
  \/ Width(i) = 1 /\ ws[1] = [op |-> "mov8", r |-> i.dst, v |-> v]
  \/ /\ Width(i) = 2 /\ ws[1] = [op |-> "mov24", r |-> i.dst, v |-> v % Quarter]
     /\ ws[2] = [op |-> "word", v |-> v \div Quarter]
  \/ /\ Width(i) = 2 /\ ws[1] = [op |-> "mov8", r |-> i.dst, v |-> Size - 1 - v]
     /\ ws[2] = NotOp(i)
  \/ Width(i) = 2 /\ ws[2].op = "alu" /\ ws[2].f = "lsl" /\ ws[2].imm
  \/ /\ Width(i) = 3 /\ ws[1] = [op |-> "mov32", r |-> i.dst]
     /\ ws[2] = [op |-> "word", v |-> v % Half]
     /\ ws[3] = [op |-> "word", v |-> v \div Half]

LEMMA LoadKinds ==
  ASSUME NEW i \in AnyInstr, i.op = "alu", i.f = "mov", i.imm
  PROVE  LoadsAs(i, i.src, Opcodes(i, 0))
<1> DEFINE v == i.src
           ws == Opcodes(i, 0)
           r == i.dst
           Mov8(x) == [op |-> "mov8", r |-> r, v |-> x]
           A(q) == Len(q) = 1 /\ q[1] = Mov8(v)
           B(q) == /\ Len(q) = 2 /\ q[1] = [op |-> "mov24", r |-> r, v |-> v % Quarter]
                   /\ q[2] = [op |-> "word", v |-> v \div Quarter]
           C(q) == Len(q) = 2 /\ q[1] = Mov8(Size - 1 - v) /\ q[2] = NotOp(i)
           D(q) == Len(q) = 2 /\ q[2].op = "alu" /\ q[2].f = "lsl" /\ q[2].imm
           E(q) == /\ Len(q) = 3 /\ q[1] = [op |-> "mov32", r |-> r]
                   /\ q[2] = [op |-> "word", v |-> v % Half]
                   /\ q[3] = [op |-> "word", v |-> v \div Half]
           Good(q) == A(q) \/ B(q) \/ C(q) \/ D(q) \/ E(q)
<1>1. Good(<<Mov8(v)>>)
  <2>1. A(<<Mov8(v)>>)
    OBVIOUS
  <2>2. QED
    BY <2>1
<1>2. Good(<<[op |-> "mov24", r |-> r, v |-> v % Quarter], [op |-> "word", v |-> v \div Quarter]>>)
  <2>1. B(<<[op |-> "mov24", r |-> r, v |-> v % Quarter], [op |-> "word", v |-> v \div Quarter]>>)
    OBVIOUS
  <2>2. QED
    BY <2>1
<1>3. Good(<<Mov8(Size - 1 - v), [op |-> "alu", f |-> "not", dst |-> r, src |-> r, imm |-> FALSE]>>)
  <2>1. C(<<Mov8(Size - 1 - v), [op |-> "alu", f |-> "not", dst |-> r, src |-> r, imm |-> FALSE]>>)
    BY DEF NotOp
  <2>2. QED
    BY <2>1
<1>4. \A x, y : Good(<<x, [op |-> "alu", f |-> "lsl", dst |-> r, src |-> y, imm |-> TRUE]>>)
  <2>1. \A x, y : D(<<x, [op |-> "alu", f |-> "lsl", dst |-> r, src |-> y, imm |-> TRUE]>>)
    OBVIOUS
  <2>2. QED
    BY <2>1
<1>5. Good(<<[op |-> "mov32", r |-> r],
             [op |-> "word", v |-> v % Half], [op |-> "word", v |-> v \div Half]>>)
  <2>1. E(<<[op |-> "mov32", r |-> r],
            [op |-> "word", v |-> v % Half], [op |-> "word", v |-> v \div Half]>>)
    OBVIOUS
  <2>2. QED
    BY <2>1
<1> HIDE DEF Good
<1>6. Good(LoadImm(r, v))
  BY <1>1, <1>2, <1>3, <1>4, <1>5 DEF LoadImm
<1>7. ws = LoadImm(r, v) /\ Width(i) = Len(ws)
  BY DEF Opcodes, Width
<1> HIDE DEF r, Mov8, ws, v
<1>8. Good(ws)
  BY <1>6, <1>7
<1>9. LoadsAs(i, v, ws)
  BY <1>7, <1>8 DEF Good, r, Mov8, LoadsAs
<1>10. QED
  BY <1>9 DEF v, ws

LEMMA AluMov == \A x, y : Alu("mov", x, y) = y
BY DEF Alu

LEMMA AluNot == \A x, y : Alu("not", x, y) = Size - 1 - y
BY DEF Alu

LEMMA SameOpcodes ==
  ASSUME NEW i, i.op = "alu", NEW p
  PROVE  Opcodes(i, p) = Opcodes(i, 0)
BY DEF Opcodes

LEMMA ThirdOp ==
  ASSUME Complete, NEW k \in 1 .. Len(asked), Width(asked[k]) = 3
  PROVE  ops[start[k] + 2] = Opcodes(asked[k], Place(asked[k], start, head, cells))[3]
<1> DEFINE ws == Opcodes(asked[k], Place(asked[k], start, head, cells))
<1>1. At(ops, head, start[k], ws)
  BY DEF Complete, GenInv, Built, Code
<1>2. Len(ws) = 3 /\ start[k] \in Nat
  BY WidthIs, InstrAt
<1> HIDE DEF ws
<1>3. ops[start[k] + 3 - 1] = ws[3]
  BY <1>1, <1>2 DEF At
<1>4. start[k] + 3 - 1 = start[k] + 2
  BY <1>2
<1>5. QED
  BY <1>3, <1>4 DEF ws

\* A load that is not broken does not end where the array does.
LEMMA LoadRoom ==
  ASSUME Complete, Sound, NEW k \in 1 .. Len(asked), NEW w, w = Width(asked[k]),
         ops[start[k]].op \in {"mov24", "mov32"}
  PROVE  ~ (start[k] + w >= M)
<1>1. start[k] + w # M
  BY SoundInstr
<1>2. \A x, h, t, m \in Nat : x # m /\ x <= h /\ h <= t /\ t <= m => ~ (x >= m)
  OBVIOUS
<1>3. start[k] \in Nat /\ w \in Nat /\ start[k] + w <= head
  BY Fits
<1>4. M \in Nat /\ head \in Nat /\ tail \in Nat /\ head <= tail /\ tail <= M
  BY Counts
<1>5. start[k] + w \in Nat
  BY <1>3
<1>6. QED
  BY <1>1, <1>2, <1>3, <1>4, <1>5

\* A load in one opcode, or in one of 24 or 32 bits and the words that follow.
LEMMA FollowMov8 ==
  ASSUME NEW k, NEW i, Turn(k, i), i.op = "alu", i.f = "mov", i.imm, Width(i) = 1,
         Word = [op |-> "mov8", r |-> i.dst, v |-> i.src]
  PROVE  Follows
<1>1. RunMov8
  BY TurnsIt
<1>2. regs' = [regs EXCEPT ![i.dst] = i.src] /\ Go(vpc + 1) /\ UNCHANGED <<recur, data>>
  BY <1>1 DEF RunMov8, Load
<1>3. QED
  BY <1>2, AluMov, ComputeDone

LEMMA FollowMov24 ==
  ASSUME NEW k, NEW i, Turn(k, i), i \in AnyInstr, i.op = "alu", i.f = "mov", i.imm, Width(i) = 2,
         Word = [op |-> "mov24", r |-> i.dst, v |-> i.src % Quarter],
         Opcodes(i, 0)[2] = [op |-> "word", v |-> i.src \div Quarter]
  PROVE  Follows
<1>1. Complete /\ Sound /\ k \in 1 .. Len(asked) /\ i = asked[k] /\ vpc = start[k]
  BY DEF Turn, Turning, Running
<1>2. RunMov24
  BY TurnsIt
<1>3. ops[start[k] + 1] = [op |-> "word", v |-> i.src \div Quarter]
  BY <1>1, SecondOp, SameOpcodes
<1>4. ~ (vpc + 2 >= M)
  BY <1>1, LoadRoom DEF Word
<1>5. (i.src % Quarter) + (i.src \div Quarter) * Quarter = i.src
  <2>1. i.src \in Words
    BY MoreKinds
  <2>2. i.src \in Nat
    BY <2>1, WordSizes DEF Words
  <2>3. QED
    BY <2>2, WordSizes, Parted
<1>6. regs' = [regs EXCEPT ![i.dst] = i.src] /\ Go(vpc + 2) /\ UNCHANGED <<recur, data>>
  BY <1>1, <1>2, <1>3, <1>4, <1>5 DEF RunMov24, Load
<1>7. regs' = [regs EXCEPT ![i.dst] = Alu(i.f, regs[i.dst], IF i.imm THEN i.src ELSE regs[i.src])]
  <2>1. Alu(i.f, regs[i.dst], IF i.imm THEN i.src ELSE regs[i.src]) = i.src
    BY AluMov, Zenon
  <2>2. QED
    BY <1>6, <2>1, Zenon
<1>8. Go(vpc + Width(i))
  BY <1>6
<1>9. QED
  BY <1>6, <1>7, <1>8, ComputeDone

LEMMA FollowMov32 ==
  ASSUME NEW k, NEW i, Turn(k, i), i \in AnyInstr, i.op = "alu", i.f = "mov", i.imm, Width(i) = 3,
         Word = [op |-> "mov32", r |-> i.dst],
         Opcodes(i, 0)[2] = [op |-> "word", v |-> i.src % Half],
         Opcodes(i, 0)[3] = [op |-> "word", v |-> i.src \div Half]
  PROVE  Follows
<1>1. Complete /\ Sound /\ k \in 1 .. Len(asked) /\ i = asked[k] /\ vpc = start[k]
  BY DEF Turn, Turning, Running
<1>2. RunMov32
  BY TurnsIt
<1>3. /\ ops[start[k] + 1] = [op |-> "word", v |-> i.src % Half]
      /\ ops[start[k] + 2] = [op |-> "word", v |-> i.src \div Half]
  BY <1>1, SecondOp, ThirdOp, SameOpcodes
<1>4. ~ (vpc + 3 >= M)
  BY <1>1, LoadRoom DEF Word
<1>5. (i.src % Half) + (i.src \div Half) * Half = i.src
  <2>1. i.src \in Words
    BY MoreKinds
  <2>2. i.src \in Nat
    BY <2>1, WordSizes DEF Words
  <2>3. QED
    BY <2>2, WordSizes, Parted
<1>6. regs' = [regs EXCEPT ![i.dst] = i.src] /\ Go(vpc + 3) /\ UNCHANGED <<recur, data>>
  BY <1>1, <1>2, <1>3, <1>4, <1>5 DEF RunMov32, Load
<1>7. regs' = [regs EXCEPT ![i.dst] = Alu(i.f, regs[i.dst], IF i.imm THEN i.src ELSE regs[i.src])]
  <2>1. Alu(i.f, regs[i.dst], IF i.imm THEN i.src ELSE regs[i.src]) = i.src
    BY AluMov, Zenon
  <2>2. QED
    BY <1>6, <2>1, Zenon
<1>8. Go(vpc + Width(i))
  BY <1>6
<1>9. QED
  BY <1>6, <1>7, <1>8, ComputeDone

\* The first opcode of a load by way of the inverted value does what the script
\* does, with the register still to be inverted.
LEMMA FollowInverted ==
  ASSUME NEW k, NEW i, Turn(k, i), i \in AnyInstr, i.op = "alu", i.f = "mov", i.imm, Width(i) = 2,
         Word = [op |-> "mov8", r |-> i.dst, v |-> Size - 1 - i.src],
         Opcodes(i, 0)[2] = NotOp(i)
  PROVE  Follows
<1>1. /\ Running /\ Turning /\ Complete /\ Sound /\ k \in 1 .. Len(asked) /\ i = asked[k]
      /\ vpc = start[k]
  BY DEF Turn, Turning, Running
<1>2. Reading(k, i) /\ AsRegs = regs
  BY TurnReads
<1>3. RunMov8
  BY TurnsIt
<1>4. regs' = [regs EXCEPT ![i.dst] = Size - 1 - i.src] /\ Go(vpc + 1) /\ UNCHANGED <<recur, data>>
  BY <1>3 DEF RunMov8, Load
<1>5. /\ vpc' = start[k] + 1 /\ expired' = expired /\ code' = code /\ phase' = phase /\ phase = "run"
      /\ UNCHANGED genVars
  BY <1>1, <1>4 DEF Go, Running
<1>6. start[k] + 1 \in Loads /\ Map[start[k] + 1] = k
  BY <1>1, SecondPlace
<1>7. /\ Map' = Map /\ Loads' = Loads /\ Meant' = Meant /\ Claimed' = Claimed /\ Spots' = Spots
      /\ asked' = asked /\ start' = start /\ cells' = cells
  BY <1>5, SameProgram DEF genVars
<1>8. View' /\ View
  <2>1. View'
    BY <1>1, Viewed, PTL DEF Turning
  <2>2. QED
    BY <1>1, <2>1, ViewNow
<1>9. /\ AsAt' = k + 1 /\ AsRegs' = [regs' EXCEPT ![i.dst] = i.src]
      /\ AsPhase' = AsPhase /\ AsProg' = AsProg /\ AsCalls' = AsCalls
  BY <1>1, <1>4, <1>5, <1>6, <1>7, <1>8 DEF View
<1>10. AsRegs' = [regs EXCEPT ![i.dst] = i.src]
  BY <1>4, <1>9
<1>11. Script!Goto(AsAt + 1)
  BY <1>2, <1>5, <1>9 DEF Script!Goto, Reading
<1>12. Script!Compute
  <2>1. Script!Doing("alu") /\ Script!Instr.dst = i.dst
    BY <1>2 DEF Script!Doing, Reading
  <2>2. Alu(Script!Instr.f, AsRegs[Script!Instr.dst], Script!Operand(Script!Instr)) = i.src
    BY <1>2, AluMov DEF Script!Operand, Reading
  <2>3. AsRegs' = [AsRegs EXCEPT ![i.dst] = i.src] /\ UNCHANGED <<AsCalls, data>>
    BY <1>2, <1>4, <1>9, <1>10
  <2>4. QED
    BY <1>11, <2>1, <2>2, <2>3 DEF Script!Compute, Script!Put
<1>13. Placed'
  <2>1. InLoad(k)'
    <3>1. regs'[i.dst] = Size - 1 - i.src
      <4>1. IsRegs(regs) /\ i.dst \in Regs
        BY <1>1, MoreKinds DEF Running
      <4>2. QED
        BY <1>4, <4>1 DEF IsRegs
    <3>2. Inverts(i)
      BY DEF Inverts
    <3>3. QED
      BY <1>1, <1>5, <1>7, <3>1, <3>2 DEF InLoad
  <2>2. \A j \in 1 .. Len(recur) : recur[j] \in Spots
    BY <1>1 DEF Running, Placed
  <2>3. QED
    BY <1>1, <1>4, <1>7, <2>1, <2>2 DEF Placed
<1>14. QED
  BY <1>12, <1>13 DEF Follows, Script!Next

\* The second one is no step of the script.
LEMMA FollowInverse ==
  ASSUME NEW k, Turning, k \in 1 .. Len(asked), InLoad(k)
  PROVE  Follows
<1> DEFINE i == asked[k]
<1>1. /\ Inverts(i) /\ vpc = start[k] + 1 /\ regs[i.dst] = Size - 1 - i.src
      /\ i.op = "alu" /\ i.f = "mov" /\ i.imm /\ Width(i) = 2 /\ Opcodes(i, 0)[2] = NotOp(i)
  BY DEF InLoad, Inverts
<1>2. Second(k, i)
  BY <1>1 DEF Second
<1>3. /\ Running /\ Complete /\ Sound /\ i \in AnyInstr
      /\ Map[vpc] = k /\ vpc \in Loads /\ Word = NotOp(i)
      /\ Word.op = "alu" => RunAlu
  BY <1>1, <1>2, SecondTurn DEF Opcodes
<1>4. View /\ phase = "run"
  BY <1>3, ViewNow DEF Running
<1>5. /\ AsAt = k + 1 /\ AsRegs = [regs EXCEPT ![i.dst] = i.src]
  BY <1>3, <1>4 DEF View
<1> HIDE DEF i
<1>6. RunAlu
  BY <1>3 DEF NotOp
<1>7. /\ regs' = [regs EXCEPT ![i.dst] = Alu("not", regs[i.dst], regs[i.dst])]
      /\ Go(vpc + 1) /\ UNCHANGED <<recur, data>>
  BY <1>3, <1>6 DEF RunAlu, NotOp, Load, AluDo
<1>8. Alu("not", regs[i.dst], regs[i.dst]) = i.src
  <2>1. i.src \in Words
    BY <1>1, <1>3, MoreKinds
  <2>2. i.src \in Nat /\ Size \in Nat
    BY <2>1, WordSizes DEF Words
  <2>3. Size - 1 - (Size - 1 - i.src) = i.src
    BY <2>2
  <2>4. QED
    BY <1>1, <2>3, AluNot
<1>9. Spot(vpc + 1) /\ AtOf(vpc + 1) = k + 1
  <2>1. FallsThrough(i)
    BY <1>1 DEF FallsThrough
  <2>2. Spot(start[k] + 2) /\ AtOf(start[k] + 2) = k + 1
    BY <1>1, <1>3, <2>1, NextSpot DEF i
  <2>3. start[k] + 1 + 1 = start[k] + 2
    BY <1>3, Fits
  <2>4. QED
    BY <1>1, <2>2, <2>3
<1>10. Script!Goto(AsAt) /\ AsRegs' = regs' /\ Placed' /\ UNCHANGED <<AsCalls, data>>
  BY <1>5, <1>7, <1>9, TurnGoes
<1>11. AsRegs' = AsRegs
  BY <1>5, <1>7, <1>8, <1>10
<1>12. UNCHANGED Script!vars
  BY <1>10, <1>11 DEF Script!Goto, Script!vars
<1>13. QED
  BY <1>10, <1>12 DEF Follows

-----------------------------------------------------------------------------
(* The code implements the script                                            *)

LEMMA FollowInstr ==
  ASSUME NEW k, NEW i, Turn(k, i)
  PROVE  Follows
<1>1. /\ Complete /\ Sound /\ k \in 1 .. Len(asked) /\ i = asked[k] /\ vpc = start[k]
      /\ i \in AnyInstr
  BY TurnReads DEF Turn, Turning, Running, Reading
<1>2. i.op \in {"alu", "br", "call", "ret", "exit", "native"}
  BY <1>1, InstrKinds, SoundInstr
<1>3. CASE i.op = "alu" /\ ~ (i.f = "mov" /\ i.imm)
  BY <1>3, FollowAlu
<1>4. CASE i.op = "alu" /\ i.f = "mov" /\ i.imm
  <2>1. Word = Opcodes(i, 0)[1]
    BY <1>4, TurnReads, SameOpcodes
  <2>2. CASE Width(i) = 1 /\ Opcodes(i, 0)[1] = [op |-> "mov8", r |-> i.dst, v |-> i.src]
    BY <1>4, <2>1, <2>2, FollowMov8
  <2>3. CASE /\ Width(i) = 2 /\ Opcodes(i, 0)[1] = [op |-> "mov24", r |-> i.dst, v |-> i.src % Quarter]
             /\ Opcodes(i, 0)[2] = [op |-> "word", v |-> i.src \div Quarter]
    BY <1>1, <1>4, <2>1, <2>3, FollowMov24
  <2>4. CASE /\ Width(i) = 2 /\ Opcodes(i, 0)[1] = [op |-> "mov8", r |-> i.dst, v |-> Size - 1 - i.src]
             /\ Opcodes(i, 0)[2] = NotOp(i)
    BY <1>1, <1>4, <2>1, <2>4, FollowInverted
  <2>5. CASE /\ Width(i) = 2 /\ Opcodes(i, 0)[2].op = "alu" /\ Opcodes(i, 0)[2].f = "lsl"
             /\ Opcodes(i, 0)[2].imm
    <3>1. 2 \in 1 .. Width(i)
      BY <2>5
    <3>2. QED
      BY <1>1, <1>4, <2>5, <3>1, SoundInstr
  <2>6. CASE /\ Width(i) = 3 /\ Opcodes(i, 0)[1] = [op |-> "mov32", r |-> i.dst]
             /\ Opcodes(i, 0)[2] = [op |-> "word", v |-> i.src % Half]
             /\ Opcodes(i, 0)[3] = [op |-> "word", v |-> i.src \div Half]
    BY <1>1, <1>4, <2>1, <2>6, FollowMov32
  <2>7. LoadsAs(i, i.src, Opcodes(i, 0))
    BY <1>1, <1>4, LoadKinds
  <2>8. QED
    BY <2>2, <2>3, <2>4, <2>5, <2>6, <2>7, Zenon DEF LoadsAs
<1>5. CASE i.op = "br" /\ i.f = "al"
  BY <1>5, FollowAlways
<1>6. CASE i.op = "br" /\ i.f # "al"
  BY <1>6, FollowSkip
<1>7. CASE i.op = "call"
  BY <1>7, FollowCall
<1>8. CASE i.op = "ret"
  BY <1>8, FollowReturn
<1>9. CASE i.op = "exit"
  BY <1>9, FollowExit
<1>10. CASE i.op = "native"
  BY <1>10, FollowNative
<1>11. QED
  BY <1>2, <1>3, <1>4, <1>5, <1>6, <1>7, <1>8, <1>9, <1>10

LEMMA TimeOutTurn ==
  ASSUME Interpret, SeesTimeOut
  PROVE  RunTimeOut
<1>1. \A op : ~ Fetch(op)
  BY DEF Fetch
<1>2. ~ (RunB \/ RunBl \/ RunRet \/ RunSkip \/ RunMov8 \/ RunMov24)
  BY <1>1, Zenon DEF RunB, RunBl, RunRet, RunSkip, RunMov8, RunMov24
<1>3. ~ (RunMov32 \/ RunAlu \/ RunPush \/ RunPop \/ RunNative \/ RunExit)
  BY <1>1, Zenon DEF RunMov32, RunAlu, RunPush, RunPop, RunNative, RunExit
<1>4. ~ RunEnd
  BY DEF RunEnd
<1>5. QED
  BY <1>2, <1>3, <1>4 DEF Interpret

\* Every turn of the interpreter is a step of the script, or none.
LEMMA FollowTurn ==
  ASSUME Running, RunInv', Interpret
  PROVE  Follows
<1>1. CASE SeesTimeOut
  BY <1>1, TimeOutTurn, FollowTimeOut
<1>2. CASE ~ SeesTimeOut
  <2>1. Turning
    BY <1>2 DEF Turning
  <2>2. ASSUME NEW k \in 1 .. Len(asked), vpc = start[k]
        PROVE  Follows
    <3>1. Turn(k, asked[k])
      BY <2>1, <2>2 DEF Turn
    <3>2. QED
      BY <3>1, FollowInstr
  <2>3. CASE head <= vpc /\ vpc < tail
    BY <1>2, <2>3, FollowBlank
  <2>4. ASSUME NEW c \in 1 .. Len(cells), vpc = cells[c].pos
        PROVE  Follows
    BY <1>2, <2>4, FollowCell
  <2>5. CASE vpc >= M
    <3>1. RunEnd
      BY <1>2, <2>5, Turns DEF Running
    <3>2. QED
      BY <2>5, <3>1, FollowEnd
  <2>6. CASE Spot(vpc)
    BY <2>2, <2>3, <2>4, <2>5, <2>6 DEF Spot
  <2>7. ASSUME NEW k \in 1 .. Len(asked), InBranch(k) \/ InLoad(k)
        PROVE  Follows
    BY <2>1, <2>7, FollowTaken, FollowInverse
  <2>8. Spot(vpc) \/ \E k \in 1 .. Len(asked) : InBranch(k) \/ InLoad(k)
    BY DEF Running, Placed, Spots
  <2>9. QED
    BY <2>6, <2>7, <2>8
<1>3. QED
  BY <1>1, <1>2

LEMMA RegsKept ==
  ASSUME Interpret, IsRegs(regs)
  PROVE  IsRegs(regs')
<1>1. \A d, v : IsRegs([regs EXCEPT ![d] = v])
  BY DEF IsRegs
<1>2. \A v : IsRegs(With(v))
  BY DEF IsRegs, With
<1>3. \A c : Out(c) => IsRegs(regs')
  BY DEF Out
<1>4. ASSUME NEW r, NEW v, NEW n, Load(r, v, n)
      PROVE  IsRegs(regs')
  <2>1. regs' = [regs EXCEPT ![r] = v]
    BY <1>4 DEF Load
  <2>2. QED
    BY <1>1, <2>1, Zenon
<1>5. RunB \/ RunBl \/ RunRet \/ RunSkip \/ RunPush => IsRegs(regs')
  BY <1>3 DEF RunB, RunBl, RunRet, RunSkip, RunPush
<1>6. RunMov8 \/ RunMov24 \/ RunMov32 => IsRegs(regs')
  BY <1>3, <1>4 DEF RunMov8, RunMov24, RunMov32
<1>7. ASSUME RunAlu
      PROVE  IsRegs(regs')
  <2>1. \/ \E d, v : regs' = [regs EXCEPT ![d] = v]
        \/ \E r, v, n : Load(r, v, n)
    BY <1>7, Zenon DEF RunAlu
  <2>2. QED
    <3>1. ASSUME NEW d, NEW v, regs' = [regs EXCEPT ![d] = v]
          PROVE  IsRegs(regs')
      BY <1>1, <3>1
    <3>2. QED
      BY <1>4, <2>1, <3>1, Zenon
<1>8. ASSUME RunPop
      PROVE  IsRegs(regs')
  <2>1. \/ \E d, v : regs' = [regs EXCEPT ![d] = v]
        \/ Out(Failed)
    BY <1>8, Zenon DEF RunPop
  <2>2. QED
    <3>1. ASSUME NEW d, NEW v, regs' = [regs EXCEPT ![d] = v]
          PROVE  IsRegs(regs')
      BY <1>1, <3>1
    <3>2. QED
      BY <1>3, <2>1, <3>1, Zenon
<1>9. RunNative => IsRegs(regs')
  BY <1>2, <1>3 DEF RunNative
<1>10. RunExit \/ RunTimeOut \/ RunEnd => IsRegs(regs')
  BY <1>3 DEF RunExit, RunTimeOut, RunEnd
<1>11. QED
  BY <1>5, <1>6, <1>7, <1>8, <1>9, <1>10 DEF Interpret

-----------------------------------------------------------------------------
(* The invariant of the implementation, and what every step is               *)

JInv ==
  /\ IInv /\ HistInv /\ IsRegs(regs)
  /\ phase = "run" => ok /\ Finished
  /\ phase = "run" /\ Sound => Placed

LEMMA InitHist ==
  ASSUME Init
  PROVE  JInv
<1>1. IInv
  BY InitInv
<1>2. HistInv
  BY FreshHist DEF Init, HistInv
<1>3. IsRegs(regs)
  BY DEF Init, IsRegs
<1>4. phase # "run"
  BY DEF Init
<1>5. QED
  BY <1>1, <1>2, <1>3, <1>4 DEF JInv

\* What the script's state is made of does not change.
LEMMA SameView ==
  ASSUME RunInv, RunInv', UNCHANGED <<genVars, phase, runVars>>
  PROVE  UNCHANGED <<AsPhase, AsProg, AsAt, AsRegs, AsCalls, data>>
<1>1. View /\ View'
  <2>1. View'
    BY Viewed, PTL
  <2>2. QED
    BY <2>1, Viewed
<1>2. UNCHANGED genVars
  OBVIOUS
<1>3. /\ Map' = Map /\ Loads' = Loads /\ Meant' = Meant /\ Claimed' = Claimed
      /\ asked' = asked
  BY <1>2, SameProgram DEF genVars
<1>4. phase' = phase /\ vpc' = vpc /\ regs' = regs /\ recur' = recur /\ data' = data
  BY DEF runVars
<1>5. AsPhase' = AsPhase /\ AsProg' = AsProg /\ AsCalls' = AsCalls
  BY <1>1, <1>3, <1>4 DEF View
<1>6. AsRegs' = AsRegs
  BY <1>1, <1>3, <1>4 DEF View
<1>7. AsAt' = AsAt
  <2>1. CASE phase = "run"
    BY <1>1, <1>3, <1>4, <2>1 DEF View
  <2>2. CASE phase # "run"
    BY <1>4, <2>2 DEF AsAt
  <2>3. QED
    BY <2>1, <2>2
<1>8. QED
  BY <1>4, <1>5, <1>6, <1>7

LEMMA PlacedKept ==
  ASSUME Placed, UNCHANGED <<genVars, runVars>>
  PROVE  Placed'
<1>1. UNCHANGED genVars
  OBVIOUS
<1>2. /\ asked' = asked /\ start' = start /\ Spots' = Spots
      /\ vpc' = vpc /\ regs' = regs /\ recur' = recur
  BY <1>1, SameProgram DEF genVars, runVars
<1>3. QED
  BY <1>2 DEF Placed, InBranch, InLoad, Taken, Inverts

LEMMA FinishedKept ==
  ASSUME UNCHANGED genVars
  PROVE  Finished' = Finished /\ ok' = ok
BY DEF genVars, Finished, Closed, FallsThrough

\* The code begins with the first instruction, or with its end.
LEMMA BeginSpot ==
  ASSUME Complete
  PROVE  Spot(0) /\ AtOf(0) = 1
<1>1. Packed(head, asked, start)
  BY DEF Complete, HistInv
<1>2. CASE Len(asked) # 0
  <2>1. start[1] = 0
    BY <1>1, <1>2 DEF Packed
  <2>2. 1 \in 1 .. Len(asked)
    BY <1>2, Lengths
  <2>3. Spot(start[1]) /\ AtOf(start[1]) = 1
    BY <2>2, AtStart, AtCode DEF Spot
  <2>4. QED
    BY <2>1, <2>3
<1>3. CASE Len(asked) = 0
  <2>1. head = 0
    BY <1>1, <1>3 DEF Packed
  <2>2. asked = <<>>
    BY <1>3, EmptySeq DEF Complete, GenInv, Built, Lists
  <2>3. head < tail \/ tail = M
    BY <2>2 DEF Complete, Finished, Closed
  <2>4. QED
    BY <1>3, <2>1, <2>3, EndSpot
<1>4. QED
  BY <1>2, <1>3

LEMMA RunBegins ==
  ASSUME JInv, RunInv', Run, ~ Everything
  PROVE  Script!Next /\ Placed' /\ IsRegs(regs') /\ Finished' /\ ok'
<1>1. /\ phase = "build" /\ ok /\ Finished /\ phase' = "run" /\ expired' = FALSE
      /\ vpc' = 0 /\ recur' = <<>> /\ data' = <<>>
      /\ regs' \in InitRegs /\ UNCHANGED genVars
  BY DEF Run
<1>2. Complete
  BY <1>1 DEF JInv, IInv, Complete
<1>3. Spot(0) /\ AtOf(0) = 1 /\ ~ LoadingAt(0)
  BY <1>2, BeginSpot, SpotIs
<1>4. 0 \in Spots /\ 0 \notin Loads /\ Map[0] = 1
  <2>1. 0 \in 0 .. M + 1
    BY Sizes
  <2>2. QED
    BY <1>3, <2>1 DEF Spots, Loads, Map
<1>5. View'
  BY Viewed, PTL
<1>6. Map' = Map /\ Loads' = Loads /\ Spots' = Spots /\ Claimed' = Claimed
  BY <1>1, SameProgram
<1>7. AsAt' = 1 /\ AsRegs' = regs' /\ AsCalls' = <<>>
  <2>1. Len(recur') = 0
    BY <1>1
  <2>2. QED
    BY <1>1, <1>4, <1>5, <1>6, <2>1 DEF View
<1>8. regs' \in [Regs -> Words]
  BY <1>1, CodegenAssumption
<1>9. ASSUME Claimed
      PROVE  Script!Next
  <2>1. AsPhase = "build" /\ AsPhase' = "run"
    BY <1>1, <1>6, <1>9 DEF AsPhase
  <2>2. Script!Start
    BY <1>1, <1>7, <1>8, <2>1 DEF Script!Start
  <2>3. QED
    BY <2>2 DEF Script!Next
<1>10. ASSUME ~ Claimed
       PROVE  Script!Next
  <2>1. AsPhase = "build" /\ AsPhase' = "build"
    BY <1>1, <1>6, <1>10 DEF AsPhase
  <2>2. QED
    BY <2>1 DEF Script!Build, Script!Next
<1>11. Placed'
  BY <1>1, <1>4, <1>6 DEF Placed
<1>12. IsRegs(regs') /\ Finished' /\ ok'
  BY <1>1, <1>8, FinishedKept DEF IsRegs
<1>13. QED
  BY <1>9, <1>10, <1>11, <1>12

\* Every step keeps the invariant and is a step of the script, or none.
StepOk == JInv' /\ [Script!Next]_(Script!vars)

LEMMA BuildStep ==
  ASSUME JInv, IInv', AddOpcode \/ AddBranch \/ Predeclare \/ Fill \/ GenInit
  PROVE  StepOk
<1>1. phase = "build" /\ phase' = "build" /\ regs' = regs
  BY DEF AddOpcode, AddBranch, Predeclare, Fill, GenInit, Building, runVars
<1>2. HistInv'
  <2>1. CASE AddOpcode
    BY <2>1, AddOpcodeHist DEF JInv, IInv
  <2>2. CASE AddBranch
    BY <2>2, AddBranchHist DEF JInv, IInv
  <2>3. CASE Predeclare \/ Fill
    BY <2>3, CellsHist DEF JInv, IInv
  <2>4. CASE GenInit
    <3>1. /\ ops' = [p \in 0 .. M - 1 |-> Erased] /\ head' = 0 /\ tail' = M
          /\ asked' = <<>> /\ start' = <<>>
      BY <2>4 DEF GenInit
    <3>2. Packed(0, <<>>, <<>>) /\ Blank(ops', 0, M)
      BY <3>1, FreshHist
    <3>3. QED
      BY <3>1, <3>2 DEF HistInv
  <2>5. QED
    BY <2>1, <2>2, <2>3, <2>4
<1>3. IsRegs(regs')
  BY <1>1 DEF JInv
<1>4. JInv'
  BY <1>1, <1>2, <1>3 DEF JInv
<1>5. AsPhase = "build" /\ AsPhase' = "build"
  BY <1>1 DEF AsPhase
<1>6. Script!Next
  BY <1>5 DEF Script!Build, Script!Next
<1>7. QED
  BY <1>4, <1>6 DEF StepOk

LEMMA RunStepOk ==
  ASSUME JInv, IInv', Run, ~ Everything
  PROVE  StepOk
<1>1. RunInv'
  BY DEF IInv
<1>2. Script!Next /\ Placed' /\ IsRegs(regs') /\ Finished' /\ ok'
  BY <1>1, RunBegins
<1>3. HistInv'
  BY HistKept DEF JInv, Run
<1>4. QED
  BY <1>2, <1>3 DEF StepOk, JInv

LEMMA InterpretStepOk ==
  ASSUME JInv, IInv', Interpret, ~ Everything
  PROVE  StepOk
<1>1. RunInv /\ RunInv' /\ GenInv /\ Array(ops, head, tail)
  BY DEF JInv, IInv, GenInv
<1>2. UNCHANGED genVars
  BY <1>1, InterpretStep
<1>3. phase = "run"
  BY DEF Interpret, RunB, RunBl, RunRet, RunSkip, RunMov8, RunMov24, RunMov32, RunAlu, RunPush,
         RunPop, RunNative, RunExit, RunTimeOut, RunEnd, Fetch
<1>4. IsRegs(regs')
  BY RegsKept DEF JInv
<1>5. HistInv' /\ Finished' /\ ok' /\ Sound' = Sound /\ Claimed' = Claimed
  BY <1>2, <1>3, HistKept, FinishedKept, SameProgram DEF JInv
<1>6. CASE Sound
  <2>1. Running
    BY <1>1, <1>3, <1>6 DEF Running, JInv, Complete
  <2>2. Follows
    BY <1>1, <2>1, FollowTurn
  <2>3. QED
    BY <1>4, <1>5, <2>2 DEF Follows, StepOk, JInv
<1>7. CASE ~ Sound
  <2>1. ~ Claimed
    BY <1>7 DEF Claimed, Sound
  <2>2. AsPhase = "build" /\ AsPhase' = "build"
    BY <1>5, <2>1 DEF AsPhase
  <2>3. Script!Next
    BY <2>2 DEF Script!Build, Script!Next
  <2>4. QED
    BY <1>4, <1>5, <1>7, <2>3 DEF StepOk, JInv
<1>8. QED
  BY <1>6, <1>7

LEMMA AnsweredStepOk ==
  ASSUME JInv, IInv', Answered
  PROVE  StepOk
<1>1. phase = "done" /\ phase' = "build" /\ UNCHANGED genVars /\ regs' = [r \in Regs |-> 0]
  BY DEF Answered
<1>2. HistInv' /\ IsRegs(regs')
  BY <1>1, HistKept DEF JInv, IsRegs
<1>3. AsPhase # "run" /\ AsPhase' = "build"
  BY <1>1 DEF AsPhase
<1>4. Script!Next
  BY <1>3 DEF Script!Build, Script!Next
<1>5. QED
  BY <1>1, <1>2, <1>4 DEF StepOk, JInv

LEMMA StillOk ==
  ASSUME JInv, IInv', UNCHANGED <<genVars, phase, runVars, code>>, expired' = TRUE \/ expired' = expired
  PROVE  StepOk
<1>1. UNCHANGED <<AsPhase, AsProg, AsAt, AsRegs, AsCalls, data>>
  BY SameView DEF JInv, IInv
<1>2. expired' = TRUE => Script!Tick
  BY <1>1 DEF Script!Tick
<1>3. expired' = expired => UNCHANGED Script!vars
  BY <1>1 DEF Script!vars
<1>4. [Script!Next]_(Script!vars)
  BY <1>2, <1>3 DEF Script!Next
<1>5. UNCHANGED genVars /\ phase' = phase /\ regs' = regs
  BY DEF runVars
<1>6. HistInv' /\ IsRegs(regs') /\ (phase' = "run" => ok' /\ Finished') /\ Sound' = Sound
  BY <1>5, HistKept, FinishedKept, SameProgram DEF JInv
<1>7. phase' = "run" /\ Sound' => Placed'
  BY <1>5, <1>6, PlacedKept DEF JInv
<1>8. QED
  BY <1>4, <1>6, <1>7 DEF StepOk, JInv

LEMMA NextOk ==
  ASSUME JInv, [Next]_vars, ~ Everything
  PROVE  StepOk
<1>1. IInv'
  BY NextInv DEF JInv
<1>2. CASE AddOpcode \/ AddBranch \/ Predeclare \/ Fill \/ GenInit
  BY <1>1, <1>2, BuildStep
<1>3. CASE Run
  BY <1>1, <1>3, RunStepOk
<1>4. CASE Interpret
  BY <1>1, <1>4, InterpretStepOk
<1>5. CASE Answered
  BY <1>1, <1>5, AnsweredStepOk
<1>6. CASE Tick \/ UNCHANGED vars
  <2>1. UNCHANGED <<genVars, phase, runVars, code>>
    BY <1>6 DEF Tick, vars
  <2>2. expired' = TRUE \/ expired' = expired
    BY <1>6 DEF Tick, vars
  <2>3. QED
    BY <1>1, <2>1, <2>2, StillOk, Zenon
<1>7. QED
  BY <1>2, <1>3, <1>4, <1>5, <1>6 DEF Next

\* The uploaded code, with its encoding, its label cells, its skips and the limits
\* of its interpreter, does what the host's instructions say, for scripts, arrays
\* and words of every size: a script without a broken instruction runs as asked
\* (codegen.c, codegen-run-generic.c, swdCommsPacket.h:204-244).
THEOREM AsAsked ==
  ASSUME ~ Everything
  PROVE  Spec => RunsAsAsked
<1>1. Init => JInv
  BY InitHist
<1>2. JInv /\ [Next]_vars => JInv' /\ [Script!Next]_(Script!vars)
  BY NextOk DEF StepOk
<1>3. Init => AsPhase = "build"
  BY DEF Init, AsPhase
<1>4. QED
  BY <1>1, <1>2, <1>3, PTL DEF Spec, RunsAsAsked, Script!Spec

-----------------------------------------------------------------------------
(* Induction.  What is false of some number is false of a smallest one.      *)

\* A set of numbers that is not empty has a least member.
LEMMA Smallest ==
  ASSUME NEW T, T \subseteq Nat, T # {}
  PROVE  \E x \in T : \A y \in T : ~ (y < x)
<1> DEFINE R == {ss \in Nat \X Nat : ss[1] < ss[2]}
<1>1. IsWellFoundedOn(R, Nat)
  BY NatLessThanWellFounded DEF OpToRel
<1>2. \A x, y \in Nat : y < x => <<y, x>> \in R
  OBVIOUS
<1> HIDE DEF R
<1>3. \E x \in T : \A y \in T : ~ (<<y, x>> \in R)
  BY <1>1, WFMin
<1>4. QED
  BY <1>2, <1>3

\* A set with 0 and with every successor of its members has all the numbers.
LEMMA Induct ==
  ASSUME NEW T, 0 \in T, \A n \in Nat : n \in T => n + 1 \in T
  PROVE  Nat \subseteq T
<1> SUFFICES ASSUME NEW a \in Nat, a \notin T
             PROVE  FALSE
  OBVIOUS
<1>1. PICK x \in {n \in Nat : n \notin T} : \A y \in {n \in Nat : n \notin T} : ~ (y < x)
  <2> DEFINE S == {n \in Nat : n \notin T}
  <2>1. S \subseteq Nat /\ S # {}
    OBVIOUS
  <2> HIDE DEF S
  <2>2. \E x \in S : \A y \in S : ~ (y < x)
    BY <2>1, Smallest
  <2>3. QED
    BY <2>2 DEF S
<1>2. x # 0 /\ x - 1 \in Nat
  BY <1>1
<1>3. x - 1 \in T
  BY <1>1, <1>2
<1>4. (x - 1) + 1 = x
  BY <1>1
<1>5. QED
  BY <1>1, <1>2, <1>3, <1>4

\* A definition by recursion has a solution where what it says of x depends only
\* on what is below x in some measure Rank.  B gives a function's values anew.
Recursive(D, V, Rank, B) ==
  /\ V # {} /\ Rank \in [D -> Nat] /\ B \in [[D -> V] -> [D -> V]]
  /\ \A f, g \in [D -> V] : \A x \in D :
       (\A y \in D : Rank[y] < Rank[x] => f[y] = g[y]) => B[f][x] = B[g][x]
Solved(D, V, B) == \E f \in [D -> V] : f = B[f]
LEMMA Recursion ==
  ASSUME NEW D, NEW V, NEW Rank, NEW B, Recursive(D, V, Rank, B)
  PROVE  Solved(D, V, B)
<1> SUFFICES ASSUME NEW v \in V, Rank \in [D -> Nat], B \in [[D -> V] -> [D -> V]],
                    \A f, g \in [D -> V] : \A x \in D :
                      (\A y \in D : Rank[y] < Rank[x] => f[y] = g[y]) => B[f][x] = B[g][x]
             PROVE  \E f \in [D -> V] : f = B[f]
  BY DEF Recursive, Solved
<1> DEFINE F == [D -> V]
           Right(f, n) == \A x \in D : Rank[x] < n => f[x] = B[f][x]
           T == {n \in Nat : \E f \in F : Right(f, n)}
<1>1. 0 \in T
  <2> DEFINE c == [x \in D |-> v]
  <2>1. c \in F /\ \A x \in D : ~ (Rank[x] < 0)
    OBVIOUS
  <2> HIDE DEF c
  <2>2. Right(c, 0)
    BY <2>1
  <2> HIDE DEF Right, F
  <2>3. QED
    BY <2>1, <2>2
<1>2. ASSUME NEW n \in Nat, n \in T
      PROVE  n + 1 \in T
  <2>1. PICK f \in F : Right(f, n)
    BY <1>2
  <2> DEFINE g == B[f]
  <2>2. g \in F
    OBVIOUS
  <2>3. ASSUME NEW x \in D, Rank[x] < n + 1
        PROVE  g[x] = B[g][x]
    <3>1. \A y \in D : Rank[y] < Rank[x] => f[y] = g[y]
      <4>1. \A y \in D : Rank[y] < Rank[x] => Rank[y] < n
        BY <2>3
      <4>2. QED
        BY <2>1, <4>1
    <3> HIDE DEF g
    <3>2. B[f][x] = B[g][x]
      BY <2>2, <3>1
    <3>3. QED
      BY <3>2 DEF g
  <2> HIDE DEF g
  <2>4. Right(g, n + 1)
    BY <2>3
  <2> HIDE DEF Right, F
  <2>5. QED
    BY <2>2, <2>4
<1>3. \A n \in Nat : \E f \in F : Right(f, n)
  <2> HIDE DEF Right, F
  <2>1. Nat \subseteq T
    <3> HIDE DEF T
    <3>1. QED
      BY <1>1, <1>2, Induct
  <2>2. QED
    BY <2>1
<1>4. ASSUME NEW f \in F, NEW g \in F, NEW n \in Nat, NEW m \in Nat, Right(f, n), Right(g, m),
             NEW x \in D, Rank[x] < n, Rank[x] < m
      PROVE  f[x] = g[x]
  <2> SUFFICES ASSUME f[x] # g[x]
               PROVE  FALSE
    OBVIOUS
  <2> DEFINE Off == {y \in D : Rank[y] < n /\ Rank[y] < m /\ f[y] # g[y]}
             S == {Rank[y] : y \in Off}
  <2>1. S \subseteq Nat /\ S # {}
    <3>1. x \in Off /\ \A y \in Off : Rank[y] \in Nat
      BY <1>4
    <3> HIDE DEF Off
    <3>2. QED
      BY <3>1
  <2>2. PICK k \in S : \A j \in S : ~ (j < k)
    <3> HIDE DEF S
    <3>1. QED
      BY <2>1, Smallest
  <2>3. PICK y \in Off : k = Rank[y]
    OBVIOUS
  <2>4. \A z \in D : Rank[z] < Rank[y] => f[z] = g[z]
    <3> SUFFICES ASSUME NEW z \in D, Rank[z] < Rank[y], f[z] # g[z]
                 PROVE  FALSE
      OBVIOUS
    <3>1. Rank[z] < n /\ Rank[z] < m
      BY <2>3
    <3>2. Rank[z] \in S
      BY <3>1
    <3>3. QED
      BY <2>2, <2>3, <3>2
  <2>5. B[f][y] = B[g][y]
    BY <2>3, <2>4
  <2>6. f[y] = B[f][y] /\ g[y] = B[g][y]
    BY <1>4, <2>3
  <2>7. QED
    BY <2>3, <2>5, <2>6
<1> DEFINE Pick(n) == CHOOSE f \in F : Right(f, n)
           h == [x \in D |-> Pick(Rank[x] + 1)[x]]
<1>5. \A n \in Nat : Pick(n) \in F /\ Right(Pick(n), n)
  <2> HIDE DEF Right, F
  <2>1. QED
    BY <1>3
<1> HIDE DEF Pick
<1>6. h \in F
  <2>1. \A x \in D : Pick(Rank[x] + 1) \in F
    <3> HIDE DEF F
    <3>1. \A x \in D : Rank[x] + 1 \in Nat
      OBVIOUS
    <3>2. QED
      BY <1>5, <3>1
  <2>2. QED
    BY <2>1
<1>7. ASSUME NEW x \in D
      PROVE  h[x] = B[h][x]
  <2> DEFINE p == Pick(Rank[x] + 1)
  <2>1. Rank[x] \in Nat /\ Rank[x] + 1 \in Nat /\ Rank[x] < Rank[x] + 1
    OBVIOUS
  <2>2. p \in F /\ Right(p, Rank[x] + 1)
    BY <1>5, <2>1
  <2>3. ASSUME NEW y \in D, Rank[y] < Rank[x]
        PROVE  p[y] = h[y]
    <3> DEFINE q == Pick(Rank[y] + 1)
    <3>1. Rank[y] \in Nat /\ Rank[y] + 1 \in Nat /\ Rank[y] < Rank[y] + 1 /\ Rank[y] < Rank[x] + 1
      BY <2>1, <2>3
    <3>2. q \in F /\ Right(q, Rank[y] + 1)
      BY <1>5, <3>1
    <3>3. h[y] = q[y]
      OBVIOUS
    <3> HIDE DEF p, q, h, Right, F
    <3>4. p[y] = q[y]
      BY <1>4, <2>1, <2>2, <3>1, <3>2
    <3>5. QED
      BY <3>3, <3>4
  <2>4. h[x] = p[x] /\ p[x] = B[p][x]
    BY <2>1, <2>2
  <2> HIDE DEF h, p
  <2>5. B[p][x] = B[h][x]
    BY <1>6, <2>2, <2>3
  <2>6. QED
    BY <2>4, <2>5
<1> HIDE DEF h
<1>8. h = B[h]
  BY <1>6, <1>7
<1>9. QED
  BY <1>6, <1>8

\* A solution has values in V if what it says of x is in V whenever its values
\* below x are.
ClosedUnder(D, V, Rank, f) ==
  /\ Rank \in [D -> Nat] /\ f = [x \in D |-> f[x]]
  /\ \A x \in D : (\A y \in D : Rank[y] < Rank[x] => f[y] \in V) => f[x] \in V
LEMMA Typed ==
  ASSUME NEW D, NEW V, NEW Rank, NEW f, ClosedUnder(D, V, Rank, f)
  PROVE  f \in [D -> V]
<1> SUFFICES ASSUME Rank \in [D -> Nat], f = [x \in D |-> f[x]],
                    \A x \in D : (\A y \in D : Rank[y] < Rank[x] => f[y] \in V) => f[x] \in V,
                    NEW z \in D, f[z] \notin V
             PROVE  FALSE
  BY DEF ClosedUnder
<1> DEFINE Off == {x \in D : f[x] \notin V}
           S == {Rank[x] : x \in Off}
<1>1. z \in Off /\ \A x \in Off : Rank[x] \in Nat
  OBVIOUS
<1>2. S \subseteq Nat /\ S # {}
  <2> HIDE DEF Off
  <2>1. QED
    BY <1>1
<1>3. PICK k \in S : \A j \in S : ~ (j < k)
  <2> HIDE DEF S
  <2>1. QED
    BY <1>2, Smallest
<1>4. PICK x \in Off : k = Rank[x]
  OBVIOUS
<1>5. \A y \in D : Rank[y] < Rank[x] => f[y] \in V
  <2> SUFFICES ASSUME NEW y \in D, Rank[y] < Rank[x], f[y] \notin V
               PROVE  FALSE
    OBVIOUS
  <2>1. Rank[y] \in S
    OBVIOUS
  <2>2. QED
    BY <1>3, <1>4, <2>1
<1>6. QED
  BY <1>4, <1>5

-----------------------------------------------------------------------------
(* Words.                                                                    *)

\* Powers of two are numbers, and each is twice the one before.
LEMMA Powers ==
  /\ \A n \in Nat : PowerOfTwo[n] \in Nat \ {0}
  /\ PowerOfTwo[0] = 1 /\ \A n \in Nat : PowerOfTwo[n + 1] = 2 * PowerOfTwo[n]
<1> DEFINE Is(f) == f = [n \in Nat |-> IF n = 0 THEN 1 ELSE 2 * f[n - 1]]
           V == Nat \ {0}
           Depth == [n \in Nat |-> n]
           B == [f \in [Nat -> V] |-> [n \in Nat |-> IF n = 0 THEN 1 ELSE 2 * f[n - 1]]]
<1>1. Depth \in [Nat -> Nat] /\ \A n \in Nat : Depth[n] = n
  OBVIOUS
<1>2. B \in [[Nat -> V] -> [Nat -> V]]
  <2>1. ASSUME NEW f \in [Nat -> V], NEW n \in Nat
        PROVE  (IF n = 0 THEN 1 ELSE 2 * f[n - 1]) \in V
    <3>1. CASE n = 0
      BY <3>1
    <3>2. CASE n # 0
      <4>1. n - 1 \in Nat
        BY <3>2
      <4>2. f[n - 1] \in V
        BY <4>1
      <4>3. 2 * f[n - 1] \in V
        BY <4>2
      <4>4. QED
        BY <3>2, <4>3
    <3>3. QED
      BY <3>1, <3>2
  <2> HIDE DEF V
  <2>2. QED
    BY <2>1
<1>3. ASSUME NEW f \in [Nat -> V], NEW g \in [Nat -> V], NEW n \in Nat,
             \A y \in Nat : Depth[y] < Depth[n] => f[y] = g[y]
      PROVE  B[f][n] = B[g][n]
  <2> HIDE DEF V
  <2>1. CASE n = 0
    BY <2>1
  <2>2. CASE n # 0
    <3>1. n - 1 \in Nat /\ n - 1 < n
      BY <2>2
    <3>2. f[n - 1] = g[n - 1]
      BY <1>1, <1>3, <3>1
    <3>3. QED
      BY <2>2, <3>2
  <2>3. QED
    BY <2>1, <2>2
<1>4. \E f \in [Nat -> V] : Is(f)
  <2>1. Solved(Nat, V, B)
    <3>1. V # {}
      OBVIOUS
    <3> HIDE DEF B, Depth, V
    <3>2. Recursive(Nat, V, Depth, B)
      BY <1>1, <1>2, <1>3, <3>1 DEF Recursive
    <3>3. QED
      BY <3>2, Recursion
  <2> HIDE DEF V
  <2>2. QED
    BY <2>1 DEF Solved
<1>5. PowerOfTwo = CHOOSE f : Is(f)
  BY DEF PowerOfTwo
<1>6. Is(PowerOfTwo)
  BY <1>4, <1>5, Zenon
<1> DEFINE p == PowerOfTwo
<1>7. p = [n \in Nat |-> p[n]] /\ p[0] = 1 /\ \A n \in Nat : n # 0 => p[n] = 2 * p[n - 1]
  BY <1>6
<1> HIDE DEF p
<1>8. ASSUME NEW n \in Nat, \A y \in Nat : Depth[y] < Depth[n] => p[y] \in V
      PROVE  p[n] \in V
  <2>1. CASE n = 0
    BY <1>7, <2>1
  <2>2. CASE n # 0
    <3>1. n - 1 \in Nat /\ n - 1 < n
      BY <2>2
    <3>2. p[n - 1] \in V
      BY <1>1, <1>8, <3>1
    <3>3. 2 * p[n - 1] \in V
      BY <3>2
    <3>4. QED
      BY <1>7, <2>2, <3>3
  <2>3. QED
    BY <2>1, <2>2
<1>9. p \in [Nat -> V]
  <2> HIDE DEF Depth, V
  <2>1. ClosedUnder(Nat, V, Depth, p)
    BY <1>1, <1>7, <1>8 DEF ClosedUnder
  <2>2. QED
    BY <2>1, Typed
<1>10. \A n \in Nat : p[n + 1] = 2 * p[n]
  <2>1. \A n \in Nat : n + 1 \in Nat /\ n + 1 # 0 /\ (n + 1) - 1 = n
    OBVIOUS
  <2>2. QED
    BY <1>7, <2>1
<1>11. QED
  BY <1>7, <1>9, <1>10 DEF p

\* Halving a number.
LEMMA Halving ==
  ASSUME NEW x \in Nat
  PROVE  /\ x \div 2 \in Nat /\ x \div 2 <= x /\ (x # 0 => x \div 2 < x)
         /\ x % 2 \in {0, 1} /\ x = 2 * (x \div 2) + (x % 2)
<1> DEFINE h == x \div 2
           r == x % 2
<1>1. h \in Int /\ r \in 0 .. 1
  OBVIOUS
<1>2. x = 2 * h + r
  OBVIOUS
<1> HIDE DEF h, r
<1>3. h \in Nat /\ h <= x /\ (x # 0 => h < x) /\ r \in {0, 1}
  BY <1>1, <1>2
<1>4. QED
  BY <1>2, <1>3 DEF h, r

LEMMA WordsAre ==
  /\ Size \in Nat \ {0} /\ Half \in Nat \ {0} /\ Quarter \in Nat \ {0, 1}
  /\ Size = Half * Half /\ Half = Quarter * Quarter
  /\ \A x : x \in Words <=> x \in Nat /\ x < Size
<1>1. Quarter \in Nat \ {0, 1}
  BY Sizes
<1>2. \A x \in Nat \ {0} : x * x \in Nat \ {0}
  OBVIOUS
<1>3. Half \in Nat \ {0} /\ Half = Quarter * Quarter
  BY <1>1, <1>2 DEF Half
<1>4. Size \in Nat \ {0} /\ Size = Half * Half
  BY <1>2, <1>3 DEF Size
<1>5. \A x : x \in Words <=> x \in Nat /\ x < Size
  BY <1>4 DEF Words
<1>6. QED
  BY <1>1, <1>3, <1>4, <1>5

\* The bits of two words, combined.
Pairs == Words \X Words
Sum == [p \in Pairs |-> p[1] + p[2]]
Halved(p) == <<p[1] \div 2, p[2] \div 2>>
LastBits(f, p) == Bit(f, p[1] % 2, p[2] % 2)
BitOps == {"and", "orr", "xor"}
Combines(f, w) ==
  w = [p \in Pairs |-> IF p = <<0, 0>> THEN 0 ELSE 2 * w[Halved(p)] + LastBits(f, p)]

LEMMA BitIs ==
  ASSUME NEW f \in BitOps, NEW a \in {0, 1}, NEW b \in {0, 1}
  PROVE  Bit(f, a, b) \in {0, 1}
<1>1. a * b \in {0, 1} /\ a + b - a * b \in {0, 1} /\ (a + b) % 2 \in {0, 1}
  <2>1. CASE a = 0 /\ b = 0
    BY <2>1
  <2>2. CASE a = 0 /\ b = 1
    BY <2>2
  <2>3. CASE a = 1 /\ b = 0
    BY <2>3
  <2>4. CASE a = 1 /\ b = 1
    BY <2>4
  <2>5. QED
    BY <2>1, <2>2, <2>3, <2>4
<1>2. QED
  BY <1>1 DEF Bit, BitOps

LEMMA PairIs ==
  ASSUME NEW p \in Pairs
  PROVE  /\ p[1] \in Nat /\ p[2] \in Nat /\ p[1] < Size /\ p[2] < Size
         /\ Sum \in [Pairs -> Nat] /\ Sum[p] = p[1] + p[2]
         /\ p # <<0, 0>> => Halved(p) \in Pairs /\ Sum[Halved(p)] < Sum[p]
         /\ \A f \in BitOps : LastBits(f, p) \in {0, 1}
<1>1. \A q \in Pairs : q[1] \in Nat /\ q[2] \in Nat /\ q[1] < Size /\ q[2] < Size /\ q = <<q[1], q[2]>>
  BY WordsAre DEF Pairs
<1>2. Sum \in [Pairs -> Nat] /\ \A q \in Pairs : Sum[q] = q[1] + q[2]
  BY <1>1 DEF Sum
<1>3. /\ p[1] \div 2 \in Nat /\ p[2] \div 2 \in Nat /\ p[1] \div 2 <= p[1] /\ p[2] \div 2 <= p[2]
      /\ p[1] # 0 => p[1] \div 2 < p[1]
      /\ p[2] # 0 => p[2] \div 2 < p[2]
      /\ p[1] % 2 \in {0, 1} /\ p[2] % 2 \in {0, 1}
  BY <1>1, Halving
<1>4. \A f \in BitOps : LastBits(f, p) \in {0, 1}
  BY <1>3, BitIs DEF LastBits
<1>5. ASSUME p # <<0, 0>>
      PROVE  Halved(p) \in Pairs /\ Sum[Halved(p)] < Sum[p]
  <2> DEFINE a == p[1] \div 2
             b == p[2] \div 2
  <2>1. a \in Nat /\ b \in Nat /\ a <= p[1] /\ b <= p[2]
        /\ p[1] \in Nat /\ p[2] \in Nat /\ p[1] < Size /\ p[2] < Size /\ Size \in Nat
        /\ (p[1] # 0 => a < p[1]) /\ (p[2] # 0 => b < p[2]) /\ (p[1] # 0 \/ p[2] # 0)
    BY <1>1, <1>3, <1>5, WordsAre
  <2>2. Halved(p) = <<a, b>>
    BY DEF Halved
  <2> HIDE DEF a, b
  <2>3. a < Size /\ b < Size /\ a + b < p[1] + p[2]
    BY <2>1
  <2>4. <<a, b>> \in Pairs
    BY <2>1, <2>3, WordsAre DEF Pairs
  <2>5. QED
    BY <1>2, <2>2, <2>3, <2>4
<1>6. QED
  BY <1>1, <1>2, <1>4, <1>5

\* There is such a combination, and its values are numbers.
LEMMA Combination ==
  ASSUME NEW f \in BitOps
  PROVE  \E w \in [Pairs -> Nat] : Combines(f, w) /\ \A p \in Pairs : BitByBit(f, p[1], p[2]) = w[p]
<1> DEFINE B == [w \in [Pairs -> Nat] |->
                   [p \in Pairs |-> IF p = <<0, 0>> THEN 0 ELSE 2 * w[Halved(p)] + LastBits(f, p)]]
<1>1. B \in [[Pairs -> Nat] -> [Pairs -> Nat]]
  <2>1. ASSUME NEW w \in [Pairs -> Nat], NEW p \in Pairs
        PROVE  (IF p = <<0, 0>> THEN 0 ELSE 2 * w[Halved(p)] + LastBits(f, p)) \in Nat
    <3>1. CASE p = <<0, 0>>
      BY <3>1
    <3>2. CASE p # <<0, 0>>
      <4>1. Halved(p) \in Pairs /\ LastBits(f, p) \in {0, 1}
        BY <3>2, PairIs
      <4>2. w[Halved(p)] \in Nat
        BY <4>1
      <4>3. 2 * w[Halved(p)] + LastBits(f, p) \in Nat
        BY <4>1, <4>2
      <4>4. QED
        BY <3>2, <4>3
    <3>3. QED
      BY <3>1, <3>2
  <2>2. QED
    BY <2>1
<1>2. ASSUME NEW w \in [Pairs -> Nat], NEW v \in [Pairs -> Nat], NEW p \in Pairs,
             \A q \in Pairs : Sum[q] < Sum[p] => w[q] = v[q]
      PROVE  B[w][p] = B[v][p]
  <2>1. p # <<0, 0>> => w[Halved(p)] = v[Halved(p)]
    BY <1>2, PairIs
  <2>2. QED
    BY <2>1
<1>3. \E w \in [Pairs -> Nat] : Combines(f, w)
  <2>1. Solved(Pairs, Nat, B)
    <3>1. Sum \in [Pairs -> Nat]
      BY WordsAre DEF Sum, Pairs
    <3> HIDE DEF B
    <3>2. Recursive(Pairs, Nat, Sum, B)
      BY <1>1, <1>2, <3>1 DEF Recursive
    <3>3. QED
      BY <3>2, Recursion
  <2>2. QED
    BY <2>1 DEF Solved, Combines
<1> DEFINE w == CHOOSE u : Combines(f, u)
<1>4. Combines(f, w)
  BY <1>3, Zenon
<1>5. \A p \in Pairs : BitByBit(f, p[1], p[2]) = w[p]
  <2>1. ASSUME NEW x, NEW y
        PROVE  BitByBit(f, x, y) = w[<<x, y>>]
    BY DEF BitByBit, Combines, Pairs, Halved, LastBits
  <2>2. \A p \in Pairs : p = <<p[1], p[2]>>
    BY DEF Pairs
  <2> HIDE DEF w
  <2>3. QED
    BY <2>1, <2>2
<1> HIDE DEF w
<1>6. ASSUME NEW p \in Pairs, \A q \in Pairs : Sum[q] < Sum[p] => w[q] \in Nat
      PROVE  w[p] \in Nat
  <2>1. w[p] = IF p = <<0, 0>> THEN 0 ELSE 2 * w[Halved(p)] + LastBits(f, p)
    BY <1>4 DEF Combines
  <2>2. CASE p = <<0, 0>>
    BY <2>1, <2>2
  <2>3. CASE p # <<0, 0>>
    <3>1. Halved(p) \in Pairs /\ LastBits(f, p) \in {0, 1} /\ w[Halved(p)] \in Nat
      BY <1>6, <2>3, PairIs
    <3>2. 2 * w[Halved(p)] + LastBits(f, p) \in Nat
      BY <3>1
    <3>3. QED
      BY <2>1, <2>3, <3>2
  <2>4. QED
    BY <2>2, <2>3
<1>7. w \in [Pairs -> Nat]
  <2>1. Sum \in [Pairs -> Nat] /\ w = [p \in Pairs |-> w[p]]
    <3>1. Sum \in [Pairs -> Nat]
      BY WordsAre DEF Sum, Pairs
    <3>2. w = [p \in Pairs |-> w[p]]
      BY <1>4 DEF Combines
    <3>3. QED
      BY <3>1, <3>2
  <2>2. ClosedUnder(Pairs, Nat, Sum, w)
    BY <1>6, <2>1 DEF ClosedUnder
  <2>3. QED
    BY <2>2, Typed
<1>8. QED
  BY <1>4, <1>5, <1>7

\* Combining the bits of two words makes a word.
LEMMA BitsAreWord ==
  ASSUME NEW f \in BitOps, NEW x \in Words, NEW y \in Words
  PROVE  BitByBit(f, x, y) \in Words
<1>1. PICK w \in [Pairs -> Nat] : Combines(f, w) /\ \A p \in Pairs : BitByBit(f, p[1], p[2]) = w[p]
  BY Combination
<1> DEFINE Below(n) == \A p \in Pairs : p[1] < PowerOfTwo[n] /\ p[2] < PowerOfTwo[n] => w[p] < PowerOfTwo[n]
           T == {n \in Nat : Below(n)}
<1>2. \A p \in Pairs : /\ w[p] = IF p = <<0, 0>> THEN 0 ELSE 2 * w[Halved(p)] + LastBits(f, p)
                       /\ w[p] \in Nat
  BY <1>1 DEF Combines
<1>3. 0 \in T
  <2>1. ASSUME NEW p \in Pairs, p[1] < PowerOfTwo[0], p[2] < PowerOfTwo[0]
        PROVE  w[p] < PowerOfTwo[0]
    <3>1. p[1] = 0 /\ p[2] = 0 /\ p = <<p[1], p[2]>>
      BY <2>1, Powers, PairIs DEF Pairs
    <3>2. w[p] = 0
      BY <1>2, <3>1
    <3>3. QED
      BY <3>2, Powers
  <2>2. QED
    BY <2>1
<1>4. ASSUME NEW n \in Nat, n \in T
      PROVE  n + 1 \in T
  <2>1. ASSUME NEW p \in Pairs, p[1] < PowerOfTwo[n + 1], p[2] < PowerOfTwo[n + 1]
        PROVE  w[p] < PowerOfTwo[n + 1]
    <3> DEFINE c == PowerOfTwo[n]
               d == PowerOfTwo[n + 1]
    <3>1. c \in Nat \ {0} /\ d = 2 * c /\ p[1] < d /\ p[2] < d /\ p[1] \in Nat /\ p[2] \in Nat
      BY <2>1, Powers, PairIs
    <3>2. CASE p = <<0, 0>>
      <4>1. w[p] = 0
        BY <1>2, <3>2
      <4> HIDE DEF c, d
      <4>2. w[p] < d
        BY <3>1, <4>1
      <4>3. QED
        BY <4>2 DEF d
    <3>3. CASE p # <<0, 0>>
      <4> DEFINE a == p[1] \div 2
                 b == p[2] \div 2
                 v == w[Halved(p)]
                 e == LastBits(f, p)
      <4>1. Halved(p) \in Pairs /\ e \in {0, 1}
        BY <3>3, PairIs
      <4>2. w[p] = 2 * v + e /\ v \in Nat
        BY <1>2, <3>3, <4>1
      <4>3. a < c /\ b < c
        <5> DEFINE r == p[1] % 2
                   t == p[2] % 2
        <5>1. a \in Nat /\ r \in {0, 1} /\ p[1] = 2 * a + r
          BY <3>1, Halving
        <5>2. b \in Nat /\ t \in {0, 1} /\ p[2] = 2 * b + t
          BY <3>1, Halving
        <5> HIDE DEF a, b, c, d, r, t
        <5>3. a < c
          BY <3>1, <5>1
        <5>4. b < c
          BY <3>1, <5>2
        <5>5. QED
          BY <5>3, <5>4
      <4>4. Halved(p)[1] = a /\ Halved(p)[2] = b
        BY DEF Halved
      <4>5. v < c
        BY <1>4, <4>1, <4>3, <4>4
      <4> HIDE DEF a, b, c, d, v, e
      <4>6. w[p] < d
        BY <3>1, <4>1, <4>2, <4>5
      <4>7. QED
        BY <4>6 DEF d
    <3>4. QED
      BY <3>2, <3>3
  <2>2. n + 1 \in Nat
    OBVIOUS
  <2>3. QED
    BY <2>1, <2>2
<1>5. PICK n \in 1 .. Size : Size = PowerOfTwo[n]
  BY WordAssumption
<1>6. n \in T
  <2> HIDE DEF T
  <2>1. Nat \subseteq T
    BY <1>3, <1>4, Induct
  <2>2. n \in Nat
    BY WordsAre
  <2>3. QED
    BY <2>1, <2>2
<1>7. <<x, y>> \in Pairs /\ <<x, y>>[1] = x /\ <<x, y>>[2] = y /\ x < Size /\ y < Size
  BY WordsAre DEF Pairs
<1>8. w[<<x, y>>] < Size /\ w[<<x, y>>] \in Nat /\ BitByBit(f, x, y) = w[<<x, y>>]
  BY <1>1, <1>2, <1>5, <1>6, <1>7
<1>9. QED
  BY <1>8, WordsAre

\* Arithmetic on words makes words.
AluOps == {"mov", "not", "add", "sub", "and", "orr", "xor", "lsl", "lsr"}
LEMMA AluMakesWords ==
  ASSUME NEW f \in AluOps, NEW dst \in Words, NEW src \in Words
  PROVE  Alu(f, dst, src) \in Words
<1> DEFINE z == Size
           q == PowerOfTwo[src]
<1>1. /\ z \in Nat \ {0} /\ q \in Nat \ {0} /\ dst \in Nat /\ src \in Nat /\ dst < z /\ src < z
      /\ \A x : x \in Words <=> x \in Nat /\ x < z
  BY WordsAre, Powers
<1>2. \A x, y \in Int : y > 0 => x % y \in Nat /\ x % y < y
  OBVIOUS
<1>3. \A x \in Nat, y \in Nat \ {0} : x \div y \in Nat /\ x \div y <= x
  <2>1. ASSUME NEW x \in Nat, NEW y \in Nat \ {0}
        PROVE  x \div y \in Nat /\ x \div y <= x
    <3> DEFINE e == x \div y
               r == x % y
    <3>1. e \in Nat /\ r \in Nat /\ x = y * e + r
      OBVIOUS
    <3> HIDE DEF e, r
    <3>2. e <= y * e
      BY <3>1
    <3>3. y * e \in Nat
      BY <3>1
    <3> DEFINE m == y * e
    <3> HIDE DEF m
    <3>4. e <= x
      BY <3>1, <3>2, <3>3 DEF m
    <3>5. QED
      BY <3>1, <3>4 DEF e
  <2>2. QED
    BY <2>1
<1> HIDE DEF q
<1>4. z - 1 - src \in Words /\ z - 1 - src \in Nat
  <2>1. z - 1 - src \in Nat /\ z - 1 - src < z
    BY <1>1
  <2>2. QED
    BY <1>1, <2>1
<1>5. (dst + src) % z \in Words /\ (dst - src) % z \in Words
  <2>1. dst + src \in Int /\ dst - src \in Int /\ z > 0 /\ z \in Int
    BY <1>1
  <2>2. QED
    BY <1>1, <1>2, <2>1
<1>6. (dst * q) % z \in Words
  <2>1. dst * q \in Int /\ z > 0 /\ z \in Int
    BY <1>1
  <2>2. QED
    BY <1>1, <1>2, <2>1
<1>7. dst \div q \in Words
  <2>1. dst \div q \in Nat /\ dst \div q <= dst
    BY <1>1, <1>3
  <2> DEFINE e == dst \div q
  <2>2. e \in Nat /\ e <= dst
    BY <2>1
  <2> HIDE DEF e
  <2>3. e < z
    BY <1>1, <2>2
  <2>4. QED
    BY <1>1, <2>2, <2>3 DEF e
<1>8. f \in BitOps => BitByBit(f, dst, src) \in Words
  BY BitsAreWord
<1>9. QED
  BY <1>4, <1>5, <1>6, <1>7, <1>8 DEF Alu, AluOps, BitOps, q

-----------------------------------------------------------------------------
(* Opcodes whose operands are words.                                         *)

FineOp(w) ==
  /\ w.op = "mov8" => w.v \in Words
  /\ w.op = "mov24" => w.v \in 0 .. Quarter - 1
  /\ w.op = "word" => w.v \in 0 .. Half - 1
  /\ w.op = "alu" => /\ w.f \in AluOps /\ w.dst \in Regs
                     /\ w.src \in IF w.imm THEN Words ELSE Regs
Fine(ws, j) ==
  /\ FineOp(ws[j])
  /\ ws[j].op = "mov24" => j + 1 <= Len(ws) /\ ws[j + 1].op = "word"
  /\ ws[j].op = "mov32" => j + 2 <= Len(ws) /\ ws[j + 1].op = "word" /\ ws[j + 2].op = "word"
FineSeq(ws) == Len(ws) \in Nat /\ \A j \in 1 .. Len(ws) : Fine(ws, j)

LEMMA FineOne ==
  ASSUME NEW w, FineOp(w), w.op \notin {"mov24", "mov32"}
  PROVE  FineSeq(<<w>>)
<1> DEFINE s == <<w>>
<1>1. Len(s) = 1 /\ s[1] = w
  OBVIOUS
<1> HIDE DEF s
<1>2. Fine(s, 1)
  BY <1>1 DEF Fine
<1>3. \A j \in 1 .. 1 : j = 1
  OBVIOUS
<1>4. FineSeq(s)
  BY <1>1, <1>2, <1>3 DEF FineSeq
<1>5. QED
  BY <1>4 DEF s

LEMMA FineTwo ==
  ASSUME NEW w, NEW x, FineOp(w), FineOp(x), w.op # "mov32", w.op = "mov24" => x.op = "word",
         x.op \notin {"mov24", "mov32"}
  PROVE  FineSeq(<<w, x>>)
<1> DEFINE s == <<w, x>>
<1>1. Len(s) = 2 /\ s[1] = w /\ s[2] = x
  OBVIOUS
<1> HIDE DEF s
<1>2. Fine(s, 1)
  <2>1. 1 + 1 = 2 /\ 2 <= 2
    OBVIOUS
  <2>2. QED
    BY <1>1, <2>1 DEF Fine
<1>3. Fine(s, 2)
  BY <1>1 DEF Fine
<1>4. \A j \in 1 .. 2 : j = 1 \/ j = 2
  OBVIOUS
<1>5. FineSeq(s)
  BY <1>1, <1>2, <1>3, <1>4 DEF FineSeq
<1>6. QED
  BY <1>5 DEF s

LEMMA FineThree ==
  ASSUME NEW w, NEW x, NEW y, FineOp(w), FineOp(x), FineOp(y), w.op = "mov32", x.op = "word", y.op = "word"
  PROVE  FineSeq(<<w, x, y>>)
<1> DEFINE s == <<w, x, y>>
<1>1. Len(s) = 3 /\ s[1] = w /\ s[2] = x /\ s[3] = y
  OBVIOUS
<1> HIDE DEF s
<1>2. Fine(s, 1)
  <2>1. 1 + 1 = 2 /\ 1 + 2 = 3 /\ 3 <= 3
    OBVIOUS
  <2>2. QED
    BY <1>1, <2>1 DEF Fine
<1>3. Fine(s, 2) /\ Fine(s, 3)
  BY <1>1 DEF Fine
<1>4. \A j \in 1 .. 3 : j = 1 \/ j = 2 \/ j = 3
  OBVIOUS
<1>5. FineSeq(s)
  BY <1>1, <1>2, <1>3, <1>4 DEF FineSeq
<1>6. QED
  BY <1>5 DEF s

\* The exponents that LoadImm looks through.
LEMMA LeastShift ==
  ASSUME NEW S, S \subseteq 1 .. Size - 1, S # {}
  PROVE  Min(S) \in S
<1>1. S \subseteq Nat /\ S # {}
  BY WordsAre
<1>2. PICK x \in S : \A y \in S : ~ (y < x)
  BY <1>1, Smallest
<1>3. \A y \in S : x <= y
  BY <1>1, <1>2
<1>4. QED
  BY <1>3 DEF Min

\* A load of a word has words for operands, in each of its forms.
LEMMA LoadFine ==
  ASSUME NEW r \in Regs, NEW v \in Words
  PROVE  FineSeq(LoadImm(r, v))
<1> DEFINE Mov8(x) == [op |-> "mov8", r |-> r, v |-> x]
           Wd(x) == [op |-> "word", v |-> x]
           Shifts == {i \in 1 .. Size - 1 : LET p == PowerOfTwo[i] IN p < Size /\ v % p = 0 /\ v \div p < Quarter}
           n == Min(Shifts)
           A == <<Mov8(v)>>
           B == <<[op |-> "mov24", r |-> r, v |-> v % Quarter], Wd(v \div Quarter)>>
           C == <<Mov8(Size - 1 - v), [op |-> "alu", f |-> "not", dst |-> r, src |-> r, imm |-> FALSE]>>
           D == <<Mov8(v \div PowerOfTwo[n]), [op |-> "alu", f |-> "lsl", dst |-> r, src |-> n, imm |-> TRUE]>>
           E == <<[op |-> "mov32", r |-> r], Wd(v % Half), Wd(v \div Half)>>
<1>1. /\ Size \in Nat \ {0} /\ Half \in Nat \ {0} /\ Quarter \in Nat \ {0, 1}
      /\ Size = Half * Half /\ Half = Quarter * Quarter
      /\ v \in Nat /\ v < Size
      /\ \A x : x \in Words <=> x \in Nat /\ x < Size
  BY WordsAre
<1>2. \A x \in Nat, y \in Nat \ {0} : x \div y \in Nat /\ x % y \in 0 .. y - 1 /\ x = y * (x \div y) + (x % y)
  OBVIOUS
<1>3. \A x, y, a, b \in Nat : y > 0 /\ x = y * a + b /\ x < y * y => a < y
  <2>1. ASSUME NEW x \in Nat, NEW y \in Nat, NEW a \in Nat, NEW b \in Nat, y > 0, x = y * a + b, a >= y
        PROVE  x >= y * y
    <3>1. y * a >= y * y
      BY <2>1
    <3> DEFINE m == y * a
               k == y * y
    <3>2. m \in Nat /\ k \in Nat /\ m >= k /\ x = m + b
      BY <2>1, <3>1
    <3> HIDE DEF m, k
    <3>3. x >= k
      BY <3>2
    <3>4. QED
      BY <3>3 DEF k
  <2>2. \A a, y \in Nat : ~ (a < y) => a >= y
    OBVIOUS
  <2>3. \A x, k \in Nat : x >= k => ~ (x < k)
    OBVIOUS
  <2>4. \A y \in Nat : y * y \in Nat
    OBVIOUS
  <2>5. QED
    BY <2>1, <2>2, <2>3, <2>4
<1>4. FineSeq(A)
  <2>1. FineOp(Mov8(v))
    BY DEF FineOp
  <2>2. QED
    BY <2>1, FineOne
<1>5. ASSUME v < Half * Quarter
      PROVE  FineSeq(B)
  <2> DEFINE a == v \div Quarter
             b == v % Quarter
  <2>1. a \in Nat /\ b \in 0 .. Quarter - 1 /\ v = Quarter * a + b
    BY <1>1, <1>2
  <2>2. a < Half
    <3> DEFINE m == Half * Quarter
               k == Quarter * a
    <3>1. a >= Half => Quarter * a >= Half * Quarter
      <4> HIDE DEF a
      <4>1. QED
        BY <1>1, <2>1
    <3>2. m \in Nat /\ k \in Nat /\ a \in Nat /\ b \in Nat /\ v = k + b /\ v < m /\ (a >= Half => k >= m)
      <4>1. m \in Nat
        BY <1>1
      <4>2. k \in Nat
        <5> HIDE DEF a
        <5>1. QED
          BY <1>1, <2>1
      <4>3. QED
        BY <1>1, <1>5, <2>1, <3>1, <4>1, <4>2
    <3> HIDE DEF a, b, m, k
    <3>3. QED
      BY <1>1, <3>2
  <2> HIDE DEF a, b
  <2>3. a \in 0 .. Half - 1
    BY <1>1, <2>1, <2>2
  <2>4. FineOp([op |-> "mov24", r |-> r, v |-> b]) /\ FineOp(Wd(a))
    BY <2>1, <2>3 DEF FineOp
  <2>5. FineSeq(<<[op |-> "mov24", r |-> r, v |-> b], Wd(a)>>)
    BY <2>4, FineTwo
  <2>6. QED
    BY <2>5 DEF a, b
<1>6. FineSeq(C)
  <2>1. Size - 1 - v \in Words
    <3>1. Size - 1 - v \in Nat /\ Size - 1 - v < Size
      BY <1>1
    <3>2. QED
      BY <1>1, <3>1
  <2>2. FineOp(Mov8(Size - 1 - v)) /\ FineOp([op |-> "alu", f |-> "not", dst |-> r, src |-> r, imm |-> FALSE])
    BY <2>1 DEF FineOp, AluOps
  <2>3. QED
    BY <2>2, FineTwo
<1>7. ASSUME Shifts # {}
      PROVE  FineSeq(D)
  <2>1. n \in Shifts
    <3>1. Shifts \subseteq 1 .. Size - 1
      OBVIOUS
    <3> HIDE DEF Shifts
    <3>2. QED
      BY <1>7, <3>1, LeastShift
  <2>2. n \in 1 .. Size - 1 /\ v \div PowerOfTwo[n] < Quarter
    BY <2>1
  <2> HIDE DEF n
  <2>3. n \in Nat /\ n < Size
    BY <1>1, <2>2
  <2>4. PowerOfTwo[n] \in Nat \ {0}
    BY <2>3, Powers
  <2> DEFINE a == v \div PowerOfTwo[n]
  <2>5. a \in Nat /\ a < Quarter
    BY <1>1, <1>2, <2>2, <2>4
  <2> HIDE DEF a
  <2>6. Quarter <= Size
    <3>1. Quarter <= Half
      BY <1>1
    <3>2. Half <= Size
      <4>1. \A h, s \in Nat : h # 0 /\ s = h * h => h <= s
        OBVIOUS
      <4>2. QED
        BY <1>1, <4>1
    <3>3. QED
      BY <1>1, <3>1, <3>2
  <2>7. a \in Words /\ n \in Words
    <3>1. a < Size
      BY <1>1, <2>5, <2>6
    <3>2. QED
      BY <1>1, <2>3, <2>5, <3>1
  <2>8. FineOp(Mov8(a)) /\ FineOp([op |-> "alu", f |-> "lsl", dst |-> r, src |-> n, imm |-> TRUE])
    BY <2>7 DEF FineOp, AluOps
  <2>9. FineSeq(<<Mov8(a), [op |-> "alu", f |-> "lsl", dst |-> r, src |-> n, imm |-> TRUE]>>)
    BY <2>8, FineTwo
  <2>10. QED
    BY <2>9 DEF a
<1>8. FineSeq(E)
  <2> DEFINE a == v \div Half
             b == v % Half
  <2>1. a \in Nat /\ b \in 0 .. Half - 1 /\ v = Half * a + b
    BY <1>1, <1>2
  <2> HIDE DEF a, b
  <2>2. a < Half
    <3>1. b \in Nat /\ Half \in Nat /\ Half > 0 /\ v < Half * Half
      BY <1>1, <2>1
    <3>2. QED
      BY <1>1, <1>3, <2>1, <3>1
  <2>3. a \in 0 .. Half - 1
    BY <1>1, <2>1, <2>2
  <2>4. FineOp([op |-> "mov32", r |-> r]) /\ FineOp(Wd(a)) /\ FineOp(Wd(b))
    BY <2>1, <2>3 DEF FineOp
  <2>5. FineSeq(<<[op |-> "mov32", r |-> r], Wd(b), Wd(a)>>)
    BY <2>4, FineThree
  <2>6. QED
    BY <2>5 DEF a, b
<1>9. LoadImm(r, v) = CASE v < Quarter -> A
                        [] v >= Quarter /\ v < Half * Quarter -> B
                        [] v >= Half * Quarter /\ Size - 1 - v < Quarter -> C
                        [] v >= Half * Quarter /\ Size - 1 - v >= Quarter /\ Shifts # {} -> D
                        [] OTHER -> E
  BY DEF LoadImm
<1> HIDE DEF A, B, C, D, E, Shifts
<1>10. QED
  BY <1>4, <1>5, <1>6, <1>7, <1>8, <1>9

\* Every opcode of the array is one, and a load of more than 8 bits has the words
\* that belong to it behind it, in the code.
FineAt(o, h, p) ==
  /\ FineOp(o[p])
  /\ o[p].op = "mov24" => p + 1 < h /\ o[p + 1].op = "word"
  /\ o[p].op = "mov32" => p + 2 < h /\ o[p + 1].op = "word" /\ o[p + 2].op = "word"
FineArray(o, h) == \A p \in 0 .. M - 1 : FineAt(o, h, p)

LEMMA AluKinds ==
  ASSUME NEW i \in AnyInstr, i.op = "alu"
  PROVE  i.f \in AluOps /\ i.dst \in Regs /\ i.src \in IF i.imm THEN Words ELSE Regs
<1>1. CASE i \in Source /\ ~ Jump(i)
  BY <1>1, CodegenAssumption DEF AluOps
<1>2. CASE \E j \in Source, l \in AllLabels : Jump(j) /\ i = Labelled(j, l)
  BY <1>2 DEF Jump, Labelled
<1>3. QED
  BY <1>1, <1>2 DEF AnyInstr

LEMMA OpcodesFine ==
  ASSUME NEW i \in AnyInstr, NEW p
  PROVE  FineSeq(Opcodes(i, p))
<1>1. CASE i.op = "alu" /\ i.f = "mov" /\ i.imm
  <2>1. i.dst \in Regs /\ i.src \in Words
    BY <1>1, AluKinds
  <2>2. Opcodes(i, p) = LoadImm(i.dst, i.src)
    BY <1>1 DEF Opcodes
  <2>3. QED
    BY <2>1, <2>2, LoadFine
<1>2. CASE \/ i.op = "alu" /\ ~ (i.f = "mov" /\ i.imm)
           \/ i.op \in {"ret", "native", "push", "pop"}
  <2>1. Opcodes(i, p) = <<i>>
    BY <1>2 DEF Opcodes
  <2>2. FineOp(i) /\ i.op \notin {"mov24", "mov32"}
    BY <1>2, AluKinds DEF FineOp
  <2>3. QED
    BY <2>1, <2>2, FineOne
<1>3. CASE i.op = "br"
  <2> DEFINE b == [op |-> "b", to |-> p]
  <2>1. FineOp(b) /\ b.op = "b"
    BY DEF FineOp
  <2>2. i.f # "al" => FineOp(Skip(i)) /\ Skip(i).op = "sk"
    BY <1>3, SkipOp DEF FineOp
  <2>3. Opcodes(i, p) = IF i.f = "al" THEN <<b>> ELSE <<Skip(i), b>>
    BY <1>3 DEF Opcodes
  <2> HIDE DEF b
  <2>4. CASE i.f = "al"
    BY <2>1, <2>3, <2>4, FineOne
  <2>5. CASE i.f # "al"
    <3>1. FineSeq(<<Skip(i), b>>)
      BY <2>1, <2>2, <2>5, FineTwo
    <3>2. QED
      BY <2>3, <2>5, <3>1
  <2>6. QED
    BY <2>4, <2>5
<1>4. CASE i.op = "call"
  <2> DEFINE w == [op |-> "bl", to |-> p]
  <2>1. FineOp(w) /\ w.op = "bl" /\ Opcodes(i, p) = <<w>>
    BY <1>4 DEF FineOp, Opcodes
  <2> HIDE DEF w
  <2>2. QED
    BY <2>1, FineOne
<1>5. CASE i.op = "exit"
  <2> DEFINE w == [op |-> "exit", v |-> i.src]
  <2>1. FineOp(w) /\ w.op = "exit" /\ Opcodes(i, p) = <<w>>
    BY <1>5 DEF FineOp, Opcodes
  <2> HIDE DEF w
  <2>2. QED
    BY <2>1, FineOne
<1>6. QED
  BY <1>1, <1>2, <1>3, <1>4, <1>5, InstrKinds

\* The array stays fine when code is added to the code, ...
LEMMA FineGrows ==
  ASSUME NEW o, NEW h \in 0 .. M, FineArray(o, h), NEW q, NEW g \in 0 .. M, NEW ws, FineSeq(ws),
         g = h + Len(ws), At(q, g, h, ws),
         \A p \in 0 .. M - 1 : p < h \/ p >= g => q[p] = o[p]
  PROVE  FineArray(q, g)
<1>1. h \in Nat /\ g \in Nat /\ M \in Nat /\ g <= M /\ Len(ws) \in Nat /\ h <= g
  BY Sizes DEF FineSeq
<1> SUFFICES ASSUME NEW p \in 0 .. M - 1
             PROVE  FineAt(q, g, p)
  BY DEF FineArray
<1>2. p \in Nat
  OBVIOUS
<1>3. CASE p < h
  <2>1. FineAt(o, h, p) /\ q[p] = o[p]
    BY <1>3 DEF FineArray
  <2>2. p + 1 < h => p + 1 < g /\ q[p + 1] = o[p + 1]
    <3>1. p + 1 < h => p + 1 \in 0 .. M - 1 /\ p + 1 < g
      BY <1>1, <1>2
    <3>2. QED
      BY <3>1
  <2>3. p + 2 < h => p + 2 < g /\ q[p + 2] = o[p + 2] /\ p + 1 < h
    <3>1. p + 2 < h => p + 2 \in 0 .. M - 1 /\ p + 2 < g /\ p + 1 < h
      BY <1>1, <1>2
    <3>2. QED
      BY <3>1
  <2>4. QED
    BY <2>1, <2>2, <2>3 DEF FineAt
<1>4. CASE p >= g
  <2>1. FineAt(o, h, p) /\ q[p] = o[p]
    BY <1>4 DEF FineArray
  <2>2. ~ (p + 1 < h) /\ ~ (p + 2 < h)
    BY <1>1, <1>2, <1>4
  <2>3. QED
    BY <2>1, <2>2 DEF FineAt
<1>5. CASE h <= p /\ p < g
  <2> DEFINE j == p - h + 1
  <2>1. j \in 1 .. Len(ws) /\ h + j - 1 = p
    BY <1>1, <1>2, <1>5
  <2>2. j + 1 <= Len(ws) => j + 1 \in 1 .. Len(ws) /\ h + (j + 1) - 1 = p + 1 /\ p + 1 < g
    BY <1>1, <1>2, <1>5
  <2>3. j + 2 <= Len(ws) => /\ j + 1 \in 1 .. Len(ws) /\ h + (j + 1) - 1 = p + 1
                            /\ j + 2 \in 1 .. Len(ws) /\ h + (j + 2) - 1 = p + 2 /\ p + 2 < g
    BY <1>1, <1>2, <1>5
  <2> HIDE DEF j
  <2>4. Fine(ws, j) /\ q[p] = ws[j]
    BY <2>1 DEF FineSeq, At
  <2>5. j + 1 <= Len(ws) => q[p + 1] = ws[j + 1]
    BY <2>2 DEF At
  <2>6. j + 2 <= Len(ws) => q[p + 1] = ws[j + 1] /\ q[p + 2] = ws[j + 2]
    BY <2>3 DEF At
  <2>7. QED
    BY <2>2, <2>3, <2>4, <2>5, <2>6 DEF Fine, FineAt
<1>6. QED
  BY <1>1, <1>2, <1>3, <1>4, <1>5

\* ... and when a cell behind the code is written.
LEMMA FineCells ==
  ASSUME NEW o, NEW h \in 0 .. M, FineArray(o, h), NEW q, NEW x \in 0 .. M - 1, h <= x,
         q[x].op \in {"b", "bl"}, \A p \in 0 .. M - 1 : p # x => q[p] = o[p]
  PROVE  FineArray(q, h)
<1>1. h \in Nat /\ M \in Nat /\ h <= M /\ x \in Nat
  BY Sizes
<1> SUFFICES ASSUME NEW p \in 0 .. M - 1
             PROVE  FineAt(q, h, p)
  BY DEF FineArray
<1>2. CASE p = x
  BY <1>2 DEF FineAt, FineOp
<1>3. CASE p # x
  <2>1. FineAt(o, h, p) /\ q[p] = o[p]
    BY <1>3 DEF FineArray
  <2>2. p + 1 < h => q[p + 1] = o[p + 1]
    <3>1. p + 1 < h => p + 1 \in 0 .. M - 1 /\ p + 1 # x
      BY <1>1
    <3>2. QED
      BY <3>1
  <2>3. p + 2 < h => q[p + 2] = o[p + 2] /\ p + 1 < h
    <3>1. p + 2 < h => p + 2 \in 0 .. M - 1 /\ p + 2 # x /\ p + 1 < h
      BY <1>1
    <3>2. QED
      BY <3>1
  <2>4. QED
    BY <2>1, <2>2, <2>3 DEF FineAt
<1>4. QED
  BY <1>2, <1>3

LEMMA FineFresh ==
  ASSUME NEW o, o = [p \in 0 .. M - 1 |-> Erased], NEW h
  PROVE  FineArray(o, h)
BY DEF FineArray, FineAt, FineOp, Erased

-----------------------------------------------------------------------------
(* The calls of codegen.c keep the array fine                                *)

FineInv == ok => FineArray(ops, head)

LEMMA EmitFine ==
  ASSUME GenInv, FineInv, ok, NEW i \in AnyInstr, "to" \in DOMAIN i => Known(i.to, start, cells),
         EmitUpTo(Opcodes(i, Place(i, start, head, cells)), TRUE)
  PROVE  FineInv'
<1> SUFFICES ASSUME ok'
             PROVE  FineArray(ops', head')
  BY DEF FineInv
<1>1. /\ Array(ops, head, tail) /\ Lists(head, tail, asked, start, cells)
      /\ CellsApart(ops, head, tail, start, cells)
  BY DEF GenInv, Built
<1> DEFINE ws == Opcodes(i, Place(i, start, head, cells))
<1>2. /\ Len(ws) \in Nat /\ \A j \in 1 .. Len(ws) : GoodOp(ws[j])
  BY <1>1, PlaceInside, OpcodesGood
<1>3. FineSeq(ws)
  BY OpcodesFine
<1>a. EmitUpTo(ws, TRUE)
  OBVIOUS
<1> HIDE DEF ws
<1>4. head' = head + Len(ws)
  BY <1>1, <1>2, <1>a, EmittedLen
<1>5. /\ head' \in 0 .. M
      /\ \A p \in 0 .. M - 1 : p < head \/ p >= head' => ops'[p] = ops[p]
      /\ At(ops', head', head, ws)
  BY <1>1, <1>2, <1>a, Emitted
<1>6. head \in 0 .. M /\ FineArray(ops, head)
  BY <1>1 DEF Array, FineInv
<1>7. QED
  BY <1>3, <1>4, <1>5, <1>6, FineGrows

LEMMA AddOpcodeFine ==
  ASSUME GenInv, FineInv, AddOpcode
  PROVE  FineInv'
<1>1. PICK i \in Source : ~ Jump(i) /\ EmitUpTo(Encode(i, 0), TRUE)
  BY DEF AddOpcode
<1>2. i \in AnyInstr /\ "to" \notin DOMAIN i
  BY <1>1, SourceKinds DEF AnyInstr
<1>3. Place(i, start, head, cells) = 0
  BY <1>2 DEF Place
<1>4. Encode(i, 0) = Opcodes(i, Place(i, start, head, cells))
  BY <1>1, <1>2, <1>3, EncodeLegal
<1>5. ok
  BY DEF AddOpcode, Building
<1>6. QED
  BY <1>1, <1>2, <1>4, <1>5, EmitFine

LEMMA AddBranchFine ==
  ASSUME GenInv, FineInv, AddBranch
  PROVE  FineInv'
<1>1. PICK i \in Source, l \in Labels :
        Jump(i) /\ EmitUpTo(Encode(i, Position(l)), VerifyLabel(Position(l)))
  BY DEF AddBranch
<1>2. ok
  BY DEF AddBranch, Building
<1> DEFINE j == Labelled(i, l)
<1>3. /\ l \in AllLabels /\ Known(l, start, cells)
      /\ Position(l) = Where(l, start, head, cells) /\ VerifyLabel(Position(l))
  BY <1>2, HostLabel
<1>4. j \in AnyInstr
  BY <1>1, <1>3 DEF AnyInstr
<1>5. /\ "to" \in DOMAIN j /\ j.to = l
      /\ Opcodes(j, Position(l)) = Opcodes(i, Position(l))
  BY <1>1, LabelledSame
<1>6. Encode(i, Position(l)) = Opcodes(i, Position(l))
  BY <1>3, EncodeLegal
<1> HIDE DEF j
<1>7. Encode(i, Position(l)) = Opcodes(j, Place(j, start, head, cells))
  BY <1>3, <1>5, <1>6 DEF Place
<1>8. EmitUpTo(Encode(i, Position(l)), TRUE)
  BY <1>1, <1>3 DEF EmitUpTo
<1>9. EmitUpTo(Opcodes(j, Place(j, start, head, cells)), TRUE)
  BY <1>7, <1>8
<1>10. Known(j.to, start, cells)
  BY <1>3, <1>5
<1>11. QED
  BY <1>2, <1>4, <1>9, <1>10, EmitFine

LEMMA CellsFine ==
  ASSUME GenInv, FineInv, Predeclare \/ Fill
  PROVE  FineInv'
<1> SUFFICES ASSUME ok'
             PROVE  FineArray(ops', head')
  BY DEF FineInv
<1>1. /\ Array(ops, head, tail) /\ CellsApart(ops, head, tail, start, cells) /\ ok
      /\ Lists(head, tail, asked, start, cells) /\ FineArray(ops, head)
  BY DEF GenInv, Built, FineInv, Predeclare, Fill, Building
<1>2. head' = head
  BY DEF Predeclare, Fill
<1>3. /\ head \in 0 .. M /\ head \in Nat /\ tail \in Nat /\ head <= tail /\ tail <= M
      /\ M \in Nat /\ DOMAIN ops = 0 .. M - 1
  BY <1>1, Sizes DEF Array
<1>4. CASE ops' = ops
  BY <1>1, <1>2, <1>4
<1>5. ASSUME NEW x \in 0 .. M - 1, head <= x, NEW w, w.op \in {"b", "bl"}, ops' = [ops EXCEPT ![x] = w]
      PROVE  FineArray(ops', head')
  <2>1. ops'[x] = w /\ \A p \in 0 .. M - 1 : p # x => ops'[p] = ops[p]
    BY <1>3, <1>5
  <2>2. QED
    BY <1>1, <1>2, <1>3, <1>5, <2>1, FineCells
<1>6. CASE Predeclare
  <2>1. CASE tail = head
    BY <1>4, <1>6, <2>1 DEF Predeclare
  <2>2. CASE tail # head
    <3>1. ops' = [ops EXCEPT ![tail - 1] = Unfilled] /\ Unfilled.op = "bl"
      BY <1>6, <2>2 DEF Predeclare, Unfilled
    <3>2. head <= tail - 1 /\ tail - 1 \in 0 .. M - 1
      BY <1>3, <2>2
    <3> DEFINE x == tail - 1
    <3>3. /\ x \in 0 .. M - 1 /\ head <= x /\ ops'[x].op \in {"b", "bl"}
          /\ \A p \in 0 .. M - 1 : p # x => ops'[p] = ops[p]
      BY <1>3, <3>1, <3>2
    <3> HIDE DEF x
    <3>4. FineArray(ops', head)
      BY <1>1, <1>3, <3>3, FineCells
    <3>5. QED
      BY <1>2, <3>4
  <2>3. QED
    BY <2>1, <2>2
<1>7. CASE Fill
  <2>1. PICK c \in DOMAIN cells : \E y :
           ops' = [ops EXCEPT ![cells[c].pos] = [op |-> "b", to |-> y]] \/ ops' = ops
    BY <1>7 DEF Fill
  <2>2. PICK y : ops' = [ops EXCEPT ![cells[c].pos] = [op |-> "b", to |-> y]] \/ ops' = ops
    BY <2>1
  <2>3. cells[c].pos \in tail .. M - 1
    <3>1. c \in 1 .. Len(cells)
      BY <1>1, LenProperties DEF Lists
    <3>2. QED
      BY <1>1, <3>1 DEF CellsApart
  <2>4. head <= cells[c].pos /\ cells[c].pos \in 0 .. M - 1
    BY <1>3, <2>3
  <2> DEFINE w == [op |-> "b", to |-> y]
  <2>5. w.op = "b" /\ (ops' = [ops EXCEPT ![cells[c].pos] = w] \/ ops' = ops)
    BY <2>2
  <2> HIDE DEF w
  <2>6. QED
    BY <1>4, <1>5, <2>3, <2>4, <2>5
<1>8. QED
  BY <1>6, <1>7

-----------------------------------------------------------------------------
(* Registers hold words                                                      *)

\* With the array fine, every turn of the interpreter leaves words.
WordInv ==
  /\ IInv /\ FineInv /\ (phase = "run" => ok)
  /\ regs \in [Regs -> Words] /\ data \in Seq(Words)

LEMMA LoadWords ==
  ASSUME NEW r, NEW v \in Words, NEW n, Load(r, v, n), regs \in [Regs -> Words], data \in Seq(Words)
  PROVE  regs' \in [Regs -> Words] /\ data' \in Seq(Words)
BY DEF Load

LEMMA OutWords ==
  ASSUME NEW c, Out(c), regs \in [Regs -> Words]
  PROVE  regs' \in [Regs -> Words] /\ data' \in Seq(Words)
<1>1. <<>> \in Seq(Words)
  OBVIOUS
<1>2. QED
  BY <1>1 DEF Out

\* The values that the loads of more than 8 bits put together.
LEMMA Joined ==
  /\ \A a \in 0 .. Quarter - 1, b \in 0 .. Half - 1 : a + b * Quarter \in Words
  /\ \A a, b \in 0 .. Half - 1 : a + b * Half \in Words
<1>1. \A x, y \in Nat \ {0} : \A a \in 0 .. x - 1, b \in 0 .. y - 1 : a + b * x \in Nat /\ a + b * x < y * x
  <2>1. ASSUME NEW x \in Nat \ {0}, NEW y \in Nat \ {0}, NEW a \in 0 .. x - 1, NEW b \in 0 .. y - 1
        PROVE  a + b * x \in Nat /\ a + b * x < y * x
    <3> DEFINE k == b * x
               m == y * x
               d == (b + 1) * x
    <3>1. k \in Nat /\ m \in Nat /\ d = k + x
      BY <2>1
    <3>2. d <= m
      BY <2>1
    <3> HIDE DEF k, m, d
    <3>3. a + k \in Nat /\ a + k < m
      BY <2>1, <3>1, <3>2
    <3>4. QED
      BY <3>3 DEF k, m
  <2>2. QED
    BY <2>1
<1>2. /\ Size \in Nat \ {0} /\ Half \in Nat \ {0} /\ Quarter \in Nat \ {0}
      /\ Size = Half * Half /\ Half = Quarter * Quarter
      /\ \A x : x \in Words <=> x \in Nat /\ x < Size
  BY WordsAre
<1>3. Half * Quarter <= Size
  <2>1. Quarter <= Half
    BY <1>2
  <2>2. \A x, y, z \in Nat : x <= y => z * x <= z * y
    OBVIOUS
  <2>3. QED
    BY <1>2, <2>1, <2>2
<1>4. \A a, b \in 0 .. Half - 1 : a + b * Half \in Words
  BY <1>1, <1>2
<1>5. ASSUME NEW a \in 0 .. Quarter - 1, NEW b \in 0 .. Half - 1
      PROVE  a + b * Quarter \in Words
  <2> DEFINE k == a + b * Quarter
             m == Half * Quarter
  <2>1. k \in Nat /\ k < m /\ m \in Nat /\ m <= Size
    BY <1>1, <1>2, <1>3
  <2> HIDE DEF k, m
  <2>2. k \in Words
    BY <1>2, <2>1
  <2>3. QED
    BY <2>2 DEF k
<1>6. QED
  BY <1>4, <1>5

LEMMA InterpretWords ==
  ASSUME WordInv, Interpret
  PROVE  regs' \in [Regs -> Words] /\ data' \in Seq(Words)
<1>0. /\ Array(ops, head, tail) /\ RunInv /\ regs \in [Regs -> Words] /\ data \in Seq(Words)
  BY DEF WordInv, IInv, GenInv
<1>1. FineArray(ops, head) /\ head <= M /\ head \in Nat /\ M \in Nat
  BY <1>0, Sizes
     DEF WordInv, FineInv, Interpret, RunB, RunBl, RunRet, RunSkip, RunMov8, RunMov24, RunMov32, RunAlu,
         RunPush, RunPop, RunNative, RunExit, RunTimeOut, RunEnd, Fetch, Array
<1>2. ASSUME NEW op, Fetch(op)
      PROVE  vpc \in 0 .. M - 1 /\ Word = ops[vpc] /\ Word.op = op /\ FineAt(ops, head, vpc) /\ FineOp(Word)
  BY <1>0, <1>1, <1>2, Fetched DEF FineArray, FineAt, Word
<1>3. CASE RunB \/ RunBl \/ RunRet \/ RunSkip \/ RunExit \/ RunTimeOut \/ RunEnd
  <2>1. (regs' = regs /\ data' = data) \/ \E c : Out(c)
    BY <1>3 DEF RunB, RunBl, RunRet, RunSkip, RunExit, RunTimeOut, RunEnd
  <2>2. QED
    BY <1>0, <2>1, OutWords
<1>4. CASE RunMov8
  <2>1. Word.v \in Words /\ Load(Word.r, Word.v, 1)
    BY <1>2, <1>4 DEF RunMov8, FineOp
  <2>2. QED
    BY <1>0, <2>1, LoadWords
<1>5. CASE RunMov24
  <2>1. CASE vpc + 2 >= M
    BY <1>0, <1>5, <2>1, OutWords DEF RunMov24
  <2>2. CASE ~ (vpc + 2 >= M)
    <3>1. FineAt(ops, head, vpc) /\ vpc \in 0 .. M - 1 /\ ops[vpc].op = "mov24" /\ Word = ops[vpc]
      BY <1>2, <1>5 DEF RunMov24
    <3>2. ops[vpc + 1].op = "word" /\ vpc + 1 \in 0 .. M - 1
      <4>1. ops[vpc + 1].op = "word" /\ vpc + 1 < head /\ vpc \in Nat
        BY <3>1 DEF FineAt
      <4>2. QED
        BY <1>1, <4>1
    <3>3. ops[vpc + 1].v \in 0 .. Half - 1
      BY <1>1, <3>2 DEF FineArray, FineAt, FineOp
    <3>4. Word.v \in 0 .. Quarter - 1
      BY <3>1 DEF FineAt, FineOp
    <3> DEFINE x == Word.v + ops[vpc + 1].v * Quarter
    <3>5. x \in Words
      BY <3>3, <3>4, Joined
    <3>6. Load(Word.r, x, 2)
      BY <1>5, <2>2 DEF RunMov24
    <3> HIDE DEF x
    <3>7. QED
      BY <1>0, <3>5, <3>6, LoadWords
  <2>3. QED
    BY <2>1, <2>2
<1>6. CASE RunMov32
  <2>1. CASE vpc + 3 >= M
    BY <1>0, <1>6, <2>1, OutWords DEF RunMov32
  <2>2. CASE ~ (vpc + 3 >= M)
    <3>1. FineAt(ops, head, vpc) /\ vpc \in 0 .. M - 1 /\ ops[vpc].op = "mov32"
      BY <1>2, <1>6 DEF RunMov32
    <3>2. /\ ops[vpc + 1].op = "word" /\ vpc + 1 \in 0 .. M - 1
          /\ ops[vpc + 2].op = "word" /\ vpc + 2 \in 0 .. M - 1
      <4>1. ops[vpc + 1].op = "word" /\ ops[vpc + 2].op = "word" /\ vpc + 2 < head /\ vpc \in Nat
        BY <3>1 DEF FineAt
      <4>2. QED
        BY <1>1, <4>1
    <3>3. ops[vpc + 1].v \in 0 .. Half - 1 /\ ops[vpc + 2].v \in 0 .. Half - 1
      BY <1>1, <3>2 DEF FineArray, FineAt, FineOp
    <3> DEFINE x == ops[vpc + 1].v + ops[vpc + 2].v * Half
    <3>4. x \in Words
      BY <3>3, Joined
    <3>5. Load(Word.r, x, 3)
      BY <1>6, <2>2 DEF RunMov32
    <3> HIDE DEF x
    <3>6. QED
      BY <1>0, <3>4, <3>5, LoadWords
  <2>3. QED
    BY <2>1, <2>2
<1>7. CASE RunAlu
  <2> DEFINE s == IF Word.imm THEN Word.src ELSE regs[Word.src]
             v == AluDo(Word.f, regs[Word.dst], s)
  <2>1. Word.f \in AluOps /\ Word.dst \in Regs /\ Word.src \in IF Word.imm THEN Words ELSE Regs
    BY <1>2, <1>7 DEF RunAlu, FineOp
  <2>2. regs[Word.dst] \in Words /\ s \in Words
    BY <1>0, <2>1
  <2>3. v \in Words
    <3> HIDE DEF s
    <3>1. (IF Word.f = "orr" THEN "and" ELSE Word.f) \in AluOps
      BY <2>1 DEF AluOps
    <3>2. QED
      BY <2>2, <3>1, AluMakesWords DEF AluDo
  <2>4. \/ regs' = [regs EXCEPT ![Word.dst] = v] /\ data' = <<>>
        \/ Load(Word.dst, v, 1)
    BY <1>7 DEF RunAlu
  <2> HIDE DEF v
  <2>5. <<>> \in Seq(Words)
    OBVIOUS
  <2>6. QED
    BY <1>0, <2>3, <2>4, <2>5, LoadWords
<1>8. CASE RunPush
  <2>1. CASE Len(data) = MaxStack
    BY <1>0, <1>8, <2>1, OutWords DEF RunPush
  <2>2. CASE Len(data) # MaxStack
    <3>1. vpc \in 0 .. M - 1 /\ M \in Nat /\ M < Size /\ Size \in Nat
      BY <1>2, <1>8, Sizes, WordsAre, WordAssumption DEF RunPush
    <3>2. vpc + 1 \in Nat /\ vpc + 1 < Size
      BY <3>1
    <3>3. vpc + 1 \in Words
      BY <3>2, WordsAre
    <3>4. data' = Append(data, vpc + 1) /\ regs' = regs
      BY <1>8, <2>2 DEF RunPush
    <3>5. QED
      BY <1>0, <3>3, <3>4, AppendProperties
  <2>3. QED
    BY <2>1, <2>2
<1>9. CASE RunPop
  <2>1. CASE data = <<>>
    BY <1>0, <1>9, <2>1, OutWords DEF RunPop
  <2>2. CASE data # <<>>
    <3>1. regs' = [regs EXCEPT ![Word.dst] = Last(data)] /\ data' = Front(data)
      BY <1>9, <2>2 DEF RunPop
    <3>2. Front(data) \in Seq(Words) /\ Last(data) \in Words
      BY <1>0, <2>2, FrontLast
    <3>3. QED
      BY <1>0, <3>1, <3>2
  <2>3. QED
    BY <2>1, <2>2
<1>10. CASE RunNative
  <2>1. CASE Word.src \notin DOMAIN NativeRets
    BY <1>0, <1>10, <2>1, OutWords DEF RunNative
  <2>2. CASE Word.src \in DOMAIN NativeRets
    <3>1. PICK v \in NativeRets[Word.src] : regs' = With(v)
      BY <1>10, <2>2 DEF RunNative
    <3>2. data' = data
      BY <1>10, <2>2 DEF RunNative
    <3>3. \A r \in DOMAIN v : v[r] \in Words
      BY <2>2, <3>1, WordAssumption
    <3>4. QED
      BY <1>0, <3>1, <3>2, <3>3 DEF With
  <2>3. QED
    BY <2>1, <2>2
<1>11. QED
  BY <1>3, <1>4, <1>5, <1>6, <1>7, <1>8, <1>9, <1>10 DEF Interpret

LEMMA InitWords == Init => WordInv
<1> SUFFICES ASSUME Init PROVE WordInv
  OBVIOUS
<1>1. 0 \in Words /\ <<>> \in Seq(Words)
  BY WordsAre
<1>2. FineArray(ops, head)
  BY FineFresh DEF Init
<1>3. QED
  BY <1>1, <1>2, InitInv DEF Init, WordInv, FineInv

LEMMA NextWords == WordInv /\ [Next]_vars => WordInv'
<1> SUFFICES ASSUME WordInv, [Next]_vars
             PROVE  WordInv'
  OBVIOUS
<1>0. /\ GenInv /\ RunInv /\ FineInv /\ (phase = "run" => ok) /\ Array(ops, head, tail)
      /\ regs \in [Regs -> Words] /\ data \in Seq(Words) /\ IInv'
  BY NextInv DEF WordInv, IInv, GenInv
<1>1. CASE AddOpcode \/ AddBranch \/ Predeclare \/ Fill \/ GenInit
  <2>1. FineInv'
    <3>1. GenInit => FineInv'
      BY FineFresh DEF GenInit, FineInv
    <3>2. QED
      BY <1>0, <1>1, <3>1, AddOpcodeFine, AddBranchFine, CellsFine
  <2>2. phase' # "run" /\ regs' = regs /\ data' = data
    BY <1>1 DEF AddOpcode, AddBranch, Predeclare, Fill, GenInit, Building, runVars
  <2>3. QED
    BY <1>0, <2>1, <2>2 DEF WordInv
<1>2. CASE Run
  <2>1. UNCHANGED genVars /\ ok /\ regs' \in InitRegs /\ data' = <<>>
    BY <1>2 DEF Run
  <2>2. FineInv' /\ ok'
    BY <1>0, <2>1 DEF FineInv, genVars
  <2>3. regs' \in [Regs -> Words] /\ data' \in Seq(Words)
    BY <2>1, CodegenAssumption
  <2>4. QED
    BY <1>0, <2>2, <2>3 DEF WordInv
<1>3. CASE Interpret
  <2>1. UNCHANGED genVars /\ phase = "run"
    BY <1>3 DEF Interpret, RunB, RunBl, RunRet, RunSkip, RunMov8, RunMov24, RunMov32, RunAlu, RunPush,
                RunPop, RunNative, RunExit, RunTimeOut, RunEnd, Go, Out, Load, Fetch
  <2>2. FineInv' /\ ok'
    BY <1>0, <2>1 DEF FineInv, genVars
  <2>3. regs' \in [Regs -> Words] /\ data' \in Seq(Words)
    BY <1>3, InterpretWords
  <2>4. QED
    BY <1>0, <2>2, <2>3 DEF WordInv
<1>4. CASE Answered \/ Tick \/ UNCHANGED vars
  <2>1. UNCHANGED genVars /\ (phase' = "run" => phase = "run") /\ data' = data
    BY <1>4 DEF Answered, Tick, vars, runVars
  <2>2. regs' = regs \/ regs' = [r \in Regs |-> 0]
    BY <1>4 DEF Answered, Tick, vars, runVars
  <2>3. FineInv' /\ (phase' = "run" => ok')
    BY <1>0, <2>1 DEF FineInv, genVars
  <2>4. regs' \in [Regs -> Words]
    BY <1>0, <2>2, WordsAre
  <2>5. QED
    BY <1>0, <2>1, <2>3, <2>4 DEF WordInv
<1>5. QED
  BY <1>1, <1>2, <1>3, <1>4 DEF Next

\* The array is intact, in arrays of every size and with words of every size: no
\* instruction and no label cell ever loses an opcode to another, and what a
\* script computes, however it is encoded, stays a word (codegen.c,
\* codegen-run-generic.c).
THEOREM StaysIntact == Spec => []Intact
<1>1. WordInv => Intact
  BY InvIntact DEF WordInv
<1>2. QED
  BY <1>1, InitWords, NextWords, PTL DEF Spec
=============================================================================
