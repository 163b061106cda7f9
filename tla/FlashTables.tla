---------------------------- MODULE FlashTables ----------------------------
(* How the host tool turns a script's description of the flash into tables   *)
(* of blocks, and what it answers from them (tool/script.c).                 *)
EXTENDS Naturals, SequencesExt

CONSTANTS Top,       (* addresses there are: 2^32 bytes in the code            *)
          Many       (* blocks meant by a count of zero: 0x10000 in the code   *)

ASSUME TableAssumption == Top \in Nat \ {0, 1} /\ Many \in Nat \ {0}

Addr == 0 .. Top - 1
Block == [base : Nat, size : Nat]
Raw == [base : Addr, eraseSz : 0 .. 255, writeSz : 0 .. 255, numIdentical : Nat]
NoTable == <<>>                                         \* NULL

End(b) == (b.base + b.size) % Top                       \* an uint32_t sum
Cells(b) == {a \in Addr : b.base <= a /\ a < b.base + b.size}
CellsOf(t) == UNION {Cells(t[i]) : i \in DOMAIN t}

-----------------------------------------------------------------------------
(* Making a table. *)

\* scriptBlockSizeDecode; 0 when it does not know the encoding.
PowerOfTwo[n \in Nat] == IF n = 0 THEN 1 ELSE 2 * PowerOfTwo[n - 1]          \* 1 << n
BlockSizeDecode(code) ==
  IF code < 32 THEN PowerOfTwo[code]
  ELSE IF code \div 32 \in 5 .. 7 /\ code % 32 < 30 THEN (code \div 32) * PowerOfTwo[code % 32]
  ELSE 0
EraseSize(p) == BlockSizeDecode(p.eraseSz)
WriteSize(p) == BlockSizeDecode(p.writeSz)
Sane(p) == WriteSize(p) # 0 /\ EraseSize(p) # 0 /\ WriteSize(p) <= EraseSize(p)

SizeOf(p, forWrite) == IF forWrite THEN WriteSize(p) ELSE EraseSize(p)
NumIdentical(p, forWrite) ==
  LET n == IF p.numIdentical = 0 THEN Many ELSE p.numIdentical
  IN (n * (EraseSize(p) \div SizeOf(p, forWrite))) % Top
Expand(p, forWrite) ==
  LET size == SizeOf(p, forWrite)
  IN [k \in 1 .. NumIdentical(p, forWrite) |-> [base |-> (p.base + (k - 1) * size) % Top, size |-> size]]
Expanded(rfi, forWrite) == FlattenSeq([i \in DOMAIN rfi |-> Expand(rfi[i], forWrite)])

\* Mutant: the rest of the first half is forgotten when the second is used up.
MergedShort[h \in Seq(Block) \X Seq(Block)] ==
  LET s == h[1]  t == h[2]
  IN IF s = <<>> \/ t = <<>> THEN t
     ELSE IF s[1].base < t[1].base THEN <<s[1]>> \o MergedShort[<<Tail(s), t>>]
     ELSE <<t[1]>> \o MergedShort[<<s, Tail(t)>>]
Merged[h \in Seq(Block) \X Seq(Block)] ==              \* of two halves
  LET s == h[1]  t == h[2]
  IN IF s = <<>> \/ t = <<>> THEN s \o t
     ELSE IF s[1].base < t[1].base THEN <<s[1]>> \o Merged[<<Tail(s), t>>]
     ELSE <<t[1]>> \o Merged[<<s, Tail(t)>>]

SortedChunks[s \in Seq(Block)] ==
  IF Len(s) <= 1 THEN s
  ELSE LET half == Len(s) \div 2
       IN Merged[<<SortedChunks[SubSeq(s, 1, half)], SortedChunks[SubSeq(s, half + 1, Len(s))]>>]

\* Mutant: a block is compared with its successor only if they are equal in base.
PiecesOverlapAtBase(t) == \E i, j \in DOMAIN t : i < j /\ t[j].base = t[i].base
PiecesOverlap(t) == \E i, j \in DOMAIN t : /\ i < j /\ t[j].base < End(t[i])
                                           /\ \A k \in i + 1 .. j - 1 : t[k].base <= End(t[i])

TotalSize(t) == FoldSeq(LAMBDA b, sum : b.size + sum, 0, t)
Table(rfi, forWrite) ==
  IF \E i \in DOMAIN rfi : ~ Sane(rfi[i]) THEN NoTable
  ELSE LET t == SortedChunks[Expanded(rfi, forWrite)]
       IN IF TotalSize(t) > Top \/ PiecesOverlap(t) THEN NoTable ELSE t

-----------------------------------------------------------------------------
(* Contiguous areas. *)

Follows(t, i) == i > 1 /\ t[i].base = End(t[i - 1])
LastOf(t, i) == CHOOSE j \in i .. Len(t) : /\ \A k \in i + 1 .. j : Follows(t, k)
                                           /\ j < Len(t) => ~ Follows(t, j + 1)
AreaAt(t, i) == [base |-> t[i].base, size |-> (t[LastOf(t, i)].base + t[LastOf(t, i)].size - t[i].base) % Top]
AreasOf(t) ==
  LET areas[i \in 0 .. Len(t)] ==
        IF i = 0 THEN <<>>
        ELSE IF Follows(t, i) THEN areas[i - 1] ELSE Append(areas[i - 1], AreaAt(t, i))
  IN areas[Len(t)]

\* The first of the largest.
LargestArea(areas) ==
  areas[CHOOSE n \in DOMAIN areas : \A k \in DOMAIN areas :
          areas[k].size <= areas[n].size /\ (k < n => areas[k].size < areas[n].size)]

-----------------------------------------------------------------------------
(* Questions.  A lookup finds the first block with that base, or 0. *)

BlockSize(t, base) ==
  IF \E i \in DOMAIN t : t[i].base = base
  THEN t[CHOOSE i \in DOMAIN t : t[i].base = base /\ \A k \in 1 .. i - 1 : t[k].base # base].size
  ELSE 0

\* How far the blocks from start on reach: at least len, or 0 if they do not.
CoverExceeding(t, start, len) ==             \* mutant: takes a block more than it needs
  LET cover[got \in Nat] ==
        IF got > len THEN got
        ELSE LET size == BlockSize(t, start + got) IN IF size = 0 THEN 0 ELSE cover[got + size]
  IN cover[0]
Cover(t, start, len) ==
  LET cover[got \in Nat] ==
        IF got >= len THEN got
        ELSE LET size == BlockSize(t, (start + got) % Top) IN IF size = 0 THEN 0 ELSE cover[got + size]
  IN cover[0]
ValidRange(t, start, len) == len = 0 \/ Cover(t, start, len) = len
SuggestedLen(t, start, len) == Cover(t, start, len)
=============================================================================
