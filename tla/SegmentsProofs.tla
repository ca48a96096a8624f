--------------------------- MODULE SegmentsProofs --------------------------
(***************************************************************************)
(* Proofs about the loaders of ELF files, for all tables of segments,      *)
(* arguments and sizes that the assumptions of MCLoading allow:            *)
(* bootmain.c and loader-static.c start a program with its image in place  *)
(* and hand over its arguments.                                            *)
(*                                                                         *)
(* The invariants say that the segments up to the next are in place.       *)
(* Whole pages are written around a segment; two segments that share a     *)
(* page lie in the file as they lie in memory, so what is written there    *)
(* twice is the same.                                                      *)
(***************************************************************************)
EXTENDS MCLoading, TLAPS

\* byte k of the disk, counted from the file
Byte(k) == IF k < 0 THEN k ELSE k + 1

\* Taking off whole pages takes off their number.
LEMMA DivShift == ASSUME NEW a \in Int, NEW m \in Int
                  PROVE  (a - m * P) \div P = (a \div P) - m
  BY PageAssumption

\* Down goes to the start of a page.
LEMMA DownFacts ==
  ASSUME NEW a \in Int
  PROVE  Elf!Down(a) \in Int /\ Elf!Down(a) = a - (a % P) /\ Elf!Down(a) <= a /\ (a % P) \in Nat
  BY PageAssumption DEF Elf!Down

\* The addresses and sizes of bootmain.c are whole sectors.
LEMMA BootFacts == /\ ARGSIZE \in Nat /\ ARGSIZE % P = 0
                   /\ MAINARG_ADDR \in Nat /\ MAINARG_ADDR % P = 0
                   /\ Header \in Nat /\ Header % P = 0
                   /\ HDRSIZE \in Nat /\ HDRSIZE % P = 0
  BY BootAssumption

\* A product over a sum, said once for the provers.
LEMMA Spread == \A u, v, w, x \in Int :
                  (u + v + 1 + (w - x)) * P = u * P + v * P + P + (w * P - x * P)
  BY PageAssumption

\* copy_from_disk (bootmain.c:26-40) puts byte off + x of the file at buf + x for
\* every x, also where it goes beyond the bytes that were asked for, if the two
\* lie alike in their sectors.
LEMMA CopiedByte ==
  ASSUME NEW buf \in Int, NEW off \in Int, NEW a \in Int, NEW n \in Int, buf % P = off % P
  PROVE  Elf!Copied(buf, n, off, a) = Byte(off + (a - buf))
<1>1. PICK b \in Int : b = buf \div P
  BY PageAssumption
<1>2. PICK d \in Int : d = off \div P
  BY PageAssumption
<1>3. PICK e \in Int : e = a \div P
  BY PageAssumption
<1>4. PICK g \in Int : g = ARGSIZE \div P
  BY PageAssumption, BootFacts
<1>5. /\ buf = b * P + (buf % P) /\ off = d * P + (off % P) /\ a = e * P + (a % P)
      /\ ARGSIZE = g * P
      /\ off % P \in Int /\ a % P \in Int
  BY <1>1, <1>2, <1>3, <1>4, PageAssumption, BootFacts
<1>6. (a - Elf!Down(buf)) \div P = e - b
  BY <1>1, <1>3, DivShift DEF Elf!Down
<1>7. Elf!Copied(buf, n, off, a) = Elf!Disk(d + g + 1 + (e - b), a % P)
  BY <1>2, <1>4, <1>6 DEF Elf!Copied
<1>8. PICK B, D, E, G \in Int : B = b * P /\ D = d * P /\ E = e * P /\ G = g * P
  BY PageAssumption
<1>9. (d + g + 1 + (e - b)) * P = D + G + P + (E - B)
  BY <1>8, Spread
<1>10. PICK r, t \in Int : r = off % P /\ t = a % P
  BY PageAssumption
<1>11. buf = B + r /\ off = D + r /\ a = E + t /\ ARGSIZE = G
  BY <1>5, <1>8, <1>10
<1>12. D + G + P + (E - B) + t - (P + ARGSIZE) = off + (a - buf)
  BY <1>11, PageAssumption
<1> QED  BY <1>7, <1>9, <1>10, <1>12 DEF Elf!Disk, Byte

\* What load_program copies to a segment are its bytes of the file.
LEMMA CopiedSegment ==
  ASSUME NEW s \in Segment, s.addr % P = s.offset % P,
         NEW a \in Int, NEW k \in Nat, s.offset + (a - s.addr) = k
  PROVE  Elf!Copied(s.addr, s.filesz, s.offset, a) = k + 1
<1>1. s.addr \in Int /\ s.offset \in Int /\ s.filesz \in Int
  BY DEF Segment
<1>2. Elf!Copied(s.addr, s.filesz, s.offset, a) = Byte(s.offset + (a - s.addr))
  BY <1>1, CopiedByte, Zenon
<1> QED  BY <1>2 DEF Byte

\* what memory may hold
Memory == [0..(Top - 1) -> Int]

\* The same of the mmap of loader-static.c:32-37.
LEMMA MappedByte ==
  ASSUME NEW s \in Segment, s.addr % P = s.offset % P,
         NEW a \in Int, s.offset + (a - s.addr) < Size
  PROVE  Elf!Mapped(s, a) = s.offset + (a - s.addr) + 1
<1>1. s.addr \in Int /\ s.offset \in Int
  BY DEF Segment
<1>2. PICK r \in Int : r = s.addr % P
  BY <1>1, PageAssumption
<1>3. Elf!Down(s.offset) = s.offset - r /\ Elf!Down(s.addr) = s.addr - r
  BY <1>1, <1>2, DownFacts
<1>4. Elf!Down(s.offset) + a - Elf!Down(s.addr) = s.offset + (a - s.addr)
  BY <1>1, <1>3
<1> QED  BY <1>1, <1>4, PageAssumption DEF Elf!Mapped

\* What the assumption says of a segment.
LEMMA SegmentFacts ==
  ASSUME NEW s \in Segment
  PROVE  /\ s.addr \in Nat /\ s.offset \in Nat /\ s.filesz \in Nat /\ s.memsz \in Nat
         /\ s.filesz <= s.memsz /\ s.offset + s.filesz <= Size /\ s.addr + s.memsz <= Top
  BY DEF Segment

\* The bytes from a up to b are in the pages that they are in.
LEMMA InPages ==
  ASSUME NEW a \in Nat, NEW b \in Nat, NEW x \in Nat, a <= x, x < b, x < Top
  PROVE  x \in Elf!Pages(a, b)
  BY DownFacts, PageAssumption DEF Elf!Pages

\* What a later segment writes into a segment that is in place is what is there:
\* the segment stays in place.
LEMMA Harmless ==
  ASSUME NEW s \in Segment, NEW t \in Segment, Elf!Apart(s, t),
         NEW x \in 0..(s.memsz - 1), s.addr + x \in Elf!Touched(t)
  PROVE  /\ x < s.filesz
         /\ s.addr + x \notin Elf!Bss(t)
         /\ t.offset + ((s.addr + x) - t.addr) = s.offset + x
<1> DEFINE a == s.addr + x
<1>1. a \in Nat /\ s.addr <= a /\ a < s.addr + s.memsz /\ a < Top
  BY SegmentFacts, PageAssumption
<1>2. a \in Elf!Touched(s)
  BY <1>1, InPages, SegmentFacts DEF Elf!Touched
<1>3. /\ s.addr - s.offset = t.addr - t.offset
      /\ Elf!PagesOf(Elf!Bss(s)) \intersect Elf!Touched(t) = {}
      /\ Elf!Bytes(s.addr, s.addr + s.memsz) \intersect Elf!Bss(t) = {}
  BY <1>2 DEF Elf!Apart
<1>4. x < s.filesz
  <2> SUFFICES ASSUME ~(x < s.filesz)  PROVE FALSE
    OBVIOUS
  <2>1. a \in Elf!Bss(s)
    BY <1>1, SegmentFacts DEF Elf!Bss, Elf!Bytes
  <2>2. a \in Elf!Pages(a, a + 1)
    BY <1>1, InPages
  <2>3. a \in Elf!PagesOf(Elf!Bss(s))
    BY <2>1, <2>2 DEF Elf!PagesOf
  <2> QED  BY <1>3, <2>3
<1>5. a \in Elf!Bytes(s.addr, s.addr + s.memsz)
  BY <1>1, SegmentFacts DEF Elf!Bytes
<1>6. t.offset + (a - t.addr) = s.offset + x
  BY <1>3, SegmentFacts
<1> QED  BY <1>3, <1>4, <1>5, <1>6

\* the inductive invariant of bootmain.c
BootInv ==
  /\ ph \in Seq(Segment) /\ mem \in Memory /\ i \in 1..(Len(ph) + 1)
  /\ status \in {"arguments", "header", "boot", "lost", "started"}
  /\ status \in {"arguments", "header"} => i = 1
  /\ status = "started" => i > Len(ph)
  /\ status \in {"boot", "lost", "started"} =>
       Elf!Meets(Elf!HeaderAt) \/ Elf!HeaderIntact
  /\ status = "lost" => ~Elf!HeaderIntact
  /\ status # "arguments" => \/ Elf!Meets(Elf!ArgumentsAt)
                             \/ \A x \in 0..(ARGSIZE - 1) : mem[MAINARG_ADDR + x] = x - ARGSIZE
  /\ Elf!WellPlaced(TRUE) => \A k \in 1..(i - 1) : Elf!InPlace(ph[k])

\* bootmain.c starts with nothing read.
LEMMA BootStart == Elf!BootInit => BootInv
<1> SUFFICES ASSUME Elf!BootInit  PROVE BootInv
  OBVIOUS
<1>1. ph \in Seq(Segment) /\ Len(ph) \in Nat
  BY TablesAssumption DEF Elf!BootInit, Elf!Start
<1>2. mem \in Memory
  BY DEF Elf!BootInit, Elf!Start, Elf!Old, Memory
<1> QED  BY <1>1, <1>2 DEF BootInv, Elf!BootInit, Elf!Start

\* The invariant is what was to be shown of bootmain.c.
LEMMA BootImplies == BootInv => Elf!ImageInPlace(TRUE) /\ Elf!HandsOver
<1> SUFFICES ASSUME BootInv  PROVE Elf!ImageInPlace(TRUE) /\ Elf!HandsOver
  BY Zenon
<1>1. ASSUME status = "started"  PROVE DOMAIN ph = 1..(i - 1)
  BY <1>1 DEF BootInv
<1>2. Elf!ImageInPlace(TRUE)
  BY <1>1 DEF BootInv, Elf!ImageInPlace, Elf!Loaded
<1>3. Elf!HandsOver
  BY DEF BootInv, Elf!HandsOver
<1> QED  BY <1>2, <1>3, Zenon

\* After load_program the segment is in place.
LEMMA WrittenBoot ==
  ASSUME BootInv, Elf!load_program, NEW a \in 0..(Top - 1)
  PROVE  /\ ph[i] \in Segment
         /\ a \notin Elf!Touched(ph[i]) => mem'[a] = mem[a]
         /\ a \in Elf!Bss(ph[i]) => mem'[a] = 0
         /\ a \notin Elf!Bss(ph[i]) =>
              \/ mem'[a] = mem[a] /\ ~(ph[i].addr <= a /\ a < ph[i].addr + ph[i].filesz)
              \/ mem'[a] = Elf!Copied(ph[i].addr, ph[i].filesz, ph[i].offset, a)
         /\ mem'[a] \in Int
<1> DEFINE s == ph[i]
           S == Elf!Pages(s.addr, s.addr + s.filesz)
                  \union Elf!Bytes(s.addr + s.filesz, s.addr + s.memsz)
<1>1. s \in Segment
  BY DEF BootInv, Elf!load_program, Elf!SetMem
<1>2. mem' = [x \in DOMAIN mem |-> IF x \in S
                THEN IF x \in Elf!Bytes(s.addr + s.filesz, s.addr + s.memsz) THEN 0
                     ELSE Elf!Copied(s.addr, s.filesz, s.offset, x)
                ELSE mem[x]]
  BY DEF Elf!load_program, Elf!SetMem
<1>3. a \in DOMAIN mem /\ mem[a] \in Int
  BY DEF BootInv, Memory
<1>4. mem'[a] = IF a \in S THEN IF a \in Elf!Bss(s) THEN 0
                                ELSE Elf!Copied(s.addr, s.filesz, s.offset, a)
                ELSE mem[a]
  BY <1>2, <1>3 DEF Elf!Bss
<1>5. a \in S => a \in Elf!Touched(s)
  <2>1. ASSUME a \in Elf!Pages(s.addr, s.addr + s.filesz)  PROVE a \in Elf!Touched(s)
    BY <1>1, <2>1, SegmentFacts, DownFacts DEF Elf!Pages, Elf!Touched
  <2>2. ASSUME a \in Elf!Bytes(s.addr + s.filesz, s.addr + s.memsz)
        PROVE  a \in Elf!Touched(s)
    <3>1. s.addr <= a /\ a < s.addr + s.memsz
      BY <1>1, <2>2, SegmentFacts DEF Elf!Bytes
    <3> QED  BY <1>1, <3>1, SegmentFacts, InPages, PageAssumption DEF Elf!Touched
  <2> QED  BY <2>1, <2>2
<1>6. s.addr <= a /\ a < s.addr + s.filesz => a \in S
  <2> SUFFICES ASSUME s.addr <= a, a < s.addr + s.filesz
               PROVE  a \in Elf!Pages(s.addr, s.addr + s.filesz)
    OBVIOUS
  <2>1. s.addr \in Nat /\ s.addr + s.filesz \in Nat
    BY <1>1, SegmentFacts
  <2>2. a \in Nat /\ a < Top
    BY PageAssumption
  <2> QED  BY <2>1, <2>2, InPages
<1>7. Elf!Bss(s) \subseteq S
  BY DEF Elf!Bss
<1>8. Elf!Copied(s.addr, s.filesz, s.offset, a) \in Int
  BY <1>1, SegmentFacts, PageAssumption, BootFacts DEF Elf!Copied, Elf!Disk, Elf!Down
<1> QED  BY <1>1, <1>3, <1>4, <1>5, <1>6, <1>7, <1>8

\* load_program (bootmain.c:56-62) leaves the segments before it in place.
LEMMA BootLoads ==
  ASSUME BootInv, Elf!load_program, Elf!WellPlaced(TRUE), NEW k \in 1..i
  PROVE  Elf!InPlace(ph[k])'
<1> DEFINE s == ph[k]
           t == ph[i]
<1>1. /\ k \in DOMAIN ph /\ s \in Segment /\ i \in DOMAIN ph /\ t \in Segment /\ ph' = ph
      /\ i \in Nat
  BY DEF BootInv, Elf!load_program, Elf!SetMem
<1>2. s.addr % P = s.offset % P /\ t.addr % P = t.offset % P /\ (k < i => Elf!Apart(s, t))
  BY <1>1 DEF Elf!WellPlaced, Elf!Loaded
<1> SUFFICES ASSUME NEW x \in 0..(s.memsz - 1)
             PROVE  mem'[s.addr + x] = IF x < s.filesz THEN s.offset + x + 1 ELSE 0
  BY <1>1 DEF Elf!InPlace
<1> DEFINE a == s.addr + x
<1>3. a \in 0..(Top - 1) /\ x \in Nat
  BY <1>1, SegmentFacts, PageAssumption
<1>4. CASE k < i
  <2>1. mem[a] = IF x < s.filesz THEN s.offset + x + 1 ELSE 0
    BY <1>1, <1>4 DEF BootInv, Elf!InPlace
  <2>2. CASE a \notin Elf!Touched(t)
    BY <1>3, <2>1, <2>2, WrittenBoot
  <2>3. CASE a \in Elf!Touched(t)
    <3>1. /\ x < s.filesz /\ a \notin Elf!Bss(t)
          /\ t.offset + (a - t.addr) = s.offset + x
      BY <1>1, <1>2, <1>4, <2>3, Harmless
    <3>2. Elf!Copied(t.addr, t.filesz, t.offset, a) = s.offset + x + 1
      <4>1. a \in Int /\ s.offset + x \in Nat
        BY <1>1, <1>3, SegmentFacts
      <4> QED  BY <1>1, <1>2, <3>1, <4>1, CopiedSegment
    <3> QED  BY <1>3, <2>1, <3>1, <3>2, WrittenBoot
  <2> QED  BY <2>2, <2>3
<1>5. CASE k = i
  <2>1. CASE x < s.filesz
    <3>1. a \notin Elf!Bss(t) /\ t.addr <= a /\ a < t.addr + t.filesz
      BY <1>1, <1>3, <1>5, <2>1, SegmentFacts DEF Elf!Bss, Elf!Bytes
    <3>2. t.offset + (a - t.addr) = s.offset + x
      BY <1>1, <1>3, <1>5, SegmentFacts
    <3>3. Elf!Copied(t.addr, t.filesz, t.offset, a) = s.offset + x + 1
      <4>1. a \in Int /\ s.offset + x \in Nat
        BY <1>1, <1>3, SegmentFacts
      <4> QED  BY <1>1, <1>2, <3>2, <4>1, CopiedSegment
    <3> QED  BY <1>3, <2>1, <3>1, <3>3, WrittenBoot
  <2>2. CASE ~(x < s.filesz)
    <3>1. a \in Elf!Bss(t)
      BY <1>1, <1>3, <1>5, <2>2, SegmentFacts DEF Elf!Bss, Elf!Bytes
    <3> QED  BY <1>3, <2>2, <3>1, WrittenBoot
  <2> QED  BY <2>1, <2>2
<1> QED  BY <1>1, <1>4, <1>5

\* load_program leaves alone what no segment meets.
LEMMA BootSpares ==
  ASSUME BootInv, Elf!load_program, NEW S, ~Elf!Meets(S), NEW a \in S, a \in 0..(Top - 1)
  PROVE  mem'[a] = mem[a]
<1>1. i \in DOMAIN ph
  BY DEF BootInv, Elf!load_program, Elf!SetMem
<1>2. a \notin Elf!Touched(ph[i])
  BY <1>1 DEF Elf!Meets
<1> QED  BY <1>2, WrittenBoot

\* No page starts between the start of a page and what is behind it.
LEMMA DownAbove == ASSUME NEW a \in Int, NEW m \in Int, m % P = 0, m <= a
                   PROVE  m <= Elf!Down(a)
<1>1. PICK q, d, r \in Int : q = m \div P /\ d = a \div P /\ r = a % P
  BY PageAssumption
<1>2. m = q * P /\ a = d * P + r /\ r < P /\ Elf!Down(a) = d * P
  BY <1>1, PageAssumption DEF Elf!Down
<1>3. CASE q <= d
  BY <1>2, <1>3, PageAssumption
<1>4. CASE d + 1 <= q
  <2>1. (d + 1) * P <= q * P
    BY <1>4, PageAssumption
  <2>2. (d + 1) * P = d * P + P /\ d * P \in Int
    BY PageAssumption
  <2> QED  BY <1>2, <2>1, <2>2, PageAssumption
<1> QED  BY <1>3, <1>4

\* Two numbers of whole pages are a number of whole pages.
LEMMA WholeSum == ASSUME NEW a \in Int, NEW b \in Int, a % P = 0, b % P = 0
                  PROVE  (a + b) % P = 0 /\ (-a) % P = 0
<1>1. PICK p, q \in Int : p = a \div P /\ q = b \div P
  BY PageAssumption
<1>2. a = p * P /\ b = q * P
  BY <1>1, PageAssumption
<1>3. a + b = (p + q) * P /\ -a = (-p) * P
  BY <1>2, PageAssumption
<1>4. \A m \in Int : (m * P) % P = 0
  BY PageAssumption
<1> QED  BY <1>3, <1>4

\* copy_from_disk to whole sectors writes these and nothing else.
LEMMA Region ==
  ASSUME mem \in Memory,
         NEW b \in Nat, NEW n \in Nat, NEW off \in Int,
         b % P = 0, n % P = 0, off % P = 0, b + n <= Top,
         mem' = [a \in DOMAIN mem |-> IF a \in Elf!Pages(b, b + n)
                                      THEN Elf!Copied(b, n, off, a) ELSE mem[a]]
  PROVE  /\ mem' \in Memory
         /\ \A x \in 0..(n - 1) :
              mem'[b + x] = Byte(off + x)
         /\ \A a \in 0..(Top - 1) : a < b \/ b + n <= a => mem'[a] = mem[a]
<1>1. \A a \in Int : Elf!Copied(b, n, off, a) \in Int
  BY PageAssumption, BootFacts DEF Elf!Copied, Elf!Disk, Elf!Down
<1>2. mem' \in Memory
  BY <1>1 DEF Memory
<1>3. ASSUME NEW x \in 0..(n - 1)
      PROVE  mem'[b + x] = Byte(off + x)
  <2>1. /\ b + x \in Nat /\ b <= b + x /\ b + x < b + n /\ b + x < Top /\ b + n \in Nat
        /\ b + x \in 0..(Top - 1) /\ b + x \in Int
    BY PageAssumption
  <2>2. b + x \in Elf!Pages(b, b + n)
    BY <2>1, InPages
  <2>3. off + ((b + x) - b) = off + x
    OBVIOUS
  <2>4. mem'[b + x] = Elf!Copied(b, n, off, b + x)
    BY <2>1, <2>2 DEF Memory
  <2>5. Elf!Copied(b, n, off, b + x) = Byte(off + ((b + x) - b))
    <3>1. b % P = off % P /\ b \in Int /\ n \in Int /\ off + x \in Int
      OBVIOUS
    <3> QED  BY <2>1, <3>1, CopiedByte, Zenon
  <2> QED  BY <2>3, <2>4, <2>5
<1>4. ASSUME NEW a \in 0..(Top - 1), a < b \/ b + n <= a  PROVE mem'[a] = mem[a]
  <2>1. a \notin Elf!Pages(b, b + n)
    <3>1. a \in Int /\ b + n \in Int /\ Elf!Down(a) \in Int
      BY DownFacts
    <3>2. CASE a < b
      <4>1. b <= Elf!Down(b)
        BY DownAbove
      <4> QED  BY <3>1, <3>2, <4>1, DownFacts DEF Elf!Pages
    <3>3. CASE b + n <= a
      <4>1. (b + n) % P = 0
        BY WholeSum
      <4>2. b + n <= Elf!Down(a)
        BY <3>1, <3>3, <4>1, DownAbove
      <4> QED  BY <3>1, <4>2 DEF Elf!Pages
    <3> QED  BY <1>4, <3>2, <3>3
  <2> QED  BY <2>1 DEF Memory
<1> QED  BY <1>2, <1>3, <1>4, Zenon

\* Every step of bootmain.c keeps the invariant.
LEMMA BootStep == BootInv /\ Elf!Boot => BootInv'
<1> SUFFICES ASSUME BootInv, Elf!Boot  PROVE BootInv'
  OBVIOUS
<1>1. /\ BootAssumption /\ MAINARG_ADDR + ARGSIZE \in Nat /\ Header + HDRSIZE \in Nat
      /\ \A x \in 0..(ARGSIZE - 1) : MAINARG_ADDR + x \in 0..(Top - 1) /\ x \in Nat
      /\ \A x \in 0..(HDRSIZE - 1) : Header + x \in 0..(Top - 1) /\ x \in Nat
      /\ \A x \in Headers : x \in 0..(HDRSIZE - 1)
  BY BootAssumption, BootFacts, PageAssumption
<1>2. CASE Elf!LoadArguments
  <2>1. /\ status = "arguments" /\ status' = "header" /\ UNCHANGED <<ph, i>> /\ i = 1
        /\ mem \in Memory
        /\ mem' = [a \in DOMAIN mem |->
                     IF a \in Elf!Pages(MAINARG_ADDR, MAINARG_ADDR + ARGSIZE)
                     THEN Elf!Copied(MAINARG_ADDR, ARGSIZE, -ARGSIZE, a) ELSE mem[a]]
    BY <1>2 DEF Elf!LoadArguments, Elf!SetMem, BootInv
  <2>2. -ARGSIZE \in Int /\ (-ARGSIZE) % P = 0
    BY BootFacts, WholeSum
  <2>3. /\ mem' \in Memory
        /\ \A x \in 0..(ARGSIZE - 1) : mem'[MAINARG_ADDR + x] = Byte(-ARGSIZE + x)
        /\ \A a \in 0..(Top - 1) :
             a < MAINARG_ADDR \/ MAINARG_ADDR + ARGSIZE <= a => mem'[a] = mem[a]
    BY <1>1, <2>1, <2>2, BootFacts, Region, Zenon
  <2>4. \A x \in 0..(ARGSIZE - 1) : mem'[MAINARG_ADDR + x] = x - ARGSIZE
    BY <2>3, BootFacts DEF Byte
  <2>5. (1..(i - 1))' = {} /\ (ph \in Seq(Segment) /\ i \in 1..(Len(ph) + 1))'
    BY <2>1 DEF BootInv
  <2> QED  BY <2>1, <2>3, <2>4, <2>5, Zenon DEF BootInv
<1>3. CASE Elf!LoadHeader
  <2>1. /\ status = "header" /\ status' = "boot" /\ UNCHANGED <<ph, i>> /\ i = 1
        /\ mem \in Memory
        /\ mem' = [a \in DOMAIN mem |-> IF a \in Elf!Pages(Header, Header + HDRSIZE)
                     THEN Elf!Copied(Header, HDRSIZE, 0, a) ELSE mem[a]]
    BY <1>3 DEF Elf!LoadHeader, Elf!SetMem, BootInv
  <2>2. 0 \in Int /\ 0 % P = 0
    BY PageAssumption
  <2>3. /\ mem' \in Memory
        /\ \A x \in 0..(HDRSIZE - 1) : mem'[Header + x] = Byte(0 + x)
        /\ \A a \in 0..(Top - 1) : a < Header \/ Header + HDRSIZE <= a => mem'[a] = mem[a]
    BY <1>1, <2>1, <2>2, BootFacts, Region, Zenon
  <2>4. Elf!HeaderIntact'
    BY <1>1, <2>3, BootFacts DEF Elf!HeaderIntact, Byte
  <2>5. \A x \in 0..(ARGSIZE - 1) : mem'[MAINARG_ADDR + x] = mem[MAINARG_ADDR + x]
    <3> SUFFICES ASSUME NEW x \in 0..(ARGSIZE - 1)
                 PROVE  MAINARG_ADDR + x < Header \/ Header + HDRSIZE <= MAINARG_ADDR + x
      BY <1>1, <2>3
    <3> QED  BY <1>1, BootFacts, BootAssumption
  <2>6. (1..(i - 1))' = {} /\ (ph \in Seq(Segment) /\ i \in 1..(Len(ph) + 1))'
    BY <2>1 DEF BootInv
  <2>7. \/ Elf!Meets(Elf!ArgumentsAt)'
        \/ \A x \in 0..(ARGSIZE - 1) : mem'[MAINARG_ADDR + x] = x - ARGSIZE
    BY <2>1, <2>5, Zenon DEF BootInv, Elf!Meets
  <2> QED  BY <2>1, <2>3, <2>4, <2>6, <2>7, Zenon DEF BootInv
<1>4. CASE Elf!load_program
  <2>1. /\ status = "boot" /\ UNCHANGED <<ph, status>> /\ i' = i + 1 /\ i <= Len(ph)
        /\ i \in 1..(Len(ph) + 1) /\ ph \in Seq(Segment) /\ Len(ph) \in Nat
        /\ mem \in Memory /\ DOMAIN mem' = DOMAIN mem /\ Elf!HeaderIntact
        /\ mem' = [a \in DOMAIN mem' |-> mem'[a]]
    BY <1>4 DEF Elf!load_program, Elf!SetMem, BootInv
  <2>2. mem' \in Memory
    BY <1>4, <2>1, WrittenBoot DEF Memory
  <2>3. Elf!Meets(Elf!HeaderAt)' \/ Elf!HeaderIntact'
    <3> SUFFICES ASSUME ~Elf!Meets(Elf!HeaderAt)  PROVE Elf!HeaderIntact'
      BY <2>1 DEF Elf!Meets
    <3>1. ASSUME NEW x \in Headers  PROVE mem'[Header + x] = mem[Header + x]
      <4>1. Header + x \in Elf!HeaderAt /\ Header + x \in 0..(Top - 1)
        BY <1>1 DEF Elf!HeaderAt
      <4> QED  BY <1>4, <4>1, BootSpares, Zenon
    <3> QED  BY <2>1, <3>1 DEF Elf!HeaderIntact
  <2>4. \/ Elf!Meets(Elf!ArgumentsAt)'
        \/ \A x \in 0..(ARGSIZE - 1) : mem'[MAINARG_ADDR + x] = x - ARGSIZE
    <3> SUFFICES ASSUME ~Elf!Meets(Elf!ArgumentsAt),
                        NEW x \in 0..(ARGSIZE - 1)
                 PROVE  mem'[MAINARG_ADDR + x] = x - ARGSIZE
      BY <2>1 DEF Elf!Meets
    <3>1. mem'[MAINARG_ADDR + x] = mem[MAINARG_ADDR + x]
      <4>1. MAINARG_ADDR + x \in Elf!ArgumentsAt /\ MAINARG_ADDR + x \in 0..(Top - 1)
        BY <1>1, BootFacts DEF Elf!ArgumentsAt, Elf!Bytes
      <4> QED  BY <1>4, <4>1, BootSpares, Zenon
    <3> QED  BY <2>1, <3>1 DEF BootInv
  <2>5. Elf!WellPlaced(TRUE)' => \A k \in 1..i : Elf!InPlace(ph[k])'
    <3> SUFFICES ASSUME Elf!WellPlaced(TRUE)  PROVE \A k \in 1..i : Elf!InPlace(ph[k])'
      BY <2>1 DEF Elf!WellPlaced, Elf!Loaded
    <3> QED  BY <1>4, BootLoads
  <2>6. (1..(i - 1))' = 1..i /\ (i \in 1..(Len(ph) + 1))'
    BY <2>1
  <2> QED  BY <2>1, <2>2, <2>3, <2>4, <2>5, <2>6, Zenon DEF BootInv
<1>5. CASE Elf!load_kernel
  <2>1. BootInv /\ UNCHANGED <<ph, mem, i>>
    BY <1>5 DEF Elf!load_kernel
  <2> QED  BY <1>5, <2>1 DEF BootInv, Elf!load_kernel, Elf!Meets, Elf!HeaderIntact, Elf!WellPlaced,
             Elf!Loaded, Elf!InPlace
<1>6. CASE Elf!Lost
  BY <1>6 DEF BootInv, Elf!Lost, Elf!Meets, Elf!HeaderIntact, Elf!WellPlaced,
             Elf!Loaded, Elf!InPlace
<1> QED  BY <1>2, <1>3, <1>4, <1>5, <1>6 DEF Elf!Boot
-----------------------------------------------------------------------------
(* loader-static.c *)

\* a word of the stack
Word == Nat \union Strings \union {"NULL", "AT_RANDOM", "AT_NULL"}

\* argc and argv are on the stack.
ArgsPushed ==
  /\ stack \in Seq(Word) /\ Len(argv) + 2 <= Len(stack)
  /\ stack[1] = Len(argv)
  /\ \A k \in 1..(Len(argv) + 1) : stack[k + 1] = Elf!Argument(k)

\* the strings of envp up to the next that are kept, and where they are
KeptBefore == {k \in 1..(i - 1) : envp[k] \notin Verbose}
Pushed == (Len(argv) + 3)..Len(stack)
\* The strings that are kept have been pushed in their order.
EnvpPushed == \E g \in [Pushed -> KeptBefore] :
                /\ \A x \in Pushed : stack[x] = envp[g[x]]
                /\ \A x, y \in Pushed : x < y => g[x] < g[y]
                /\ \A k \in KeptBefore : \E x \in Pushed : g[x] = k

\* the inductive invariant of loader-static.c
StaticInv ==
  /\ ph \in Seq(Segment) /\ mem \in Memory /\ i \in Nat \ {0}
  /\ argv \in Seq(Strings) /\ envp \in Seq(Strings)
  /\ status \in {"map", "abort", "killed", "envp", "started", "overrun"}
  /\ status \in {"map", "envp", "started"} /\ Elf!WellPlaced(FALSE) =>
       \A k \in Elf!Loaded(FALSE) : k < i \/ status # "map" => Elf!InPlace(ph[k])
  /\ status = "map" => stack = << >>
  /\ status = "envp" => /\ i <= Len(envp) + 1 /\ ArgsPushed /\ EnvpPushed
                        /\ Len(stack) <= Len(argv) + 1 + i
  /\ Elf!StackReadable /\ Elf!RoomSuffices

\* loader-static.c starts with nothing mapped.
LEMMA StaticStart == Elf!StaticInit => StaticInv
<1> SUFFICES ASSUME Elf!StaticInit  PROVE StaticInv
  OBVIOUS
<1>1. ph \in Seq(Segment)
  BY TablesAssumption DEF Elf!StaticInit, Elf!Start
<1>2. mem \in Memory
  BY DEF Elf!StaticInit, Elf!Start, Elf!Old, Memory
<1>3. argv \in Seq(Strings) /\ envp \in Seq(Strings)
  BY StringsAssumption DEF Elf!StaticInit
<1>4. \A k \in Elf!Loaded(FALSE) : ~(k < 1)
  BY <1>1 DEF Elf!Loaded
<1>5. status = "map" /\ i = 1 /\ 1 \in Nat \ {0} /\ stack = << >>
  BY DEF Elf!StaticInit, Elf!Start
<1>6. Elf!StackReadable /\ Elf!RoomSuffices
  BY <1>5 DEF Elf!StackReadable, Elf!RoomSuffices
<1> QED  BY <1>1, <1>2, <1>3, <1>4, <1>5, <1>6, Zenon DEF StaticInv

\* After mmap and memset (loader-static.c:32-40) the segment is in place, unless
\* the memset was killed.
LEMMA WrittenStatic ==
  ASSUME StaticInv, Elf!MapSegment, status' # "abort", NEW a \in 0..(Top - 1)
  PROVE  /\ ph[i] \in Segment
         /\ a \notin Elf!Touched(ph[i]) => mem'[a] = mem[a]
         /\ a \in Elf!Touched(ph[i]) /\ a \in Elf!Bss(ph[i]) => mem'[a] = 0
         /\ a \in Elf!Touched(ph[i]) /\ a \notin Elf!Bss(ph[i]) => mem'[a] = Elf!Mapped(ph[i], a)
         /\ mem'[a] \in Int
<1> DEFINE s == ph[i]
<1>1. s \in Segment
  BY DEF StaticInv, Elf!MapSegment, Elf!SetMem
<1>2. mem' = [x \in DOMAIN mem |-> IF x \in Elf!Touched(s)
                THEN IF x \in Elf!Bss(s) THEN 0 ELSE Elf!Mapped(s, x)
                ELSE mem[x]]
  BY DEF Elf!MapSegment, Elf!SetMem, Elf!Touched
<1>3. a \in DOMAIN mem /\ mem[a] \in Int
  BY DEF StaticInv, Memory
<1>4. mem'[a] = IF a \in Elf!Touched(s) THEN IF a \in Elf!Bss(s) THEN 0 ELSE Elf!Mapped(s, a)
                ELSE mem[a]
  BY <1>2, <1>3
<1>5. Elf!Mapped(s, a) \in Int
  <2>1. Elf!Down(s.offset) \in Int /\ Elf!Down(s.addr) \in Int
    BY <1>1, SegmentFacts, DownFacts
  <2> QED  BY <2>1 DEF Elf!Mapped, Elf!Bus
<1> QED  BY <1>1, <1>3, <1>4, <1>5

\* The mmap of a segment leaves those before it in place.
LEMMA StaticLoads ==
  ASSUME StaticInv, Elf!MapSegment, status' = "map", Elf!WellPlaced(FALSE),
         NEW k \in Elf!Loaded(FALSE), k <= i
  PROVE  Elf!InPlace(ph[k])'
<1> DEFINE s == ph[k]
           t == ph[i]
<1>1. /\ k \in DOMAIN ph /\ s \in Segment /\ i \in Elf!Loaded(FALSE) /\ t \in Segment
      /\ ph' = ph /\ i \in Nat /\ k \in Nat /\ status = "map"
  BY DEF StaticInv, Elf!MapSegment, Elf!SetMem, Elf!Loaded
<1>2. s.addr % P = s.offset % P /\ t.addr % P = t.offset % P /\ (k < i => Elf!Apart(s, t))
  BY <1>1, Zenon DEF Elf!WellPlaced
<1> SUFFICES ASSUME NEW x \in 0..(s.memsz - 1)
             PROVE  mem'[s.addr + x] = IF x < s.filesz THEN s.offset + x + 1 ELSE 0
  BY <1>1 DEF Elf!InPlace
<1> DEFINE a == s.addr + x
<1>3. /\ a \in 0..(Top - 1) /\ a \in Nat /\ x \in Nat /\ s.addr <= a /\ a < s.addr + s.memsz
      /\ a < Top
  BY <1>1, SegmentFacts, PageAssumption
<1>4. ASSUME x < s.filesz, a \notin Elf!Bss(t), t.offset + (a - t.addr) = s.offset + x,
             a \in Elf!Touched(t)
      PROVE  mem'[a] = s.offset + x + 1
  <2>1. a \in Int /\ t.offset + (a - t.addr) < Size
    BY <1>1, <1>3, <1>4, SegmentFacts, PageAssumption
  <2>2. Elf!Mapped(t, a) = t.offset + (a - t.addr) + 1
    BY <1>1, <1>2, <2>1, MappedByte
  <2> QED  BY <1>1, <1>3, <1>4, <2>2, WrittenStatic
<1>5. CASE k < i
  <2>1. mem[a] = IF x < s.filesz THEN s.offset + x + 1 ELSE 0
    BY <1>1, <1>5, Zenon DEF StaticInv, Elf!InPlace
  <2>2. CASE a \notin Elf!Touched(t)
    BY <1>1, <1>3, <2>1, <2>2, WrittenStatic
  <2>3. CASE a \in Elf!Touched(t)
    BY <1>1, <1>2, <1>4, <1>5, <2>3, Harmless
  <2> QED  BY <2>2, <2>3
<1>6. CASE k = i
  <2>1. a \in Elf!Touched(t)
    BY <1>1, <1>3, <1>6, InPages, SegmentFacts DEF Elf!Touched
  <2>2. CASE x < s.filesz
    <3>1. a \notin Elf!Bss(t) /\ t.offset + (a - t.addr) = s.offset + x
      BY <1>1, <1>3, <1>6, <2>2, SegmentFacts DEF Elf!Bss, Elf!Bytes
    <3> QED  BY <1>4, <2>1, <2>2, <3>1
  <2>3. CASE ~(x < s.filesz)
    <3>1. a \in Elf!Bss(t)
      BY <1>1, <1>3, <1>6, <2>3, SegmentFacts DEF Elf!Bss, Elf!Bytes
    <3> QED  BY <1>1, <1>3, <2>1, <2>3, <3>1, WrittenStatic
  <2> QED  BY <2>2, <2>3
<1> QED  BY <1>1, <1>5, <1>6

\* A PT_LOAD keeps the invariant.
LEMMA StaticMaps == StaticInv /\ Elf!MapSegment => StaticInv'
<1> SUFFICES ASSUME StaticInv, Elf!MapSegment  PROVE StaticInv'
  OBVIOUS
<1>1. /\ status = "map" /\ status' \in {"map", "abort", "killed"}
      /\ i' = i + 1 /\ UNCHANGED <<ph, argv, envp, stack>>
      /\ i \in Nat /\ i' \in Nat \ {0} /\ i <= Len(ph) /\ stack = << >>
  BY DEF Elf!MapSegment, Elf!SetMem, StaticInv
<1>2. mem' \in Memory
  <2>1. CASE status' = "abort"
    BY <1>1, <2>1 DEF Elf!MapSegment, Elf!SetMem, StaticInv
  <2>2. CASE status' # "abort"
    <3>1. mem' = [a \in DOMAIN mem' |-> mem'[a]] /\ DOMAIN mem' = 0..(Top - 1)
      BY <2>2 DEF Elf!MapSegment, Elf!SetMem, StaticInv, Memory
    <3>2. \A a \in 0..(Top - 1) : mem'[a] \in Int
      BY <2>2, WrittenStatic
    <3> QED  BY <3>1, <3>2 DEF Memory
  <2> QED  BY <2>1, <2>2
<1>3. ASSUME status' = "map", Elf!WellPlaced(FALSE)', NEW k \in Elf!Loaded(FALSE)', k < i'
      PROVE  Elf!InPlace(ph[k])'
  <2>1. Elf!WellPlaced(FALSE) /\ k \in Elf!Loaded(FALSE)
    BY <1>1, <1>3 DEF Elf!WellPlaced, Elf!Loaded
  <2>2. k <= i
    BY <1>1, <1>3, <2>1 DEF Elf!Loaded, StaticInv
  <2> QED  BY <1>3, <2>1, <2>2, StaticLoads, Zenon
<1>4. Elf!StackReadable' /\ Elf!RoomSuffices'
  BY <1>1 DEF Elf!StackReadable, Elf!RoomSuffices
<1> QED  BY <1>1, <1>2, <1>3, <1>4, Zenon DEF StaticInv

\* The pushes do not touch the image.
LEMMA ImageKept ==
  ASSUME StaticInv, UNCHANGED <<ph, mem>>, status \in {"map", "envp"},
         status' # "map" \/ (status = "map" /\ i' = i + 1 /\ ~ph[i].load),
         status = "map" /\ status' # "map" => i > Len(ph),
         Elf!WellPlaced(FALSE)', NEW k \in Elf!Loaded(FALSE)', k < i' \/ status' # "map"
  PROVE  Elf!InPlace(ph[k])'
<1>1. Elf!WellPlaced(FALSE) /\ k \in Elf!Loaded(FALSE)
  BY DEF Elf!WellPlaced, Elf!Loaded
<1>2. k \in Nat /\ k <= Len(ph) /\ ph[k].load /\ i \in Nat /\ Len(ph) \in Nat
  BY <1>1 DEF Elf!Loaded, StaticInv
<1>3. k < i \/ status # "map"
  BY <1>2
<1>4. Elf!InPlace(ph[k])
  BY <1>1, <1>3, Zenon DEF StaticInv
<1> QED  BY <1>4 DEF Elf!InPlace

\* What a word on the stack may be.
LEMMA Words == /\ \A w \in Nat : w \in Word
               /\ \A w \in Strings : w \in Word
               /\ "NULL" \in Word /\ "AT_RANDOM" \in Word /\ "AT_NULL" \in Word
  BY DEF Word

\* A push adds one word and changes none.
LEMMA Push == ASSUME NEW s \in Seq(Word), NEW w \in Word
              PROVE  /\ Append(s, w) \in Seq(Word)
                     /\ Len(Append(s, w)) = Len(s) + 1 /\ Len(s) \in Nat
                     /\ Append(s, w)[Len(s) + 1] = w
                     /\ \A x \in 1..Len(s) : Append(s, w)[x] = s[x]
  OBVIOUS

\* A segment of another type keeps the invariant.
LEMMA StaticSkips == StaticInv /\ Elf!SkipSegment => StaticInv'
<1> SUFFICES ASSUME StaticInv, Elf!SkipSegment  PROVE StaticInv'
  OBVIOUS
<1>1. /\ status = "map" /\ UNCHANGED <<ph, argv, envp, mem, stack, status>> /\ i' = i + 1
      /\ ~ph[i].load /\ i \in Nat /\ i' \in Nat \ {0} /\ stack = << >>
  BY DEF Elf!SkipSegment, StaticInv
<1>2. Elf!WellPlaced(FALSE)' => \A k \in Elf!Loaded(FALSE)' : k < i' => Elf!InPlace(ph[k])'
  BY <1>1, ImageKept, Zenon
<1>3. Elf!StackReadable' /\ Elf!RoomSuffices'
  BY <1>1 DEF Elf!StackReadable, Elf!RoomSuffices
<1> QED  BY <1>1, <1>2, <1>3, Zenon DEF StaticInv

\* The pushes of argc and argv (loader-static.c:48-55) keep the invariant.
LEMMA StaticArgs == StaticInv /\ Elf!PushArgs => StaticInv'
<1> SUFFICES ASSUME StaticInv, Elf!PushArgs  PROVE StaticInv'
  OBVIOUS
<1>1. /\ status = "map" /\ status' = "envp" /\ UNCHANGED <<ph, argv, envp, mem>> /\ i' = 1
      /\ i > Len(ph) /\ stack' = [k \in 1..(Len(argv) + 2) |->
                                 IF k = 1 THEN Len(argv) ELSE Elf!Argument(k - 1)]
      /\ argv \in Seq(Strings) /\ Len(argv) \in Nat /\ Len(envp) \in Nat
  BY DEF Elf!PushArgs, StaticInv
<1>2. Elf!WellPlaced(FALSE)' => \A k \in Elf!Loaded(FALSE)' : Elf!InPlace(ph[k])'
  BY <1>1, ImageKept, Zenon
<1>3. ArgsPushed' /\ Len(stack') = Len(argv) + 2
  <2>1. \A k \in 1..(Len(argv) + 2) : stack'[k] \in Word
    <3>1. \A k \in 1..(Len(argv) + 1) : Elf!Argument(k) \in Word
      <4>1. \A k \in 1..Len(argv) : argv[k] \in Strings
        BY <1>1
      <4>2. \A k \in 1..(Len(argv) + 1) : k <= Len(argv) => k \in 1..Len(argv)
        BY <1>1
      <4> QED  BY <4>1, <4>2, Words DEF Elf!Argument
    <3> QED  BY <1>1, <3>1, Words
  <2>2. stack' \in Seq(Word) /\ Len(stack') = Len(argv) + 2
    BY <1>1, <2>1
  <2>3. stack'[1] = Len(argv)
    BY <1>1
  <2>4. \A k \in 1..(Len(argv) + 1) : stack'[k + 1] = Elf!Argument(k)
    BY <1>1
  <2>5. \A k \in 1..(Len(argv) + 1) : stack'[k + 1] = Elf!Argument(k)'
    BY <1>1, <2>4 DEF Elf!Argument
  <2> QED  BY <1>1, <2>2, <2>3, <2>5 DEF ArgsPushed
<1>4. EnvpPushed'
  <2>1. Pushed' = {} /\ KeptBefore' = {}
    <3>1. Len(stack') = Len(argv) + 2
      BY <1>3
    <3> QED  BY <1>1, <3>1 DEF Pushed, KeptBefore
  <2>2. [x \in {} |-> x] \in [{} -> {}]
    OBVIOUS
  <2> QED  BY <2>1, <2>2, Zenon DEF EnvpPushed
<1>5. /\ Elf!StackReadable' /\ Elf!RoomSuffices' /\ (i <= Len(envp) + 1)'
      /\ i' \in Nat \ {0}
  BY <1>1 DEF Elf!StackReadable, Elf!RoomSuffices
<1>6. Len(stack') <= Len(argv') + 1 + i'
  BY <1>1, <1>3
<1> QED  BY <1>1, <1>2, <1>3, <1>4, <1>5, <1>6, Zenon DEF StaticInv

\* The push of a string of envp, or its omission (56-60), keeps the invariant.
LEMMA StaticEnv == StaticInv /\ Elf!PushEnv => StaticInv'
<1> SUFFICES ASSUME StaticInv, Elf!PushEnv  PROVE StaticInv'
  OBVIOUS
<1> DEFINE n == Len(argv)
           L == Len(stack)
<1>1. /\ status = "envp" /\ UNCHANGED <<ph, argv, envp, mem, status>> /\ i' = i + 1
      /\ i \in Nat \ {0} /\ i <= Len(envp) /\ Len(envp) \in Nat /\ n \in Nat
      /\ stack' = IF envp[i] \in Verbose THEN stack ELSE Append(stack, envp[i])
      /\ envp \in Seq(Strings) /\ envp[i] \in Strings
  BY DEF Elf!PushEnv, StaticInv
<1>2. Elf!WellPlaced(FALSE)' => \A k \in Elf!Loaded(FALSE)' : Elf!InPlace(ph[k])'
  BY <1>1, ImageKept, Zenon
<1>3. ArgsPushed /\ L \in Nat /\ n + 2 <= L /\ L <= n + 1 + i
  BY <1>1 DEF StaticInv, ArgsPushed
<1>4. PICK g \in [Pushed -> KeptBefore] :
             /\ \A x \in Pushed : stack[x] = envp[g[x]]
             /\ \A x, y \in Pushed : x < y => g[x] < g[y]
             /\ \A k \in KeptBefore : \E x \in Pushed : g[x] = k
  BY <1>1 DEF StaticInv, EnvpPushed
<1>5. /\ Elf!StackReadable' /\ Elf!RoomSuffices' /\ (i <= Len(envp) + 1)'
      /\ i' \in Nat \ {0}
  BY <1>1 DEF Elf!StackReadable, Elf!RoomSuffices
<1>6. CASE envp[i] \in Verbose
  <2>1. stack' = stack /\ KeptBefore' = KeptBefore /\ Pushed' = Pushed
    BY <1>1, <1>6 DEF KeptBefore, Pushed
  <2>2. ArgsPushed' /\ EnvpPushed'
    <3>1. ArgsPushed'
      BY <1>1, <1>3, <2>1 DEF ArgsPushed, Elf!Argument
    <3>2. EnvpPushed
      BY <1>1 DEF StaticInv
    <3> QED  BY <1>1, <2>1, <3>1, <3>2 DEF EnvpPushed
  <2>3. Len(stack') <= Len(argv') + 1 + i'
    BY <1>1, <1>3, <2>1
  <2> QED  BY <1>1, <1>2, <1>5, <2>2, <2>3, Zenon DEF StaticInv
<1>7. CASE envp[i] \notin Verbose
  <2>1. /\ Len(stack') = L + 1 /\ stack' \in Seq(Word)
        /\ stack'[L + 1] = envp[i] /\ \A x \in 1..L : stack'[x] = stack[x]
    <3>1. stack \in Seq(Word) /\ envp[i] \in Word /\ stack' = Append(stack, envp[i])
      BY <1>1, <1>3, <1>7, Words DEF ArgsPushed
    <3> QED  BY <3>1, Push, Zenon
  <2>2. ArgsPushed'
    BY <1>1, <1>3, <2>1 DEF ArgsPushed, Elf!Argument
  <2>3. KeptBefore' = KeptBefore \union {i} /\ \A k \in KeptBefore : k < i /\ k \in Nat
    BY <1>1, <1>7 DEF KeptBefore
  <2>4. /\ Pushed' = Pushed \union {L + 1} /\ L + 1 \notin Pushed
        /\ \A x \in Pushed : x < L + 1 /\ x \in 1..L
    BY <1>1, <1>3, <2>1 DEF Pushed
  <2> DEFINE h == [x \in Pushed' |-> IF x = L + 1 THEN i ELSE g[x]]
  <2>5. h \in [Pushed' -> KeptBefore']
    BY <1>4, <2>3, <2>4
  <2>6. \A x \in Pushed' : stack'[x] = envp'[h[x]]
    BY <1>1, <1>4, <2>1, <2>4
  <2>7. \A x, y \in Pushed' : x < y => h[x] < h[y]
    <3> SUFFICES ASSUME NEW x \in Pushed', NEW y \in Pushed', x < y  PROVE h[x] < h[y]
      OBVIOUS
    <3>1. x \in Pushed
      BY <1>3, <2>4
    <3>2. h[x] = g[x] /\ g[x] \in KeptBefore
      BY <1>4, <2>4, <3>1
    <3>3. CASE y = L + 1
      BY <2>3, <3>2, <3>3
    <3>4. CASE y # L + 1
      BY <1>4, <2>4, <3>1, <3>2, <3>4
    <3> QED  BY <3>3, <3>4
  <2>8. \A k \in KeptBefore' : \E x \in Pushed' : h[x] = k
    BY <1>4, <2>3, <2>4
  <2>9. EnvpPushed'
    BY <2>5, <2>6, <2>7, <2>8, Zenon DEF EnvpPushed
  <2>10. Len(stack') <= Len(argv') + 1 + i'
    BY <1>1, <1>3, <2>1
  <2> QED  BY <1>1, <1>2, <1>5, <2>2, <2>9, <2>10, Zenon DEF StaticInv
<1> QED  BY <1>6, <1>7

\* The end of the stack and the jump (61-70) keep the invariant.
LEMMA StaticJumps == StaticInv /\ Elf!execve_ => StaticInv'
<1> SUFFICES ASSUME StaticInv, Elf!execve_  PROVE StaticInv'
  OBVIOUS
<1> DEFINE n == Len(argv)
           L == Len(stack)
<1>1. /\ status = "envp" /\ status' = "started" /\ UNCHANGED <<ph, argv, envp, mem, i>>
      /\ i = Len(envp) + 1 /\ Len(envp) \in Nat /\ n \in Nat
      /\ stack' = Append(Append(Append(stack, "NULL"), "AT_RANDOM"), "AT_NULL")
      /\ argv \in Seq(Strings) /\ envp \in Seq(Strings)
  <2>1. /\ status = "envp" /\ status' = "started" /\ UNCHANGED <<ph, argv, envp, mem, i>>
        /\ i > Len(envp)
        /\ stack' = Append(Append(Append(stack, "NULL"), "AT_RANDOM"), "AT_NULL")
    BY Zenon DEF Elf!execve_
  <2>2. argv \in Seq(Strings) /\ envp \in Seq(Strings) /\ i \in Nat /\ i <= Len(envp) + 1
    BY <2>1 DEF StaticInv
  <2> QED  BY <2>1, <2>2
<1>2. Elf!WellPlaced(FALSE)' => \A k \in Elf!Loaded(FALSE)' : Elf!InPlace(ph[k])'
  BY <1>1, ImageKept, Zenon
<1>3. ArgsPushed /\ L \in Nat /\ n + 2 <= L /\ EnvpPushed
  BY <1>1 DEF StaticInv, ArgsPushed
<1>4. PICK u : u = Append(stack, "NULL")
  BY Zenon
<1>5. PICK w : w = Append(u, "AT_RANDOM")
  BY Zenon
<1>6. /\ u \in Seq(Word) /\ Len(u) = L + 1 /\ u[L + 1] = "NULL"
      /\ \A x \in 1..L : u[x] = stack[x]
  <2>1. stack \in Seq(Word) /\ "NULL" \in Word
    BY <1>3, Words DEF ArgsPushed
  <2> QED  BY <1>4, <2>1, Push, Zenon
<1>7. /\ w \in Seq(Word) /\ Len(w) = L + 2 /\ w[L + 2] = "AT_RANDOM"
      /\ \A x \in 1..(L + 1) : w[x] = u[x]
  <2>1. /\ w \in Seq(Word) /\ Len(w) = Len(u) + 1 /\ w[Len(u) + 1] = "AT_RANDOM"
        /\ \A x \in 1..Len(u) : w[x] = u[x]
    BY <1>5, <1>6, Push, Words
  <2> QED  BY <1>3, <1>6, <2>1
<1>8. stack' = Append(w, "AT_NULL")
  BY <1>1, <1>4, <1>5
<1>9. /\ stack' \in Seq(Word) /\ Len(stack') = L + 3 /\ stack'[L + 3] = "AT_NULL"
      /\ \A x \in 1..(L + 2) : stack'[x] = w[x]
  <2>1. /\ stack' \in Seq(Word) /\ Len(stack') = Len(w) + 1
        /\ stack'[Len(w) + 1] = "AT_NULL" /\ \A x \in 1..Len(w) : stack'[x] = w[x]
    BY <1>7, <1>8, Push, Words
  <2> QED  BY <1>3, <1>7, <2>1
<1>10. /\ stack'[L + 1] = "NULL" /\ stack'[L + 2] = "AT_RANDOM"
       /\ \A x \in 1..L : stack'[x] = stack[x]
  BY <1>3, <1>6, <1>7, <1>9
<1>11. stack'[1] = n /\ n' = n
  BY <1>1, <1>3, <1>10 DEF ArgsPushed
<1>12. \A k \in 1..(n + 1) : stack'[k + 1] = Elf!Argument(k)'
  BY <1>1, <1>3, <1>10 DEF ArgsPushed, Elf!Argument
<1>13. (n + 3)..((L + 1) - 1) = Pushed /\ Elf!Kept' = KeptBefore /\ \A x \in Pushed : x \in 1..L
  BY <1>1, <1>3 DEF Pushed, Elf!Kept, KeptBefore
<1>14. PICK g \in [Pushed -> KeptBefore] :
             /\ \A x \in Pushed : stack[x] = envp[g[x]]
             /\ \A x, y \in Pushed : x < y => g[x] < g[y]
             /\ \A k \in KeptBefore : \E x \in Pushed : g[x] = k
  BY <1>3 DEF EnvpPushed
<1>15. PICK a, b \in Nat : a = n + 3 /\ b = L + 1
  BY <1>1, <1>3
<1>16. a..(b - 1) = Pushed /\ b \in a..(Len(stack') - 2)
  BY <1>1, <1>3, <1>9, <1>13, <1>15
<1>17. \A x \in Pushed : stack'[x] = envp'[g[x]] /\ g[x] \in KeptBefore
  BY <1>1, <1>10, <1>13, <1>14
<1>18. Elf!EnvpFrom(a, b)'
  <2>1. /\ g \in [a..(b - 1) -> Elf!Kept']
        /\ \A x \in a..(b - 1) : stack'[x] = envp'[g[x]]
        /\ \A x, y \in a..(b - 1) : x < y => g[x] < g[y]
        /\ \A k \in Elf!Kept' : \E x \in a..(b - 1) : g[x] = k
    BY <1>13, <1>14, <1>16, <1>17, Zenon
  <2> QED  BY <2>1, Zenon DEF Elf!EnvpFrom
<1>19. \A k \in a..(b - 1) : stack'[k] # "NULL"
  <2>1. \A k \in KeptBefore : envp[k] # "NULL" /\ envp' = envp
    BY <1>1, StringsAssumption DEF KeptBefore
  <2> QED  BY <1>16, <1>17, <2>1, Zenon
<1>20. stack'[b] = "NULL" /\ stack'[b + 1] = "AT_RANDOM" /\ stack'[b + 2] = "AT_NULL"
  BY <1>3, <1>9, <1>10, <1>15
<1>21. \E end \in a..(Len(stack') - 2) :
           /\ Elf!EnvpFrom(a, end)' /\ stack'[end] = "NULL"
           /\ \A k \in a..(end - 1) : stack'[k] # "NULL"
           /\ stack'[end + 1] = "AT_RANDOM" /\ stack'[end + 2] = "AT_NULL"
  BY <1>16, <1>18, <1>19, <1>20, Zenon
<1>22. Elf!StackReadable'
  BY <1>1, <1>11, <1>12, <1>15, <1>21, Zenon DEF Elf!StackReadable
<1>23. Elf!RoomSuffices'
  BY <1>1 DEF Elf!RoomSuffices
<1> QED  BY <1>1, <1>2, <1>22, <1>23, Zenon DEF StaticInv

\* Up to Room - 7 strings are not pushed past the end of the stack (46-64):
\* each of them takes one word at most.
LEMMA StaticOverruns == StaticInv /\ Elf!Overrun => StaticInv'
<1> SUFFICES ASSUME StaticInv, Elf!Overrun  PROVE StaticInv'
  OBVIOUS
<1>1. /\ status \in {"map", "envp"} /\ status' = "overrun"
      /\ UNCHANGED <<ph, argv, envp, mem, stack, i>>
      /\ Len(argv) \in Nat /\ Len(envp) \in Nat /\ i \in Nat
  BY DEF Elf!Overrun, StaticInv
<1>2. Len(stack) + Elf!Pushes > Room
  <2>1. CASE status = "map"
    <3>1. Len(stack) = 0 /\ Elf!Pushes = Len(argv) + 2
      BY <2>1 DEF StaticInv, Elf!Pushes
    <3> QED  BY <1>1, <3>1, StringsAssumption DEF Elf!Overrun, Elf!Fits
  <2>2. CASE status = "envp"
    <3>1. Len(stack) \in Nat
      BY <2>2 DEF StaticInv, ArgsPushed
    <3>2. Elf!Pushes \in Nat
      BY <2>2 DEF Elf!Pushes
    <3> QED  BY <3>1, <3>2, StringsAssumption DEF Elf!Overrun, Elf!Fits
  <2> QED  BY <1>1, <2>1, <2>2
<1>3. Len(argv) + Len(envp) + 7 > Room
  <2>1. CASE status = "map"
    <3>1. Len(stack) = 0 /\ Elf!Pushes = Len(argv) + 2
      BY <2>1 DEF StaticInv, Elf!Pushes
    <3> QED  BY <1>1, <1>2, <3>1, StringsAssumption
  <2>2. CASE status = "envp"
    <3>1. Len(stack) \in Nat /\ Len(stack) <= Len(argv) + 1 + i /\ i <= Len(envp) + 1
      BY <2>2 DEF StaticInv, ArgsPushed
    <3>2. Elf!Pushes \in Nat /\ Elf!Pushes <= 5 /\ (i <= Len(envp) => Elf!Pushes <= 1)
      BY <2>2 DEF Elf!Pushes
    <3> QED  BY <1>1, <1>2, <3>1, <3>2, StringsAssumption
  <2> QED  BY <1>1, <2>1, <2>2
<1>4. Elf!StackReadable' /\ Elf!RoomSuffices'
  BY <1>1, <1>3 DEF Elf!StackReadable, Elf!RoomSuffices
<1> QED  BY <1>1, <1>4 DEF StaticInv

\* Every step of loader-static.c keeps the invariant.
LEMMA StaticStep == StaticInv /\ Elf!Static => StaticInv'
  BY StaticMaps, StaticSkips, StaticArgs, StaticEnv, StaticJumps, StaticOverruns DEF Elf!Static

\* The invariant is what was to be shown of loader-static.c.
LEMMA StaticImplies ==
  StaticInv => Elf!ImageInPlace(FALSE) /\ Elf!StackReadable /\ Elf!RoomSuffices
  BY Zenon DEF StaticInv, Elf!ImageInPlace

\* A step of nothing keeps the invariant of bootmain.c.
LEMMA BootStutters == BootInv /\ UNCHANGED <<ph, mem, i, status>> => BootInv'
<1> SUFFICES ASSUME BootInv, UNCHANGED <<ph, mem, i, status>>  PROVE BootInv'
  OBVIOUS
<1>1. Elf!HeaderIntact' <=> Elf!HeaderIntact
  BY DEF Elf!HeaderIntact
<1>2. /\ Elf!Meets(Elf!HeaderAt)' <=> Elf!Meets(Elf!HeaderAt)
      /\ Elf!Meets(Elf!ArgumentsAt)'
           <=> Elf!Meets(Elf!ArgumentsAt)
  BY DEF Elf!Meets
<1>3. Elf!WellPlaced(TRUE)' <=> Elf!WellPlaced(TRUE)
  BY DEF Elf!WellPlaced, Elf!Loaded
<1>4. \A s : Elf!InPlace(s)' <=> Elf!InPlace(s)
  BY DEF Elf!InPlace
<1> QED  BY <1>1, <1>2, <1>3, <1>4, Zenon DEF BootInv, Memory

\* A step of nothing keeps the invariant of loader-static.c.
LEMMA StaticStutters ==
  StaticInv /\ UNCHANGED <<ph, argv, envp, mem, stack, i, status>> => StaticInv'
<1> SUFFICES ASSUME StaticInv, UNCHANGED <<ph, argv, envp, mem, stack, i, status>>
             PROVE  StaticInv'
  OBVIOUS
<1>1. ArgsPushed' <=> ArgsPushed
  BY DEF ArgsPushed, Elf!Argument
<1>2. EnvpPushed' <=> EnvpPushed
  BY DEF EnvpPushed, Pushed, KeptBefore
<1>3. (Elf!StackReadable' <=> Elf!StackReadable) /\ (Elf!RoomSuffices' <=> Elf!RoomSuffices)
  BY DEF Elf!StackReadable, Elf!Argument, Elf!EnvpFrom, Elf!Kept, Elf!RoomSuffices
<1>4. Elf!Loaded(FALSE)' = Elf!Loaded(FALSE) /\ Elf!WellPlaced(FALSE)' = Elf!WellPlaced(FALSE)
  BY DEF Elf!WellPlaced, Elf!Loaded
<1>5. \A s : Elf!InPlace(s)' <=> Elf!InPlace(s)
  BY DEF Elf!InPlace
<1> QED  BY <1>1, <1>2, <1>3, <1>4, <1>5, Zenon DEF StaticInv, Memory

\* the inductive invariant of the two loaders of ELF files
ElfInv == /\ program = "bootmain" => BootInv
          /\ program = "loader-static" => StaticInv

\* It holds from the start of every loader on.
THEOREM ElfInvariant == AllSpec => []ElfInv
<1>1. AllInit => ElfInv
  BY BootStart, StaticStart DEF AllInit, ElfInv
<1>2. ElfInv /\ [AllNext]_all => ElfInv'
  <2> SUFFICES ASSUME ElfInv, [AllNext]_all  PROVE ElfInv'
    OBVIOUS
  <2>1. CASE InDl /\ Dl!Next
    BY <2>1 DEF InDl, ElfInv
  <2>2. CASE InBoot /\ Elf!Boot
    <3>1. program = "bootmain" /\ program' = "bootmain"
      BY <2>2 DEF InBoot
    <3>2. BootInv
      BY <3>1 DEF ElfInv
    <3>3. BootInv'
      BY <2>2, <3>2, BootStep, Zenon
    <3> QED  BY <3>1, <3>3 DEF ElfInv
  <2>3. CASE InStatic /\ Elf!Static
    <3>1. program = "loader-static" /\ program' = "loader-static"
      BY <2>3 DEF InStatic
    <3>2. StaticInv
      BY <3>1 DEF ElfInv
    <3>3. StaticInv'
      BY <2>3, <3>2, StaticStep, Zenon
    <3> QED  BY <3>1, <3>3 DEF ElfInv
  <2>4. CASE UNCHANGED all
    <3>1. UNCHANGED <<program, argv, status, stack, ph, envp, mem, i>>
      BY <2>4 DEF all, elfVars
    <3> QED  BY <3>1, BootStutters, StaticStutters DEF ElfInv
  <2> QED  BY <2>1, <2>2, <2>3, <2>4 DEF AllNext, Over
<1> QED  BY <1>1, <1>2, PTL DEF AllSpec

\* bootmain.c and loader-static.c start a program with its image in place and
\* hand over its arguments, although they write whole sectors and pages around
\* each segment (bootmain.c:26-40, 73-75, loader-static.c:32-64), unless a
\* segment falls on the headers or the arguments, or the strings are more than
\* there is room for.
THEOREM LoadingImageInPlace == AllSpec => []ImageInPlace
<1>1. ElfInv => ImageInPlace
  <2> SUFFICES ASSUME ElfInv  PROVE ImageInPlace
    OBVIOUS
  <2>1. ASSUME program = "bootmain"  PROVE Elf!ImageInPlace(TRUE) /\ Elf!HandsOver
    <3>1. BootInv
      BY <2>1 DEF ElfInv
    <3> QED  BY <3>1, BootImplies, Zenon
  <2>2. ASSUME program = "loader-static"
        PROVE  Elf!ImageInPlace(FALSE) /\ Elf!StackReadable /\ Elf!RoomSuffices
    <3>1. StaticInv
      BY <2>2 DEF ElfInv
    <3> QED  BY <3>1, StaticImplies, Zenon
  <2> QED  BY <2>1, <2>2, Zenon DEF ImageInPlace
<1> QED  BY <1>1, ElfInvariant, PTL
=============================================================================
