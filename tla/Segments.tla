------------------------------ MODULE Segments -----------------------------
(***************************************************************************)
(* The two loaders of ELF files: virtualization/bootmain.c, which reads    *)
(* sectors from the disk, and virtualization/loader-static.c, which maps   *)
(* pages.  Both take an address down to the start of its sector or page,   *)
(* and so touch memory that the segment does not ask for.                  *)
(*                                                                         *)
(* A byte is known by where it comes from: k + 1 is byte k of the file, a  *)
(* negative number what is on the disk before the file, 0 a zero.          *)
(***************************************************************************)
EXTENDS Integers, Sequences

CONSTANTS P,            \* SECTSIZE, or p_align: the size of a page
          Size,         \* the length of the file
          Top,          \* memory is 0..Top-1
          ARGSIZE,
          MAINARG_ADDR,
          Header,       \* 0x8000, where bootmain reads the header to
          HDRSIZE,      \* how much it reads
          Headers,      \* which bytes of that it looks at: the ELF header and ph
          Tables,       \* the program header tables
          Argvs, Envps, \* what execve_ is called with
          Verbose,      \* the strings of envp that have a '_'
          Room          \* the words between sp and the end of its stack

VARIABLES ph,           \* the program header table
          argv, envp,   \* of execve_
          mem,          \* mem[a]: the byte at a
          stack,        \* what execve_ has pushed
          i,            \* the next segment or string of envp
          status
vars == <<ph, argv, envp, mem, stack, i, status>>

Old == -99              \* what was in memory before
Bus == -98              \* a page that lies beyond the end of the file

Down(a) == (a \div P) * P
\* the bytes from a up to b, and those of the pages that they are in
Bytes(a, b) == a..(b - 1)
Pages(a, b) == {x \in 0..(Top - 1) : Down(a) <= x /\ Down(x) < b}

Start == /\ ph \in Tables
         /\ mem = [a \in 0..(Top - 1) |-> Old]
         /\ stack = << >> /\ i = 1

SetMem(S, Byte(_)) == mem' = [a \in DOMAIN mem |-> IF a \in S THEN Byte(a) ELSE mem[a]]
-----------------------------------------------------------------------------
(* bootmain.c *)

BootInit == Start /\ status = "arguments" /\ argv = << >> /\ envp = << >>

\* The byte x of sector s, as read_disk puts it into memory; the boot sector
\* and the arguments come before the file.
Disk(s, x) == LET k == s * P + x - (P + ARGSIZE) IN IF k < 0 THEN k ELSE k + 1

NoBootSector(buf, nbytes, disk_offset, a) ==
  LET sect == (disk_offset \div P) + (ARGSIZE \div P)
  IN  Disk(sect + (a - Down(buf)) \div P, a % P)

\* what copy_from_disk puts at a
Copied(buf, nbytes, disk_offset, a) ==
  LET sect == (disk_offset \div P) + (ARGSIZE \div P) + 1
  IN  Disk(sect + (a - Down(buf)) \div P, a % P)

LoadArguments ==
  /\ status = "arguments" /\ status' = "header"
  /\ SetMem(Pages(MAINARG_ADDR, MAINARG_ADDR + ARGSIZE),
            LAMBDA a : Copied(MAINARG_ADDR, ARGSIZE, -ARGSIZE, a))
  /\ UNCHANGED <<ph, argv, envp, stack, i>>

LoadHeader == /\ status = "header" /\ status' = "boot"
              /\ SetMem(Pages(Header, Header + HDRSIZE), LAMBDA a : Copied(Header, HDRSIZE, 0, a))
              /\ UNCHANGED <<ph, argv, envp, stack, i>>

\* elf->e_phnum, ph[i] and elf->e_entry are what the file says
HeaderIntact == \A x \in Headers : mem[Header + x] = x + 1

\* a turn of load_elf64 or load_elf32: load_program, for a segment of any type
load_program ==
  /\ status = "boot" /\ HeaderIntact /\ i <= Len(ph)
  /\ LET s == ph[i] IN
       SetMem(Pages(s.addr, s.addr + s.filesz) \union Bytes(s.addr + s.filesz, s.addr + s.memsz),
              LAMBDA a : IF a \in Bytes(s.addr + s.filesz, s.addr + s.memsz) THEN 0
                         ELSE Copied(s.addr, s.filesz, s.offset, a))
  /\ i' = i + 1
  /\ UNCHANGED <<ph, argv, envp, stack, status>>

\* the call of e_entry
load_kernel == /\ status = "boot" /\ HeaderIntact /\ i > Len(ph)
               /\ status' = "started"
               /\ UNCHANGED <<ph, argv, envp, mem, stack, i>>

\* A segment has overwritten the headers that the loop runs over: whatever is
\* read there is taken for the number of segments, the next one or the entry.
Lost == /\ status = "boot" /\ ~HeaderIntact
        /\ status' = "lost"
        /\ UNCHANGED <<ph, argv, envp, mem, stack, i>>
-----------------------------------------------------------------------------
(* loader-static.c *)

StaticInit == Start /\ status = "map" /\ argv \in Argvs /\ envp \in Envps

\* mmap gives zeros after the end of the file in its last page
Mapped(s, a) == LET k == Down(s.offset) + a - Down(s.addr)
                IN  IF k < Size THEN k + 1 ELSE IF Down(k) < Size THEN 0 ELSE Bus

Bss(s) == Bytes(s.addr + s.filesz, s.addr + s.memsz)
Faults(s) == \E a \in Bss(s) : ~s.writable \/ Mapped(s, a) = Bus

\* mmap and memset of one PT_LOAD; the memset may be a SIGSEGV or a SIGBUS
MapSegment ==
  LET s == ph[i] IN
  /\ status = "map" /\ i <= Len(ph) /\ s.load
  /\ \/ s.memsz + (s.addr % P) = 0 /\ status' = "abort" /\ UNCHANGED mem
     \/ /\ s.memsz + (s.addr % P) > 0
        /\ SetMem(Pages(s.addr, s.addr + s.memsz),
                  LAMBDA a : IF a \in Bss(s) THEN 0 ELSE Mapped(s, a))
        /\ status' = IF Faults(s) THEN "killed" ELSE "map"
  /\ i' = i + 1
  /\ UNCHANGED <<ph, argv, envp, stack>>

SkipForEver == status = "map" /\ i <= Len(ph) /\ ~ph[i].load /\ UNCHANGED vars

SkipSegment == /\ status = "map" /\ i <= Len(ph) /\ ~ph[i].load
               /\ i' = i + 1
               /\ UNCHANGED <<ph, argv, envp, mem, stack, status>>

\* argv is ended by a null pointer
Argument(k) == IF k <= Len(argv) THEN argv[k] ELSE "NULL"

\* the words of the next pushes: argc and argv, a string of envp, the end
Pushes == CASE status = "map" -> Len(argv) + 2
            [] status = "envp" /\ i <= Len(envp) -> IF envp[i] \in Verbose THEN 0 ELSE 1
            [] OTHER -> 5
Fits == Len(stack) + Pushes <= Room

\* argc, and argv with its NULL
PushArgs == /\ status = "map" /\ i > Len(ph) /\ Fits
            /\ stack' = [k \in 1..(Len(argv) + 2) |->
                           IF k = 1 THEN Len(argv) ELSE Argument(k - 1)]
            /\ status' = "envp" /\ i' = 1
            /\ UNCHANGED <<ph, argv, envp, mem>>

\* the next string of envp, unless it is verbose
PushEnv == /\ status = "envp" /\ i <= Len(envp) /\ Fits
           /\ stack' = IF envp[i] \in Verbose THEN stack ELSE Append(stack, envp[i])
           /\ i' = i + 1
           /\ UNCHANGED <<ph, argv, envp, mem, status>>

\* the 0 that ends envp, the entries of auxv (of two words each), and the jump
execve_ ==
  /\ status = "envp" /\ i > Len(envp) /\ Fits
  /\ stack' = Append(Append(Append(stack, "NULL"), "AT_RANDOM"), "AT_NULL")
  /\ status' = "started"
  /\ UNCHANGED <<ph, argv, envp, mem, i>>

\* Nothing checks the room: what is pushed past the end of stack falls on
\* other variables, and what follows is undefined.
Overrun == /\ (status = "map" /\ i > Len(ph)) \/ status = "envp"
           /\ ~Fits
           /\ status' = "overrun"
           /\ UNCHANGED <<ph, argv, envp, mem, stack, i>>

Boot == LoadArguments \/ LoadHeader \/ load_program \/ load_kernel \/ Lost
Static == MapSegment \/ SkipSegment \/ PushArgs \/ PushEnv \/ execve_ \/ Overrun
-----------------------------------------------------------------------------
Touched(s) == Pages(s.addr, s.addr + s.memsz)
PagesOf(S) == UNION {Pages(a, a + 1) : a \in S}

\* t, which comes after s in the table, does not harm s: they share no page,
\* or they lie in the file as they lie in memory and what they share is not
\* to be zero.
Apart(s, t) == \/ Touched(s) \intersect Touched(t) = {}
               \/ /\ s.addr - s.offset = t.addr - t.offset
                  /\ PagesOf(Bss(s)) \intersect Touched(t) = {}
                  /\ Bytes(s.addr, s.addr + s.memsz) \intersect Bss(t) = {}

\* the segments that the loader does not skip
Loaded(boot) == {k \in DOMAIN ph : boot \/ ph[k].load}
WellPlaced(boot) == \A k \in Loaded(boot) :
                      /\ ph[k].addr % P = ph[k].offset % P
                      /\ \A j \in Loaded(boot) : k < j => Apart(ph[k], ph[j])

InPlace(s) == \A x \in 0..(s.memsz - 1) :
                mem[s.addr + x] = IF x < s.filesz THEN s.offset + x + 1 ELSE 0

\* A program is started with its image in place: every byte of a segment
\* comes from the file and the rest of it is zero, if the segments do not
\* harm each other by the pages they share (bootmain.c:26-40,
\* loader-static.c:32-40).
ImageInPlace(boot) == status = "started" /\ WellPlaced(boot) =>
                        \A k \in Loaded(boot) : InPlace(ph[k])

\* a segment, or a sector or page around it, lies over one of the addresses S
Meets(S) == \E k \in DOMAIN ph : Touched(ph[k]) \intersect S # {}
HeaderAt == {Header + x : x \in Headers}
ArgumentsAt == Bytes(MAINARG_ADDR, MAINARG_ADDR + ARGSIZE)

\* bootmain runs over the headers that it has read, and hands over its
\* arguments, unless a segment is loaded over them (bootmain.c:73-75).
HandsOver == /\ status = "lost" => Meets(HeaderAt)
             /\ status = "started" => \/ Meets(ArgumentsAt)
                                      \/ \A x \in 0..(ARGSIZE - 1) : mem[MAINARG_ADDR + x] = x - ARGSIZE

Kept == {k \in DOMAIN envp : envp[k] \notin Verbose}

\* From a up to b the stack has the strings that are kept, in their order.
EnvpFrom(a, b) == \E g \in [a..(b - 1) -> Kept] :
                    /\ \A x \in a..(b - 1) : stack[x] = envp[g[x]]
                    /\ \A x, y \in a..(b - 1) : x < y => g[x] < g[y]
                    /\ \A k \in Kept : \E x \in a..(b - 1) : g[x] = k

\* What the started program finds from its stack pointer on: as many
\* arguments as it is told and the strings of envp that are not verbose, in their
\* order, each list ended by a NULL (loader-static.c:50-64).
StackReadable ==
  status = "started" =>
    LET n == stack[1] IN
      /\ n = Len(argv) /\ \A k \in 1..(n + 1) : stack[k + 1] = Argument(k)
      /\ \E end \in (n + 3)..(Len(stack) - 2) :
           /\ EnvpFrom(n + 3, end) /\ stack[end] = "NULL"
           /\ \A k \in (n + 3)..(end - 1) : stack[k] # "NULL"
           /\ stack[end + 1] = "AT_RANDOM" /\ stack[end + 2] = "AT_NULL"

\* The room of 4096 bytes is enough for up to Room - 7 strings in argv and
\* envp, also when none of them is verbose (loader-static.c:46-64).
RoomSuffices == status = "overrun" => Len(argv) + Len(envp) + 7 > Room
=============================================================================
