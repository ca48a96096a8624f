----------------------------- MODULE MCLoading -----------------------------
(***************************************************************************)
(* The three loaders for TLC: dlbox.c, bootmain.c and loader-static.c.     *)
(* The initial state says which of them runs.                              *)
(***************************************************************************)
EXTENDS Integers, Sequences, FiniteSets

CONSTANTS Strings,                                             \* those that occur
          LIBS, SYMS, Inputs,                                  \* dlbox.c
          P, Size, Top, ARGSIZE, MAINARG_ADDR, Header, HDRSIZE, Headers,
          Tables, Argvs, Envps, Verbose, Room                  \* the others

\* dl.h: the arrays have some length, the tables of the files an end
Record == [type : {"+", "?", "#"}, name : Strings]
ASSUME RoomAssumption == LIBS \in Nat /\ SYMS \in Nat
ASSUME InputsAssumption ==
  \A in \in Inputs : /\ in.argv \in Seq(Strings) /\ IsFiniteSet(DOMAIN in.files)
                    /\ \A p \in DOMAIN in.files : in.files[p] \in Seq(Record)

\* bootmain.c:5-6, 67, 73-75: whole sectors, of which the arguments and the
\* header have none in common; the headers that are looked at are in what is read
ASSUME PageAssumption == P \in Nat \ {0} /\ Size \in Nat /\ Top \in Nat
ASSUME BootAssumption ==
  /\ \A x \in {ARGSIZE, MAINARG_ADDR, Header, HDRSIZE} : x \in Nat /\ x % P = 0
  /\ Headers \subseteq 0..(HDRSIZE - 1)
  /\ Header + HDRSIZE <= Top /\ MAINARG_ADDR + ARGSIZE <= Top
  /\ MAINARG_ADDR + ARGSIZE <= Header \/ Header + HDRSIZE <= MAINARG_ADDR

\* A segment is in the file as far as it is not zero, and in memory.
Segment == {s \in [load : BOOLEAN, writable : BOOLEAN, offset : Nat, addr : Nat,
                   filesz : Nat, memsz : Nat] :
              s.filesz <= s.memsz /\ s.offset + s.filesz <= Size /\ s.addr + s.memsz <= Top}
ASSUME TablesAssumption == \A t \in Tables : t \in Seq(Segment)

\* A string is not a null pointer; loader-static.c:46 leaves some room.
ASSUME StringsAssumption == /\ "NULL" \notin Strings
                            /\ \A s \in Argvs \union Envps : s \in Seq(Strings)
                            /\ Room \in Nat

VARIABLES program, argv, status, stack,
          cmd, files, path, maps, libs, syms, bound, entry,    \* dlbox.c
          ph, envp, mem, i                                     \* the others
dlVars == <<cmd, files, path, maps, libs, syms, bound, entry>>
elfVars == <<ph, envp, mem, i>>
all == <<program, argv, status, stack, dlVars, elfVars>>

MCStrings == {"main", "libh", "libc", "none", "hello", "putchar", "exit",
              "a", "b", "HOME", "SSH_TTY", "PATH"}

\* Three files: one that imports, a library that may load the other and one
\* that may load either, with and without what is asked for
Load(p) == [type |-> "+", name |-> p]
Import(s) == [type |-> "?", name |-> s]
Export(s) == [type |-> "#", name |-> s]
MainFile == {<<Load("libc"), Load("libh"), Import("hello"), Export("main")>>,
             <<Load("libh"), Import("hello"), Load("libc"), Import("putchar")>>,
             <<Import("hello"), Load("libh"), Export("main")>>}
LibHello == {<<Load("libc"), Import("putchar"), Export("hello")>>,
             <<Export("hello"), Load("main"), Import("putchar")>>,
             <<Export("hello"), Load("libc"), Load("none"), Load("main")>>}
LibC == {<<Export("putchar"), Export("exit")>>,
         <<Export("putchar"), Load("libh"), Import("hello")>>,
         <<Export("hello"), Export("putchar")>>}
MCInputs == {[cmd |-> c, argv |-> v, files |-> [main |-> m, libh |-> h, libc |-> l]] :
             c \in {"readdl", "interp"},
             v \in {<<"main">>, <<"libc", "main">>, <<"main", "main">>, <<"none">>},
             m \in MainFile, h \in LibHello, l \in LibC}

\* Two segments in a file of six bytes and the memory from the second half of
\* the first page of headers on, up to the arguments; ELF wants them to lie
\* alike in their pages
MCSegment == {s \in [load : BOOLEAN, writable : BOOLEAN, offset : 0..5, addr : 3..8,
                     filesz : 0..2, memsz : 0..3] :
                s.filesz <= s.memsz /\ s.offset + s.filesz <= 6 /\ s.addr % 2 = s.offset % 2}
First == {s \in MCSegment : s.load /\ s.memsz > 0 /\ s.addr < 6 /\ s.offset < 3}
Second == {s \in MCSegment : s.writable /\ s.addr > 3 /\ s.offset > 1}
MCTables == First \X Second
\* With room for eleven words there is enough of it, or it is exceeded by the
\* arguments, by a string of envp or by the end
MCArgvs == {<<"a", "b">>, [k \in 1..10 |-> "a"]}
MCEnvps == {<<"HOME", "SSH_TTY", "PATH">>, <<"HOME", "PATH", "HOME">>, [k \in 1..8 |-> "PATH"]}

Dl == INSTANCE Dlbox
Elf == INSTANCE Segments

NoDl == /\ cmd = "" /\ files = << >> /\ path = 0 /\ maps = << >> /\ libs = << >>
        /\ syms = << >> /\ bound = {} /\ entry = << >>
NoElf == ph = << >> /\ envp = << >> /\ mem = << >> /\ i = 0

AllInit == \/ program = "dlbox" /\ Dl!Init /\ NoElf
           \/ program = "bootmain" /\ Elf!BootInit /\ NoDl
           \/ program = "loader-static" /\ Elf!StaticInit /\ NoDl

InDl == program = "dlbox" /\ UNCHANGED <<program, elfVars>>
InBoot == program = "bootmain" /\ UNCHANGED <<program, dlVars>>
InStatic == program = "loader-static" /\ UNCHANGED <<program, dlVars>>

Ended == status \notin {"run", "arguments", "header", "boot", "map", "envp"}
Over == Ended /\ UNCHANGED all

AllNext == (InDl /\ Dl!Next) \/ (InBoot /\ Elf!Boot) \/ (InStatic /\ Elf!Static) \/ Over

\* The processor goes on.
AllSpec == AllInit /\ [][AllNext]_all /\ WF_all(AllNext)
-----------------------------------------------------------------------------
\* In dlbox.c a name means the same everywhere, and a library is mapped once,
\* or once more for each time it is given to main: also when libraries load
\* each other and when two of them export one name (dlbox.c:155-182).  The
\* assertions (159, 169, 181) hold for files that load what they import
\* first, in any order and nesting, while there is room.
LinksWell == program = "dlbox" => Dl!OneDefinition /\ Dl!NoAbort

\* bootmain.c and loader-static.c start a program with its image in place,
\* although they write whole sectors and pages around each segment, and hand
\* over its arguments (bootmain.c:26-40, 73-75, loader-static.c:32-64), unless
\* a segment falls on the headers or the arguments, or the strings are more
\* than there is room for.
ImageInPlace == /\ program = "bootmain" => Elf!ImageInPlace(TRUE) /\ Elf!HandsOver
                /\ program = "loader-static" => /\ Elf!ImageInPlace(FALSE)
                                                /\ Elf!StackReadable /\ Elf!RoomSuffices

\* Loading ends, also when libraries load each other (dlbox.c:172-182).
LoadingEnds == <>Ended
=============================================================================
