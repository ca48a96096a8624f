------------------------------- MODULE Dlbox -------------------------------
(***************************************************************************)
(* dl/dlbox.c: the loader of .dl files that readdl, objdump and interp     *)
(* share.  dlopen maps a file and runs down its records; a LOAD calls      *)
(* dlopen again, so that the calls form a stack.  A mapping is known by    *)
(* its number, an address in it by the record that exports it; a file that *)
(* is missing or not a .dl file is not in the domain of `files'.           *)
(***************************************************************************)
EXTENDS Integers, Sequences, FiniteSetsExt

CONSTANTS LIBS, SYMS,   \* the lengths of libs and syms
          Inputs        \* commands with their arguments and the files there are

VARIABLES cmd, argv,    \* the command and the paths given to it
          files,        \* files[path]: the records of a file
          path,         \* the next path of argv
          maps,         \* maps[h]: the path that mapping h is of
          stack,        \* the calls of dlopen: the mapping and the record, sym
          libs, syms,   \* the arrays up to their first empty slot
          bound,        \* the imports that have been resolved
          status, entry
vars == <<cmd, argv, files, path, maps, stack, libs, syms, bound, status, entry>>
tables == <<libs, syms, bound>>
input == <<cmd, argv, files>>

Init == /\ \E i \in Inputs : cmd = i.cmd /\ argv = i.argv /\ files = i.files
        /\ path = 1
        /\ maps = << >> /\ stack = << >>
        /\ libs = << >> /\ syms = << >> /\ bound = {}
        /\ status = "run" /\ entry = << >>

\* open, read, the magic, mmap: calls is the stack the new call is put on
dlopen(p, calls) ==
  IF p \in DOMAIN files
  THEN /\ maps' = Append(maps, p)
       /\ stack' = Append(calls, [h |-> Len(maps) + 1, sym |-> 1])
  ELSE maps' = maps /\ stack' = calls

\* the next path of main: dlopen_chk in the handler
dlopen_chk ==
  /\ status = "run" /\ stack = << >> /\ path <= Len(argv)
  /\ dlopen(argv[path], << >>)
  /\ path' = path + 1
  /\ status' = IF argv[path] \in DOMAIN files THEN "run" ELSE "exit(1)"
  /\ UNCHANGED <<input, tables, entry>>

MainReturns == /\ status = "run" /\ stack = << >> /\ path > Len(argv)
               /\ status' = "exit(0)"
               /\ UNCHANGED <<input, path, maps, stack, tables, entry>>
-----------------------------------------------------------------------------
f == stack[Len(stack)]
symtab == files[maps[f.h]]
name == symtab[f.sym].name

\* the switch on the type of the next record
Case(type) == /\ status = "run" /\ stack # << >>
              /\ f.sym <= Len(symtab) /\ symtab[f.sym].type = type
Advanced == [stack EXCEPT ![Len(stack)] = [h |-> f.h, sym |-> f.sym + 1]]
Assert0 == status' = "abort" /\ UNCHANGED <<maps, stack, tables>>

NotOpened ==
  /\ Case("+")
  /\ libs' = Append(libs, name)
  /\ stack' = Advanced
  /\ UNCHANGED <<input, path, maps, syms, bound, status, entry>>

Registered == \E k \in DOMAIN libs : libs[k] = name

\* The name is registered before its file is opened; whether that succeeds is
\* not looked at.
dlload ==
  /\ Case("+")
  /\ \/ Registered /\ stack' = Advanced /\ UNCHANGED <<maps, status, tables>>
     \/ /\ ~Registered /\ Len(libs) < LIBS
        /\ libs' = Append(libs, name)
        /\ dlopen(name, Advanced)
        /\ UNCHANGED <<status, syms, bound>>
     \/ ~Registered /\ Len(libs) = LIBS /\ Assert0
  /\ UNCHANGED <<input, path, entry>>

Matches(s) == {k \in DOMAIN syms : syms[k].name = s}
LatestMatch(s) == Max(Matches(s))

\* the first slot of that name
Match(s) == Min(Matches(s))

dlsym ==
  /\ Case("?")
  /\ \/ /\ Matches(name) # {}
        /\ bound' = bound \union {[name |-> name, addr |-> syms[Match(name)].addr]}
        /\ stack' = Advanced
        /\ UNCHANGED <<maps, libs, syms, status>>
     \/ Matches(name) = {} /\ Assert0
  /\ UNCHANGED <<input, path, entry>>

dlexport ==
  /\ Case("#")
  /\ \/ /\ Len(syms) < SYMS
        /\ syms' = Append(syms, [name |-> name, addr |-> <<f.h, f.sym>>])
        /\ stack' = Advanced
        /\ UNCHANGED <<maps, libs, bound, status>>
     \/ Len(syms) = SYMS /\ Assert0
  /\ UNCHANGED <<input, path, entry>>

Main == {k \in DOMAIN symtab : symtab[k].name = "main"}

\* dlopen returns; when it was called for a path of main, interp calls the
\* last symbol with the name main and exits with what it returns
Return ==
  /\ status = "run" /\ stack # << >> /\ f.sym > Len(symtab)
  /\ stack' = SubSeq(stack, 1, Len(stack) - 1)
  /\ \/ /\ Len(stack) = 1 /\ cmd = "interp" /\ Main # {}
        /\ status' = "exit(entry())" /\ entry' = <<f.h, Max(Main)>>
     \/ /\ Len(stack) > 1 \/ cmd # "interp" \/ Main = {}
        /\ UNCHANGED <<status, entry>>
  /\ UNCHANGED <<input, path, maps, tables>>

Next == dlopen_chk \/ MainReturns \/ dlload \/ dlsym \/ dlexport \/ Return
Spec == Init /\ [][Next]_vars
-----------------------------------------------------------------------------
Loads(p) == {files[p][k].name : k \in {j \in DOMAIN files[p] : files[p][j].type = "+"}}
Exports(p) == {files[p][k].name : k \in {j \in DOMAIN files[p] : files[p][j].type = "#"}}

\* p and what it loads, directly or not
Needed(p) == {q \in DOMAIN files : \A C \in SUBSET DOMAIN files :
                p \in C /\ (\A r \in C : Loads(r) \subseteq C) => q \in C}

\* Every file loads valid files and not itself, and what exports a symbol
\* before it imports that symbol.
WellLinked ==
  \A p \in DOMAIN files :
    /\ Loads(p) \subseteq DOMAIN files
    /\ \A q \in Loads(p) : p \notin Needed(q)
    /\ \A k \in DOMAIN files[p] : files[p][k].type = "?" =>
         \E j \in 1..(k - 1) : /\ files[p][j].type = "+"
                               /\ \E q \in Needed(files[p][j].name) : files[p][k].name \in Exports(q)

\* An assertion of dlbox.c (159, 169, 181) fails only for files that are
\* not linked well or too many: the order in which the calls of dlopen nest
\* and the libraries that are skipped as loaded (174) never let an import
\* come before its export.
NoAbort == status = "abort" /\ WellLinked =>
             Cardinality(DOMAIN files) > LIBS \/ Len(syms) = SYMS

Count(s, x) == Cardinality({k \in DOMAIN s : s[k] = x})

\* A name means the same everywhere: all imports of it are bound to one
\* address (dlbox.c:143, 155-160), although a library may be mapped once more
\* for each time it is given to main (110-112).  It is not mapped more often,
\* not even when libraries load each other (172-182).
OneDefinition == /\ \A b, c \in bound : b.name = c.name => b.addr = c.addr
                 /\ \A p \in DOMAIN files : Count(maps, p) <= 1 + Count(SubSeq(argv, 1, path - 1), p)
=============================================================================
