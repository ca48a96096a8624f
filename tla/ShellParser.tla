----------------------------- MODULE ShellParser -----------------------------
(***************************************************************************)
(* shell/sh-xv6.c: the parser.  A line is a sequence of tokens, the words  *)
(* and symbols that gettoken finds; a command is the tree that the         *)
(* constructors build.  A failed assertion, which ends the process, is     *)
(* Panic.  A result is the command and what is left of the line.           *)
(***************************************************************************)
EXTENDS Naturals, Sequences, SequencesExt

CONSTANTS Words,       \* tokens 'a' of gettoken
          MaxArgs,     \* MAXARGS
          MemSize      \* sizeof(mem)

Redirs == {"<", ">", ">>"}
Symbols == Redirs \union {"|", "&", ";", "(", ")"}
Panic == << >>

execcmd(argv) == [type |-> "EXEC", argv |-> argv]
redircmd(cmd, mode, file) == [type |-> "REDIR", cmd |-> cmd, file |-> file, mode |-> mode, fd |-> IF mode = "<" THEN 0 ELSE 1]
pipecmd(left, right) == [type |-> "PIPE", left |-> left, right |-> right]
listcmd(left, right) == [type |-> "LIST", left |-> left, right |-> right]
backcmd(cmd) == [type |-> "BACK", cmd |-> cmd]

peek(s, toks) == s # << >> /\ Head(s) \in toks
Drop(s, n) == SubSeq(s, n + 1, Len(s))
Then(result, Cont(_, _)) == IF result = Panic THEN Panic ELSE Cont(result[1], result[2])

RECURSIVE parseredirs(_, _), parseargs(_, _, _), parseexec(_), parsepipe(_), parsebacks(_, _), parseline(_)
-----------------------------------------------------------------------------
\* The redirections <<mode, file>> that are next are added to redirs.
parseredirs(redirs, s) ==
  IF ~peek(s, Redirs) THEN <<redirs, s>>
  ELSE IF ~peek(Tail(s), Words) THEN Panic
  ELSE parseredirs(Append(redirs, <<s[1], s[2]>>), Drop(s, 2))

\* ret = redircmd(ret, ...), in the order of the line
Redirected(cmd, redirs) == FoldLeft(LAMBDA c, r : redircmd(c, r[1], r[2]), cmd, redirs)

\* the loop of parseexec; argv belongs to the innermost command
parseargs(argv, redirs, s) ==
  IF s = << >> \/ peek(s, {"|", ")", "&", ";"}) THEN <<Redirected(execcmd(argv), redirs), s>>
  ELSE IF Head(s) \notin Words \/ Len(argv) + 1 >= MaxArgs THEN Panic
  ELSE Then(parseredirs(redirs, Tail(s)), LAMBDA r, rest : parseargs(Append(argv, Head(s)), r, rest))

parseblock(s) ==
  Then(parseline(Tail(s)), LAMBDA cmd, rest :
    IF ~peek(rest, {")"}) THEN Panic
    ELSE Then(parseredirs(<< >>, Tail(rest)), LAMBDA r, rest2 : <<Redirected(cmd, r), rest2>>))

parseexec(s) == IF peek(s, {"("}) THEN parseblock(s)
                ELSE Then(parseredirs(<< >>, s), LAMBDA r, rest : parseargs(<< >>, r, rest))

parsepipe(s) ==
  Then(parseexec(s), LAMBDA cmd, rest :
    IF ~peek(rest, {"|"}) THEN <<cmd, rest>>
    ELSE Then(parsepipe(Tail(rest)), LAMBDA right, rest2 : <<pipecmd(cmd, right), rest2>>))

\* the while loop of parseline
parsebacks(cmd, s) == IF peek(s, {"&"}) THEN parsebacks(backcmd(cmd), Tail(s)) ELSE <<cmd, s>>

\* the pipe after ; and not the rest of the line
ListOfTwo(s) ==
  Then(parsepipe(s), LAMBDA cmd, rest :
    Then(parsebacks(cmd, rest), LAMBDA left, rest2 :
      IF ~peek(rest2, {";"}) THEN <<left, rest2>>
      ELSE Then(parsepipe(Tail(rest2)), LAMBDA right, rest3 : <<listcmd(left, right), rest3>>)))

parseline(s) ==
  Then(parsepipe(s), LAMBDA cmd, rest :
    Then(parsebacks(cmd, rest), LAMBDA left, rest2 :
      IF ~peek(rest2, {";"}) THEN <<left, rest2>>
      ELSE Then(parseline(Tail(rest2)), LAMBDA right, rest3 : <<listcmd(left, right), rest3>>)))

\* what zalloc has given out for a command, in bytes on x86-64
RECURSIVE Bytes(_)
Bytes(cmd) == CASE cmd.type = "EXEC"  -> 168
                [] cmd.type = "REDIR" -> 40 + Bytes(cmd.cmd)
                [] cmd.type = "BACK"  -> 16 + Bytes(cmd.cmd)
                [] cmd.type \in {"PIPE", "LIST"} -> 24 + Bytes(cmd.left) + Bytes(cmd.right)

\* the command of a line, or Panic; nulterminate, which marks the ends of the
\* words in the buffer, is left out: here a word is a token
parsecmd(s) == LET r == parseline(s) IN
               IF r = Panic \/ r[2] # << >> \/ Bytes(r[1]) >= MemSize THEN Panic ELSE r[1]
-----------------------------------------------------------------------------
(* The grammar, as the set of the commands that a sequence of tokens can   *)
(* be read as:                                                             *)
(*   line = back | back ; line         back = pipe | back &                *)
(*   pipe = exec | exec '|' pipe       exec = simple | ( line ) redirs     *)
RECURSIVE Execs(_), Pipes(_), Backs(_), Lines(_)

IsRedirs(s) == Len(s) % 2 = 0 /\ \A k \in DOMAIN s : s[k] \in IF k % 2 = 1 THEN Redirs ELSE Words

RedirsOf(s) == FoldLeft(LAMBDA rs, k : IF s[k] \in Redirs THEN Append(rs, <<s[k], s[k + 1]>>) ELSE rs,
                        << >>, [k \in DOMAIN s |-> k])
ArgsOf(s) == FoldLeft(LAMBDA as, k : IF s[k] \in Words /\ (k = 1 \/ s[k - 1] \notin Redirs) THEN Append(as, s[k]) ELSE as,
                      << >>, [k \in DOMAIN s |-> k])

Simple(s) ==
  IF /\ \A k \in DOMAIN s : \/ s[k] \in Words
                            \/ s[k] \in Redirs /\ k < Len(s) /\ s[k + 1] \in Words
     /\ Len(ArgsOf(s)) < MaxArgs
  THEN {Redirected(execcmd(ArgsOf(s)), RedirsOf(s))} ELSE {}

\* the ways to split s at token t
Splits(s, t) == {<<SubSeq(s, 1, k - 1), Drop(s, k)>> : k \in {k \in DOMAIN s : s[k] = t}}

Execs(s) ==
  Simple(s) \union UNION { {Redirected(cmd, RedirsOf(split[2])) : cmd \in Lines(Tail(split[1]))} :
                           split \in {x \in Splits(s, ")") : peek(x[1], {"("}) /\ IsRedirs(x[2])} }
Pipes(s) == Execs(s) \union UNION { {pipecmd(l, r) : l \in Execs(split[1]), r \in Pipes(split[2])} : split \in Splits(s, "|") }
Backs(s) == Pipes(s) \union (IF s # << >> /\ Last(s) = "&" THEN {backcmd(cmd) : cmd \in Backs(Front(s))} ELSE {})
Lines(s) == Backs(s) \union UNION { {listcmd(l, r) : l \in Backs(split[1]), r \in Lines(split[2])} : split \in Splits(s, ";") }

\* A line that the grammar reads as a command that fits into memory is parsed
\* as that command, and the grammar has no other for it; every other line is
\* refused (sh-xv6.c:304-400).
Agrees(s) == {cmd \in Lines(s) : Bytes(cmd) < MemSize} = IF parsecmd(s) = Panic THEN {} ELSE {parsecmd(s)}
=============================================================================
