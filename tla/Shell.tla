-------------------------------- MODULE Shell --------------------------------
(***************************************************************************)
(* shell/sh-xv6.c: _start and runcmd, as processes with their own file     *)
(* descriptors.  A pointer to a command is the number of its line and the  *)
(* fields that lead to it from the root of the line's tree; the pipe that  *)
(* a PIPE command makes is named after the command.  The programs that are *)
(* executed, and the kernel, are external.                                 *)
(***************************************************************************)
EXTENDS ShellParser, FiniteSets, TLC

CONSTANTS Input,       \* a sequence: the lines that may be typed as the first, the second, ...
          Programs,    \* the words that execve finds
          Missing,     \* the words that open with O_RDONLY does not find
          MaxPid       \* how many processes there may be besides the shell

VARIABLES history,     \* the lines that were typed
          parsed,      \* the commands that the processes that run them have parsed
          procs,       \* the processes
          pipes        \* how many writes are in each pipe
vars == <<history, parsed, procs, pipes>>

Shell == 0
Kernel == MaxPid + 1   \* the parent of orphans
Pids == 0..MaxPid
Fds == 0..6
Capacity == 1          \* of a pipe

Node(cmd) == FoldLeft(LAMBDA c, field : c[field], parsed[cmd.line], cmd.path)
Field(cmd, field) == [cmd EXCEPT !.path = Append(@, field)]

Tty == [kind |-> "tty"]
Closed == [kind |-> "closed"]
File(name) == [kind |-> "file", name |-> name]
ReadEnd(pipe) == [kind |-> "read", pipe |-> pipe]
WriteEnd(pipe) == [kind |-> "write", pipe |-> pipe]
Terminal == [fd \in Fds |-> IF fd < 3 THEN Tty ELSE Closed]
NoFds == [fd \in Fds |-> Closed]
Root(line) == [line |-> line, path |-> << >>]

Free == [pc |-> "free", cmd |-> Root(0), fds |-> NoFds, p |-> << >>, parent |-> Kernel]
-----------------------------------------------------------------------------
(* System calls *)

Close(fds, fd) == [fds EXCEPT ![fd] = Closed]
Lowest(fds) == CHOOSE fd \in Fds : fds[fd] = Closed /\ \A g \in Fds : fds[g] = Closed => fd <= g
Install(fds, file) == [fds EXCEPT ![Lowest(fds)] = file]
Dup(fds, fd) == Install(fds, fds[fd])

Holds(p, file) == \E fd \in Fds : procs[p].fds[fd] = file
Held(file) == \E p \in Pids : Holds(p, file)

Goto(p, pc) == procs' = [procs EXCEPT ![p].pc = pc]

\* child is the copy of p that goes on at pc with cmd.  p goes on as next, also
\* when there is no child because fork fails, as it may at any time: the
\* program does not tell the error that it returns from a pid.
Fork(p, next, pc, cmd) ==
  \/ procs' = [procs EXCEPT ![p] = next]
  \/ \E child \in Pids \ {Shell} :
       /\ procs[child] = Free /\ \A k \in 1..child - 1 : procs[k] # Free
       /\ procs' = [procs EXCEPT ![p] = next,
                                 ![child] = [next EXCEPT !.pc = pc, !.cmd = cmd, !.parent = p]]

\* Orphans are left to the kernel.
Exit(p) ==
  /\ procs[p].pc = "exit"
  /\ procs' = [k \in Pids |->
       CASE k = p -> IF procs[k].parent = Kernel THEN Free ELSE [Free EXCEPT !.pc = "zombie", !.parent = procs[k].parent]
         [] k # p /\ procs[k].parent = p -> IF procs[k].pc = "zombie" THEN Free ELSE [procs[k] EXCEPT !.parent = Kernel]
         [] OTHER -> procs[k]]
  /\ UNCHANGED <<history, parsed, pipes>>

Children(p) == {k \in Pids : procs[k] # Free /\ procs[k].parent = p}

\* wait4(-1, 0, 0, 0): any child that has ended; an error if there is none
Wait(p, next) ==
  \/ \E k \in Children(p) : procs[k].pc = "zombie" /\ procs' = [procs EXCEPT ![p] = next, ![k] = Free]
  \/ Children(p) = {} /\ procs' = [procs EXCEPT ![p] = next]
-----------------------------------------------------------------------------
Init == /\ history = << >>
        /\ procs = [p \in Pids |-> IF p = Shell THEN [Free EXCEPT !.pc = "getcmd", !.fds = Terminal] ELSE Free]
        /\ parsed = << >>
        /\ pipes = << >>

\* a line that is not cd, and the end of the input
getcmd == \/ /\ Len(history) < Len(Input)
             /\ \E line \in Input[Len(history) + 1] : history' = Append(history, line)
             /\ Goto(Shell, "fork") /\ UNCHANGED <<parsed, pipes>>
          \/ Goto(Shell, "end") /\ UNCHANGED <<history, parsed, pipes>>

_start == \/ procs[Shell].pc = "getcmd" /\ getcmd
          \/ /\ procs[Shell].pc = "fork"
             /\ Fork(Shell, [procs[Shell] EXCEPT !.pc = "wait"], "parsecmd", Root(Len(history)))
             /\ UNCHANGED <<history, parsed, pipes>>
          \/ /\ procs[Shell].pc = "wait"
             /\ Wait(Shell, [procs[Shell] EXCEPT !.pc = "getcmd"])
             /\ UNCHANGED <<history, parsed, pipes>>

Parse(p) == /\ procs[p].pc = "parsecmd"
            /\ \E line \in {procs[p].cmd.line} : parsed' = (line :> parsecmd(history[line])) @@ parsed
            /\ Goto(p, IF parsed'[procs[p].cmd.line] = Panic THEN "exit" ELSE "runcmd")
            /\ UNCHANGED <<history, pipes>>

At(p, type) == procs[p].pc = "runcmd" /\ Node(procs[p].cmd).type = type

\* An empty command exits, and one that is not found prints and exits.
Exec(p) == /\ At(p, "EXEC")
           /\ LET argv == Node(procs[p].cmd).argv
              IN  Goto(p, IF argv # << >> /\ argv[1] \in Programs THEN "main" ELSE "exit")
           /\ UNCHANGED <<history, parsed, pipes>>

Redir(p) == /\ At(p, "REDIR")
            /\ \E cmd \in {Node(procs[p].cmd)} :
                 procs' = [procs EXCEPT ![p] =
                   IF cmd.mode = "<" /\ cmd.file \in Missing THEN [@ EXCEPT !.fds = Close(@, cmd.fd), !.pc = "exit"]
                   ELSE [@ EXCEPT !.fds = Install(Close(@, cmd.fd), File(cmd.file)), !.cmd = Field(@, "cmd")]]
            /\ UNCHANGED <<history, parsed, pipes>>

NoWait(p) == /\ At(p, "LIST")
             /\ Fork(p, [procs[p] EXCEPT !.cmd = Field(@, "right")], "runcmd", Field(procs[p].cmd, "left"))
             /\ UNCHANGED <<history, parsed, pipes>>

List(p) == /\ At(p, "LIST")
           /\ Fork(p, [procs[p] EXCEPT !.pc = "listwait"], "runcmd", Field(procs[p].cmd, "left"))
           /\ UNCHANGED <<history, parsed, pipes>>
ListWait(p) == /\ procs[p].pc = "listwait"
               /\ Wait(p, [procs[p] EXCEPT !.pc = "runcmd", !.cmd = Field(@, "right")])
               /\ UNCHANGED <<history, parsed, pipes>>

\* pipe(p) and the first fork; pipe may fail, and the assertion with it
Pipe(p) == /\ At(p, "PIPE")
           /\ \/ Goto(p, "exit") /\ UNCHANGED pipes
              \/ \E cmd \in {procs[p].cmd}, fds \in {procs[p].fds} :
                 \E one \in {Install(fds, ReadEnd(cmd))} :
                   /\ Fork(p, [procs[p] EXCEPT !.pc = "fork2", !.p = <<Lowest(fds), Lowest(one)>>, !.fds = Install(one, WriteEnd(cmd))],
                           "left", cmd)
                   /\ pipes' = (cmd :> 0) @@ pipes
           /\ UNCHANGED <<history, parsed>>
Pipe2(p) == /\ procs[p].pc = "fork2"
            /\ Fork(p, [procs[p] EXCEPT !.pc = "close"], "right", procs[p].cmd)
            /\ UNCHANGED <<history, parsed, pipes>>

KeepsPipe(fds, p, fd, end) == Dup(Close(fds, fd), p[end])

\* close(fd), dup(p[end]), and p is closed
Connected(fds, p, fd, end) == Close(Close(Dup(Close(fds, fd), p[end]), p[1]), p[2])

Connect(p, side, fd, end) ==
  /\ procs[p].pc = side
  /\ procs' = [procs EXCEPT ![p] = [@ EXCEPT !.pc = "runcmd", !.cmd = Field(@, side), !.p = << >>,
                                            !.fds = Connected(@, procs[p].p, fd, end)]]
  /\ UNCHANGED <<history, parsed, pipes>>

KeepsWriteEnd(p) == /\ procs[p].pc = "close"
                    /\ procs' = [procs EXCEPT ![p] = [@ EXCEPT !.pc = "wait1", !.fds = Close(@, procs[p].p[1])]]
                    /\ UNCHANGED <<history, parsed, pipes>>

PipeClose(p) == /\ procs[p].pc = "close"
                /\ procs' = [procs EXCEPT ![p] = [@ EXCEPT !.pc = "wait1", !.fds = Close(Close(@, procs[p].p[1]), procs[p].p[2])]]
                /\ UNCHANGED <<history, parsed, pipes>>
PipeWait(p) == /\ \/ procs[p].pc = "wait1" /\ Wait(p, [procs[p] EXCEPT !.pc = "wait2"])
                  \/ procs[p].pc = "wait2" /\ Wait(p, [procs[p] EXCEPT !.pc = "exit"])
               /\ UNCHANGED <<history, parsed, pipes>>

Back(p) == /\ At(p, "BACK")
           /\ Fork(p, [procs[p] EXCEPT !.pc = "exit"], "runcmd", Field(procs[p].cmd, "cmd"))
           /\ UNCHANGED <<history, parsed, pipes>>

runcmd(p) == \/ Exec(p) \/ Redir(p) \/ List(p) \/ ListWait(p) \/ Back(p)
             \/ Pipe(p) \/ Pipe2(p) \/ PipeClose(p) \/ PipeWait(p)
             \/ Connect(p, "left", 1, 2) \/ Connect(p, "right", 0, 1)
             \/ Exit(p)
-----------------------------------------------------------------------------
(* Programs: true ends; echo writes once; yes writes until there is nobody *)
(* to read; cat writes all that it reads.  What is not a pipe is empty     *)
(* and takes every write.                                                  *)

Name(p) == Node(procs[p].cmd).argv[1]

\* read(0) for cat: a value, or the end when nobody can write any more
Read(p) == LET in == procs[p].fds[0] IN
  /\ procs[p].pc = "main" /\ Name(p) = "cat"
  /\ IF in.kind = "read" /\ pipes[in.pipe] > 0
     THEN Goto(p, "copy") /\ pipes' = [pipes EXCEPT ![in.pipe] = @ - 1]
     ELSE (in.kind = "read" => ~Held(WriteEnd(in.pipe))) /\ Goto(p, "exit") /\ UNCHANGED pipes
  /\ UNCHANGED <<history, parsed>>

\* write(1): the process is killed when nobody can read any more
Write(p, next) == LET out == procs[p].fds[1] IN
  /\ IF out.kind # "write" THEN Goto(p, next) /\ UNCHANGED pipes
     ELSE IF ~Held(ReadEnd(out.pipe)) THEN Goto(p, "exit") /\ UNCHANGED pipes
     ELSE pipes[out.pipe] < Capacity /\ Goto(p, next) /\ pipes' = [pipes EXCEPT ![out.pipe] = @ + 1]
  /\ UNCHANGED <<history, parsed>>

Program(p) == \/ procs[p].pc = "main" /\ Name(p) = "true" /\ Goto(p, "exit") /\ UNCHANGED <<history, parsed, pipes>>
              \/ procs[p].pc = "main" /\ Name(p) = "echo" /\ Write(p, "exit")
              \/ procs[p].pc = "main" /\ Name(p) = "yes" /\ Write(p, "main")
              \/ procs[p].pc = "copy" /\ Write(p, "main")
              \/ Read(p)
-----------------------------------------------------------------------------
Next == \/ _start
        \/ \E p \in Pids \ {Shell} : Parse(p) \/ runcmd(p) \/ Program(p)

\* a step of Parse, as far as it has to happen
ParseEnds(p) == procs[p].pc = "parsecmd" /\ \E pc \in {"exit", "runcmd"} : Goto(p, pc)

\* The kernel runs every process that can go on; nobody has to type.
Spec == /\ Init /\ [][Next]_vars
        /\ WF_vars(procs[Shell].pc # "getcmd" /\ _start)
        /\ \A p \in Pids \ {Shell} : WF_procs(ParseEnds(p)) /\ WF_vars(runcmd(p) \/ Program(p))
-----------------------------------------------------------------------------
Live(p) == procs[p].pc \notin {"free", "zombie"}
Above(cmd, n) == [cmd EXCEPT !.path = SubSeq(@, 1, n)]

\* Where the program at cmd reads and writes: each command on the way to it
\* changes one descriptor.
Wired(cmd) ==
  FoldLeft(LAMBDA fds, n :
             LET c == Above(cmd, n - 1) IN
             CASE Node(c).type = "REDIR" -> [fds EXCEPT ![Node(c).fd] = File(Node(c).file)]
               [] Node(c).type = "PIPE" /\ cmd.path[n] = "left" -> [fds EXCEPT ![1] = WriteEnd(c)]
               [] Node(c).type = "PIPE" /\ cmd.path[n] = "right" -> [fds EXCEPT ![0] = ReadEnd(c)]
               [] OTHER -> fds,
           Terminal, [n \in DOMAIN cmd.path |-> n])

\* A program is started with the input and output that its place in the
\* command gives it, and with no other descriptor, no matter how pipes, lists
\* and redirections are nested (sh-xv6.c:120-158).
Plumbing == \A p \in Pids : procs[p].pc \in {"main", "copy"} => procs[p].fds = Wired(procs[p].cmd)

\* cmd was put into the background by a command below its first n fields
Background(cmd, n) == \E k \in n..(Len(cmd.path) - 1) : Node(Above(cmd, k)).type = "BACK"

\* The prompt comes back, and the command after ; starts, when everything
\* before it has ended that was not put into the background: wait4(-1) never
\* returns for another child (sh-xv6.c:130-163, 194-195).
InOrder ==
  \A p \in Pids \ {Shell} : Live(p) =>
    /\ procs[Shell].pc \in {"getcmd", "fork", "end"} => Background(procs[p].cmd, 0)
    /\ \A q \in Pids \ {Shell}, n \in DOMAIN procs[p].cmd.path :
         LET c == procs[p].cmd  d == procs[q].cmd IN
         (/\ Live(q) /\ Len(d.path) >= n /\ Above(c, n - 1) = Above(d, n - 1)
          /\ Node(Above(c, n - 1)).type = "LIST" /\ c.path[n] = "left" /\ d.path[n] = "right")
         => Background(c, n)

\* The shell does not wait for ever for programs that end by themselves, at
\* the end of their input or when nobody reads their output: no process keeps
\* a descriptor of a pipe that it does not use (sh-xv6.c:140-157).
PromptReturns == procs[Shell].pc = "wait" ~> procs[Shell].pc = "getcmd"
=============================================================================
