# TLA+ models of jyy-os-code

The repository is a collection of small programs for an operating systems
course. They do not form one system; what they have in common is that each
shows one mechanism (a lock, a condition variable, a memory model, a search, a
loader, a shell) in as little code as possible. The models follow that: one
module per program, one abstract specification where two programs promise the
same thing, and one run per family of programs.

Paths below are relative to `src/`.

## What is in the repository

| Part | Source | Module | State |
|---|---|---|---|
| thread pool | `concurrency/include/thread.h` | `ThreadPool` | modelled, proved |
| spin lock, locked sum | `concurrency/include/thread-sync.h`, `sum-scalability.c` | `SpinSum` | modelled, proved |
| unlocked sums | `concurrency/sum.c`, `midterm/midterm-demo.c`, `model-checker/midterm.py` | `RaceSum` | modelled, proved |
| producer-consumer | `concurrency/pc.c`, `pc-cv.c`, `pc-sem.c` | `PcCommon`, `PcMutex`, `PcCv`, `PcSem` | modelled, proved |
| output checker | `concurrency/pc-check.py` | `ParenStream` | modelled (abstract specification) |
| fish | `concurrency/fish.c` | `Fish` | modelled, proved |
| fish-dir | `persistence/fish-dir/fish-dir.sh` | `FishDir` | modelled (abstract specification) |
| philosophers | `concurrency/philosopher.c` | `Philosopher` | modelled, proved |
| x86 memory | (external) | `TSO` | modelled from its use |
| Peterson | `concurrency/peterson-simple.c`, `peterson-barrier.c` | `PetersonTSO` | modelled |
| litmus test | `concurrency/mem-ordering.c` | `MemOrdering` | modelled |
| midterm | `concurrency/midterm/*.c` | `LockedSum`, `MidtermV1`, `MidtermV2`, `MidtermTle` | modelled, proved |
| mandelbrot | `concurrency/mandelbrot.c` | `Mandelbrot` | modelled, proved |
| model checker | `concurrency/model-checker/model-checker.py` | `Explorer` | search modelled, proved |
| visualizer | `concurrency/model-checker/visualize.py` | `Visualize` | the reduction modelled, proved, drawing left out |
| futex | `concurrency/model-checker/futex.py` | `Futex` | modelled, proved |
| semaphore | `concurrency/model-checker/sem.py` | `SemQueue`, `Semaphore` | modelled, proved |
| locks of the model checker | `concurrency/model-checker/dekker.py`, `peterson-flag.py`, `spinlock.py`, `pc-cv.py` | `PyLocks` | modelled |
| lock ordering | `concurrency/model-checker/lock-ordering.py`, `flock/flock-demo.c` | `LockOrder` | modelled, proved |
| calculator | `calculator/src/com/android/calculator2/*.java` | `Calculator` | modelled, without arithmetic and layout |
| shell | `shell/sh-xv6.c` | `ShellParser`, `Shell` | partly: without `cd` and the lexer |
| processes | `virtualization/dfs-fork.c`, `posix-spawn.c` | `DfsFork`, `PosixSpawn` | modelled |
| loader of `.dl` files | `dl/dlbox.c` | `Dlbox` | loading modelled, proved, the output of `readdl` and `objdump` left out |
| ELF loaders | `virtualization/bootmain.c`, `loader-static.c` | `Segments` | modelled, proved, without the second processor |

### Not modelled

* `mutex-bad.py` is broken on purpose and promises nothing, and
  `producer-consumer.go` leaves everything to the channel of its language.
* `hanoi/` and `logisim/` are single computations without input or concurrency.
* `dosbox-hack.c` and `dsu.c` look into, or patch, the memory of a running
  program; `fork-printf.c`, `fork-offset.c`, `signal-handler.c` and the other
  programs of `virtualization/` and `concurrency/` that are not in the table
  show what one system call, the compiler or the hardware does.
* `persistence/ext2.h` is a data layout without operations; the layouts, the
  pager and the text sizes of the calculator, `parse_src` and everything after
  `reduce` in `visualize.py` are drawing; images and build files have no
  behaviour.
* Of the shell, `cd`, lines longer than the buffer, how characters become
  tokens, and `nulterminate`, which ends each word in the buffer: a word is a
  token here, and ends where it ends.

## How the models are written

A step is what another thread can see between: one statement that touches
shared state, or the part of one (`sum++` is a load and a store). Threads carry
a program counter `pc[t]` whose values are the names of statements. `Goto(t,
from, to)` moves it.

Blocking calls are guards. A mutex is the set of its holders, taken when it is
empty and emptied by the release. `cond_wait` releases the mutex and puts the
thread into the set of sleepers; it returns, with the mutex, when it is no
longer in the set, and a sleeper may leave the set for no reason at any time
(`Spurious`), which POSIX permits. `P` and `V` are atomic.

`assert` is a step to the location `abort`, or a state predicate where nothing
follows it. `malloc` and `pthread_create` are taken to succeed, as the code
takes them; `fork`, the `pipe` of the shell, the calls of `posix-spawn.c` and
the files of the loaders may fail. Output is abstracted to what its checker reads of it: the depth of
the parentheses, the node that the fish has reached, the sum.

Programs that share their variables share a module that declares them
(`PcCommon`, `LockedSum`).

### Correspondence

* `PcMutex`, `PcCv`, `PcSem`. `count`, `lk`, `cv`, `empty`, `fill` are the
  variables of the programs; `depth` is how many parentheses are open in the
  output. Every thread prints in a step of its own. `PassesPcCheck` says that
  the output is a behaviour of `ParenStream`, which is the loop of
  `pc-check.py`.
* `Fish`. `current`, `quota`, `lk`, `cond` are those of `fish.c`; `printed` is
  the node in the automaton of `fish-dir.sh` that the output has reached.
  `roles` keeps the NUL that the last thread gets, because ids start at 1 and
  `roles[tid]` is read.
* `TSO` gives every processor a store buffer: a store is appended to it, a
  load takes the newest own store or memory, a locked instruction or `mfence`
  waits until it is empty, and the oldest store may reach memory at any time.
  `PetersonTSO` has a constant `Barriers`, the statements that are followed by
  `BARRIER`: all of them in `peterson-barrier.c`, none in `peterson-simple.c`.
* `SpinSum`, `RaceSum`. The register of every thread is a variable, so that a
  value read before others store is stored after them.
* `ThreadPool`. main is any sequence of calls of `create` and `join`, then the
  destructor `cleanup`. `create` fills the record, starts the thread and moves
  `tptr` in three steps; `wrapper` reads its record when it is scheduled.
* `MidtermV1/V2/Tle`. stdin is a sequence that is consumed. The result of `f`
  is added to `sum` under `sum_lk` in a load and a store.
* `Explorer`. A program is any function from states and threads to states. The
  search keeps the queue, the vertices and the edges of `check_bfs`; running a
  thread to its next statement (`execute`) is one application of the function.
  States are compared by name, as the code compares hashes; that names are
  distinct is an assumption of the module.
* `Visualize` runs behind `Explorer` in a pipe. `lines` are the edges in the
  order in which they were found; `level`, `leaf`, `tree` and `others` are those
  of `reduce`, and one step is one edge of the loop in `expand`.
* `Mandelbrot`. A column is rendered or not. `done++` is a load and a store.
  `image` is what `display(fp, 2)` puts into the file: the rendered columns
  among every second one. The stores of one thread are seen in their order, as on x86.
* `PyLocks`. A location is the line of `t1` that is next. `hack` puts a `yield`
  before every statement, so the condition of a loop is tested again in the
  step that ends its body. In `pc-cv.py` the string `waits` is the set of the
  threads in it: it is only searched and emptied, so that its order is idle.
* `LockOrder`. What a thread or process takes is the sequence `order[p]`, of
  which it has the first `held[p]`. `lock-ordering.py` lets all go at once,
  `flock-demo.c` by exiting; a file that is not there aborts it.
* `Futex`, `SemQueue`. One statement is one step, because that is what `hack`
  makes of the source.
* `Calculator`. A text is a sequence of characters, of which there
  are a digit, the decimal point, the operators, the infinity sign and one for
  everything else. `display` holds `mCurrentState`, both texts and the builder's
  `mIsEdited`; a change of the formula goes through the watcher in the same
  step (`Watched`). An animation is in `running` from its start to its end and
  changes the display when its second part starts (`Fade`) or at its end.
  `onUserInteraction` ends the animation it knows when a finger goes down; the
  click follows when it goes up. With `overlap` another click may have started
  an animation in between, as two fingers or a keyboard can. `Recreate` is
  `onSaveInstanceState` and the `onCreate` of the next activity. What the arity
  library computes is the constant `Eval`.
* `ShellParser`, `Shell`. A line is a sequence of tokens and a command the tree
  that the constructors build; a failed assertion is `Panic`. `procs` holds the
  processes, each with its descriptors, the command it is at and its parent;
  the descriptors of a new process are copies. `Lowest` gives the descriptor
  that `open`, `dup` and `pipe` return. A process that ends closes its
  descriptors and stays as a zombie until its parent waits. Any `fork` may
  fail: the code compares the result with 0 only, so the parent goes on. A
  `pipe` that fails ends its process by `assert`. The
  kernel and the four programs (`true`, `echo`, `yes`, `cat`) are external.
* `DfsFork`. A process is known by the moves that lead to it and has its own
  map. A `fork` that fails ends its process by `assert`; its children become
  orphans and go on.
* `PosixSpawn`. The child is stopped, continued and ended at any time, and the
  kernel keeps only the latest change until `waitpid` asks. Every library call
  may fail, which ends the program.
* `Dlbox`. `stack` are the nested calls of `dlopen`, each with its mapping and
  the record it is at; `libs` and `syms` are the arrays. A file that is missing
  or has no magic is not in `files`.
* `Segments`. A byte of memory says where it comes from: a byte of the file,
  the disk before the file, a zero, or what was there before. `Headers` are the
  bytes of the header sectors that `bootmain.c` looks at while it loads; when a
  segment has changed one of them, what follows is undefined (`Lost`). `stack`
  is what `execve_` has pushed, one string of `envp` at a time. `Room` is the
  number of words from `sp` to the end of the array, 512 in the code, which
  nothing checks: what is pushed beyond it falls on other variables
  (`Overrun`).

## Runs

In the MC modules that hold several programs, the initial state picks a program
(`program`) and the steps are those of that program. This asks one question of
several programs at once; a property says by `program` where it applies. The
variables that a program does not have stay as they are.

| Run | Instance | What it shows |
|---|---|---|
| `pc` | 3 producers, 2 consumers, depth 2; 6 philosophers | The output of all three producer-consumer programs passes `pc-check.py`. `count` agrees with the output whenever the mutex is free; the places of `pc-sem.c` are conserved; the threads of `pc-cv.c` are never all asleep; `pc-cv.c` and `pc-sem.c` go on for ever. In `philosopher.c` no fork is in two hands and nobody waits in a circle. |
| `fish` | `<<>>_` and NUL | There is one turn. `assert(current)` holds, although the rule is looked up a second time after the unlocked `putchar`. The output is that of `fish-dir.sh`, for ever. |
| `locks` | futex and semaphore: 4 threads, 1 and 2 tokens; the others: 2 threads or processes, 3 in the litmus test, `pc-cv.py` and `flock-demo.c` | The futex excludes, never has all threads waiting, and serves everyone. The queue of `sem.py` implements a counting semaphore. `peterson-barrier.c` excludes and lets in every thread that has raised its flag; the one barrier that its comment calls critical is enough on x86. The rounds of `mem-ordering.c` do not disturb each other. `dekker.py`, `peterson-flag.py`, `spinlock.py` and `pc-cv.py` have no red state, the first two let in every thread that has raised its flag, and the last one ends with nobody left asleep. Locks that are taken in one order are never waited for in a circle, and only a circle keeps `flock-demo.c` from ending. The threads of `lock-ordering.py` take theirs in two orders, so that a circle is possible there; without one, some thread has all its locks again and again, but not each of them: nothing orders the threads that spin. |
| `peterson_simple` | 2 threads, no barriers | Fails, as it should: the assertion of `peterson-simple.c:11` is violated. |
| `sum` | unlocked and spinning sums; 3 slots of the pool; up to 3 renderers | Of the unlocked increments two may be all that is left, never fewer, never too many. The spin lock loses none. Over `thread.h` every thread reads its own record and is joined exactly once. In the image that `mandelbrot.c` writes, which has every second column, no column is missing that belongs to a thread. All end, except `mandelbrot.c` after a lost increment (below). |
| `midterm` | 2+2 and 1+2 threads on a stack, 3 handlers, 2 slots and 2 or 3 numbers | No number is lost or counted twice, and what is printed is the total. All three end, except `midterm-v1.c` after a late push (below). |
| `explorer` | all programs of 2 threads on 3 states; all acyclic ones on 5 | `check_bfs` ends with exactly the reachable states, all edges and shortest traces. `reduce` ends with a tree of all of them. |
| `calculator` | formulas of 3 characters, 2 animations | EVALUATE is always left. The next digit replaces a result and nothing else, also in a restored activity. Formulas keep the rules for operators and decimal points as long as they do not hold an infinity sign. |
| `calculator_operators` | the same | Fails: after an infinite result operators can follow each other (below). |
| `shell` | 8 lines, then 2, on 6 pids; all lines of 5 tokens for the parser; 3 mazes; 4 choices of options | A program is started with the input and output of its place in the command and no other descriptor. What comes after `;`, and the prompt, wait for what comes before. The prompt comes back. All this holds whichever forks and pipes fail. The parser accepts the lines of the grammar and builds the one tree that the grammar gives them, up to its limits; how much of `mem` a tree takes is computed by the same operator (`Bytes`) on both sides. `dfs-fork.c` shows every way through its maze and leaves no process behind, unless a fork fails; it returns in any case. `posix-spawn.c` succeeds exactly when it has seen its child end. |
| `loading` | 3 files, 3 libraries, 4 symbols; two segments in 6 bytes of file and 12 of memory, 2 to a page; a stack of 11 words | In `dlbox.c` all imports of a name are bound to one address, also when libraries load each other or export one name twice, and no assertion fails for files that load what they import and fit the arrays. `bootmain.c` and `loader-static.c` start a program with every byte of its segments in place, if the segments do not harm each other by the sectors and pages they share, and with its arguments and the strings of `envp` that it keeps, in their order. `bootmain.c` loses its headers or arguments only if a segment lies over them, and `loader-static.c` leaves its stack only with more strings than there is room for. Loading ends. |

Bounds. Threads of one kind are alike, so two of each kind show what one
process can do to its like; the third producer is there because a lost wakeup
on a shared condition variable needs more threads than places. The numbers of
the midterm runs are powers of two, so each set has its own sum; there are more
of them than slots. Seven increments for three threads under the spin lock leave a
remainder; two unlocked ones for each of three threads are enough to lose all
but two. Six
philosophers include pairs that are not neighbours. The search has to meet
cycles, states reached in two ways and unreachable states, which three states
provide, and traces of different lengths, which five states provide. Three
characters hold an operator between two operands, a sign after an operator and
an infinite result with two operators; two animations are one that is known and
one that was forgotten. The lines of the shell nest pipes, lists, redirections
and background jobs in each other, with a reader that waits for the end of its
input and a writer that goes on until nobody reads; a second line is typed
while jobs of the first one run. Five pids besides the shell are enough for
every line alone and too few for some two of them.
`MAXARGS` is 3 and `mem` has room for three commands, so that lines of five
tokens reach both limits. The mazes have two ways, a dead end, and a start that
is the goal; a larger open maze has too many interleavings. Two segments are
enough for one to fall on another, on the headers or on the
arguments: memory has a page that nobody uses, two pages of headers, two pages
that are free and, last, the page of the arguments. The first page of headers
is looked at and the second is not, so that segments fall on either. With two
bytes to a page they start and end at every offset. Eleven words of stack are
enough for some of the arguments and strings, and are exceeded by the others in
`argv`, in `envp` or at the end. Three
files load each other in every way that a longer cycle would.

### Fairness

* A thread that can go on is scheduled in the end (WF of the steps of each
  thread): the kernel is preemptive. Which thread gets a mutex is left open.
* Threads do not wake from `cond_wait` for no reason for ever
  (`<>[][~Spurious]`). Safety is checked with any number of such wakeups.
* In `midterm-v1.c` a thread that asks for a mutex that becomes free again and
  again gets it (SF). A producer that finds the end of stdin and numbers on the
  stack polls `buffer_lk` (lines 98-112), and could keep the consumers out for
  ever. POSIX does not promise such a mutex, and the code does nothing for it:
  `MidtermEnds` is a conditional claim about `midterm-v1.c`, that it ends if its
  mutex starves nobody. It is made because the program is meant to end, and
  because it shows that the mutex and the late push (below) are all that it
  depends on.
* A store buffer drains in the end.
* The child of `posix-spawn.c` ends.
* An animation goes on until its end; nobody has to touch the calculator.
* Every process of the shell that can go on is scheduled; nobody has to type.
* No claim is made for `pc.c`: its threads poll as well, it is not meant to end,
  and with the same assumption on its mutex there would be little left to show.
  Only safety is checked.

### What the failing and the qualified properties say

`peterson-simple.c` is kept by the repository to show that memory order is
lost; its assertion says that the section excludes, and the run shows the
behaviour in which both stores are still in their buffers.

`midterm-v1.c` reads a number before it takes `buffer_lk` (line 99). With two
producers one may hold a number when the other finds the end of stdin and an
empty stack, and declares the end. The consumers leave, the number is pushed,
and from then on no producer finds the stack empty: the program does not end.
`MidtermEnds` says that this is the only way not to end, and `NoNumberLost`
that a wrong sum is never printed. With one producer it ends. In the same way
`MainEnds` says of `mandelbrot.c` that only a lost increment of `done`
(line 42) keeps `Tdisplay` waiting for ever; `ImageIsComplete` says that no increment is ever
counted too early. If the number of threads does not divide the width, the last
columns belong to nobody (line 10), which the property allows for.

`TreeSpans` has a case for `visualize.py:110`: `reduce` raises `StopIteration`
when an edge from the first state is not in the tree and no edge leads back to
the first state. The programs that do this are among those of the run.

`CalculatorExpressionBuilder.replace` computes `start`, a position in the text
of the display, and uses it as an index into `expr`, the normalized text. The
two agree unless the text has an infinity sign, which is the word `Infinity` in
`expr` (`res/values/donottranslate_strings.xml`). After an infinite result a
second operator therefore does not replace the first, against the comment in
line 65. The same index makes `substring` throw when a decimal point is typed
twice after such a result and an operator (line 52); the model has this as
`Crash`, after which the program starts anew.

Some behaviour of the shell that differs from other shells is in the model as
it is in the code: of several redirections of one descriptor the first one on
the line counts, because it is the innermost command, and a command that is not
found exits with 0.

## Proofs

TLAPS checks the theorems below for all values of the constants, under the
named assumptions of the modules. A proof module extends the module of a run,
so that its theorems are about the specification and the properties that TLC
checks. Where a run holds several programs the invariant says for each of them
what holds when it is the one that runs (`program = ... => ...`); there is one
lemma per action, and the conjuncts of the other programs follow because their
variables do not change.

| Module | Theorems | Why the invariant is what it is |
|---|---|---|
| `PcProofs` | counts agree with the output; places conserved; never all asleep; someone can go; `pc-check.py` accepts; forks in one hand and no deadlock among philosophers | Without a holder of the mutex `count` is the depth, and with one it is off by what that thread has done. In `pc-cv.c`, if all producers sleep the buffer is full or a broadcast is still to come; likewise for consumers. In `pc-sem.c` every place is in one of the semaphores or with one thread. In `philosopher.c` a semaphore is 1 exactly when no one holds the fork; whoever holds the highest fork that is held has no higher one to wait for. |
| `FishProofs` | one turn; assertion; refinement of `FishDir` | The turn is `quota` or one thread; while it is with a thread `current` does not move. |
| `SumProofs` | two increments survive and none is counted twice; the spin lock excludes and main's assertion holds; own record, joined once; every second column of the image complete | Unlocked: a thread's last store is one more than some value it loaded after its first round, and that value is positive once somebody has stored. Spin lock: the sum is the number of rounds done, plus one for a thread that has stored and not counted yet. Pool: records below `tptr` belong to their threads for good, and the record at `tptr` is written only before its thread starts. Image: `done` is at most the number of columns rendered, whatever is lost. |
| `MidtermProofs` | no number lost or added twice; slots not shared; the total is printed | The sum, the numbers in the hands of threads, those in the buffer and those on stdin make up the total. Nothing is added up by recursion: a sum is the number of its units, so that moving a number from one place to another moves a set. |
| `ExplorerProofs` | exactly the reachable states; all edges; a trace is a walk, no edge skips a level, and the depth of a state is the length of a shortest walk to it; `reduce` chooses a tree of all states | Every vertex is in the queue, being expanded, or has all its edges; the last makes the vertices closed under steps when the queue is empty. The queue is sorted by depth and spans two levels, so that a state is found from the lowest level that leads to it. `reduce`: a round that finds nothing leaves its thread saturated until another round finds something, and any as many rounds as there are threads have one of each thread; a tree in which all threads are saturated is closed, hence has all states. |
| `LocksProofs` | the futex excludes and someone can go; `sem.py` implements `Semaphore`, and no more threads than tokens are through; no circles among ordered locks | Futex: the lock word is set exactly when there is an owner, and a thread that was taken out of the queue is one; when the lock is free, the thread that freed it is about to try again. Semaphore: a token that `V` hands over is with a thread that has left the queue and has not noticed. Order: a process holds a prefix of what it takes, each lock has one holder. In a circle of waiting take a process that wants a lock of the highest rank: whoever holds that lock wants one of a higher rank still. |
| `DlboxProofs` | one address for a name, a file mapped once and once more for each time main is given it; no assertion fails for files that are linked well, while there is room | The entries of `libs` are distinct, an import is bound to the first slot of its name, and slots are only added. A file is mapped when it is registered or given to main. For the assertions: the calls on the stack are nested, each by the record that the one below is at, so that the file of a call needs those of the calls it has led to. A library that is registered is done or belongs to an unfinished call; as no file loads what needs it, the record at hand does not name one of the latter. So when a call comes to an import, everything that the records before it load has exported all its symbols. |
| `SegmentsProofs` | every byte of the image in place; headers and arguments not overwritten unless a segment meets them; the stack is what the program expects, and is left only by more strings than there is room for | `bootmain.c` and `loader-static.c` write whole sectors and pages. The segments before the current one are in place, and the current one keeps them so: where it writes on a page of an earlier one both have the same distance from the file, hence the same byte, and neither clears what the other has there. The stack has all of `argv`, then the strings of `envp` before the current one that are kept, in their order, and hence at most one word for each string. |

The assumptions are those that the code makes true: there are finitely many
threads and files, at least one of each kind of thread, limits are positive, and
names of states are distinct. For the loaders: arrays have a length, a `.dl`
file has finitely many records and there are finitely many of them, sectors are
not empty, the arguments and the header of `bootmain.c` are whole sectors that
do not overlap, and the headers that it looks at lie in what it reads; a segment
lies in the file and in memory; a string is not a null pointer, and the room on
the stack is a natural number.

The induction theorems of the library take an operator as a parameter, which
the provers cannot instantiate. Where a proof needs a least or a greatest
element (`LocksProofs`, `PcProofs`, `DlboxProofs`, and the walks of `ExplorerProofs`) it is taken
from a set by the theorems on well-founded relations, which do not.

Only model-checked:

* liveness: fairness needs `ENABLED`, which is out of reach of the prover;
* `NoAssertionFails` (`peterson-barrier.c`, `mem-ordering.c`, `dekker.py`,
  `peterson-flag.py`, `spinlock.py`, `pc-cv.py`): these programs have a fixed
  number of threads and no constants, so that the run is already exhaustive and
  there is nothing to generalise;
* the shell: its parser is recursive, and its programs and their order are read from
  the tree that the parser builds;
* `dfs-fork.c` and `posix-spawn.c`, which are checked in the run of the shell, whose
  module reaches the recursive parser;
* the calculator: what becomes of a text (`Normalized`, `StripOperators`) is computed by
  the folds of the library, which would need induction over the characters.
