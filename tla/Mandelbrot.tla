----------------------------- MODULE Mandelbrot ----------------------------
(***************************************************************************)
(* concurrency/mandelbrot.c: NT threads Tworker render the columns of an   *)
(* image and count themselves in done when they are through; Tdisplay      *)
(* waits until all of them have, and writes the image.  The increment of   *)
(* done is not locked.  A column is rendered or not: what is in it is left *)
(* out.  The processor keeps the order of one thread's stores.             *)
(***************************************************************************)
EXTENDS Naturals

CONSTANTS W,        \* the width of the image
          NTs       \* the numbers of threads that may be asked for

VARIABLES NT,       \* atoi(argv[1])
          x,        \* the columns that are rendered
          i,        \* i[t]: the column that worker t looks at
          reg,      \* reg[t]: what worker t has loaded from done
          done,
          pc,       \* pc[t]: of worker t; pc[0]: of Tdisplay
          image     \* the rendered columns in the file, << >> before it is written
vars == <<NT, x, i, reg, done, pc, image>>

Workers == 1..NT
Tdisplay == 0

Init == /\ NT \in NTs
        /\ x = {} /\ done = 0 /\ image = << >>
        /\ i = [t \in Workers |-> 0]
        /\ reg = [t \in Workers |-> 0]
        /\ pc = [t \in 0..NT |-> IF t = Tdisplay THEN "while" ELSE "for"]

Goto(t, from, to) == pc[t] = from /\ pc' = [pc EXCEPT ![t] = to]

belongs(c, t) == c \div (W \div NT) = t

\* one column of the for loops
Render(t) == /\ i[t] < W
             /\ Goto(t, "for", "for")
             /\ x' = IF belongs(i[t], t - 1) THEN x \union {i[t]} ELSE x
             /\ i' = [i EXCEPT ![t] = @ + 1]
             /\ UNCHANGED <<NT, reg, done, image>>

\* the load and the store of done++
Load(t) == /\ i[t] = W
           /\ Goto(t, "for", "done++")
           /\ reg' = [reg EXCEPT ![t] = done]
           /\ UNCHANGED <<NT, x, i, done, image>>
Store(t) == /\ Goto(t, "done++", "end")
            /\ done' = reg[t] + 1
            /\ UNCHANGED <<NT, x, i, reg, image>>
Tworker(t) == Render(t) \/ Load(t) \/ Store(t)

OneLeft == /\ done + 1 >= NT
           /\ Goto(Tdisplay, "while", "fopen")
           /\ UNCHANGED <<NT, x, i, reg, done, image>>

\* if (done == NT) break
Break == /\ done = NT
         /\ Goto(Tdisplay, "while", "fopen")
         /\ UNCHANGED <<NT, x, i, reg, done, image>>

\* display(fp, step) writes every step-th column
display(step) == {c \in x : c % step = 0}
\* display(fp, 2) into the file
WriteImage == /\ Goto(Tdisplay, "fopen", "end")
              /\ image' = <<display(2)>>
              /\ UNCHANGED <<NT, x, i, reg, done>>
Display == Break \/ WriteImage

\* join() waits for all of them
Ended == \A t \in 0..NT : pc[t] = "end"
\* two workers have stored the same count: Tdisplay shows the image for ever
CountLost == done < NT /\ \A t \in Workers : pc[t] = "end"

Next == Display \/ \E t \in Workers : Tworker(t)
-----------------------------------------------------------------------------
\* Of the columns that display writes, every second one, the file has all that
\* belong to a thread rendered, although Tdisplay only knows of the threads
\* through a counter that loses increments (mandelbrot.c:21-22, 42, 51, 58).
\* All columns belong to one if NT divides W, and else all but the last few
\* (mandelbrot.c:10).
ImageIsComplete ==
  image # << >> => image[1] = {c \in IF NT = 0 THEN {} ELSE 0..(NT * (W \div NT) - 1) : c % 2 = 0}
=============================================================================
