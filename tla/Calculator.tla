----------------------------- MODULE Calculator -----------------------------
(***************************************************************************)
(* calculator/.../Calculator.java: the states of the calculator, and the   *)
(* animations that postpone a change of state.  Handlers run on one        *)
(* thread; an animation calls back at its start, when its second part      *)
(* starts and at its end.  onUserInteraction ends the animation in         *)
(* progress when a finger or a key goes down; the click comes when it goes *)
(* up, and by then another finger or key may have started an animation     *)
(* (`overlap').                                                            *)
(*                                                                         *)
(* The text of the formula is that of CalculatorExpressionTokenizer,       *)
(* CalculatorExpressionBuilder.replace and the preparation of an           *)
(* expression in CalculatorExpressionEvaluator: a sequence of characters.  *)
(* Digits are all "1"; "(" stands for every character and function name    *)
(* that has no rule of its own.  The infinity sign is one character on the *)
(* display and the eight letters of Infinity after normalization; every    *)
(* other character is normalized to one character.                         *)
(***************************************************************************)
EXTENDS Naturals, Sequences, SequencesExt

CONSTANTS MaxLength,        \* bound on the length of the formula
          MaxAnimations     \* bound on the animations in progress

VARIABLES display,          \* what the user sees, see Watched
          running,          \* the animations in progress
          mCurrentAnimator, \* which of them is known, 0 if none
          overlap           \* clicks may come while an animation is in progress
vars == <<display, running, mCurrentAnimator, overlap>>

-----------------------------------------------------------------------------
Operators == {"+", "-", "*", "/"}
Chars == {"1", ".", "("} \union Operators

Infinity == [k \in 1..8 |-> "letter"]

\* the replacements of getNormalizedExpression
Normalized(text) == FlattenSeq([k \in DOMAIN text |-> IF text[k] = "inf" THEN Infinity ELSE <<text[k]>>])

\* what append leaves of the text when the first n characters are kept
AppendAt(text, n, c) == Append(SubSeq(text, 1, n), c)

LastIndexOf(s, c) == SelectLastInSeq(s, LAMBDA x : x = c)      \* 0 if there is none

\* the first n characters without the operators at their end
StripOperators(s, n) == SelectLastInSeq(SubSeq(s, 1, n), LAMBDA x : x \notin Operators)

\* case '.': the characters between the last decimal point and the end of
\* the text, by an index into the normalized expression and the length of
\* the text
Throws(text, c) == c = "." /\ LastIndexOf(Normalized(text), ".") > Len(text)
InDecimals(text) == LET expr == Normalized(text)
                        index == LastIndexOf(expr, ".")
                    IN  index > 0 /\ \A k \in (index + 1)..Len(text) : expr[k] = "1"

\* the end of what is kept when an operator is appended
MinusAfterAny(text, c) == IF c = "-" THEN Len(text) ELSE StripOperators(Normalized(text), Len(text))

KeepBefore(text, c) ==
  LET expr == Normalized(text)
      n == IF c = "-" THEN Len(text) ELSE StripOperators(expr, Len(text))
  IN  IF n > 0 /\ expr[n] \in {"+", "-"} THEN n - 1 ELSE n

Ignored(text, c) == \/ c = "." /\ InDecimals(text)
                    \/ c \in Operators \ {"-"} /\ text = << >>

\* the text after c was appended by replace
Replace(text, isEdited, c) ==
  IF Ignored(text, c) THEN text
  ELSE IF c \in Operators THEN AppendAt(text, KeepBefore(text, c), c)
  ELSE AppendAt(text, IF isEdited THEN Len(text) ELSE 0, c)

-----------------------------------------------------------------------------
\* evaluate: the expression without trailing operators
Prepared(text) == LET expr == Normalized(text) IN SubSeq(expr, 1, StripOperators(expr, Len(expr)))

\* Double.valueOf accepts it
IsNumber(expr) ==
  LET s == IF expr # << >> /\ expr[1] \in {"+", "-"} THEN Tail(expr) ELSE expr
  IN  \/ s = Infinity
      \/ /\ \A k \in DOMAIN s : s[k] \in {"1", "."}
         /\ \E k \in DOMAIN s : s[k] = "1"
         /\ \A j, k \in DOMAIN s : s[j] = "." /\ s[k] = "." => j = k

Error == <<"error">>
Has(expr, c) == \E k \in DOMAIN expr : expr[k] = c

\* Symbols.eval, with an error, an infinite result, a negative one and a
\* number with a decimal point
Eval(expr) == IF Has(expr, "(") THEN Error
              ELSE IF Has(expr, "/") THEN <<"inf">>
              ELSE IF Has(expr, "-") THEN <<"-", "1">>
              ELSE <<"1", ".", "1">>
-----------------------------------------------------------------------------
Animations == 1..MaxAnimations
NoAnimation == [kind |-> "none", result |-> << >>]
NoResult == << >>           \* null

Texts == BoundedSeq(Chars \union {"inf"}, MaxLength)

\* evaluate, as the result that onEvaluate gets
Evaluate == [text \in Texts |-> LET expr == Prepared(text) IN
               IF expr = << >> \/ IsNumber(expr) THEN NoResult ELSE Eval(expr)]

\* onEvaluate in INPUT
Preview(text) == IF Evaluate[text] = Error THEN NoResult ELSE Evaluate[text]

\* state: mCurrentState; formula: the text of mFormulaEditText; edited:
\* mIsEdited of the builder that holds it; shown: the text of mResultEditText.
\* This is the display after the watcher has seen a change of the formula.
Watched(text, edited) == [state |-> "INPUT", formula |-> text, edited |-> edited, shown |-> Preview(text)]
-----------------------------------------------------------------------------
IsEdited(state) == state \in {"INPUT", "ERROR"}

\* setText of the result goes through the watcher; then the state is set
ResultShown(d, result) == [Watched(result, IsEdited(d.state)) EXCEPT !.state = "RESULT"]

Cleared(d) == IF d.formula = << >> THEN d ELSE Watched(<< >>, TRUE)

ErrorOnlyShown(d, a) == CASE a.kind = "clear" -> Cleared(d)
                          [] a.kind = "error" -> [d EXCEPT !.shown = Error]
                          [] a.kind = "result" -> ResultShown(d, a.result)
                          [] OTHER -> d

\* the display when what is left of an animation has happened
Finished(d, a) == CASE a.kind = "clear" -> Cleared(d)
                    [] a.kind = "error" -> [d EXCEPT !.state = "ERROR", !.shown = Error]
                    [] a.kind = "result" -> ResultShown(d, a.result)
                    [] OTHER -> d

\* The reveal is over and the fade starts.
Fade(k) == /\ running[k].kind \in {"clear", "error"}
           /\ display' = Finished(display, running[k])
           /\ running' = [running EXCEPT ![k].kind = "fading"]
           /\ UNCHANGED <<mCurrentAnimator, overlap>>

\* onAnimationEnd forgets the current animation, whichever ended.
AnimationEnd(k) == /\ running[k].kind \in {"fading", "result"}
                   /\ display' = Finished(display, running[k])
                   /\ running' = [running EXCEPT ![k] = NoAnimation]
                   /\ mCurrentAnimator' = 0
                   /\ UNCHANGED overlap

\* mCurrentAnimator.end()
onUserInteraction == /\ mCurrentAnimator # 0
                     /\ display' = Finished(display, running[mCurrentAnimator])
                     /\ running' = [running EXCEPT ![mCurrentAnimator] = NoAnimation]
                     /\ mCurrentAnimator' = 0
                     /\ UNCHANGED overlap

\* what onEvaluate makes of the display when the formula has been evaluated
Evaluated(d) ==
  LET r == Evaluate[d.formula] IN
  CASE d.state = "INPUT"    -> [d EXCEPT !.shown = Preview(d.formula)]
    [] d.state # "INPUT" /\ r = Error -> IF d.state = "EVALUATE" THEN d ELSE [d EXCEPT !.shown = Error]
    [] d.state # "INPUT" /\ r = NoResult -> IF d.state = "EVALUATE" THEN [d EXCEPT !.state = "INPUT"] ELSE d
    [] OTHER -> [d EXCEPT !.shown = r]

\* the animation that onError or onResult starts
Started(d) ==
  LET r == Evaluate[d.formula] IN
  IF d.state = "INPUT" \/ r = NoResult \/ (r = Error /\ d.state # "EVALUATE") THEN NoAnimation
  ELSE IF r = Error THEN [kind |-> "error", result |-> << >>]
  ELSE [kind |-> "result", result |-> r]

\* Animation a is started besides those in progress.
Play(anims, current, a) ==
  IF a = NoAnimation THEN running' = anims /\ mCurrentAnimator' = current
  ELSE \E k \in Animations : /\ anims[k] = NoAnimation
                             /\ running' = [anims EXCEPT ![k] = a]
                             /\ mCurrentAnimator' = k

\* onCreate: the display is built from a saved state and formula.  The
\* editor's factory comes after the evaluation.
Created(state, text) ==
  LET d == [state |-> state, formula |-> text, edited |-> TRUE, shown |-> NoResult]
  IN  [Evaluated(d) EXCEPT !.edited = IsEdited(Evaluated(d).state)]

Quiet == [k \in Animations |-> NoAnimation]

Init == /\ display = Created("INPUT", << >>)
        /\ running = Quiet
        /\ mCurrentAnimator = 0
        /\ overlap \in BOOLEAN
-----------------------------------------------------------------------------
\* A click or a key reaches its handler.
Handled == (overlap \/ mCurrentAnimator = 0) /\ UNCHANGED overlap

\* append, and the keys that type
onButtonClick(c) ==
  /\ Handled
  /\ ~Throws(display.formula, c)
  /\ \E text \in {Replace(display.formula, display.edited, c)} :
     /\ Len(text) <= MaxLength
     /\ display' = IF Ignored(display.formula, c) THEN display ELSE Watched(text, TRUE)
  /\ UNCHANGED <<running, mCurrentAnimator>>

\* The exception ends the program, and it is started anew.
Crash(c) == /\ Handled
            /\ Throws(display.formula, c)
            /\ display' = Created("INPUT", << >>)
            /\ running' = Quiet
            /\ mCurrentAnimator' = 0

\* the button, or the backspace key, which works in every state
onDelete == /\ Handled
            /\ display.formula # << >>
            /\ display' = Watched(Front(display.formula), TRUE)
            /\ UNCHANGED <<running, mCurrentAnimator>>

onEquals == /\ Handled
            /\ display.state = "INPUT"
            /\ \E d \in {[display EXCEPT !.state = "EVALUATE"]} :
                 display' = Evaluated(d) /\ Play(running, mCurrentAnimator, Started(d))

onClear == /\ Handled
           /\ display.formula # << >>
           /\ Play(running, mCurrentAnimator, [kind |-> "clear", result |-> << >>])
           /\ UNCHANGED display

SaveAsIs == /\ display' = Created(display.state, display.formula)
            /\ Play(Quiet, 0, Started(display))
            /\ UNCHANGED overlap

\* onSaveInstanceState ends the current animation, and onCreate restores
\* what was saved in a new activity.
Recreate == \E d \in {IF mCurrentAnimator = 0 THEN display
                      ELSE Finished(display, running[mCurrentAnimator])} :
              /\ display' = Created(d.state, d.formula)
              /\ Play(Quiet, 0, Started(d))
              /\ UNCHANGED overlap

Animate == \E k \in Animations : Fade(k) \/ AnimationEnd(k)

Next == \/ onUserInteraction
        \/ \E c \in Chars : onButtonClick(c) \/ Crash(c)
        \/ onDelete \/ onEquals \/ onClear \/ Recreate
        \/ Animate

\* The next part of animation k, by itself or because it is ended.
GoesOn(k) == \E a \in {NoAnimation, [running[k] EXCEPT !.kind = "fading"]} \ {running[k]} :
               running[k] # NoAnimation /\ running' = [running EXCEPT ![k] = a]

\* An animation that has started goes on.
Spec == Init /\ [][Next]_vars /\ \A k \in Animations : WF_running(GoesOn(k))
-----------------------------------------------------------------------------

\* As long as clicks wait for the animation, the next digit replaces a result
\* and is appended to anything else: a builder is unedited exactly in RESULT
\* (Calculator.java:98-105, 450-451, CalculatorExpressionBuilder.java:84-88).
\* Activities that were saved and restored are no exception.
ResultsAreReplaced == ~overlap => (display.edited <=> display.state # "RESULT")

\* the rules of CalculatorExpressionBuilder.java:50-74 for operators
MaySucceed(a, b) == a \in Operators /\ b \in Operators => a \in {"*", "/"} /\ b = "-"

\* No operator succeeds another but a minus sign after * or /
\* (CalculatorExpressionBuilder.java:65-74).
NoSuccessiveOperators ==
  \A k \in 2..Len(display.formula) : MaySucceed(display.formula[k - 1], display.formula[k])

\* No number has two decimal points (CalculatorExpressionBuilder.java:49-55),
\* and no operator succeeds another: both hold as long as the formula has no
\* character that normalization makes longer.
WellFormed ==
  LET f == display.formula IN
  (\A k \in DOMAIN f : f[k] # "inf") =>
    /\ NoSuccessiveOperators
    /\ \A j, k \in DOMAIN f : j < k /\ f[j] = "." /\ f[k] = "." => \E m \in j..k : f[m] \notin {".", "1"}

\* The calculator does not stay in EVALUATE (Calculator.java:263-266,392,451).
EvaluationEnds == display.state = "EVALUATE" ~> display.state # "EVALUATE"
=============================================================================
