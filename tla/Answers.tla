------------------------------ MODULE Answers -------------------------------
(***************************************************************************)
(* The commands of shell/shell.c that compute an answer from their          *)
(* arguments alone, `calc' (Calc) and those that read a text (Text), with   *)
(* the commands that keep state (Shell) in sessions of their own.           *)
(***************************************************************************)
EXTENDS Shell, Calc, Text

CONSTANTS
    EXPRESSIONS,       \* the expressions given to calc
    DOCUMENTS,         \* the texts read
    PATTERNS           \* the patterns given to grep

VARIABLES asked, answer      \* the last question and what was printed

ASSUME QuestionsAssumption ==
    /\ Expressions(EXPRESSIONS)
    /\ \A d \in DOCUMENTS : Readable(d)
    /\ PATTERNS \subseteq Seq(BYTES) \ {<<>>}

questions == <<asked, answer>>
NoQuestion == [is |-> "none"]

Calculate(e) ==
    /\ asked' = [is |-> "calc", expression |-> e]
    /\ answer' = cmd_calc(e.tokens)

Read(d, pattern) ==
    /\ asked' = [is |-> "text", document |-> d, pattern |-> pattern]
    /\ answer' = Shown(Content(d), pattern)

AnswersInit == ShellInit /\ asked = NoQuestion /\ answer = NoQuestion

\* One question a session is enough (a bound): nothing is kept of it.
AnswersNext ==
    \/ ShellNext /\ UNCHANGED questions
    \/ /\ session = "answers" /\ asked = NoQuestion
       /\ \/ \E e \in EXPRESSIONS : Calculate(e)
          \/ \E d \in DOCUMENTS, p \in PATTERNS : Read(d, p)
       /\ UNCHANGED shell_vars

AnswersSpec == AnswersInit /\ [][AnswersNext]_<<shell_vars, questions>>

-----------------------------------------------------------------------------
(* calc prints what the expression means, with the usual precedence, from   *)
(* left to right, in the width of an int; or, for any expression in which   *)
(* something is divided by zero, an error and never a number; or the kernel *)
(* panics, where a quotient does not fit, be it one with the number an      *)
(* operand in error has returned.  Of a text that ends in a newline or not, *)
(* grep shows the lines that hold the pattern, all of each, once and in     *)
(* order; wc counts newlines, words and bytes; head shows the first lines;  *)
(* and tail the last ones, of which it shows, against the help (shell.c:319)*)
(* and shell.c:1521, one too many when the text does not end in a newline,  *)
(* as `write' leaves it.                                                    *)
AnswersRight ==
    /\ asked.is = "calc" => answer = Outcome(asked.expression.means)
    /\ asked.is = "text" => ShownRight(answer, asked.document, asked.pattern)

=============================================================================
