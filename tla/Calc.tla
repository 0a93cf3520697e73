-------------------------------- MODULE Calc --------------------------------
(***************************************************************************)
(* The calculator of the shell: calc_expr, calc_term and calc_number over   *)
(* the tokens of a line, in the width of an int, and what the expression    *)
(* means, for comparison.  Overflow wraps; a quotient that does not fit is  *)
(* the exception #DE, which isr_handler answers with a panic.               *)
(***************************************************************************)
EXTENDS Integers, Sequences

CONSTANTS
    WIDTH,       \* bits of an int
    LITERALS     \* the numbers typed

ASSUME CalcAssumption == WIDTH \in Nat \ {0, 1} /\ LITERALS \subseteq Nat

Half == 2 ^ (WIDTH - 1)
Wrap(n) == ((n + Half) % (2 * Half)) - Half

Abs(n) == IF n < 0 THEN -n ELSE n
Quotient(a, b) ==
    IF (a < 0) = (b < 0) THEN Abs(a) \div Abs(b) ELSE -(Abs(a) \div Abs(b))

\* A result: the number a function returns, which may be that of an expression
\* in error, where calc_error is set; or a panic.
Ok(n) == [is |-> "value", n |-> Wrap(n)]
Error == [is |-> "error", n |-> 0]
Panic == [is |-> "panic", n |-> 0]

Divide(op, a, b) ==
    CASE b = 0 -> Error
      [] b = -1 /\ a = -Half -> Panic
      [] b # 0 /\ ~(b = -1 /\ a = -Half) ->
            Ok(IF op = "/" THEN Quotient(a, b) ELSE a - b * Quotient(a, b))

Operate(op, a, b) ==
    CASE op = "+" -> Ok(a + b)
      [] op = "-" -> Ok(a - b)
      [] op = "*" -> Ok(a * b)
      [] op \in {"/", "%"} -> Divide(op, a, b)

\* The operator is applied to the number the operand returned, and only then
\* calc_error is looked at: an error in the operand remains one, unless the
\* quotient with what it returned panics.
Combine(op, a, q) ==
    LET r == Operate(op, a, q.n)
    IN CASE q.is = "panic" -> q
         [] q.is # "panic" /\ r.is = "value" -> [is |-> q.is, n |-> r.n]
         [] q.is # "panic" /\ r.is # "value" -> r

Signed(neg, r) == IF neg /\ r.is # "panic" THEN [is |-> r.is, n |-> Wrap(-r.n)] ELSE r

-----------------------------------------------------------------------------
(* The parser.  A token is a character or a whole number; `at' is calc_ptr. *)
(* calc_number calls calc_expr further to the right only, so that calc_expr *)
(* is a recursive function of where it is called; the others take it as a   *)
(* parameter.                                                               *)

Space == " "
Symbol(c) == [c |-> c, n |-> 0]
Number(n) == [c |-> "number", n |-> n]
Tokens == [c : {"number", "(", ")", Space, "+", "-", "*", "/", "%"}, n : Nat]

Positions(line) == 1 .. Len(line) + 1

Is(line, at, c) == at <= Len(line) /\ line[at].c = c

SkipSpaces(line, at) ==
    CHOOSE i \in at .. Len(line) + 1 :
        ~ Is(line, i, Space) /\ \A j \in at .. i - 1 : Is(line, j, Space)

\* A parse: the result, and where calc_ptr is then.
Parsed(r, at) == [r |-> r, at |-> at]

\* No space is skipped between a sign and its number.
calc_number(line, expr, from) ==
    LET begin == SkipSpaces(line, from)
        neg == Is(line, begin, "-")
        at == IF neg THEN begin + 1 ELSE begin
    IN CASE Is(line, at, "(") ->
                LET p == expr[at + 1]
                IN Parsed(Signed(neg, p.r), IF Is(line, p.at, ")") THEN p.at + 1 ELSE p.at)
         [] Is(line, at, "number") -> Parsed(Signed(neg, Ok(line[at].n)), at + 1)
         [] OTHER -> Parsed(Error, at)

\* Applying an operator to what was parsed so far and what was parsed next.
Apply(p, op, q) == Parsed(Combine(op, p.r.n, q.r), q.at)

\* The body of the loops of calc_term and calc_expr, for the operators of the
\* level and the function that parses an operand.
Round(line, ops, operand, p) ==
    LET at == SkipSpaces(line, p.at)
    IN IF p.r.is # "value" THEN p
       ELSE IF \E op \in ops : Is(line, at, op)
            THEN Apply(p, line[at].c, operand[at + 1])
            ELSE Parsed(p.r, at)

\* A round that goes on takes a token, so that as many are enough.
Loop(line, ops, operand, p) ==
    LET after[k \in 0 .. Len(line)] ==
            IF k = 0 THEN p ELSE Round(line, ops, operand, after[k - 1])
    IN  after[Len(line)]

Products == {"*", "/", "%"}
calc_term(line, expr, from) ==
    Loop(line, Products,
         [at \in Positions(line) |-> calc_number(line, expr, at)],
         calc_number(line, expr, from))

\* A mutant: the right operand of a sum is a sum.
calc_expr_Right(line) ==
    LET expr[from \in Positions(line)] ==
            Loop(line, {"+", "-"}, expr, calc_term(line, expr, from))
    IN  expr

Sums == {"+", "-"}
calc_expr(line) ==
    LET expr[from \in Positions(line)] ==
            Loop(line, Sums,
                 [at \in Positions(line) |-> calc_term(line, expr, at)],
                 calc_term(line, expr, from))
    IN  expr

\* An expression in error has no number.
Outcome(r) == IF r.is = "error" THEN Error ELSE r

cmd_calc(line) == Outcome(calc_expr(line)[1].r)

-----------------------------------------------------------------------------
(* What is typed: an expression with the parentheses it needs, and what it  *)
(* means: the operands from left to right, the usual precedence.  After a   *)
(* failure on its left an operator is not applied; one on its right is      *)
(* noticed when it has been.                                                *)

Operators == Sums \cup Products

Precedence(e) ==
    CASE e.op \in Sums -> 1 [] e.op \in Products -> 2 [] e.op = "neg" -> 3 [] OTHER -> 4

Within(e, least) ==
    IF Precedence(e) >= least THEN e.tokens
    ELSE <<Symbol("(")>> \o e.tokens \o <<Symbol(Space), Symbol(")")>>

Literal(n) == [op |-> "literal", tokens |-> <<Number(n)>>, means |-> Ok(n)]

Negation(e) ==
    [op |-> "neg", l |-> e, tokens |-> <<Symbol("-")>> \o Within(e, 4),
     means |-> Signed(TRUE, e.means)]

Binary(op, l, r) ==
    LET p == Precedence([op |-> op])
    IN [op |-> op, l |-> l, r |-> r,
        tokens |-> Within(l, p) \o <<Symbol(Space), Symbol(op), Symbol(Space)>> \o Within(r, p + 1),
        means |-> IF l.means.is = "value" THEN Combine(op, l.means.n, r.means)
                  ELSE l.means]

\* All of the set are expressions, made of others of the set.
Expressions(E) ==
    \A e \in E :
        /\ e.tokens \in Seq(Tokens)
        /\ \/ \E n \in LITERALS : e = Literal(n)
           \/ e.op = "neg" /\ e.l \in E /\ e = Negation(e.l)
           \/ e.op \in Operators /\ {e.l, e.r} \subseteq E /\ e = Binary(e.op, e.l, e.r)

=============================================================================
