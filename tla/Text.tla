-------------------------------- MODULE Text --------------------------------
(***************************************************************************)
(* The commands that read a text: grep with strstr_pos, wc, head and tail,  *)
(* as functions of the file's bytes, and what they are to compute.  Each    *)
(* loop of the code is a function of how many times its body was executed,  *)
(* as often as the text has bytes at most.                                  *)
(***************************************************************************)
EXTENDS Integers, Sequences, FiniteSets

CONSTANTS
    LINES,     \* the lines head and tail show
    BYTES      \* the bytes of a line

Newline == "\n"
Blanks == {" ", Newline, "\t"}

ASSUME TextAssumption == LINES \in Nat \ {0} /\ Newline \notin BYTES

-----------------------------------------------------------------------------
(* grep.                                                                    *)

Least(S) == CHOOSE i \in S : \A j \in S : i <= j

\* The first place of needle in haystack, from 0; -1 if there is none.
Places(haystack, needle) ==
    {i \in 0 .. Len(haystack) - Len(needle) :
        \A j \in 1 .. Len(needle) : haystack[i + j] = needle[j]}
strstr_pos(haystack, needle) ==
    IF needle = <<>> \/ Places(haystack, needle) = {} THEN -1
    ELSE Least(Places(haystack, needle))

\* The line as grep prints it: what is before the pattern, the pattern, and so
\* on with what is after it; p.left is what is still to be printed.
Piece(p, pattern) ==
    LET pos == strstr_pos(p.left, pattern)
    IN IF pos >= 0
       THEN [out |-> p.out \o SubSeq(p.left, 1, pos) \o pattern,
             left |-> SubSeq(p.left, pos + Len(pattern) + 1, Len(p.left))]
       ELSE [out |-> p.out \o p.left, left |-> <<>>]

Highlighted(text, pattern) ==
    LET after[k \in 0 .. Len(text)] ==
            IF k = 0 THEN [out |-> <<>>, left |-> text]
            ELSE Piece(after[k - 1], pattern)
    IN  after[Len(text)].out

\* The end of the line that begins at `line': its newline, or that of the text.
LineEnd(buf, line) ==
    Least({i \in line .. Len(buf) : buf[i] = Newline} \cup {Len(buf) + 1})

\* The loop over the lines; a text that ends in a newline has no line after it.
GrepLine(buf, pattern, g) ==
    LET eol == LineEnd(buf, g.line)
        text == SubSeq(buf, g.line, eol - 1)
    IN IF g.line > Len(buf) THEN g
       ELSE [out |-> IF strstr_pos(text, pattern) < 0 THEN g.out
                     ELSE Append(g.out, [number |-> g.line_num,
                                         text |-> Highlighted(text, pattern)]),
             line |-> eol + 1, line_num |-> g.line_num + 1]

cmd_grep(pattern, buf) ==
    LET after[k \in 0 .. Len(buf)] ==
            IF k = 0 THEN [out |-> <<>>, line |-> 1, line_num |-> 1]
            ELSE GrepLine(buf, pattern, after[k - 1])
    IN  after[Len(buf)].out

-----------------------------------------------------------------------------
(* wc, head and tail: one pass over the bytes.                              *)

Count(c, byte) ==
    [lines |-> IF byte = Newline THEN c.lines + 1 ELSE c.lines,
     words |-> IF byte \in Blanks \/ c.in_word THEN c.words ELSE c.words + 1,
     in_word |-> byte \notin Blanks]

cmd_wc(buf) ==
    LET after[i \in 0 .. Len(buf)] ==
            IF i = 0 THEN [lines |-> 0, words |-> 0, in_word |-> FALSE]
            ELSE Count(after[i - 1], buf[i])
    IN  [lines |-> after[Len(buf)].lines, words |-> after[Len(buf)].words,
         bytes |-> Len(buf)]

\* The bytes printed while from <= lines < to.
Print1(s, byte, from, to) ==
    [out |-> IF from <= s.lines /\ s.lines < to THEN Append(s.out, byte) ELSE s.out,
     lines |-> IF byte = Newline THEN s.lines + 1 ELSE s.lines]

Show(buf, from, to) ==
    LET after[i \in 0 .. Len(buf)] ==
            IF i = 0 THEN [out |-> <<>>, lines |-> 0]
            ELSE Print1(after[i - 1], buf[i], from, to)
    IN  after[Len(buf)].out

EndLine(buf) == IF buf[Len(buf)] # Newline THEN <<Newline>> ELSE <<>>

cmd_head(buf) ==
    IF buf = <<>> THEN <<>> ELSE Show(buf, 0, LINES) \o EndLine(buf)

\* tail counts the lines as wc does.
Skip_OneMore(total) == IF total > LINES THEN total - LINES + 1 ELSE 0
Skip(total) == IF total > LINES THEN total - LINES ELSE 0

cmd_tail(buf) ==
    IF buf = <<>> THEN <<>>
    ELSE Show(buf, Skip(cmd_wc(buf).lines), Len(buf) + 1) \o EndLine(buf)

\* What the four commands show of a file.
Shown(buf, pattern) ==
    [grep |-> cmd_grep(pattern, buf), wc |-> cmd_wc(buf),
     head |-> cmd_head(buf), tail |-> cmd_tail(buf)]

-----------------------------------------------------------------------------
(* What they are to compute.  A text is given by its lines and by whether   *)
(* the last of them has its newline: `append' leaves a file that has it,    *)
(* `write' one that has not.                                                *)

Text(lines) ==
    LET upto[k \in 0 .. Len(lines)] ==
            IF k = 0 THEN <<>> ELSE upto[k - 1] \o Append(lines[k], Newline)
    IN  upto[Len(lines)]

\* Without its newline, a last line that is empty is no line.
Readable(d) ==
    /\ d \in [lines : Seq(Seq(BYTES)), ended : BOOLEAN]
    /\ d.ended \/ (d.lines # <<>> /\ d.lines[Len(d.lines)] # <<>>)

Content(d) ==
    IF d.ended THEN Text(d.lines)
    ELSE SubSeq(Text(d.lines), 1, Len(Text(d.lines)) - 1)

Matching(lines, pattern) ==
    {n \in DOMAIN lines : \E i \in 0 .. Len(lines[n]) - Len(pattern) :
        SubSeq(lines[n], i + 1, i + Len(pattern)) = pattern}

\* Where a word begins.
WordStarts(text) ==
    {i \in DOMAIN text : text[i] \notin Blanks /\ (i = 1 \/ text[i - 1] \in Blanks)}

FirstLines(lines) == SubSeq(lines, 1, IF Len(lines) < LINES THEN Len(lines) ELSE LINES)
LastLines(lines, count) ==
    SubSeq(lines, IF Len(lines) < count THEN 1 ELSE Len(lines) - count + 1, Len(lines))

\* grep shows the lines that hold the pattern, whole, once each and in order.
GrepRight(shown, lines, pattern) ==
    /\ {shown[i].number : i \in DOMAIN shown} = Matching(lines, pattern)
    /\ \A i \in DOMAIN shown : shown[i].text = lines[shown[i].number]
    /\ \A i, j \in DOMAIN shown : i < j => shown[i].number < shown[j].number

\* wc counts the newlines.
WcRight(shown, d) ==
    shown = [lines |-> IF d.ended THEN Len(d.lines) ELSE Len(d.lines) - 1,
             words |-> Cardinality(WordStarts(Content(d))), bytes |-> Len(Content(d))]

\* head shows the first lines, and an empty one behind them when the text goes
\* on and does not end in a newline.
HeadRight(shown, d) ==
    shown = IF d.ended \/ Len(d.lines) <= LINES THEN Text(FirstLines(d.lines))
            ELSE Append(Text(FirstLines(d.lines)), Newline)

\* tail shows the last lines, and one more when the text does not end in a
\* newline: it skips by a count of newlines.
TailRight(shown, d) ==
    shown = Text(LastLines(d.lines, IF d.ended THEN LINES ELSE LINES + 1))

\* Whether what the commands show is that.
ShownRight(shown, d, pattern) ==
    /\ GrepRight(shown.grep, d.lines, pattern)
    /\ WcRight(shown.wc, d)
    /\ HeadRight(shown.head, d)
    /\ TailRight(shown.tail, d)

=============================================================================
