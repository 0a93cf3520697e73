-------------------------------- MODULE Vga --------------------------------
(***************************************************************************)
(* drivers/vga.c: the text screen, as operators on a screen, which is a    *)
(* record of its cells, counted from the top left, and the cursor.         *)
(* Colours and the hardware cursor are left out: nothing reads them back.  *)
(***************************************************************************)
EXTENDS Integers, SequencesExt

CONSTANTS
    WIDTH,    \* VGA_WIDTH, 80
    HEIGHT,   \* VGA_HEIGHT, 25
    TABSTOP,  \* 4
    Space, NewLine, Tab  \* the characters the driver tells apart

ASSUME ScreenAssumption ==
    /\ WIDTH \in Nat \ {0} /\ HEIGHT \in Nat \ {0} /\ TABSTOP \in Nat \ {0}
    /\ WIDTH % TABSTOP = 0
    /\ NewLine # Tab

Position == 0 .. WIDTH * HEIGHT - 1

\* Where the next character goes.
Cursor(s) == s.y * WIDTH + s.x

vga_clear == [cell |-> [p \in Position |-> Space], x |-> 0, y |-> 0]

\* Everything goes up one row when the cursor is below the last one.
scroll(s) ==
    IF s.y < HEIGHT THEN s
    ELSE [s EXCEPT !.y = HEIGHT - 1,
                   !.cell = [p \in Position |-> IF p < (HEIGHT - 1) * WIDTH
                                                THEN s.cell[p + WIDTH] ELSE Space]]

\* The end of a row is the start of the next.
Wrap(s) == IF s.x >= WIDTH THEN [s EXCEPT !.x = 0, !.y = @ + 1] ELSE s

vga_putchar(s, c) ==
    scroll(Wrap(CASE c = NewLine -> [s EXCEPT !.x = 0, !.y = @ + 1]
                  [] c = Tab     -> [s EXCEPT !.x = ((@ + TABSTOP) \div TABSTOP) * TABSTOP]
                  [] OTHER       -> [s EXCEPT !.cell[Cursor(s)] = c, !.x = @ + 1]))

vga_print(s, text) ==
    LET after[n \in 0 .. Len(text)] == IF n = 0 THEN s ELSE vga_putchar(after[n - 1], text[n])
    IN  after[Len(text)]

\* A mutant: the end of the previous row is not reached.
vga_backspace_SameRow(s) ==
    LET back == IF s.x > 0 THEN [s EXCEPT !.x = @ - 1] ELSE s
    IN  [back EXCEPT !.cell[Cursor(back)] = Space]

vga_backspace(s) ==
    LET back == CASE s.x > 0             -> [s EXCEPT !.x = @ - 1]
                  [] s.x = 0 /\ s.y > 0  -> [s EXCEPT !.x = WIDTH - 1, !.y = @ - 1]
                  [] OTHER               -> s
    IN  [back EXCEPT !.cell[Cursor(back)] = Space]

\* n times vga_backspace.
Erase(s, n) ==
    LET after[k \in 0 .. n] == IF k = 0 THEN s ELSE vga_backspace(after[k - 1])
    IN  after[n]
=============================================================================
