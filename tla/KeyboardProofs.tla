--------------------------- MODULE KeyboardProofs ---------------------------
(***************************************************************************)
(* The line editor, for a screen, a line, a history and texts of any size:  *)
(* the screen shows the line, history holds the last commands, and the      *)
(* user's own line comes back after browsing.                               *)
(***************************************************************************)
EXTENDS Keyboard, WellFoundedInduction, TLAPS

-----------------------------------------------------------------------------
(* Arithmetic.                                                              *)

LEMMA Division ==
    ASSUME NEW m \in Nat \ {0}, NEW n \in Nat
    PROVE  /\ n \div m \in Nat
           /\ n % m \in 0 .. m - 1
           /\ n = m * (n \div m) + (n % m)
  OBVIOUS

LEMMA TimesMonotone ==
    ASSUME NEW m \in Nat, NEW i \in Nat, NEW j \in Nat, i <= j
    PROVE  i * m <= j * m
<1> DEFINE d == j - i
<1>1. d \in Nat /\ j = i + d
  OBVIOUS
<1>2. d * m \in Nat
  BY <1>1
<1>3. (i + d) * m = i * m + d * m
  BY <1>1
<1>4. QED  BY <1>1, <1>2, <1>3

\* Where rows begin and end.
LEMMA Rows ==
    ASSUME NEW y \in 0 .. HEIGHT
    PROVE  /\ y * WIDTH \in Nat
           /\ y < HEIGHT => y * WIDTH + WIDTH <= WIDTH * HEIGHT
           /\ (y + 1) * WIDTH = y * WIDTH + WIDTH
           /\ (y - 1) * WIDTH = y * WIDTH - WIDTH
           /\ y > 0 => y * WIDTH >= WIDTH
           /\ HEIGHT * WIDTH = WIDTH * HEIGHT
           /\ WIDTH * HEIGHT \in Nat
           /\ (HEIGHT - 1) * WIDTH = WIDTH * HEIGHT - WIDTH
           /\ WIDTH * (HEIGHT - 1) = WIDTH * HEIGHT - WIDTH
           /\ (HEIGHT - 1) * WIDTH \in Nat
<1>1. WIDTH \in Nat /\ HEIGHT \in Nat /\ y \in Nat /\ HEIGHT - 1 \in Nat /\ HEIGHT >= 1
  BY ScreenAssumption
<1>2. y * WIDTH \in Nat /\ WIDTH * HEIGHT \in Nat /\ (HEIGHT - 1) * WIDTH \in Nat
  BY <1>1
<1>3. (y + 1) * WIDTH = y * WIDTH + WIDTH /\ (y - 1) * WIDTH = y * WIDTH - WIDTH
  BY <1>1
<1>4. HEIGHT * WIDTH = WIDTH * HEIGHT
  BY <1>1
<1>5. (HEIGHT - 1) * WIDTH = WIDTH * HEIGHT - WIDTH
      /\ WIDTH * (HEIGHT - 1) = WIDTH * HEIGHT - WIDTH
  BY <1>1
<1>6. y < HEIGHT => y * WIDTH + WIDTH <= WIDTH * HEIGHT
  <2>1. y < HEIGHT => (y + 1) * WIDTH <= HEIGHT * WIDTH
    BY <1>1, TimesMonotone
  <2>2. QED  BY <2>1, <1>3, <1>4
<1>7. y > 0 => y * WIDTH >= WIDTH
  <2>1. y > 0 => 1 * WIDTH <= y * WIDTH
    BY <1>1, TimesMonotone
  <2>2. 1 * WIDTH = WIDTH
    BY <1>1
  <2>3. QED  BY <2>1, <2>2
<1>8. QED  BY <1>2, <1>3, <1>4, <1>5, <1>6, <1>7

\* A tab stays on its row or ends it.
LEMMA TabStops ==
    ASSUME NEW x \in 0 .. WIDTH - 1
    PROVE  /\ ((x + TABSTOP) \div TABSTOP) * TABSTOP \in Nat
           /\ ((x + TABSTOP) \div TABSTOP) * TABSTOP \in x .. WIDTH
<1> DEFINE q == (x + TABSTOP) \div TABSTOP
           k == WIDTH \div TABSTOP
           r == (x + TABSTOP) % TABSTOP
<1>1. TABSTOP \in Nat /\ TABSTOP > 0 /\ x \in Nat /\ WIDTH \in Nat /\ x + TABSTOP \in Nat
  BY ScreenAssumption
<1>2. q \in Nat /\ r \in 0 .. TABSTOP - 1 /\ x + TABSTOP = TABSTOP * q + r
  BY <1>1, Division
<1>3. k \in Nat /\ WIDTH = TABSTOP * k
  <2>1. k \in Nat /\ WIDTH = TABSTOP * k + (WIDTH % TABSTOP)
    BY <1>1, Division
  <2>2. QED  BY <2>1, <1>1, ScreenAssumption
<1> HIDE DEF q, k, r
<1>4. q * TABSTOP = TABSTOP * q /\ q * TABSTOP \in Nat
  BY <1>1, <1>2
<1>5. q <= k
  <2>1. SUFFICES ASSUME k + 1 <= q PROVE FALSE
    BY <1>2, <1>3
  <2>2. (k + 1) * TABSTOP <= q * TABSTOP
    BY <2>1, <1>1, <1>2, <1>3, TimesMonotone
  <2>3. (k + 1) * TABSTOP = TABSTOP * k + TABSTOP
    BY <1>1, <1>3
  <2>4. q * TABSTOP >= WIDTH + TABSTOP
    BY <2>2, <2>3, <1>3, <1>1
  <2>5. x + TABSTOP >= q * TABSTOP
    BY <1>2, <1>4, <1>1
  <2>6. QED  BY <2>4, <2>5, <1>1, <1>4
<1>6. q * TABSTOP <= WIDTH
  <2>1. q * TABSTOP <= k * TABSTOP
    BY <1>5, <1>1, <1>2, <1>3, TimesMonotone
  <2>2. k * TABSTOP = TABSTOP * k
    BY <1>1, <1>3
  <2>3. QED  BY <2>1, <2>2, <1>3
<1>7. q * TABSTOP >= x
  BY <1>2, <1>4, <1>1
<1>8. QED  BY <1>4, <1>6, <1>7, <1>1 DEF q

-----------------------------------------------------------------------------
(* The screen.                                                              *)

\* A screen between two characters or in the middle of one: the cursor may
\* stand behind the end of its row, or below the last row.
Drawn(s) ==
    /\ s = [cell |-> s.cell, x |-> s.x, y |-> s.y]
    /\ s.cell = [p \in Position |-> s.cell[p]]
    /\ s.x \in 0 .. WIDTH /\ s.y \in 0 .. HEIGHT
    /\ s.y = HEIGHT => s.x = 0
    /\ \A p \in Position : p >= Cursor(s) => s.cell[p] = Space

\* The cursor is on the screen.
OnScreen(s) == Drawn(s) /\ s.x < WIDTH /\ s.y < HEIGHT

\* The first n characters of the text are what is before the cursor.
Ends(s, text, n) ==
    /\ n <= Cursor(s)
    /\ \A i \in 1 .. n : s.cell[Cursor(s) - n + i - 1] = text[i]

LEMMA CursorRange ==
    ASSUME NEW s, Drawn(s)
    PROVE  /\ Cursor(s) \in 0 .. WIDTH * HEIGHT
           /\ s.y < HEIGHT /\ s.x < WIDTH => Cursor(s) \in Position
           /\ Cursor(s) = s.y * WIDTH + s.x
           /\ s.y * WIDTH \in Nat /\ WIDTH * HEIGHT \in Nat
           /\ WIDTH \in Nat /\ WIDTH > 0 /\ HEIGHT \in Nat /\ HEIGHT > 0
<1>1. s.y \in 0 .. HEIGHT /\ s.x \in 0 .. WIDTH /\ (s.y = HEIGHT => s.x = 0)
  BY DEF Drawn
<1>2. WIDTH \in Nat /\ WIDTH > 0 /\ HEIGHT \in Nat /\ HEIGHT > 0
  BY ScreenAssumption
<1>3. /\ s.y * WIDTH \in Nat
      /\ s.y < HEIGHT => s.y * WIDTH + WIDTH <= WIDTH * HEIGHT
      /\ HEIGHT * WIDTH = WIDTH * HEIGHT
      /\ WIDTH * HEIGHT \in Nat
  BY <1>1, Rows
<1>4. Cursor(s) = s.y * WIDTH + s.x
  BY DEF Cursor
<1>5. CASE s.y = HEIGHT
  BY <1>1, <1>2, <1>3, <1>4, <1>5
<1>6. CASE s.y < HEIGHT
  BY <1>1, <1>2, <1>3, <1>4, <1>6 DEF Position
<1>7. QED  BY <1>1, <1>2, <1>5, <1>6

LEMMA WrapKeeps ==
    ASSUME NEW s, Drawn(s)
    PROVE  /\ Drawn(Wrap(s)) /\ Wrap(s).x < WIDTH
           /\ Cursor(Wrap(s)) = Cursor(s) /\ Wrap(s).cell = s.cell
<1>1. /\ s = [cell |-> s.cell, x |-> s.x, y |-> s.y]
      /\ s.x \in 0 .. WIDTH /\ s.y \in 0 .. HEIGHT
      /\ s.y = HEIGHT => s.x = 0
  BY DEF Drawn
<1>2. WIDTH \in Nat /\ WIDTH > 0 /\ HEIGHT \in Nat /\ HEIGHT > 0
  BY ScreenAssumption
<1>3. CASE s.x < WIDTH
  <2>1. Wrap(s) = s
    BY <1>1, <1>2, <1>3 DEF Wrap
  <2>2. QED  BY <2>1, <1>3
<1>4. CASE s.x = WIDTH
  <2> DEFINE w == [cell |-> s.cell, x |-> 0, y |-> s.y + 1]
  <2>1. Wrap(s) = w
    <3>1. Wrap(s) = [s EXCEPT !.x = 0, !.y = @ + 1]
      BY <1>1, <1>2, <1>4 DEF Wrap
    <3>2. QED  BY <3>1, <1>1
  <2>2. s.y < HEIGHT
    BY <1>1, <1>2, <1>4
  <2>3. Cursor(w) = Cursor(s)
    <3>1. (s.y + 1) * WIDTH = s.y * WIDTH + WIDTH /\ s.y * WIDTH \in Nat
      BY <1>1, Rows
    <3>2. Cursor(w) = (s.y + 1) * WIDTH + 0 /\ Cursor(s) = s.y * WIDTH + WIDTH
      BY <1>4 DEF Cursor
    <3>3. QED  BY <3>1, <3>2, <1>2
  <2>4. Drawn(w)
    <3>1. w.x \in 0 .. WIDTH /\ w.y \in 0 .. HEIGHT /\ (w.y = HEIGHT => w.x = 0)
      BY <1>1, <1>2, <2>2
    <3>2. \A p \in Position : p >= Cursor(w) => w.cell[p] = Space
      BY <2>3 DEF Drawn
    <3>3. QED  BY <3>1, <3>2 DEF Drawn
  <2>5. QED  BY <2>1, <2>3, <2>4, <1>2
<1>5. QED  BY <1>1, <1>2, <1>3, <1>4

LEMMA ScrollKeeps ==
    ASSUME NEW s, Drawn(s), s.x < WIDTH
    PROVE  /\ OnScreen(scroll(s))
           /\ \A text : \A n \in 0 .. WIDTH * (HEIGHT - 1) :
                Ends(s, text, n) => Ends(scroll(s), text, n)
<1>1. /\ s = [cell |-> s.cell, x |-> s.x, y |-> s.y]
      /\ s.cell = [p \in Position |-> s.cell[p]]
      /\ s.x \in 0 .. WIDTH /\ s.y \in 0 .. HEIGHT
      /\ s.y = HEIGHT => s.x = 0
      /\ \A p \in Position : p >= Cursor(s) => s.cell[p] = Space
  BY DEF Drawn
<1>2. WIDTH \in Nat /\ WIDTH > 0 /\ HEIGHT \in Nat /\ HEIGHT > 0
  BY ScreenAssumption
<1>3. CASE s.y < HEIGHT
  <2>1. scroll(s) = s
    BY <1>1, <1>2, <1>3 DEF scroll
  <2>2. QED  BY <2>1, <1>3 DEF OnScreen
<1>4. CASE s.y = HEIGHT
  <2> DEFINE rows == [p \in Position |-> IF p < (HEIGHT - 1) * WIDTH
                                         THEN s.cell[p + WIDTH] ELSE Space]
             w == [cell |-> rows, x |-> 0, y |-> HEIGHT - 1]
             size == WIDTH * HEIGHT
             top == (HEIGHT - 1) * WIDTH
  <2>1. scroll(s) = w
    <3>1. scroll(s) = [s EXCEPT !.y = HEIGHT - 1, !.cell = rows]
      BY <1>1, <1>2, <1>4 DEF scroll
    <3>2. QED  BY <3>1, <1>1, <1>4
  <2>2. /\ size \in Nat /\ top \in Nat /\ top = size - WIDTH
        /\ HEIGHT * WIDTH = size /\ WIDTH * (HEIGHT - 1) = top
    BY <1>1, Rows
  <2>3. Cursor(w) = top /\ Cursor(s) = size
    <3>1. Cursor(w) = (HEIGHT - 1) * WIDTH + 0 /\ Cursor(s) = HEIGHT * WIDTH + 0
      BY <1>1, <1>4 DEF Cursor
    <3>2. QED  BY <3>1, <2>2
  <2>4. Position = 0 .. size - 1
    BY DEF Position
  <2> HIDE DEF size, top
  <2>5. \A p \in Position : rows[p] = IF p < top THEN s.cell[p + WIDTH] ELSE Space
    BY DEF top
  <2>6. rows = [p \in Position |-> rows[p]]
    OBVIOUS
  <2> HIDE DEF rows
  <2>7. OnScreen(w)
    <3>1. \A p \in Position : p >= Cursor(w) => w.cell[p] = Space
      BY <2>2, <2>3, <2>4, <2>5
    <3>2. w.x \in 0 .. WIDTH /\ w.y \in 0 .. HEIGHT /\ w.y < HEIGHT /\ w.x < WIDTH
      BY <1>2
    <3>3. QED  BY <3>1, <3>2, <2>6, <1>2 DEF OnScreen, Drawn
  <2>8. ASSUME NEW text, NEW n \in 0 .. WIDTH * (HEIGHT - 1), Ends(s, text, n)
        PROVE  Ends(w, text, n)
    <3>1. n <= Cursor(w)
      BY <2>8, <2>2, <2>3
    <3>2. ASSUME NEW i \in 1 .. n
          PROVE  w.cell[Cursor(w) - n + i - 1] = text[i]
      <4>1. s.cell[size - n + i - 1] = text[i]
        BY <2>8, <2>3 DEF Ends
      <4>2. /\ top - n + i - 1 \in Position
            /\ top - n + i - 1 < top
            /\ top - n + i - 1 + WIDTH = size - n + i - 1
        BY <3>1, <3>2, <2>8, <2>2, <2>3, <2>4, <1>2
      <4>3. rows[top - n + i - 1] = s.cell[size - n + i - 1]
        BY <4>2, <2>5
      <4>4. QED  BY <4>1, <4>3, <2>3
    <3>3. QED  BY <3>1, <3>2 DEF Ends
  <2>9. QED  BY <2>1, <2>7, <2>8
<1>5. QED  BY <1>1, <1>2, <1>3, <1>4

\* What the functions do, as records of the three fields.
LEMMA PutFields ==
    ASSUME NEW s, s = [cell |-> s.cell, x |-> s.x, y |-> s.y], NEW c
    PROVE  /\ c = NewLine =>
                vga_putchar(s, c) = scroll(Wrap([cell |-> s.cell, x |-> 0, y |-> s.y + 1]))
           /\ c = Tab =>
                vga_putchar(s, c)
                  = scroll(Wrap([cell |-> s.cell,
                                 x |-> ((s.x + TABSTOP) \div TABSTOP) * TABSTOP, y |-> s.y]))
           /\ c \notin {NewLine, Tab} =>
                vga_putchar(s, c)
                  = scroll(Wrap([cell |-> [s.cell EXCEPT ![s.y * WIDTH + s.x] = c],
                                 x |-> s.x + 1, y |-> s.y]))
<1>1. ASSUME NEW r, r = [s EXCEPT !.x = 0, !.y = @ + 1]
      PROVE  r = [cell |-> s.cell, x |-> 0, y |-> s.y + 1]
  BY <1>1
<1>2. ASSUME NEW r, r = [s EXCEPT !.x = ((@ + TABSTOP) \div TABSTOP) * TABSTOP]
      PROVE  r = [cell |-> s.cell, x |-> ((s.x + TABSTOP) \div TABSTOP) * TABSTOP, y |-> s.y]
  BY <1>2
<1>3. ASSUME NEW r, r = [s EXCEPT !.cell[Cursor(s)] = c, !.x = @ + 1]
      PROVE  r = [cell |-> [s.cell EXCEPT ![s.y * WIDTH + s.x] = c], x |-> s.x + 1, y |-> s.y]
  BY <1>3 DEF Cursor
<1>4. NewLine # Tab
  BY ScreenAssumption
<1>5. ASSUME c = NewLine
      PROVE  vga_putchar(s, c) = scroll(Wrap([s EXCEPT !.x = 0, !.y = @ + 1]))
  BY <1>4, <1>5, Zenon DEF vga_putchar
<1>6. ASSUME c = Tab
      PROVE  vga_putchar(s, c)
               = scroll(Wrap([s EXCEPT !.x = ((@ + TABSTOP) \div TABSTOP) * TABSTOP]))
  BY <1>4, <1>6, Zenon DEF vga_putchar
<1>7. ASSUME c \notin {NewLine, Tab}
      PROVE  vga_putchar(s, c) = scroll(Wrap([s EXCEPT !.cell[Cursor(s)] = c, !.x = @ + 1]))
  <2>1. c # NewLine /\ c # Tab
    BY <1>7
  <2>2. QED  BY <2>1, Zenon DEF vga_putchar
<1>8. QED  BY <1>1, <1>2, <1>3, <1>5, <1>6, <1>7, Zenon

LEMMA BackFields ==
    ASSUME NEW s, s = [cell |-> s.cell, x |-> s.x, y |-> s.y], s.x \in Int, s.y \in Int,
           NEW x1, NEW y1,
           \/ s.x > 0 /\ x1 = s.x - 1 /\ y1 = s.y
           \/ s.x = 0 /\ s.y > 0 /\ x1 = WIDTH - 1 /\ y1 = s.y - 1
           \/ s.x = 0 /\ s.y = 0 /\ x1 = s.x /\ y1 = s.y
    PROVE  vga_backspace(s)
             = [cell |-> [s.cell EXCEPT ![y1 * WIDTH + x1] = Space], x |-> x1, y |-> y1]
<1> DEFINE back == CASE s.x > 0             -> [s EXCEPT !.x = @ - 1]
                     [] s.x = 0 /\ s.y > 0  -> [s EXCEPT !.x = WIDTH - 1, !.y = @ - 1]
                     [] OTHER               -> s
<1>1. vga_backspace(s) = [back EXCEPT !.cell[Cursor(back)] = Space]
  BY Zenon DEF vga_backspace
<1>2. back = [cell |-> s.cell, x |-> x1, y |-> y1]
  <2>1. CASE s.x > 0 /\ x1 = s.x - 1 /\ y1 = s.y
    <3>1. ASSUME NEW r, r = [s EXCEPT !.x = @ - 1]
          PROVE  r = [cell |-> s.cell, x |-> s.x - 1, y |-> s.y]
      BY <3>1
    <3>2. s.x > 0 /\ s.x # 0
      BY <2>1
    <3>3. back = [s EXCEPT !.x = @ - 1]
      BY <3>2, Zenon
    <3>4. QED  BY <3>1, <3>3, <2>1, Zenon
  <2>2. CASE s.x = 0 /\ s.y > 0 /\ x1 = WIDTH - 1 /\ y1 = s.y - 1
    <3>1. ASSUME NEW r, r = [s EXCEPT !.x = WIDTH - 1, !.y = @ - 1]
          PROVE  r = [cell |-> s.cell, x |-> WIDTH - 1, y |-> s.y - 1]
      BY <3>1
    <3>2. ~(s.x > 0) /\ s.x = 0 /\ s.y > 0
      BY <2>2
    <3>3. back = [s EXCEPT !.x = WIDTH - 1, !.y = @ - 1]
      BY <3>2, Zenon
    <3>4. QED  BY <3>1, <3>3, <2>2, Zenon
  <2>3. CASE s.x = 0 /\ s.y = 0 /\ x1 = s.x /\ y1 = s.y
    <3>1. ~(s.x > 0) /\ ~(s.x = 0 /\ s.y > 0)
      BY <2>3
    <3>2. back = s
      BY <3>1, Zenon
    <3>3. QED  BY <3>2, <2>3, Zenon
  <2>4. QED  BY <2>1, <2>2, <2>3
<1> HIDE DEF back
<1>3. Cursor(back) = y1 * WIDTH + x1
  BY <1>2 DEF Cursor
<1>4. ASSUME NEW r, r = [back EXCEPT !.cell[Cursor(back)] = Space]
      PROVE  r = [cell |-> [s.cell EXCEPT ![Cursor(back)] = Space], x |-> x1, y |-> y1]
  BY <1>2, <1>4
<1>5. QED  BY <1>1, <1>3, <1>4, Zenon

LEMMA PutKeeps ==
    ASSUME NEW s, OnScreen(s), NEW c
    PROVE  /\ OnScreen(vga_putchar(s, c))
           /\ \A text : \A n \in 1 .. WIDTH * (HEIGHT - 1) :
                /\ c \notin {NewLine, Tab}
                /\ Ends(s, text, n - 1) /\ text[n] = c
                => Ends(vga_putchar(s, c), text, n)
<1> DEFINE size == WIDTH * HEIGHT
<1>0. s = [cell |-> s.cell, x |-> s.x, y |-> s.y]
  BY DEF OnScreen, Drawn
<1>1. /\ s = [cell |-> s.cell, x |-> s.x, y |-> s.y]
      /\ s.cell = [p \in Position |-> s.cell[p]]
      /\ s.x \in 0 .. WIDTH - 1 /\ s.y \in 0 .. HEIGHT - 1
      /\ \A p \in Position : p >= Cursor(s) => s.cell[p] = Space
  BY ScreenAssumption DEF OnScreen, Drawn
<1>2. WIDTH \in Nat /\ WIDTH > 0 /\ HEIGHT \in Nat /\ HEIGHT > 0
  BY ScreenAssumption
<1>3. /\ Cursor(s) = s.y * WIDTH + s.x /\ s.y * WIDTH \in Nat
      /\ Cursor(s) \in Position /\ size \in Nat
  BY CursorRange DEF OnScreen
<1>4. Position = 0 .. size - 1
  BY DEF Position
<1> HIDE DEF size
<1>5. ASSUME NEW u, Drawn(u), vga_putchar(s, c) = scroll(Wrap(u))
      PROVE  /\ OnScreen(vga_putchar(s, c))
             /\ \A text : \A n \in 0 .. WIDTH * (HEIGHT - 1) :
                  Ends(u, text, n) => Ends(vga_putchar(s, c), text, n)
  <2>1. /\ Drawn(Wrap(u)) /\ Wrap(u).x < WIDTH
        /\ Cursor(Wrap(u)) = Cursor(u) /\ Wrap(u).cell = u.cell
    BY <1>5, WrapKeeps
  <2>2. \A text, n : Ends(u, text, n) => Ends(Wrap(u), text, n)
    BY <2>1 DEF Ends
  <2>3. /\ OnScreen(scroll(Wrap(u)))
        /\ \A text : \A n \in 0 .. WIDTH * (HEIGHT - 1) :
             Ends(Wrap(u), text, n) => Ends(scroll(Wrap(u)), text, n)
    BY <2>1, ScrollKeeps
  <2>4. QED  BY <2>2, <2>3, <1>5
<1>6. CASE c = NewLine
  <2> DEFINE u == [cell |-> s.cell, x |-> 0, y |-> s.y + 1]
  <2>1. vga_putchar(s, c) = scroll(Wrap(u))
    BY <1>0, <1>6, PutFields, Zenon
  <2>2. Cursor(u) >= Cursor(s)
    <3>1. (s.y + 1) * WIDTH = s.y * WIDTH + WIDTH
      BY <1>1, <1>2, Rows
    <3>2. Cursor(u) = (s.y + 1) * WIDTH + 0
      BY DEF Cursor
    <3>3. QED  BY <3>1, <3>2, <1>1, <1>2, <1>3
  <2>3. Drawn(u)
    <3>1. Cursor(u) \in Int /\ Cursor(s) \in Int
      BY <1>1, <1>2, <1>3 DEF Cursor
    <3>2. \A p \in Position : p >= Cursor(u) => u.cell[p] = Space
      BY <1>1, <1>4, <2>2, <3>1
    <3>3. u.x \in 0 .. WIDTH /\ u.y \in 0 .. HEIGHT /\ (u.y = HEIGHT => u.x = 0)
      BY <1>1, <1>2
    <3>4. QED  BY <3>2, <3>3, <1>1 DEF Drawn
  <2>4. QED  BY <2>1, <2>3, <1>5, <1>6
<1>7. CASE c = Tab /\ c # NewLine
  <2> DEFINE x1 == ((s.x + TABSTOP) \div TABSTOP) * TABSTOP
             u == [cell |-> s.cell, x |-> x1, y |-> s.y]
  <2>1. vga_putchar(s, c) = scroll(Wrap(u))
    BY <1>0, <1>7, PutFields, Zenon
  <2>2. x1 \in Nat /\ x1 \in s.x .. WIDTH
    BY <1>1, TabStops
  <2> HIDE DEF x1
  <2>3. Cursor(u) >= Cursor(s) /\ Cursor(u) \in Int /\ Cursor(s) \in Int
    <3>1. Cursor(u) = s.y * WIDTH + x1
      BY DEF Cursor
    <3>2. QED  BY <3>1, <2>2, <1>1, <1>2, <1>3
  <2>4. Drawn(u)
    <3>1. \A p \in Position : p >= Cursor(u) => u.cell[p] = Space
      BY <1>1, <1>4, <2>3
    <3>2. u.x \in 0 .. WIDTH /\ u.y \in 0 .. HEIGHT /\ (u.y = HEIGHT => u.x = 0)
      BY <1>1, <1>2, <2>2
    <3>3. QED  BY <3>1, <3>2, <1>1 DEF Drawn
  <2>5. QED  BY <2>1, <2>4, <1>5, <1>7
<1>8. CASE c \notin {NewLine, Tab}
  <2> DEFINE cells == [s.cell EXCEPT ![Cursor(s)] = c]
             u == [cell |-> cells, x |-> s.x + 1, y |-> s.y]
  <2>1. vga_putchar(s, c) = scroll(Wrap(u))
    <3>1. vga_putchar(s, c) = scroll(Wrap([cell |-> [s.cell EXCEPT ![s.y * WIDTH + s.x] = c],
                                          x |-> s.x + 1, y |-> s.y]))
      BY <1>0, <1>8, PutFields, Zenon
    <3>2. QED  BY <3>1, <1>3, Zenon
  <2>2. Cursor(u) = Cursor(s) + 1
    <3>1. Cursor(u) = s.y * WIDTH + (s.x + 1)
      BY DEF Cursor
    <3>2. QED  BY <3>1, <1>1, <1>2, <1>3
  <2>3. /\ cells = [p \in Position |-> cells[p]]
        /\ \A p \in Position : cells[p] = IF p = Cursor(s) THEN c ELSE s.cell[p]
    BY <1>1
  <2> HIDE DEF cells
  <2>4. Drawn(u)
    <3>1. \A p \in Position : p >= Cursor(u) => u.cell[p] = Space
      BY <1>1, <1>3, <1>4, <2>2, <2>3
    <3>2. u.x \in 0 .. WIDTH /\ u.y \in 0 .. HEIGHT /\ (u.y = HEIGHT => u.x = 0)
      BY <1>1, <1>2
    <3>3. QED  BY <3>1, <3>2, <2>3 DEF Drawn
  <2>5. ASSUME NEW text, NEW n \in 1 .. WIDTH * (HEIGHT - 1), Ends(s, text, n - 1),
               text[n] = c
        PROVE  Ends(u, text, n)
    <3>1. n \in Nat /\ n >= 1
      BY <1>2
    <3>2. n <= Cursor(u)
      BY <2>2, <2>5, <3>1, <1>3, <1>4 DEF Ends
    <3>3. ASSUME NEW i \in 1 .. n
          PROVE  u.cell[Cursor(u) - n + i - 1] = text[i]
      <4> DEFINE p == Cursor(u) - n + i - 1
      <4>1. p \in Position /\ p = Cursor(s) - (n - 1) + i - 1
        BY <2>2, <3>1, <3>2, <3>3, <1>3, <1>4, SMTT(30)
      <4>2. CASE i = n
        BY <4>1, <4>2, <2>3, <2>5, <3>1, <1>3, <1>4
      <4>3. CASE i # n
        <5>1. i \in 1 .. n - 1 /\ p # Cursor(s)
          BY <4>1, <4>3, <3>1, <3>3, <1>3, <1>4
        <5>2. s.cell[p] = text[i]
          BY <4>1, <5>1, <2>5 DEF Ends
        <5>3. QED  BY <4>1, <5>1, <5>2, <2>3
      <4>4. QED  BY <4>2, <4>3
    <3>4. QED  BY <3>2, <3>3 DEF Ends
  <2>6. WIDTH * (HEIGHT - 1) \in Nat
    BY <1>2
  <2>7. QED  BY <2>1, <2>4, <2>5, <2>6, <1>5
<1>9. QED  BY <1>6, <1>7, <1>8

LEMMA BackKeeps ==
    ASSUME NEW s, OnScreen(s)
    PROVE  /\ OnScreen(vga_backspace(s))
           /\ \A text : \A n \in Nat \ {0} :
                Ends(s, text, n) => Ends(vga_backspace(s), text, n - 1)
<1> DEFINE size == WIDTH * HEIGHT
<1>0. s = [cell |-> s.cell, x |-> s.x, y |-> s.y]
  BY DEF OnScreen, Drawn
<1>1. /\ s = [cell |-> s.cell, x |-> s.x, y |-> s.y]
      /\ s.cell = [p \in Position |-> s.cell[p]]
      /\ s.x \in 0 .. WIDTH - 1 /\ s.y \in 0 .. HEIGHT - 1
      /\ \A p \in Position : p >= Cursor(s) => s.cell[p] = Space
  BY ScreenAssumption DEF OnScreen, Drawn
<1>2. WIDTH \in Nat /\ WIDTH > 0 /\ HEIGHT \in Nat /\ HEIGHT > 0
  BY ScreenAssumption
<1>3. /\ Cursor(s) = s.y * WIDTH + s.x /\ s.y * WIDTH \in Nat
      /\ Cursor(s) \in Position /\ size \in Nat
  BY CursorRange DEF OnScreen
<1>4. Position = 0 .. size - 1
  BY DEF Position
<1> HIDE DEF size
<1> DEFINE After(x, y) == [cell |-> [s.cell EXCEPT ![y * WIDTH + x] = Space], x |-> x, y |-> y]
<1>5. ASSUME NEW x \in 0 .. WIDTH - 1, NEW y \in 0 .. HEIGHT - 1, NEW e,
             e = y * WIDTH + x, e = Cursor(s) - 1 \/ (Cursor(s) = 0 /\ e = 0),
             vga_backspace(s) = After(x, y)
      PROVE  /\ OnScreen(vga_backspace(s))
             /\ \A text : \A n \in Nat \ {0} :
                  Ends(s, text, n) => Ends(vga_backspace(s), text, n - 1)
  <2> DEFINE cells == [s.cell EXCEPT ![e] = Space]
             u == [cell |-> cells, x |-> x, y |-> y]
  <2>1. vga_backspace(s) = u
    BY <1>5
  <2>2. /\ cells = [p \in Position |-> cells[p]]
        /\ \A p \in Position : cells[p] = IF p = e THEN Space ELSE s.cell[p]
    BY <1>1
  <2> HIDE DEF cells
  <2>3. Cursor(u) = e /\ e \in Int
    BY <1>3, <1>4, <1>5 DEF Cursor
  <2>4. OnScreen(u)
    <3>1. \A p \in Position : p >= Cursor(u) => u.cell[p] = Space
      BY <1>1, <1>3, <1>4, <1>5, <2>2, <2>3, SMTT(30)
    <3>2. u.x \in 0 .. WIDTH /\ u.y \in 0 .. HEIGHT /\ u.x < WIDTH /\ u.y < HEIGHT
      BY <1>2
    <3>3. QED  BY <3>1, <3>2, <2>2 DEF Drawn, OnScreen
  <2>5. ASSUME NEW text, NEW n \in Nat \ {0}, Ends(s, text, n)
        PROVE  Ends(u, text, n - 1)
    <3>1. n <= Cursor(s) /\ e = Cursor(s) - 1
      BY <2>5, <1>3, <1>4, <1>5 DEF Ends
    <3>2. n - 1 <= Cursor(u)
      BY <3>1, <2>3, <1>3, <1>4
    <3>3. ASSUME NEW i \in 1 .. n - 1
          PROVE  u.cell[Cursor(u) - (n - 1) + i - 1] = text[i]
      <4> DEFINE p == Cursor(u) - (n - 1) + i - 1
      <4>1. p \in Position /\ p = Cursor(s) - n + i - 1 /\ p # e /\ i \in 1 .. n
        BY <2>3, <3>1, <3>3, <1>3, <1>4
      <4>2. s.cell[p] = text[i]
        BY <4>1, <2>5 DEF Ends
      <4>3. QED  BY <4>1, <4>2, <2>2
    <3>4. QED  BY <3>2, <3>3 DEF Ends
  <2>6. QED  BY <2>1, <2>4, <2>5
<1>6. s.x \in Int /\ s.y \in Int
  BY <1>1
<1>7. CASE s.x > 0
  <2>1. vga_backspace(s) = After(s.x - 1, s.y)
    BY <1>0, <1>6, <1>7, BackFields
  <2>2. /\ s.x - 1 \in 0 .. WIDTH - 1
        /\ s.y * WIDTH + (s.x - 1) = Cursor(s) - 1
    BY <1>1, <1>2, <1>3, <1>7
  <2> HIDE DEF After
  <2>3. QED  BY <2>1, <2>2, <1>1, <1>5
<1>8. CASE s.x = 0 /\ s.y > 0
  <2>1. vga_backspace(s) = After(WIDTH - 1, s.y - 1)
    BY <1>0, <1>6, <1>8, BackFields
  <2>2. (s.y - 1) * WIDTH = s.y * WIDTH - WIDTH
    BY <1>1, <1>2, Rows
  <2>3. /\ WIDTH - 1 \in 0 .. WIDTH - 1 /\ s.y - 1 \in 0 .. HEIGHT - 1
        /\ (s.y - 1) * WIDTH + (WIDTH - 1) = Cursor(s) - 1
    BY <2>2, <1>1, <1>2, <1>3, <1>8
  <2> HIDE DEF After
  <2>4. QED  BY <2>1, <2>3, <1>5
<1>9. CASE s.x = 0 /\ s.y = 0
  <2>1. vga_backspace(s) = After(s.x, s.y)
    BY <1>0, <1>6, <1>9, BackFields
  <2>2. /\ s.y * WIDTH + s.x = 0 /\ Cursor(s) = 0
        /\ s.x \in 0 .. WIDTH - 1 /\ s.y \in 0 .. HEIGHT - 1
    BY <1>1, <1>2, <1>3, <1>9
  <2> HIDE DEF After
  <2>3. QED  BY <2>1, <2>2, <1>1, <1>5
<1>10. s.x > 0 \/ (s.x = 0 /\ s.y > 0) \/ (s.x = 0 /\ s.y = 0)
  BY <1>1
<1>11. QED  BY <1>7, <1>8, <1>9, <1>10

-----------------------------------------------------------------------------
(* Loops.                                                                   *)

LEMMA Induction ==
    ASSUME NEW S, 0 \in S, \A k \in Nat : k \in S => k + 1 \in S
    PROVE  Nat \subseteq S
<1> DEFINE Less == {p \in Nat \X Nat : p[1] < p[2]}
           Rest == Nat \ S
<1>1. IsWellFoundedOn(Less, Nat)
  <2>1. OpToRel(<, Nat) = Less
    BY Zenon DEF OpToRel
  <2>2. QED  BY <2>1, NatLessThanWellFounded, Zenon
<1>2. SUFFICES ASSUME Rest # {} PROVE FALSE
  OBVIOUS
<1>3. PICK i \in Rest : \A j \in Rest : <<j, i>> \notin Less
  <2>1. Rest \subseteq Nat
    OBVIOUS
  <2> HIDE DEF Rest, Less
  <2>2. QED  BY <1>1, <1>2, <2>1, WFMin, Zenon
<1>4. i \in Nat /\ i # 0 /\ i - 1 \in Nat /\ (i - 1) + 1 = i
  BY <1>3
<1>5. <<i - 1, i>> \in Less
  BY <1>4
<1>6. i - 1 \in S
  BY <1>3, <1>4, <1>5
<1>7. QED  BY <1>3, <1>4, <1>6

\* The screens of vga_print, one for each character printed.
Printing(s, text, g, k) ==
    g = [n \in 0 .. k |-> IF n = 0 THEN s ELSE vga_putchar(g[n - 1], text[n])]

LEMMA PrintDefined ==
    ASSUME NEW s, NEW text, Len(text) \in Nat
    PROVE  \E g : Printing(s, text, g, Len(text)) /\ vga_print(s, text) = g[Len(text)]
<1> DEFINE S == {k \in Nat : \E g : Printing(s, text, g, k)}
<1>1. 0 \in S
  <2>1. Printing(s, text, [n \in 0 .. 0 |-> s], 0)
    BY DEF Printing
  <2>2. QED  BY <2>1
<1>2. ASSUME NEW k \in Nat, k \in S PROVE k + 1 \in S
  <2>1. PICK g : Printing(s, text, g, k)
    BY <1>2
  <2> DEFINE h == [n \in 0 .. k + 1 |-> IF n = k + 1 THEN vga_putchar(g[k], text[k + 1])
                                       ELSE g[n]]
  <2>2. ASSUME NEW n \in 0 .. k + 1
        PROVE  h[n] = IF n = 0 THEN s ELSE vga_putchar(h[n - 1], text[n])
    <3>1. CASE n = k + 1
      <4>1. n # 0 /\ n - 1 \in 0 .. k + 1 /\ n - 1 # k + 1 /\ n - 1 = k
        BY <3>1
      <4>2. h[n - 1] = g[k]
        BY <4>1
      <4>3. QED  BY <3>1, <4>1, <4>2
    <3>2. CASE n # k + 1
      <4>1. n \in 0 .. k
        BY <3>2
      <4>2. g[n] = IF n = 0 THEN s ELSE vga_putchar(g[n - 1], text[n])
        BY <2>1, <4>1 DEF Printing
      <4>3. n # 0 => h[n - 1] = g[n - 1]
        BY <4>1
      <4>4. QED  BY <3>2, <4>2, <4>3
    <3>3. QED  BY <3>1, <3>2
  <2>3. h = [n \in 0 .. k + 1 |-> h[n]]
    OBVIOUS
  <2> HIDE DEF h
  <2>4. Printing(s, text, h, k + 1)
    BY <2>2, <2>3 DEF Printing
  <2>5. QED  BY <2>4
<1>3. Nat \subseteq S
  <2> HIDE DEF S
  <2>1. QED  BY <1>1, <1>2, Induction
<1>4. \E g : g = [n \in 0 .. Len(text) |-> IF n = 0 THEN s ELSE vga_putchar(g[n - 1], text[n])]
  BY <1>3 DEF Printing
<1> DEFINE after[n \in 0 .. Len(text)] == IF n = 0 THEN s ELSE vga_putchar(after[n - 1], text[n])
<1>5. after = [n \in 0 .. Len(text) |-> IF n = 0 THEN s ELSE vga_putchar(after[n - 1], text[n])]
  BY <1>4, Zenon
<1>6. vga_print(s, text) = after[Len(text)]
  BY Zenon DEF vga_print
<1> HIDE DEF after
<1>7. QED  BY <1>5, <1>6 DEF Printing

LEMMA PrintKeeps ==
    ASSUME NEW s, OnScreen(s), NEW text, Len(text) \in Nat
    PROVE  /\ OnScreen(vga_print(s, text))
           /\ \A line : \A l \in Nat :
                /\ Ends(s, line, l)
                /\ l + Len(text) <= WIDTH * (HEIGHT - 1)
                /\ \A n \in 1 .. Len(text) : /\ text[n] = line[l + n]
                                             /\ text[n] \notin {NewLine, Tab}
                => Ends(vga_print(s, text), line, l + Len(text))
<1>1. PICK g : Printing(s, text, g, Len(text)) /\ vga_print(s, text) = g[Len(text)]
  BY PrintDefined
<1>2. /\ g[0] = s
      /\ \A k \in Nat : k + 1 <= Len(text) => g[k + 1] = vga_putchar(g[k], text[k + 1])
  BY <1>1 DEF Printing
<1>3. ASSUME NEW k \in Nat, k + 1 <= Len(text) PROVE k \in 0 .. Len(text)
  BY <1>3
<1> DEFINE S == {k \in Nat : k <= Len(text) => OnScreen(g[k])}
<1>4. Nat \subseteq S
  <2>1. 0 \in S
    BY <1>2
  <2>2. ASSUME NEW k \in Nat, k \in S PROVE k + 1 \in S
    BY <1>2, <2>2, PutKeeps
  <2> HIDE DEF S
  <2>3. QED  BY <2>1, <2>2, Induction
<1>5. OnScreen(vga_print(s, text))
  BY <1>1, <1>4
<1>6. ASSUME NEW line, NEW l \in Nat, Ends(s, line, l),
             l + Len(text) <= WIDTH * (HEIGHT - 1),
             \A n \in 1 .. Len(text) : /\ text[n] = line[l + n]
                                       /\ text[n] \notin {NewLine, Tab}
      PROVE  Ends(vga_print(s, text), line, l + Len(text))
  <2> DEFINE T == {k \in Nat : k <= Len(text) => Ends(g[k], line, l + k)}
  <2>1. 0 \in T
    BY <1>2, <1>6
  <2>2. ASSUME NEW k \in Nat, k \in T, k + 1 <= Len(text)
        PROVE  Ends(g[k + 1], line, l + (k + 1))
    <3>1. OnScreen(g[k]) /\ Ends(g[k], line, l + k)
      BY <1>4, <2>2
    <3>2. k + 1 \in 1 .. Len(text) /\ l + (k + 1) \in 1 .. WIDTH * (HEIGHT - 1)
      <4>1. WIDTH * (HEIGHT - 1) \in Nat
        BY ScreenAssumption
      <4> DEFINE room == WIDTH * (HEIGHT - 1)
      <4> HIDE DEF room
      <4>2. room \in Nat /\ l + Len(text) <= room
        BY <4>1, <1>6 DEF room
      <4>3. l + (k + 1) \in 1 .. room
        BY <4>2, <2>2
      <4>4. QED  BY <4>3, <2>2 DEF room
    <3>3. /\ text[k + 1] = line[l + (k + 1)]
          /\ text[k + 1] \notin {NewLine, Tab}
      BY <3>2, <1>6
    <3>4. (l + (k + 1)) - 1 = l + k
      BY <2>2
    <3>5. Ends(vga_putchar(g[k], text[k + 1]), line, l + (k + 1))
      BY <3>1, <3>2, <3>3, <3>4, PutKeeps
    <3>6. QED  BY <3>5, <1>2, <2>2
  <2>3. ASSUME NEW k \in Nat, k \in T PROVE k + 1 \in T
    BY <2>2, <2>3
  <2>4. Nat \subseteq T
    <3> HIDE DEF T
    <3>1. QED  BY <2>1, <2>3, Induction
  <2>5. QED  BY <2>4, <1>1
<1>7. QED  BY <1>5, <1>6

Erasing(s, g, k) == g = [n \in 0 .. k |-> IF n = 0 THEN s ELSE vga_backspace(g[n - 1])]

LEMMA EraseDefined ==
    ASSUME NEW s, NEW len \in Nat
    PROVE  \E g : Erasing(s, g, len) /\ Erase(s, len) = g[len]
<1> DEFINE S == {k \in Nat : \E g : Erasing(s, g, k)}
<1>1. 0 \in S
  <2>1. Erasing(s, [n \in 0 .. 0 |-> s], 0)
    BY DEF Erasing
  <2>2. QED  BY <2>1
<1>2. ASSUME NEW k \in Nat, k \in S PROVE k + 1 \in S
  <2>1. PICK g : Erasing(s, g, k)
    BY <1>2
  <2> DEFINE h == [n \in 0 .. k + 1 |-> IF n = k + 1 THEN vga_backspace(g[k]) ELSE g[n]]
  <2>2. ASSUME NEW n \in 0 .. k + 1
        PROVE  h[n] = IF n = 0 THEN s ELSE vga_backspace(h[n - 1])
    <3>1. CASE n = k + 1
      <4>1. n # 0 /\ n - 1 \in 0 .. k + 1 /\ n - 1 # k + 1 /\ n - 1 = k
        BY <3>1
      <4>2. h[n - 1] = g[k]
        BY <4>1
      <4>3. QED  BY <3>1, <4>1, <4>2
    <3>2. CASE n # k + 1
      <4>1. n \in 0 .. k
        BY <3>2
      <4>2. g[n] = IF n = 0 THEN s ELSE vga_backspace(g[n - 1])
        BY <2>1, <4>1 DEF Erasing
      <4>3. n # 0 => h[n - 1] = g[n - 1]
        BY <4>1
      <4>4. QED  BY <3>2, <4>2, <4>3
    <3>3. QED  BY <3>1, <3>2
  <2>3. h = [n \in 0 .. k + 1 |-> h[n]]
    OBVIOUS
  <2> HIDE DEF h
  <2>4. Erasing(s, h, k + 1)
    BY <2>2, <2>3 DEF Erasing
  <2>5. QED  BY <2>4
<1>3. Nat \subseteq S
  <2> HIDE DEF S
  <2>1. QED  BY <1>1, <1>2, Induction
<1>4. \E g : g = [k \in 0 .. len |-> IF k = 0 THEN s ELSE vga_backspace(g[k - 1])]
  BY <1>3 DEF Erasing
<1> DEFINE after[k \in 0 .. len] == IF k = 0 THEN s ELSE vga_backspace(after[k - 1])
<1>5. after = [k \in 0 .. len |-> IF k = 0 THEN s ELSE vga_backspace(after[k - 1])]
  BY <1>4, Zenon
<1>6. Erase(s, len) = after[len]
  BY Zenon DEF Erase
<1> HIDE DEF after
<1>7. QED  BY <1>5, <1>6 DEF Erasing

LEMMA EraseKeeps ==
    ASSUME NEW s, OnScreen(s), NEW len \in Nat
    PROVE  /\ OnScreen(Erase(s, len))
           /\ \A line : \A l \in Nat :
                Ends(s, line, l + len) => Ends(Erase(s, len), line, l)
<1>1. PICK g : Erasing(s, g, len) /\ Erase(s, len) = g[len]
  BY EraseDefined
<1>2. /\ g[0] = s
      /\ \A k \in Nat : k + 1 <= len => g[k + 1] = vga_backspace(g[k])
  BY <1>1 DEF Erasing
<1> DEFINE S == {k \in Nat : k <= len => OnScreen(g[k])}
<1>3. Nat \subseteq S
  <2>1. 0 \in S
    BY <1>2
  <2>2. ASSUME NEW k \in Nat, k \in S PROVE k + 1 \in S
    BY <1>2, <2>2, BackKeeps
  <2> HIDE DEF S
  <2>3. QED  BY <2>1, <2>2, Induction
<1>4. OnScreen(Erase(s, len))
  BY <1>1, <1>3
<1>5. ASSUME NEW line, NEW l \in Nat, Ends(s, line, l + len)
      PROVE  Ends(Erase(s, len), line, l)
  <2> DEFINE T == {k \in Nat : k <= len => Ends(g[k], line, l + (len - k))}
  <2>1. 0 \in T
    BY <1>2, <1>5
  <2>2. ASSUME NEW k \in Nat, k \in T, k + 1 <= len
        PROVE  Ends(g[k + 1], line, l + (len - (k + 1)))
    <3>1. OnScreen(g[k]) /\ Ends(g[k], line, l + (len - k))
      BY <1>3, <2>2
    <3>2. l + (len - k) \in Nat \ {0} /\ (l + (len - k)) - 1 = l + (len - (k + 1))
      BY <2>2
    <3>3. Ends(vga_backspace(g[k]), line, l + (len - (k + 1)))
      BY <3>1, <3>2, BackKeeps
    <3>4. QED  BY <3>3, <1>2, <2>2
  <2>3. ASSUME NEW k \in Nat, k \in T PROVE k + 1 \in T
    BY <2>2, <2>3
  <2>4. Nat \subseteq T
    <3> HIDE DEF T
    <3>1. QED  BY <2>1, <2>3, Induction
  <2>5. len \in T /\ l + (len - len) = l
    BY <2>4
  <2>6. QED  BY <2>5, <1>1
<1>6. QED  BY <1>4, <1>5

\* Every slot up to the last is that of the slot before; the first, and those
\* beyond, are left alone.
LEMMA ShiftedFacts ==
    ASSUME NEW R, NEW h \in [HistorySlot -> R], NEW last \in HistorySlot
    PROVE  Shifted(h, last)
             = [i \in HistorySlot |-> IF i \in 1 .. last THEN h[i - 1] ELSE h[i]]
<1> DEFINE Moved(k) == [i \in HistorySlot |-> IF i \in last + 1 - k .. last THEN h[i - 1] ELSE h[i]]
           w == [k \in 0 .. last |-> Moved(k)]
<1>1. last \in Nat /\ HISTORY_SIZE \in Nat /\ HISTORY_SIZE > 0 /\ last <= HISTORY_SIZE - 1
  BY KeyboardAssumption DEF HistorySlot
<1>2. w = [k \in 0 .. last |->
             IF k = 0 THEN h ELSE [w[k - 1] EXCEPT ![last + 1 - k] = w[k - 1][last - k]]]
  <2>1. ASSUME NEW k \in 0 .. last
        PROVE  w[k] = IF k = 0 THEN h
                      ELSE [w[k - 1] EXCEPT ![last + 1 - k] = w[k - 1][last - k]]
    <3>1. CASE k = 0
      <4>1. Moved(0) = h
        BY <1>1
      <4>2. QED  BY <3>1, <4>1
    <3>2. CASE k # 0
      <4>1. k - 1 \in 0 .. last /\ last - k \in HistorySlot /\ last + 1 - k \in HistorySlot
        BY <1>1, <3>2 DEF HistorySlot
      <4>2. w[k - 1] = Moved(k - 1)
        BY <4>1
      <4>3. Moved(k) = [Moved(k - 1) EXCEPT ![last + 1 - k] = Moved(k - 1)[last - k]]
        <5>1. Moved(k - 1)[last - k] = h[last - k]
          BY <1>1, <4>1
        <5>2. ASSUME NEW i \in HistorySlot
              PROVE  Moved(k)[i] = IF i = last + 1 - k THEN h[last - k] ELSE Moved(k - 1)[i]
          BY <1>1, <4>1 DEF HistorySlot
        <5>3. QED  BY <5>1, <5>2, <4>1
      <4>4. QED  BY <3>2, <4>2, <4>3
    <3>3. QED  BY <3>1, <3>2
  <2>2. QED  BY <2>1
<1> DEFINE after[k \in 0 .. last] ==
               IF k = 0 THEN h ELSE [after[k - 1] EXCEPT ![last + 1 - k] = after[k - 1][last - k]]
<1> HIDE DEF w
<1>3. after = [k \in 0 .. last |->
                 IF k = 0 THEN h ELSE [after[k - 1] EXCEPT ![last + 1 - k] = after[k - 1][last - k]]]
  <2>1. \E g : g = [k \in 0 .. last |->
                      IF k = 0 THEN h ELSE [g[k - 1] EXCEPT ![last + 1 - k] = g[k - 1][last - k]]]
    BY <1>2
  <2>2. QED  BY <2>1, Zenon
<1>4. Shifted(h, last) = after[last]
  BY Zenon DEF Shifted
<1> HIDE DEF after, Moved
<1> DEFINE S == {k \in Nat : k <= last => after[k] = w[k]}
<1>5. Nat \subseteq S
  <2>1. 0 \in S
    BY <1>1, <1>2, <1>3
  <2>2. ASSUME NEW k \in Nat, k \in S, k + 1 <= last PROVE after[k + 1] = w[k + 1]
    <3>1. k + 1 \in 0 .. last /\ k + 1 # 0 /\ (k + 1) - 1 = k /\ after[k] = w[k]
      BY <1>1, <2>2
    <3>2. after[k + 1] = [after[k] EXCEPT ![last + 1 - (k + 1)] = after[k][last - (k + 1)]]
      BY <1>3, <3>1
    <3>3. w[k + 1] = [w[k] EXCEPT ![last + 1 - (k + 1)] = w[k][last - (k + 1)]]
      BY <1>2, <3>1
    <3>4. QED  BY <3>1, <3>2, <3>3
  <2>3. ASSUME NEW k \in Nat, k \in S PROVE k + 1 \in S
    BY <2>2, <2>3
  <2> HIDE DEF S
  <2>4. QED  BY <2>1, <2>3, Induction
<1>6. w[last] = Moved(last)
  BY <1>1 DEF w
<1>7. Moved(last) = [i \in HistorySlot |-> IF i \in 1 .. last THEN h[i - 1] ELSE h[i]]
  BY <1>1 DEF Moved
<1>8. QED  BY <1>1, <1>4, <1>5, <1>6, <1>7

-----------------------------------------------------------------------------
(* What the user sees.                                                      *)

LEMMA LineFacts ==
    ASSUME NEW l
    PROVE  l \in Line <=> l \in Seq(CHARS) /\ Len(l) \in 0 .. KEY_BUFFER_SIZE - 1
<1>1. KEY_BUFFER_SIZE \in Nat
  BY KeyboardAssumption
<1>2. ASSUME l \in Line PROVE l \in Seq(CHARS) /\ Len(l) \in 0 .. KEY_BUFFER_SIZE - 1
  <2>1. PICK m \in 0 .. KEY_BUFFER_SIZE - 1 : l \in [1 .. m -> CHARS]
    BY <1>2 DEF Line, SeqOf
  <2>2. m \in Nat
    BY <1>1
  <2>3. QED  BY <2>1, <2>2
<1>3. ASSUME l \in Seq(CHARS), Len(l) \in 0 .. KEY_BUFFER_SIZE - 1 PROVE l \in Line
  <2>1. l \in [1 .. Len(l) -> CHARS]
    BY <1>3
  <2>2. QED  BY <2>1, <1>3 DEF Line, SeqOf
<1>4. QED  BY <1>2, <1>3

LEMMA EmptyLine == <<>> \in Line
<1>1. <<>> \in [1 .. 0 -> CHARS] /\ 0 \in 0 .. KEY_BUFFER_SIZE - 1
  BY KeyboardAssumption
<1>2. QED  BY <1>1 DEF Line, SeqOf

LEMMA PromptFacts ==
    /\ Len(PROMPT) \in Nat /\ Len(PROMPT) > 0
    /\ PROMPT \in Seq(ToSet(PROMPT))
    /\ \A n \in 1 .. Len(PROMPT) : PROMPT[n] \notin {NewLine, Tab}
    /\ \A l \in Line : Len(PROMPT) + Len(l) <= WIDTH * (HEIGHT - 1)
<1>1. PROMPT \in Seq(ToSet(PROMPT) \ {NewLine, Tab}) /\ Len(PROMPT) > 0
  BY KeyboardAssumption
<1>2. Len(PROMPT) \in Nat
      /\ \A n \in 1 .. Len(PROMPT) : PROMPT[n] \in ToSet(PROMPT) \ {NewLine, Tab}
  BY <1>1
<1>3. PROMPT \in Seq(ToSet(PROMPT))
  BY <1>1
<1>4. ASSUME NEW l \in Line PROVE Len(PROMPT) + Len(l) <= WIDTH * (HEIGHT - 1)
  <2>1. Len(l) \in 0 .. KEY_BUFFER_SIZE - 1
    BY LineFacts
  <2>2. /\ KEY_BUFFER_SIZE - 1 \in Nat /\ TABSTOP \in Nat /\ 1 <= TABSTOP
        /\ WIDTH * (HEIGHT - 1) \in Nat
        /\ Len(PROMPT) + (KEY_BUFFER_SIZE - 1) * TABSTOP <= WIDTH * (HEIGHT - 1)
    BY KeyboardAssumption, ScreenAssumption
  <2>3. 1 * (KEY_BUFFER_SIZE - 1) <= TABSTOP * (KEY_BUFFER_SIZE - 1)
    BY <2>2, TimesMonotone
  <2>4. /\ TABSTOP * (KEY_BUFFER_SIZE - 1) = (KEY_BUFFER_SIZE - 1) * TABSTOP
        /\ 1 * (KEY_BUFFER_SIZE - 1) = KEY_BUFFER_SIZE - 1
        /\ (KEY_BUFFER_SIZE - 1) * TABSTOP \in Nat
    BY <2>2
  <2> DEFINE wide == (KEY_BUFFER_SIZE - 1) * TABSTOP
             room == WIDTH * (HEIGHT - 1)
  <2> HIDE DEF wide, room
  <2>5. /\ KEY_BUFFER_SIZE - 1 <= wide /\ wide \in Nat /\ room \in Nat
        /\ Len(PROMPT) + wide <= room
    BY <2>2, <2>3, <2>4 DEF wide, room
  <2>6. Len(PROMPT) + Len(l) <= room
    BY <2>1, <2>2, <2>5, <1>2
  <2>7. QED  BY <2>6 DEF room
<1>5. QED  BY <1>1, <1>2, <1>3, <1>4

\* The screen ends with the prompt and a line.
Shows(s, l) == Ends(s, PROMPT \o l, Len(PROMPT) + Len(l))

LEMMA ShownLine ==
    ASSUME NEW l \in Seq(CHARS)
    PROVE  /\ PROMPT \o l \in Seq(ToSet(PROMPT) \cup CHARS)
           /\ Len(PROMPT \o l) = Len(PROMPT) + Len(l)
           /\ \A n \in 1 .. Len(PROMPT) : (PROMPT \o l)[n] = PROMPT[n]
           /\ \A n \in 1 .. Len(l) : (PROMPT \o l)[Len(PROMPT) + n] = l[n]
<1>1. PROMPT \in Seq(ToSet(PROMPT) \cup CHARS) /\ l \in Seq(ToSet(PROMPT) \cup CHARS)
  BY PromptFacts
<1>2. QED  BY <1>1

LEMMA PromptShown ==
    ASSUME NEW s, OnScreen(s)
    PROVE  /\ OnScreen(shell_prompt(s))
           /\ \A l \in Seq(CHARS) : Ends(shell_prompt(s), PROMPT \o l, Len(PROMPT))
           /\ Shows(shell_prompt(s), <<>>)
<1>1. OnScreen(shell_prompt(s))
  BY PrintKeeps, PromptFacts DEF shell_prompt
<1>2. ASSUME NEW l \in Seq(CHARS)
      PROVE  Ends(shell_prompt(s), PROMPT \o l, Len(PROMPT))
  <2>1. Ends(s, PROMPT \o l, 0)
    <3>1. Cursor(s) \in Nat
      BY CursorRange DEF OnScreen
    <3>2. QED  BY <3>1 DEF Ends
  <2>2. \A n \in 1 .. Len(PROMPT) : /\ PROMPT[n] = (PROMPT \o l)[0 + n]
                                    /\ PROMPT[n] \notin {NewLine, Tab}
    <3>1. \A n \in 1 .. Len(PROMPT) : 0 + n = n
      BY PromptFacts
    <3>2. QED  BY <3>1, ShownLine, PromptFacts
  <2>3. 0 + Len(PROMPT) <= WIDTH * (HEIGHT - 1) /\ 0 + Len(PROMPT) = Len(PROMPT)
    <3>1. Len(PROMPT) + Len(<<>>) <= WIDTH * (HEIGHT - 1)
      BY EmptyLine, PromptFacts
    <3>2. QED  BY <3>1, PromptFacts
  <2>4. Len(PROMPT) \in Nat /\ 0 \in Nat
    BY PromptFacts
  <2>5. Ends(vga_print(s, PROMPT), PROMPT \o l, 0 + Len(PROMPT))
    BY <2>1, <2>2, <2>3, <2>4, PrintKeeps
  <2>6. QED  BY <2>3, <2>5 DEF shell_prompt
<1>3. Shows(shell_prompt(s), <<>>)
  <2>1. <<>> \in Seq(CHARS) /\ Len(PROMPT) + Len(<<>>) = Len(PROMPT)
    BY PromptFacts
  <2>2. Ends(shell_prompt(s), PROMPT \o <<>>, Len(PROMPT))
    BY <1>2, <2>1
  <2>3. QED  BY <2>1, <2>2 DEF Shows
<1>4. QED  BY <1>1, <1>2, <1>3

\* A line that is printed after the prompt is shown, unless it has a tab.
LEMMA LinePrinted ==
    ASSUME NEW s, OnScreen(s), NEW l \in Line
    PROVE  /\ OnScreen(vga_print(s, l))
           /\ Ends(s, PROMPT \o l, Len(PROMPT)) /\ Tab \notin ToSet(l)
                => Shows(vga_print(s, l), l)
<1>1. l \in Seq(CHARS) /\ Len(l) \in Nat /\ Len(PROMPT) \in Nat
  BY LineFacts, PromptFacts
<1>2. OnScreen(vga_print(s, l))
  BY <1>1, PrintKeeps
<1>3. ASSUME Ends(s, PROMPT \o l, Len(PROMPT)), Tab \notin ToSet(l)
      PROVE  Shows(vga_print(s, l), l)
  <2>1. \A n \in 1 .. Len(l) : /\ l[n] = (PROMPT \o l)[Len(PROMPT) + n]
                               /\ l[n] \notin {NewLine, Tab}
    <3>1. \A n \in 1 .. Len(l) : l[n] \in CHARS /\ l[n] \in ToSet(l)
      BY <1>1 DEF ToSet
    <3>2. QED  BY <3>1, <1>1, <1>3, ShownLine, KeyboardAssumption
  <2>2. Len(PROMPT) + Len(l) <= WIDTH * (HEIGHT - 1)
    BY PromptFacts
  <2>3. QED  BY <2>1, <2>2, <1>1, <1>3, PrintKeeps DEF Shows
<1>4. QED  BY <1>2, <1>3

\* replace_input: the old line gives way to the new one.
LEMMA LineReplaced ==
    ASSUME NEW s, OnScreen(s), NEW old \in Line, NEW l \in Line
    PROVE  /\ OnScreen(vga_print(Erase(s, Len(old)), l))
           /\ Shows(s, old) /\ Tab \notin ToSet(l)
                => Shows(vga_print(Erase(s, Len(old)), l), l)
<1> DEFINE t == Erase(s, Len(old))
<1>1. /\ old \in Seq(CHARS) /\ Len(old) \in Nat /\ Len(PROMPT) \in Nat
      /\ l \in Seq(CHARS)
  BY LineFacts, PromptFacts
<1>2. OnScreen(t)
  BY <1>1, EraseKeeps
<1>3. ASSUME Shows(s, old) PROVE Ends(t, PROMPT \o l, Len(PROMPT))
  <2>1. Ends(t, PROMPT \o old, Len(PROMPT))
    BY <1>1, <1>3, EraseKeeps DEF Shows
  <2>2. \A i \in 1 .. Len(PROMPT) : (PROMPT \o old)[i] = (PROMPT \o l)[i]
    BY <1>1, ShownLine
  <2>3. QED  BY <2>1, <2>2 DEF Ends
<1> HIDE DEF t
<1>4. OnScreen(vga_print(t, l)) /\ (Shows(s, old) /\ Tab \notin ToSet(l) => Shows(vga_print(t, l), l))
  BY <1>2, <1>3, LinePrinted
<1>5. QED  BY <1>4 DEF t

-----------------------------------------------------------------------------
(* The inductive invariant.                                                 *)

\* While history is shown the user's own line is saved, otherwise it is in the buffer.
OwnLineKept == own = IF history_pos = -1 THEN key_buffer ELSE saved_input

\* The screen shows the line, unless a tab was echoed.
Echoed == OnScreen(screen) /\ (~tabbed => Shows(screen, key_buffer))

IInv ==
    /\ TypeOK
    /\ Echoed
    /\ HistoryIsRecent /\ entered \in Seq(Line)
    /\ OwnLineKept

LEMMA ClearOnScreen == OnScreen(vga_clear)
<1> DEFINE blank == [p \in Position |-> Space]
<1>1. vga_clear = [cell |-> blank, x |-> 0, y |-> 0]
  BY DEF vga_clear
<1>2. blank = [p \in Position |-> blank[p]] /\ \A p \in Position : blank[p] = Space
  OBVIOUS
<1>3. 0 \in 0 .. WIDTH /\ 0 \in 0 .. HEIGHT /\ 0 < WIDTH /\ 0 < HEIGHT
  BY ScreenAssumption
<1> HIDE DEF blank
<1>4. QED  BY <1>1, <1>2, <1>3 DEF OnScreen, Drawn

LEMMA EchoedCursor ==
    ASSUME Echoed
    PROVE  /\ screen.x \in 0 .. WIDTH - 1 /\ screen.y \in 0 .. HEIGHT - 1
           /\ DOMAIN screen.cell = Position
<1>1. DOMAIN screen.cell = Position
  BY DEF Echoed, OnScreen, Drawn
<1>2. QED  BY <1>1, ScreenAssumption DEF Echoed, OnScreen, Drawn

LEMMA InitIInv == Init => IInv
<1> SUFFICES ASSUME Init PROVE IInv
  OBVIOUS
<1>1. OnScreen(vga_clear)
  BY ClearOnScreen
<1>2. Echoed
  BY <1>1, PromptShown DEF Echoed, Init
<1>3. TypeOK
  <2>1. /\ key_buffer \in Line /\ saved_input \in Line
        /\ history \in [HistorySlot -> Line]
    BY EmptyLine DEF Init
  <2>2. history_count \in 0 .. HISTORY_SIZE /\ history_pos \in -1 .. history_count - 1
    BY KeyboardAssumption DEF Init
  <2>3. ctrl_held \in BOOLEAN
    BY Zenon DEF Init
  <2>4. QED  BY <2>1, <2>2, <2>3, <1>2, EchoedCursor, Zenon DEF TypeOK
<1>4. HistoryIsRecent /\ entered \in Seq(Line)
  BY DEF Init, HistoryIsRecent
<1>5. OwnLineKept
  BY DEF Init, OwnLineKept
<1>6. QED  BY <1>2, <1>3, <1>4, <1>5 DEF IInv

-----------------------------------------------------------------------------
(* Each key keeps the invariant.                                            *)

\* The line and the rest of the screen fit, whatever the key.
LEMMA TypeFromEchoed ==
    ASSUME Echoed', key_buffer' \in Line, saved_input' \in Line,
           history' \in [HistorySlot -> Line], history_count' \in 0 .. HISTORY_SIZE,
           history_pos' \in -1 .. history_count' - 1, ctrl_held' \in BOOLEAN
    PROVE  TypeOK'
<1>1. (Echoed => /\ screen.x \in 0 .. WIDTH - 1 /\ screen.y \in 0 .. HEIGHT - 1
                 /\ DOMAIN screen.cell = Position)'
  BY EchoedCursor, PTL
<1>2. QED  BY <1>1 DEF TypeOK

\* history_push: what was moved, and what should have been.
LEMMA PushKeeps ==
    ASSUME IInv, history_push(key_buffer)
    PROVE  /\ history' \in [HistorySlot -> Line]
           /\ history_count' \in 0 .. HISTORY_SIZE
           /\ HistoryIsRecent' /\ entered' \in Seq(Line)
<1> DEFINE cmd == key_buffer
<1>1. /\ key_buffer \in Line /\ history \in [HistorySlot -> Line]
      /\ history_count \in 0 .. HISTORY_SIZE
      /\ history_count = Len(entered) /\ entered \in Seq(Line)
      /\ \A i \in 1 .. history_count : history[i - 1] = entered[i]
  BY DEF IInv, TypeOK, HistoryIsRecent
<1>2. HISTORY_SIZE \in Nat /\ HISTORY_SIZE > 0
  BY KeyboardAssumption
<1>3. CASE cmd = <<>> \/ (history_count > 0 /\ history[0] = cmd)
  <2>1. UNCHANGED <<history, history_count, entered>>
    BY <1>3 DEF history_push
  <2>2. QED  BY <2>1, <1>1 DEF HistoryIsRecent
<1>4. CASE ~(cmd = <<>> \/ (history_count > 0 /\ history[0] = cmd))
  <2> DEFINE all == <<cmd>> \o entered
             moved == Shifted(history, LastMoved)
  <2>1. /\ history' = [moved EXCEPT ![0] = cmd]
        /\ history_count' = IF history_count < HISTORY_SIZE THEN history_count + 1
                            ELSE history_count
        /\ entered' = IF Len(all) > HISTORY_SIZE THEN Front(all) ELSE all
    BY <1>4, Zenon DEF history_push
  <2>2. LastMoved \in HistorySlot
        /\ LastMoved = IF history_count < HISTORY_SIZE - 1 THEN history_count ELSE HISTORY_SIZE - 1
    BY <1>1, <1>2 DEF LastMoved, HistorySlot
  <2>3. moved = [i \in HistorySlot |-> IF i \in 1 .. LastMoved THEN history[i - 1] ELSE history[i]]
    BY <2>2, <1>1, ShiftedFacts, Zenon
  <2> HIDE DEF moved
  <2>4. ASSUME NEW i \in HistorySlot
        PROVE  /\ history'[i] = IF i = 0 THEN cmd
                                ELSE IF i <= LastMoved THEN history[i - 1] ELSE history[i]
               /\ history'[i] \in Line
    <3>1. i \in 1 .. LastMoved => i - 1 \in HistorySlot
      BY <2>2, <1>2 DEF HistorySlot
    <3>2. i \in Nat
      BY DEF HistorySlot
    <3>3. QED  BY <2>1, <2>2, <2>3, <3>1, <3>2, <1>1
  <2>5. history' \in [HistorySlot -> Line]
    <3>1. history' = [i \in HistorySlot |-> history'[i]]
      BY <2>1, <2>3
    <3>2. QED  BY <3>1, <2>4
  <2>6. history_count' \in 0 .. HISTORY_SIZE
    BY <2>1, <1>1, <1>2
  <2>7. /\ all \in Seq(Line) /\ Len(all) = history_count + 1
        /\ \A i \in 1 .. Len(all) : all[i] = IF i = 1 THEN cmd ELSE entered[i - 1]
    BY <1>1
  <2> HIDE DEF all
  <2>8. /\ entered' \in Seq(Line) /\ Len(entered') = history_count'
        /\ \A i \in 1 .. history_count' : entered'[i] = all[i]
    <3>1. CASE Len(all) > HISTORY_SIZE
      <4>1. history_count = HISTORY_SIZE
        BY <3>1, <2>7, <1>1, <1>2
      <4>2. entered' = SubSeq(all, 1, Len(all) - 1)
        BY <3>1, <2>1 DEF Front
      <4>3. QED  BY <4>1, <4>2, <2>1, <2>7, <1>1, <1>2
    <3>2. CASE ~(Len(all) > HISTORY_SIZE)
      BY <3>2, <2>1, <2>7, <1>1, <1>2
    <3>3. QED  BY <3>1, <3>2
  <2>9. ASSUME NEW i \in 1 .. history_count' PROVE history'[i - 1] = entered'[i]
    <3>1. i - 1 \in HistorySlot /\ i <= history_count + 1 /\ i - 1 <= LastMoved /\ i \in Nat
      BY <2>1, <2>2, <2>6, <1>1, <1>2 DEF HistorySlot
    <3>2. entered'[i] = IF i = 1 THEN cmd ELSE entered[i - 1]
      BY <2>7, <2>8, <3>1, <1>1
    <3>3. CASE i = 1
      BY <3>2, <3>3, <2>4, <3>1
    <3>4. CASE i # 1
      <4>1. history'[i - 1] = history[(i - 1) - 1]
        BY <3>1, <3>4, <2>4
      <4>2. i - 1 \in 1 .. history_count
        BY <3>1, <3>4, <1>1
      <4>3. QED  BY <4>1, <4>2, <3>2, <3>4, <1>1
    <3>5. QED  BY <3>3, <3>4
  <2>10. QED  BY <2>5, <2>6, <2>8, <2>9 DEF HistoryIsRecent
<1>5. QED  BY <1>3, <1>4

\* All keys but Enter leave history alone.
LEMMA OtherKeys ==
    ASSUME IInv, UNCHANGED <<history, history_count, entered>>,
           Echoed', OwnLineKept', key_buffer' \in Line, saved_input' \in Line,
           history_pos' \in -1 .. history_count - 1, ctrl_held' \in BOOLEAN
    PROVE  IInv'
<1>1. history' \in [HistorySlot -> Line] /\ history_count' \in 0 .. HISTORY_SIZE
  BY DEF IInv, TypeOK
<1>2. history_pos' \in -1 .. history_count' - 1
  OBVIOUS
<1>3. TypeOK'
  BY <1>1, <1>2, TypeFromEchoed
<1>4. HistoryIsRecent' /\ entered' \in Seq(Line)
  BY DEF IInv, HistoryIsRecent
<1>5. QED  BY <1>3, <1>4, Zenon DEF IInv

LEMMA TypeFacts ==
    ASSUME IInv
    PROVE  /\ key_buffer \in Line /\ saved_input \in Line
           /\ history \in [HistorySlot -> Line]
           /\ history_count \in 0 .. HISTORY_SIZE /\ history_pos \in -1 .. history_count - 1
           /\ ctrl_held \in BOOLEAN
           /\ history_pos + 1 \in Nat
           /\ \A i \in 0 .. history_count - 1 : history[i] \in Line
           /\ OnScreen(screen)
<1>1. /\ history_count \in 0 .. HISTORY_SIZE /\ history_pos \in -1 .. history_count - 1
      /\ history \in [HistorySlot -> Line]
  BY DEF IInv, TypeOK
<1>2. history_pos + 1 \in Nat /\ \A i \in 0 .. history_count - 1 : history[i] \in Line
  BY <1>1, KeyboardAssumption DEF HistorySlot
<1>3. key_buffer \in Line /\ saved_input \in Line /\ ctrl_held \in BOOLEAN
  BY Zenon DEF IInv, TypeOK
<1>4. OnScreen(screen)
  BY Zenon DEF IInv, Echoed
<1>5. QED  BY <1>1, <1>2, <1>3, <1>4, Zenon

LEMMA CtrlStep == IInv /\ (CtrlPress \/ CtrlRelease) => IInv'
<1> SUFFICES ASSUME IInv, CtrlPress \/ CtrlRelease PROVE IInv'
  OBVIOUS
<1>1. UNCHANGED <<key_buffer, history, history_count, history_pos, saved_input,
                  screen, entered, own, tabbed>>
  BY Zenon DEF CtrlPress, CtrlRelease
<1>2. ctrl_held' \in BOOLEAN
  BY Zenon DEF CtrlPress, CtrlRelease
<1>3. Echoed'
  BY <1>1 DEF IInv, Echoed
<1>4. OwnLineKept'
  BY <1>1 DEF IInv, OwnLineKept
<1>5. /\ key_buffer' \in Line /\ saved_input' \in Line
      /\ history_pos' \in -1 .. history_count - 1
  BY <1>1, TypeFacts
<1>6. UNCHANGED <<history, history_count, entered>>
  BY <1>1
<1>7. QED  BY <1>2, <1>3, <1>4, <1>5, <1>6, OtherKeys

LEMMA CtrlCStep == IInv /\ CtrlC => IInv'
<1> SUFFICES ASSUME IInv, CtrlC PROVE IInv'
  OBVIOUS
<1> DEFINE s == vga_putchar(vga_print(screen, CANCELLED), NewLine)
<1>1. /\ screen' = shell_prompt(s) /\ key_buffer' = <<>> /\ history_pos' = -1
      /\ NoteOwnLine
      /\ UNCHANGED <<history, history_count, saved_input, ctrl_held, entered>>
  BY DEF CtrlC
<1>2. OnScreen(s)
  <2>1. Len(CANCELLED) \in Nat
    BY KeyboardAssumption
  <2>2. OnScreen(vga_print(screen, CANCELLED))
    BY <2>1, TypeFacts, PrintKeeps
  <2>3. QED  BY <2>2, PutKeeps
<1> HIDE DEF s
<1>3. Echoed'
  BY <1>1, <1>2, PromptShown DEF Echoed
<1>4. OwnLineKept'
  BY <1>1 DEF NoteOwnLine, OwnLineKept
<1>5. /\ key_buffer' \in Line /\ saved_input' \in Line
      /\ history_pos' \in -1 .. history_count - 1
  BY <1>1, TypeFacts, EmptyLine
<1>6. ctrl_held' \in BOOLEAN
  BY <1>1, TypeFacts, Zenon
<1>7. UNCHANGED <<history, history_count, entered>>
  BY <1>1
<1>8. QED  BY <1>3, <1>4, <1>5, <1>6, <1>7, OtherKeys

LEMMA CtrlLStep == IInv /\ CtrlL => IInv'
<1> SUFFICES ASSUME IInv, CtrlL PROVE IInv'
  OBVIOUS
<1> DEFINE s == shell_prompt(vga_clear)
<1>1. /\ screen' = vga_print(s, key_buffer)
      /\ tabbed' = (Tab \in ToSet(key_buffer))
      /\ UNCHANGED <<key_buffer, history, history_count, history_pos, saved_input,
                     ctrl_held, entered, own>>
  BY DEF CtrlL
<1>2. key_buffer \in Line /\ key_buffer \in Seq(CHARS)
  BY TypeFacts, LineFacts
<1>3. OnScreen(s) /\ Ends(s, PROMPT \o key_buffer, Len(PROMPT))
  BY <1>2, ClearOnScreen, PromptShown
<1> HIDE DEF s
<1>4. /\ OnScreen(vga_print(s, key_buffer))
      /\ Tab \notin ToSet(key_buffer) => Shows(vga_print(s, key_buffer), key_buffer)
  BY <1>2, <1>3, LinePrinted
<1>5. Echoed'
  BY <1>1, <1>4 DEF Echoed
<1>6. OwnLineKept'
  BY <1>1 DEF IInv, OwnLineKept
<1>7. /\ key_buffer' \in Line /\ saved_input' \in Line
      /\ history_pos' \in -1 .. history_count - 1
  BY <1>1, TypeFacts
<1>8. ctrl_held' \in BOOLEAN
  BY <1>1, TypeFacts, Zenon
<1>9. UNCHANGED <<history, history_count, entered>>
  BY <1>1
<1>10. QED  BY <1>5, <1>6, <1>7, <1>8, <1>9, OtherKeys

\* The line on the screen after replace_input.
LEMMA ReplaceKeeps ==
    ASSUME IInv, NEW l \in Line, replace_input(l)
    PROVE  key_buffer' = l /\ Echoed'
<1>1. /\ key_buffer' = l
      /\ screen' = vga_print(Erase(screen, Len(key_buffer)), l)
      /\ tabbed' = (tabbed \/ Tab \in ToSet(l))
  BY Zenon DEF replace_input
<1>2. key_buffer \in Line /\ OnScreen(screen)
  BY TypeFacts
<1>3. /\ OnScreen(vga_print(Erase(screen, Len(key_buffer)), l))
      /\ Shows(screen, key_buffer) /\ Tab \notin ToSet(l)
           => Shows(vga_print(Erase(screen, Len(key_buffer)), l), l)
  BY <1>2, LineReplaced
<1>4. ~tabbed => Shows(screen, key_buffer)
  BY Zenon DEF IInv, Echoed
<1>5. OnScreen(screen')
  BY <1>1, <1>3
<1>6. ~(tabbed') => Shows(screen', key_buffer')
  BY <1>1, <1>3, <1>4, Zenon
<1>7. Echoed'
  BY <1>5, <1>6, Zenon DEF Echoed, Shows
<1>8. QED  BY <1>1, <1>7

LEMMA UpStep == IInv /\ Up => IInv'
<1> SUFFICES ASSUME IInv, Up PROVE IInv'
  OBVIOUS
<1>1. /\ history_pos < history_count - 1
      /\ history_pos' = history_pos + 1
      /\ saved_input' = InputSaved
      /\ replace_input(history[history_pos'])
      /\ NoteOwnLine
      /\ UNCHANGED <<history, history_count, ctrl_held, entered>>
  BY Zenon DEF Up
<1>2. history_pos' \in 0 .. history_count - 1
  BY <1>1, TypeFacts
<1>3. history[history_pos'] \in Line
  BY <1>2, TypeFacts
<1>4. key_buffer' = history[history_pos'] /\ Echoed'
  BY <1>1, <1>3, ReplaceKeeps
<1>5. saved_input' = own /\ own' = own
  <2>1. history_pos' # -1
    BY <1>2
  <2>2. QED  BY <1>1, <2>1 DEF InputSaved, IInv, OwnLineKept, NoteOwnLine
<1>6. OwnLineKept'
  BY <1>2, <1>5 DEF OwnLineKept
<1>7. saved_input' \in Line
  BY <1>1, TypeFacts DEF InputSaved
<1>8. ctrl_held' \in BOOLEAN
  BY <1>1, TypeFacts, Zenon
<1>9. /\ key_buffer' \in Line
      /\ history_pos' \in -1 .. history_count - 1
  BY <1>2, <1>3, <1>4, TypeFacts
<1>10. UNCHANGED <<history, history_count, entered>>
  BY <1>1
<1>11. QED  BY <1>4, <1>6, <1>7, <1>8, <1>9, <1>10, OtherKeys

LEMMA DownStep ==
    ASSUME IInv, Down
    PROVE  IInv' /\ (history_pos' = -1 => key_buffer' = own)
<1> DEFINE l == IF history_pos' < 0 THEN saved_input ELSE history[history_pos']
<1>1. /\ history_pos >= 0
      /\ history_pos' = history_pos - 1
      /\ replace_input(l)
      /\ NoteOwnLine
      /\ UNCHANGED <<history, history_count, saved_input, ctrl_held, entered>>
  BY Zenon DEF Down
<1>2. history_pos' \in -1 .. history_count - 1
  BY <1>1, TypeFacts
<1>3. l \in Line
  <2>1. CASE history_pos' < 0
    BY <2>1, TypeFacts
  <2>2. CASE ~(history_pos' < 0)
    <3>1. history_pos' \in 0 .. history_count - 1
      BY <1>2, <2>2, TypeFacts
    <3>2. QED  BY <2>2, <3>1, TypeFacts
  <2>3. QED  BY <2>1, <2>2
<1>4. key_buffer' = l /\ Echoed'
  <2> HIDE DEF l
  <2>1. QED  BY <1>1, <1>3, ReplaceKeeps
<1>5. own = saved_input
  BY <1>1 DEF IInv, OwnLineKept
<1>6. history_pos' = -1 => key_buffer' = own
  BY <1>4, <1>5
<1>7. OwnLineKept'
  BY <1>1, <1>2, <1>5 DEF OwnLineKept, NoteOwnLine
<1>8. key_buffer' \in Line /\ saved_input' \in Line
  BY <1>1, <1>3, <1>4, TypeFacts
<1>9. ctrl_held' \in BOOLEAN
  BY <1>1, TypeFacts, Zenon
<1>10. UNCHANGED <<history, history_count, entered>>
  BY <1>1
<1>11. QED  BY <1>2, <1>4, <1>6, <1>7, <1>8, <1>9, <1>10, OtherKeys

\* Where the line is edited, the user's own line is what is in the buffer.
LEMMA OwnLineEdited ==
    ASSUME IInv, NoteOwnLine, UNCHANGED <<history_pos, saved_input>>
    PROVE  OwnLineKept'
  BY DEF IInv, OwnLineKept, NoteOwnLine

LEMMA FrontFacts ==
    ASSUME NEW S, NEW l \in Seq(S), l # <<>>
    PROVE  /\ Front(l) \in Seq(S) /\ Len(l) > 0
           /\ Len(Front(l)) = Len(l) - 1
           /\ \A i \in 1 .. Len(Front(l)) : Front(l)[i] = l[i]
<1>1. Len(l) \in Nat /\ Len(l) > 0 /\ \A i \in 1 .. Len(l) - 1 : l[i] \in S
  OBVIOUS
<1> DEFINE n == Len(l) - 1
<1>2. n \in Nat /\ n < Len(l)
  BY <1>1
<1> HIDE DEF n
<1>3. /\ SubSeq(l, 1, n) \in Seq(S) /\ Len(SubSeq(l, 1, n)) = n
      /\ \A i \in 1 .. n : SubSeq(l, 1, n)[i] = l[i]
  BY <1>2
<1>4. Front(l) = SubSeq(l, 1, n)
  BY DEF Front, n
<1>5. QED  BY <1>1, <1>3, <1>4 DEF n

LEMMA BackspaceStep == IInv /\ BackspaceKey => IInv'
<1> SUFFICES ASSUME IInv, BackspaceKey PROVE IInv'
  OBVIOUS
<1>1. /\ key_buffer # <<>> /\ key_buffer' = Front(key_buffer)
      /\ screen' = vga_backspace(screen)
      /\ UNCHANGED <<history, history_count, history_pos, saved_input, ctrl_held, entered, tabbed>>
      /\ NoteOwnLine
  BY DEF BackspaceKey
<1>2. /\ key_buffer \in Seq(CHARS) /\ Len(key_buffer) \in 0 .. KEY_BUFFER_SIZE - 1
      /\ KEY_BUFFER_SIZE \in Nat /\ Len(PROMPT) \in Nat
  BY TypeFacts, LineFacts, KeyboardAssumption, PromptFacts
<1>3. /\ key_buffer' \in Seq(CHARS) /\ Len(key_buffer) > 0
      /\ Len(key_buffer') = Len(key_buffer) - 1
      /\ \A i \in 1 .. Len(key_buffer') : key_buffer'[i] = key_buffer[i]
  BY <1>1, <1>2, FrontFacts
<1>4. key_buffer' \in Line
  <2>1. Len(key_buffer') \in 0 .. KEY_BUFFER_SIZE - 1
    BY <1>2, <1>3
  <2>2. QED  BY <2>1, <1>3, LineFacts
<1>5. OnScreen(vga_backspace(screen))
  BY TypeFacts, BackKeeps
<1>6. ASSUME Shows(screen, key_buffer) PROVE Shows(vga_backspace(screen), key_buffer')
  <2> DEFINE n == Len(PROMPT) + Len(key_buffer)
             t == vga_backspace(screen)
  <2>1. n \in Nat \ {0} /\ n - 1 = Len(PROMPT) + Len(key_buffer')
    BY <1>2, <1>3
  <2>2. Ends(screen, PROMPT \o key_buffer, n)
    BY <1>6 DEF Shows
  <2> HIDE DEF n
  <2>3. Ends(t, PROMPT \o key_buffer, n - 1)
    BY <2>1, <2>2, TypeFacts, BackKeeps
  <2>4. \A i \in 1 .. n - 1 : (PROMPT \o key_buffer)[i] = (PROMPT \o key_buffer')[i]
    <3>1. ASSUME NEW i \in 1 .. n - 1
          PROVE  (PROMPT \o key_buffer)[i] = (PROMPT \o key_buffer')[i]
      <4>1. CASE i \in 1 .. Len(PROMPT)
        BY <4>1, <1>2, <1>3, ShownLine
      <4>2. CASE i \notin 1 .. Len(PROMPT)
        <5> DEFINE k == i - Len(PROMPT)
        <5>1. k \in 1 .. Len(key_buffer') /\ k \in 1 .. Len(key_buffer) /\ i = Len(PROMPT) + k
          BY <4>2, <2>1, <1>2, <1>3
        <5> HIDE DEF k
        <5>2. /\ (PROMPT \o key_buffer)[Len(PROMPT) + k] = key_buffer[k]
              /\ (PROMPT \o key_buffer')[Len(PROMPT) + k] = key_buffer'[k]
          BY <5>1, <1>2, <1>3, ShownLine
        <5>3. QED  BY <5>1, <5>2, <1>3
      <4>3. QED  BY <4>1, <4>2
    <3>2. QED  BY <3>1
  <2>5. Ends(t, PROMPT \o key_buffer', n - 1)
    BY <2>3, <2>4 DEF Ends
  <2>6. QED  BY <2>1, <2>5 DEF Shows
<1>7. Echoed'
  <2>1. ~tabbed => Shows(screen, key_buffer)
    BY Zenon DEF IInv, Echoed
  <2>2. ~(tabbed') => Shows(screen', key_buffer')
    BY <2>1, <1>1, <1>6, Zenon
  <2>3. OnScreen(screen')
    BY <1>1, <1>5
  <2>4. QED  BY <2>2, <2>3, Zenon DEF Echoed, Shows
<1>8. OwnLineKept'
  BY <1>1, OwnLineEdited
<1>9. /\ saved_input' \in Line
      /\ history_pos' \in -1 .. history_count - 1
  BY <1>1, TypeFacts
<1>10. ctrl_held' \in BOOLEAN
  BY <1>1, TypeFacts, Zenon
<1>11. UNCHANGED <<history, history_count, entered>>
  BY <1>1
<1>12. QED  BY <1>4, <1>7, <1>8, <1>9, <1>10, <1>11, OtherKeys

LEMMA CharStep == IInv /\ CharKey => IInv'
<1> SUFFICES ASSUME IInv, CharKey PROVE IInv'
  OBVIOUS
<1>1. PICK c \in CHARS : /\ key_buffer' = Append(key_buffer, c)
                         /\ screen' = vga_putchar(screen, c)
                         /\ tabbed' = (tabbed \/ c = Tab)
  BY Zenon DEF CharKey
<1>2. /\ Len(key_buffer) < KEY_BUFFER_SIZE - 1
      /\ UNCHANGED <<history, history_count, history_pos, saved_input, ctrl_held, entered>>
      /\ NoteOwnLine
  BY Zenon DEF CharKey, HasRoom
<1>3. /\ key_buffer \in Seq(CHARS) /\ Len(key_buffer) \in 0 .. KEY_BUFFER_SIZE - 1
      /\ KEY_BUFFER_SIZE \in Nat /\ Len(PROMPT) \in Nat
  BY TypeFacts, LineFacts, KeyboardAssumption, PromptFacts
<1>4. /\ key_buffer' \in Seq(CHARS)
      /\ Len(key_buffer') = Len(key_buffer) + 1
      /\ key_buffer'[Len(key_buffer')] = c
      /\ \A i \in 1 .. Len(key_buffer) : key_buffer'[i] = key_buffer[i]
  BY <1>1, <1>3
<1>5. key_buffer' \in Line
  <2>1. Len(key_buffer') \in 0 .. KEY_BUFFER_SIZE - 1
    BY <1>2, <1>3, <1>4
  <2>2. QED  BY <2>1, <1>4, LineFacts
<1>6. OnScreen(vga_putchar(screen, c))
  BY TypeFacts, PutKeeps
<1>7. ASSUME Shows(screen, key_buffer), c # Tab
      PROVE  Shows(vga_putchar(screen, c), key_buffer')
  <2> DEFINE n == Len(PROMPT) + Len(key_buffer')
             line == PROMPT \o key_buffer'
             t == vga_putchar(screen, c)
  <2>1. n \in 1 .. WIDTH * (HEIGHT - 1) /\ n - 1 = Len(PROMPT) + Len(key_buffer)
    <3> DEFINE room == WIDTH * (HEIGHT - 1)
    <3>1. room \in Nat /\ n <= room
      BY <1>5, PromptFacts, ScreenAssumption
    <3> HIDE DEF room
    <3>2. n \in 1 .. room /\ n - 1 = Len(PROMPT) + Len(key_buffer)
      BY <3>1, <1>3, <1>4
    <3>3. QED  BY <3>2 DEF room
  <2>2. Ends(screen, PROMPT \o key_buffer, n - 1)
    BY <2>1, <1>7 DEF Shows
  <2>3. line[n] = c
    <3>1. Len(key_buffer') \in 1 .. Len(key_buffer')
      BY <1>3, <1>4
    <3>2. QED  BY <3>1, <1>4, ShownLine
  <2>4. \A i \in 1 .. n - 1 : (PROMPT \o key_buffer)[i] = line[i]
    <3>1. ASSUME NEW i \in 1 .. n - 1
          PROVE  (PROMPT \o key_buffer)[i] = line[i]
      <4>1. CASE i \in 1 .. Len(PROMPT)
        BY <4>1, <1>3, <1>4, ShownLine
      <4>2. CASE i \notin 1 .. Len(PROMPT)
        <5> DEFINE k == i - Len(PROMPT)
        <5>1. k \in 1 .. Len(key_buffer') /\ k \in 1 .. Len(key_buffer) /\ i = Len(PROMPT) + k
          BY <4>2, <2>1, <1>3, <1>4
        <5> HIDE DEF k
        <5>2. /\ (PROMPT \o key_buffer)[Len(PROMPT) + k] = key_buffer[k]
              /\ (PROMPT \o key_buffer')[Len(PROMPT) + k] = key_buffer'[k]
          BY <5>1, <1>3, <1>4, ShownLine
        <5>3. QED  BY <5>1, <5>2, <1>4
      <4>3. QED  BY <4>1, <4>2
    <3>2. QED  BY <3>1
  <2> HIDE DEF n, line
  <2>5. Ends(screen, line, n - 1)
    BY <2>2, <2>4 DEF Ends
  <2>6. c \notin {NewLine, Tab}
    BY <1>7, KeyboardAssumption
  <2>7. Ends(t, line, n)
    BY <2>1, <2>3, <2>5, <2>6, TypeFacts, PutKeeps
  <2>8. QED  BY <2>7 DEF Shows, n, line
<1>8. Echoed'
  <2>1. ~tabbed => Shows(screen, key_buffer)
    BY Zenon DEF IInv, Echoed
  <2>2. ~(tabbed') => Shows(screen', key_buffer')
    BY <2>1, <1>1, <1>7, Zenon
  <2>3. OnScreen(screen')
    BY <1>1, <1>6
  <2>4. QED  BY <2>2, <2>3, Zenon DEF Echoed, Shows
<1>9. OwnLineKept'
  BY <1>2, OwnLineEdited
<1>10. /\ saved_input' \in Line
       /\ history_pos' \in -1 .. history_count - 1
  BY <1>2, TypeFacts
<1>11. ctrl_held' \in BOOLEAN
  BY <1>2, TypeFacts, Zenon
<1>12. UNCHANGED <<history, history_count, entered>>
  BY <1>2
<1>13. QED  BY <1>5, <1>8, <1>9, <1>10, <1>11, <1>12, OtherKeys

LEMMA EnterStep == IInv /\ EnterKey => IInv'
<1> SUFFICES ASSUME IInv, EnterKey PROVE IInv'
  OBVIOUS
<1>1. /\ history_push(key_buffer) /\ history_pos' = -1 /\ key_buffer' = <<>>
      /\ NoteOwnLine
      /\ UNCHANGED <<saved_input, ctrl_held>>
  BY DEF EnterKey
<1>2. PICK s \in Executed(vga_putchar(screen, NewLine)) : screen' = shell_prompt(s)
  BY DEF EnterKey
<1>3. OnScreen(s)
  <2>1. OnScreen(vga_putchar(screen, NewLine))
    BY TypeFacts, PutKeeps
  <2>2. \A text \in OUTPUTS : OnScreen(vga_print(vga_putchar(screen, NewLine), text))
    BY <2>1, PrintKeeps, KeyboardAssumption
  <2>3. QED  BY <2>1, <2>2, ClearOnScreen DEF Executed
<1>4. Echoed'
  BY <1>1, <1>2, <1>3, PromptShown DEF Echoed
<1>5. OwnLineKept'
  BY <1>1 DEF NoteOwnLine, OwnLineKept
<1>6. /\ history' \in [HistorySlot -> Line]
      /\ history_count' \in 0 .. HISTORY_SIZE
      /\ HistoryIsRecent' /\ entered' \in Seq(Line)
  BY <1>1, PushKeeps
<1>7. history_pos' \in -1 .. history_count' - 1
  <2>1. history_pos' = -1
    BY <1>1
  <2>2. history_count' \in Nat
    BY <1>6, KeyboardAssumption
  <2>3. \A c \in Nat : -1 \in -1 .. c - 1
    OBVIOUS
  <2>4. QED  BY <2>1, <2>2, <2>3, Zenon
<1>8. key_buffer' \in Line /\ saved_input' \in Line
  BY <1>1, EmptyLine, TypeFacts
<1>9. ctrl_held' \in BOOLEAN
  BY <1>1, TypeFacts, Zenon
<1>10. TypeOK'
  BY <1>4, <1>6, <1>7, <1>8, <1>9, TypeFromEchoed
<1>11. QED  BY <1>4, <1>5, <1>6, <1>10, Zenon DEF IInv

LEMMA StepIInv == IInv /\ [Next]_vars => IInv'
<1> SUFFICES ASSUME IInv, [Next]_vars PROVE IInv'
  OBVIOUS
<1>1. CASE UNCHANGED vars
  <2>1. (TypeOK' <=> TypeOK) /\ (Echoed' <=> Echoed)
    BY <1>1, Zenon DEF vars, TypeOK, Echoed
  <2>2. (HistoryIsRecent' <=> HistoryIsRecent) /\ (OwnLineKept' <=> OwnLineKept)
        /\ entered' = entered
    BY <1>1, Zenon DEF vars, HistoryIsRecent, OwnLineKept
  <2>3. QED  BY <2>1, <2>2, Zenon DEF IInv
<1>2. CASE CtrlPress \/ CtrlRelease
  BY <1>2, CtrlStep, Zenon
<1>3. CASE CtrlC
  BY <1>3, CtrlCStep, Zenon
<1>4. CASE CtrlL
  BY <1>4, CtrlLStep, Zenon
<1>5. CASE Up
  BY <1>5, UpStep, Zenon
<1>6. CASE Down
  BY <1>6, DownStep, Zenon
<1>7. CASE BackspaceKey
  BY <1>7, BackspaceStep, Zenon
<1>8. CASE EnterKey
  BY <1>8, EnterStep, Zenon
<1>9. CASE CharKey
  BY <1>9, CharStep, Zenon
<1>10. QED
  BY <1>1, <1>2, <1>3, <1>4, <1>5, <1>6, <1>7, <1>8, <1>9, Zenon DEF Next

-----------------------------------------------------------------------------
(* The theorems.                                                            *)

(* The screen shows the line, history holds the commands, and the user's    *)
(* own line is where Down will find it, after every key.                    *)
THEOREM InductiveInvariant == Spec => []IInv
  BY InitIInv, StepIInv, PTL DEF Spec

(* Lines fit their buffers, the cursor stays on the screen, and the slot    *)
(* that is shown holds a command, for any sizes of line, history, screen.   *)
THEOREM TypeCorrect == Spec => []TypeOK
<1>1. IInv => TypeOK
  BY DEF IInv
<1>2. QED  BY <1>1, InductiveInvariant, PTL

(* Until a tab is echoed the screen shows the prompt, the line and nothing  *)
(* behind it (vga_putchar, scroll, vga_backspace, replace_input).           *)
THEOREM LineShownAlways == Spec => []LineShown
<1>1. ASSUME IInv PROVE LineShown
  <2>1. SUFFICES ASSUME ~tabbed PROVE
            LET shown == PROMPT \o key_buffer
                start == Cursor(screen) - Len(shown)
            IN  /\ start >= 0
                /\ \A i \in DOMAIN shown : screen.cell[start + i - 1] = shown[i]
                /\ \A p \in Cursor(screen) .. WIDTH * HEIGHT - 1 : screen.cell[p] = Space
    BY Zenon DEF LineShown
  <2> DEFINE shown == PROMPT \o key_buffer
  <2>2. key_buffer \in Seq(CHARS) /\ Len(key_buffer) \in Nat /\ Len(PROMPT) \in Nat
    BY <1>1, TypeFacts, LineFacts, PromptFacts
  <2>3. Len(shown) = Len(PROMPT) + Len(key_buffer) /\ DOMAIN shown = 1 .. Len(shown)
    BY <2>2, ShownLine
  <2>4. Ends(screen, shown, Len(shown))
    <3>1. Shows(screen, key_buffer)
      BY <1>1, <2>1, Zenon DEF IInv, Echoed
    <3>2. QED  BY <3>1, <2>3, Zenon DEF Shows
  <2> HIDE DEF shown
  <2>5. OnScreen(screen) /\ Cursor(screen) \in Nat
    BY <1>1, TypeFacts, CursorRange DEF OnScreen
  <2>6. Len(shown) \in Nat
    BY <2>2, <2>3
  <2>7. Cursor(screen) - Len(shown) >= 0
    BY <2>4, <2>5, <2>6 DEF Ends
  <2>8. \A i \in DOMAIN shown : screen.cell[Cursor(screen) - Len(shown) + i - 1] = shown[i]
    BY <2>3, <2>4 DEF Ends
  <2>9. \A p \in Cursor(screen) .. WIDTH * HEIGHT - 1 : screen.cell[p] = Space
    <3>1. WIDTH * HEIGHT \in Nat
      BY ScreenAssumption
    <3> DEFINE size == WIDTH * HEIGHT
    <3> HIDE DEF size
    <3>2. \A p \in Cursor(screen) .. size - 1 : p \in 0 .. size - 1 /\ p >= Cursor(screen)
      BY <3>1, <2>5 DEF size
    <3>3. \A p \in Position : p >= Cursor(screen) => screen.cell[p] = Space
      BY <2>5 DEF OnScreen, Drawn
    <3>4. QED  BY <3>2, <3>3 DEF Position, size
  <2>10. QED  BY <2>7, <2>8, <2>9 DEF shown
<1>2. QED  BY <1>1, InductiveInvariant, PTL

(* History holds the last commands, most recent first (history_push).       *)
THEOREM HistoryIsRecentAlways == Spec => []HistoryIsRecent
<1>1. IInv => HistoryIsRecent
  BY DEF IInv
<1>2. QED  BY <1>1, InductiveInvariant, PTL

(* Going down past the last command gives back the user's own line.         *)
THEOREM OwnLineComesBack == Spec => OwnLineReturns
<1>1. IInv => [Down /\ history_pos' = -1 => key_buffer' = own]_vars
  BY DownStep, Zenon
<1>2. QED  BY <1>1, InductiveInvariant, PTL DEF Spec, OwnLineReturns
=============================================================================
