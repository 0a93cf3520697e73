------------------------------ MODULE Keyboard ------------------------------
(***************************************************************************)
(* drivers/keyboard.c: the line the user types, its echo on the screen and *)
(* the history of commands.  Each action is keyboard_callback for one key; *)
(* it runs with interrupts disabled, the command that Enter executes       *)
(* included, so it is one step.  A C string with its length is a sequence. *)
(* Shift only selects between two tables of characters, so a key is the    *)
(* character it gives.  The editor's branch is left out: the command that  *)
(* sets editor_mode waits inside this handler, which is then not entered   *)
(* again (see Irq).                                                        *)
(***************************************************************************)
EXTENDS Vga

CONSTANTS
    KEY_BUFFER_SIZE,  \* 256, the terminating NUL included
    HISTORY_SIZE,     \* 16
    CHARS,            \* characters of the two tables that are typed
    PROMPT,           \* what shell_prompt prints
    CANCELLED,        \* what Ctrl+C prints, "^C"
    OUTPUTS           \* what commands print

ASSUME KeyboardAssumption ==
    /\ KEY_BUFFER_SIZE \in Nat \ {0} /\ HISTORY_SIZE \in Nat \ {0}
    /\ NewLine \notin CHARS
    /\ PROMPT \in Seq(ToSet(PROMPT) \ {NewLine, Tab})
    /\ \A text \in OUTPUTS \cup {CANCELLED} : Len(text) \in Nat
    \* A prompt and the longest line fit on the screen above its last row.
    /\ Len(PROMPT) > 0
    /\ Len(PROMPT) + (KEY_BUFFER_SIZE - 1) * TABSTOP <= WIDTH * (HEIGHT - 1)

VARIABLES
    key_buffer,       \* with key_buffer_len
    history,          \* slot 0 is the most recent command
    history_count,
    history_pos,      \* -1: the user's own line; else the slot that is shown
    saved_input,      \* the user's own line while history is shown
    ctrl_held,
    screen,
    \* history variables, which the code does not have
    entered,          \* the commands entered, most recent first, as far as they are to be kept
    own,              \* the line in the buffer when history was last not shown
    tabbed            \* a tab was echoed since the last prompt

vars == <<key_buffer, history, history_count, history_pos, saved_input, ctrl_held,
          screen, entered, own, tabbed>>

Line == SeqOf(CHARS, KEY_BUFFER_SIZE - 1)
HistorySlot == 0 .. HISTORY_SIZE - 1

shell_prompt(s) == vga_print(s, PROMPT)

Init ==
    /\ key_buffer = <<>>
    /\ history = [i \in HistorySlot |-> <<>>]
    /\ history_count = 0
    /\ history_pos = -1
    /\ saved_input = <<>>
    /\ ctrl_held = FALSE
    /\ screen = shell_prompt(vga_clear)
    /\ entered = <<>>
    /\ own = <<>>
    /\ tabbed = FALSE

NoteOwnLine == own' = IF history_pos' = -1 THEN key_buffer' ELSE own

----------------------------------------------------------------------------
\* history_push.

\* Copying slot i - 1 to slot i, from the last slot in use towards the first.
Shifted(h, last) ==
    LET after[k \in 0 .. last] ==
            IF k = 0 THEN h
            ELSE [after[k - 1] EXCEPT ![last + 1 - k] = after[k - 1][last - k]]
    IN  after[last]

\* A mutant: the last command in use is not moved.
LastMoved_OneLess ==
    IF history_count \in 1 .. HISTORY_SIZE THEN history_count - 1 ELSE 0

\* `max': where the loop starts.
LastMoved == IF history_count < HISTORY_SIZE - 1 THEN history_count ELSE HISTORY_SIZE - 1

history_push(cmd) ==
    IF \/ cmd = <<>>
       \/ history_count > 0 /\ history[0] = cmd
    THEN UNCHANGED <<history, history_count, entered>>
    ELSE /\ history' = [Shifted(history, LastMoved) EXCEPT ![0] = cmd]
         /\ history_count' = IF history_count < HISTORY_SIZE THEN history_count + 1
                             ELSE history_count
         /\ entered' = LET all == <<cmd>> \o entered
                       IN  IF Len(all) > HISTORY_SIZE THEN Front(all) ELSE all

\* What is shown of the line is erased, and the new text shown.
replace_input(text) ==
    /\ key_buffer' = text
    /\ screen' = vga_print(Erase(screen, Len(key_buffer)), text)
    /\ tabbed' = (tabbed \/ Tab \in ToSet(text))

----------------------------------------------------------------------------
\* keyboard_callback.

CtrlPress ==
    /\ ctrl_held' = TRUE
    /\ UNCHANGED <<key_buffer, history, history_count, history_pos, saved_input,
                   screen, entered, own, tabbed>>

CtrlRelease ==
    /\ ctrl_held' = FALSE
    /\ UNCHANGED <<key_buffer, history, history_count, history_pos, saved_input,
                   screen, entered, own, tabbed>>

CtrlC ==
    /\ ctrl_held
    /\ screen' = shell_prompt(vga_putchar(vga_print(screen, CANCELLED), NewLine))
    /\ key_buffer' = <<>>
    /\ history_pos' = -1
    /\ tabbed' = FALSE
    /\ NoteOwnLine
    /\ UNCHANGED <<history, history_count, saved_input, ctrl_held, entered>>

CtrlL ==
    /\ ctrl_held
    /\ screen' = vga_print(shell_prompt(vga_clear), key_buffer)
    /\ tabbed' = (Tab \in ToSet(key_buffer))
    /\ UNCHANGED <<key_buffer, history, history_count, history_pos, saved_input,
                   ctrl_held, entered, own>>

\* A mutant: what is shown is saved, the user's own line or not.
InputSaved_Always == key_buffer

InputSaved == IF history_pos = -1 THEN key_buffer ELSE saved_input

Up ==
    /\ history_count > 0
    /\ history_pos < history_count - 1
    /\ history_pos' = history_pos + 1
    /\ saved_input' = InputSaved
    /\ replace_input(history[history_pos'])
    /\ NoteOwnLine
    /\ UNCHANGED <<history, history_count, ctrl_held, entered>>

Down ==
    /\ history_pos >= 0
    /\ history_pos' = history_pos - 1
    /\ replace_input(IF history_pos' < 0 THEN saved_input ELSE history[history_pos'])
    /\ NoteOwnLine
    /\ UNCHANGED <<history, history_count, saved_input, ctrl_held, entered>>

BackspaceKey ==
    /\ key_buffer # <<>>
    /\ key_buffer' = Front(key_buffer)
    /\ screen' = vga_backspace(screen)
    /\ UNCHANGED <<history, history_count, history_pos, saved_input, ctrl_held, entered, tabbed>>
    /\ NoteOwnLine

\* The screen after shell_execute: an empty line does nothing, a command prints
\* something, and `clear' does more than print.
Executed(s) ==
    IF key_buffer = <<>> THEN {s}
    ELSE {vga_print(s, text) : text \in OUTPUTS} \cup {vga_clear}

\* The command runs before the line is emptied.
EnterKey ==
    /\ history_push(key_buffer)
    /\ history_pos' = -1
    /\ \E s \in Executed(vga_putchar(screen, NewLine)) : screen' = shell_prompt(s)
    /\ key_buffer' = <<>>
    /\ tabbed' = FALSE
    /\ NoteOwnLine
    /\ UNCHANGED <<saved_input, ctrl_held>>

\* A mutant: no room for the terminating NUL.
HasRoom_NoNul == Len(key_buffer) < KEY_BUFFER_SIZE

HasRoom == Len(key_buffer) < KEY_BUFFER_SIZE - 1

CharKey ==
    /\ HasRoom
    /\ \E c \in CHARS :
          /\ key_buffer' = Append(key_buffer, c)
          /\ screen' = vga_putchar(screen, c)
          /\ tabbed' = (tabbed \/ c = Tab)
    /\ UNCHANGED <<history, history_count, history_pos, saved_input, ctrl_held, entered>>
    /\ NoteOwnLine

Next ==
    \/ CtrlPress \/ CtrlRelease \/ CtrlC \/ CtrlL
    \/ Up \/ Down
    \/ BackspaceKey \/ EnterKey \/ CharKey

Spec == Init /\ [][Next]_vars

----------------------------------------------------------------------------
(* Properties.                                                             *)

\* Lines fit their buffers, the cursor is on the screen, the slot that is
\* shown holds a command.
TypeOK ==
    /\ key_buffer \in Line /\ saved_input \in Line
    /\ history \in [HistorySlot -> Line]
    /\ history_count \in 0 .. HISTORY_SIZE
    /\ history_pos \in -1 .. history_count - 1
    /\ ctrl_held \in BOOLEAN
    /\ screen.x \in 0 .. WIDTH - 1 /\ screen.y \in 0 .. HEIGHT - 1
    /\ DOMAIN screen.cell = Position

\* Whatever was typed, erased, recalled, wrapped at the end of a row or scrolled
\* away, the screen shows the prompt, then the line that Enter would execute,
\* then nothing (vga_backspace and replace_input undo what vga_putchar did).
\* Not after a tab, which takes several columns and is erased as one: what is
\* left of the line then stays on the screen until the next prompt.
LineShown ==
    ~tabbed =>
        LET shown == PROMPT \o key_buffer
            start == Cursor(screen) - Len(shown)
        IN  /\ start >= 0
            /\ \A i \in DOMAIN shown : screen.cell[start + i - 1] = shown[i]
            /\ \A p \in Cursor(screen) .. WIDTH * HEIGHT - 1 : screen.cell[p] = Space

\* The slots of history are the last commands entered that differ from the one before
\* them, most recent first: history_push moves each one down once, also when
\* the last slot is in use.
HistoryIsRecent ==
    /\ history_count = Len(entered)
    /\ \A i \in 1 .. history_count : history[i - 1] = entered[i]

\* Going back down past the most recent command gives the user the line that
\* was typed before going up, however long the browsing and whatever was
\* edited on the way.
OwnLineReturns ==
    [][Down /\ history_pos' = -1 => key_buffer' = own]_vars
=============================================================================
