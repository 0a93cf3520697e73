---------------------------- MODULE MCKeyboard -----------------------------
(* The keyboard and the screen on 8 cells, with a line of up to 2 characters. *)
EXTENDS Keyboard

CONSTANTS a, P

CharsTyped == {a, Tab}
OnePrompt == <<P>>
OneChar == <<a>>

\* A text that does not end its row: the next prompt starts in the middle of it.
Texts == {<<a>>}
=============================================================================
