\* Two slots of history, and a line that crosses rows: 2 characters and the prompt on rows of 2.
CONSTANTS
    WIDTH = 2
    HEIGHT = 4
    TABSTOP = 2
    KEY_BUFFER_SIZE = 3
    HISTORY_SIZE = 2
    Space = Space
    NewLine = NewLine
    Tab = Tab
    a = a
    P = P
    CHARS <- CharsTyped
    PROMPT <- OnePrompt
    CANCELLED <- OneChar
    OUTPUTS <- Texts
SPECIFICATION Spec
INVARIANTS
    TypeOK
    LineShown
    HistoryIsRecent
PROPERTY OwnLineReturns
