\* One command: rsb exec with two reads of stdin, a download of up to three bytes,
\* a search with up to three lines, a repl with up to three lines.
SPECIFICATION RsbFairSpec
CONSTANTS
    UseStdin = TRUE
    NumIn = 2
    StdinEnds = TRUE
    NumOut = 2
    SockCap = 2
    Deadline = 3
    DaemonReads = TRUE
    Starts = {0, 1, 2}
    Stops = {0, 1, 2}
    Sizes = {0, 1, 2}
    Requests <- MCRequests
    MaxLen = 3
    ChunkSize = 2
    MaxLine = 3
    WireCap = 2
    Faults = TRUE
    Lens = {1, 2}
    Texts <- MCTexts
    Caps = {0, 1, 2}
    LineCap = 3
    Scripts <- MCScripts
    ReplOuts = 1
INVARIANTS RsbTypeOK AnswerIsShown LivelyIsAwaited SliceIsExact OkIsWhole GrepExact ReplInStep
PROPERTY CommandEnds
CHECK_DEADLOCK FALSE
