\* What a comment or a header says and the code does not do: one line at a time.
CONSTANTS
    Menus = {m, n}
    Texts = {t}
    Files = {f}
    Queries = {q}
    HistMax = 2
    MaxFetches = 4
SPECIFICATION GopherSpec
INVARIANT BackIsKept
\* INVARIANT WholeOrError
\* INVARIANT ItemOutlivesBox
\* PROPERTY TimeoutFires
\* a tab that has started all its fetches does nothing more
CHECK_DEADLOCK FALSE
