\* IRC: two connections, two manual connects, a replay of one, three messages.
\* Newspaper: three issues, a cache of two, three picks.
\* Gopher: four fetches over three URLs and a search, a history of two.
\* GW-BASIC: three inputs, each a key or a paste of two keystrokes, a queue of two
\* with one kept free, two machines.
CONSTANTS
    SeenMax = 1
    Window = 1
    MaxTalk = 3
    MaxDials = 2
    MaxClients = 2
    gt113 = gt113
    gt112 = gt112
    gt111 = gt111
    NoPage = NoPage
    Issues = {gt113, gt112, gt111}
    Latest = gt113
    CacheCap = 2
    MaxPicks = 3
    Menus = {m}
    Texts = {t}
    Files = {f}
    Queries = {q}
    HistMax = 2
    MaxFetches = 4
    PasteLen = 2
    QueueCap = 2
    Reserve = 1
    MaxInputs = 3
    MaxBoots = 2
SPECIFICATION MCSpec
INVARIANTS PaneIsChannel NotBothWaiting BrowserFollowsTab ManifestsServePrint HistoryIsTrail KeysArrive WakeIsKept
PROPERTIES WorkerReleased FetchesEnd
\* a tab that was closed does nothing more
CHECK_DEADLOCK FALSE
