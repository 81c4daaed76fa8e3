------------------------------ MODULE GopherTab ------------------------------
(* The Gopher tab (gopher_module.c): one fetch in flight on a worker         *)
(* (gopher_protocol.c) whose result is posted, the history of pages with its *)
(* two stacks, the document on the canvas, and the two modal boxes inside    *)
(* which results are still delivered.                                        *)
EXTENDS Integers, Sequences, SequencesExt

CONSTANTS
    Menus, Texts, Files,   \* URLs by item type: 1, 0, and 9, g, I, s
    Queries,               \* results of a type-7 search
    HistMax,               \* GOPHER_HISTORY_MAX, 64 in the code
    MaxFetches             \* bound: fetches started

Nowhere == "nowhere"
Targets == Menus \cup Texts \cup Files \cup Queries

ASSUME GopherAssumption ==
    /\ HistMax \in Nat \ {0} /\ MaxFetches \in Nat
    /\ \A S, T \in {Menus, Texts, Files, Queries} : S # T => S \cap T = {}
    /\ Nowhere \notin Targets     \* the empty string, which is no gopher:// URL

VARIABLES
    back, fwd,          \* g_back_stack, g_fwd_stack
    current,            \* g_current_url, or Nowhere
    canvas,             \* the URL whose menu or text is drawn, or Nowhere
    g_fetch_in_flight,
    job,                \* the worker's GopherFetchResult, or None
    done,               \* posted WM_GOPHER_FETCH_DONE
    boxes,              \* the modal boxes that are open, innermost last
    item,               \* the item the search box was opened for: "none", "kept" or "freed"
    fetches,
    trail, here,        \* what the user has visited, and where in it the user is
    strayed,            \* a Back or Forward that was refused or failed
    hurt                \* a freed item was read

histVars == <<back, fwd, current, canvas>>
fetchVars == <<g_fetch_in_flight, job, done, fetches>>
boxVars == <<boxes, item, hurt>>
userVars == <<trail, here, strayed>>
gopherVars == <<histVars, fetchVars, boxVars, userVars>>

None == [url |-> Nowhere]

GopherInit ==
    /\ back = <<>> /\ fwd = <<>> /\ current = Nowhere /\ canvas = Nowhere
    /\ g_fetch_in_flight = FALSE /\ job = None /\ done = <<>> /\ fetches = 0
    /\ boxes = <<>> /\ item = "none" /\ hurt = FALSE
    /\ trail = <<>> /\ here = 0 /\ strayed = FALSE

-------------------------------------------------------------------------------
(* Navigation, on the UI thread. *)

\* gopher_navigate's switch: a search is not fetched again by its URL.
Supported(u) == u \in Menus \cup Texts \cup Files

\* gopher_kick_fetch: one at a time, the others are refused.
StartFetch(u, push) ==
    IF g_fetch_in_flight THEN UNCHANGED fetchVars
    ELSE /\ fetches < MaxFetches /\ fetches' = fetches + 1
         /\ g_fetch_in_flight' = TRUE
         /\ job' = [url |-> u, push |-> push, at |-> "connect"]
         /\ UNCHANGED done

Navigate(u, push) == IF Supported(u) THEN StartFetch(u, push) ELSE UNCHANGED fetchVars

\* Go, Enter, Home, and a click on an item of a menu.
Open ==
    /\ boxes = <<>>
    /\ \E u \in Targets : Navigate(u, TRUE)
    /\ UNCHANGED <<histVars, boxVars, userVars>>

Refresh ==
    /\ boxes = <<>> /\ current # Nowhere /\ Navigate(current, FALSE)
    /\ UNCHANGED <<histVars, boxVars, userVars>>

Kept(stack) == IF current # Nowhere /\ Len(stack) < HistMax THEN Append(stack, current) ELSE stack
Accepted(u) == Supported(u) /\ ~g_fetch_in_flight

BackClicked ==
    /\ boxes = <<>> /\ back # <<>>
    /\ back' = Front(back) /\ fwd' = Kept(fwd) /\ current' = Nowhere
    /\ Navigate(Last(back), FALSE)
    /\ here' = here - 1 /\ strayed' = (strayed \/ ~Accepted(Last(back)))
    /\ UNCHANGED <<canvas, boxVars, trail>>

ForwardClicked ==
    /\ boxes = <<>> /\ fwd # <<>>
    /\ fwd' = Front(fwd) /\ back' = Kept(back) /\ current' = Nowhere
    /\ Navigate(Last(fwd), FALSE)
    /\ here' = here + 1 /\ strayed' = (strayed \/ ~Accepted(Last(fwd)))
    /\ UNCHANGED <<canvas, boxVars, trail>>

\* gopher_dispatch_item, type 7: the box runs its own message pump while the
\* caller keeps a pointer to the item.
SearchOpens ==
    /\ boxes = <<>> /\ canvas \in Menus \cup Queries
    /\ boxes' = <<"search">> /\ item' = "kept"
    /\ UNCHANGED <<histVars, fetchVars, hurt, userVars>>

TopBox(b) == boxes # <<>> /\ Last(boxes) = b

SearchAnswered ==
    /\ TopBox("search") /\ boxes' = Front(boxes) /\ item' = "none"
    /\ \/ UNCHANGED <<fetchVars, hurt>>
       \/ /\ hurt' = (hurt \/ item = "freed")
          /\ \E q \in Queries : StartFetch(q, TRUE)
    /\ UNCHANGED <<histVars, userVars>>

SaveAnswered ==
    /\ TopBox("save") /\ boxes' = Front(boxes)
    /\ UNCHANGED <<histVars, fetchVars, item, hurt, userVars>>

-------------------------------------------------------------------------------
(* The worker: gopher_fetch_thread and gopher_fetch_sync. *)

PostResult(ok, whole) ==
    /\ done' = Append(done, [url |-> job.url, push |-> job.push, ok |-> ok, whole |-> whole])
    /\ job' = None

FetchAt(place) == job # None /\ job.at = place
FetchMoves(place) ==
    /\ job' = [job EXCEPT !.at = place]
    /\ UNCHANGED <<g_fetch_in_flight, done, fetches, histVars, boxVars, userVars>>

GopherConnectFails ==
    /\ FetchAt("connect") /\ PostResult(FALSE, FALSE)
    /\ UNCHANGED <<g_fetch_in_flight, fetches, histVars, boxVars, userVars>>
GopherConnects == FetchAt("connect") /\ FetchMoves("recv")

\* The loop goes on as long as recv gives bytes: each has 15 s, all of them together
\* have neither a limit nor a cancel.
Receives == FetchAt("data") /\ FetchMoves("recv")

\* It ends on the first recv that gives nothing: the server has closed, or the
\* connection was lost or silent for 15 s, which it does not tell apart.
RecvEnds ==
    /\ FetchAt("recv") \/ FetchAt("data") \/ FetchAt("end")
    /\ PostResult(TRUE, FetchAt("end"))
    /\ UNCHANGED <<g_fetch_in_flight, fetches, histVars, boxVars, userVars>>

\* Meanwhile the server sends more, or ends its document.
ServerSends == FetchAt("recv") /\ FetchMoves("data")
ServerCloses == (FetchAt("recv") \/ FetchAt("data")) /\ FetchMoves("end")

-------------------------------------------------------------------------------
(* gopher_on_fetch_done, on the UI thread, in a modal box's pump too. *)

Result == Head(done)

\* history_push_back, which drops the oldest, and history_clear_fwd.
PushBack_DropsNewest == IF Len(back) >= HistMax THEN back ELSE Append(back, current)
PushBack == Append(IF Len(back) >= HistMax THEN Tail(back) ELSE back, current)
Cleared_Kept == fwd
Cleared == <<>>

\* The user's own view of the same visit: what was ahead is forgotten, and no
\* more than HistMax pages are remembered behind the one that is shown.
Visited(u) == LET t == Append(SubSeq(trail, 1, here), u)
              IN  IF Len(t) > HistMax + 1 THEN Tail(t) ELSE t

Taken_KeepsFlag == done' = Tail(done) /\ (g_fetch_in_flight' = IF Result.ok THEN FALSE ELSE g_fetch_in_flight)
Taken == done' = Tail(done) /\ g_fetch_in_flight' = FALSE

Moves(r) == ~r.push /\ r.url \in Menus \cup Texts \cup Queries /\ current = Nowhere

FetchFailed ==
    /\ done # <<>> /\ ~Result.ok /\ Taken
    /\ strayed' = (strayed \/ Moves(Result))
    /\ UNCHANGED <<histVars, job, fetches, boxVars, trail, here>>

ShowsDocument ==
    /\ done # <<>> /\ Result.ok /\ Result.url \notin Files /\ Taken
    /\ IF Result.push
       THEN /\ back' = (IF current # Nowhere THEN PushBack ELSE back)
            /\ fwd' = Cleared
            /\ trail' = Visited(Result.url) /\ here' = Len(trail')
       ELSE UNCHANGED <<back, fwd, trail, here>>
    /\ current' = Result.url /\ canvas' = Result.url
    /\ item' = (IF item = "kept" THEN "freed" ELSE item)
    /\ UNCHANGED <<job, fetches, boxes, hurt, strayed>>

\* An image or a sound is handed on; a file opens the Save box.
HandsOnFile ==
    /\ done # <<>> /\ Result.ok /\ Result.url \in Files /\ Taken
    /\ \/ boxes' = Append(boxes, "save")
       \/ UNCHANGED boxes
    /\ UNCHANGED <<histVars, job, fetches, item, hurt, userVars>>

-------------------------------------------------------------------------------
GopherWorker == GopherConnectFails \/ GopherConnects \/ Receives \/ RecvEnds
GopherServer == ServerSends \/ ServerCloses
GopherDeliver == FetchFailed \/ ShowsDocument \/ HandsOnFile
GopherUser == Open \/ Refresh \/ BackClicked \/ ForwardClicked \/ SearchOpens \/ SearchAnswered \/ SaveAnswered
GopherNext == GopherUser \/ GopherWorker \/ GopherServer \/ GopherDeliver

(* Each of the worker's socket calls times out and posted messages are        *)
(* dispatched, by the shell or by a modal box; the user owes nothing, and     *)
(* neither does the server.                                                  *)
GopherSpec == GopherInit /\ [][GopherNext]_gopherVars /\ WF_gopherVars(GopherWorker) /\ WF_gopherVars(GopherDeliver)

(* What no code of the Suite sees to: that a server ends its document at last. *)
ServersEnd == WF_gopherVars(ServerCloses)

-------------------------------------------------------------------------------
(* Until a Back or Forward is refused or fails, the two stacks and the page   *)
(* between them are what the user has visited, cut at the history's bound,    *)
(* with fetches, failures and boxes in between (gopher_module.c:334-356,      *)
(* 1110-1140, 2101-2137); and the URL the tab takes for the current one is    *)
(* that of the document on the canvas, or Refresh would replace another.      *)
Between ==
    IF current # Nowhere THEN <<current>>
    ELSE IF job # None /\ here > 0 /\ ~job.push THEN <<job.url>>
    ELSE IF done # <<>> /\ here > 0 /\ ~Result.push THEN <<Result.url>>
    ELSE <<>>
HistoryIsTrail ==
    /\ ~strayed => back \o Between \o Reverse(fwd) = trail
    /\ ~strayed /\ trail # <<>> => Len(back) = here - 1
    /\ current # Nowhere => canvas = current

(* From servers that end what they send, a fetch always comes to its end and  *)
(* gives the flag back, whatever box is open, or every later click would be   *)
(* refused (gopher_module.c:1094, gopher_protocol.c:277-295).                 *)
FetchesEnd == g_fetch_in_flight ~> ~g_fetch_in_flight

-------------------------------------------------------------------------------
(* What comments and headers say and the code does not do.                   *)

(* gopher_module.c:2099-2101, on Stop: "the recv loop has a 15s timeout ...   *)
(* let the timeout fire".  The timeout is of one recv: a server that sends    *)
(* on, however slowly, keeps the loop and with it the flag.                   *)
TimeoutFires == g_fetch_in_flight ~> ~g_fetch_in_flight

(* gopher_module.c:1051, "push_history controls whether to record the         *)
(* previous URL on the back stack on success": a Back that is refused because *)
(* a fetch is under way, fails, or leads to a search drops the page it leads  *)
(* to and the current one, which is on the canvas and not recorded later.     *)
BackIsKept == ~strayed

(* gopher_protocol.h:41-42, "On any failure ... the return value is           *)
(* non-zero": a document cut off by a lost or silent connection is shown.     *)
WholeOrError == \A i \in DOMAIN done : done[i].ok => done[i].whole

(* The item the search was opened for is there when the query is sent         *)
(* (gopher_module.c:1201-1245): a menu that arrives meanwhile frees it.       *)
ItemOutlivesBox == ~hurt
===============================================================================
