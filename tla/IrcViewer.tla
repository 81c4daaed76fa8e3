------------------------------- MODULE IrcViewer -------------------------------
(***************************************************************************)
(* The IRC viewer: the tab on the UI thread (src/src/irc_module.c) and the *)
(* worker that connects, negotiates, joins, forwards and reconnects        *)
(* (src/src/irc_client.c).  They meet in the window's posted messages, the *)
(* stop request and the socket both may close.  The server is external.    *)
(*                                                                         *)
(* A line of the server is a record with its command; messages of the      *)
(* channel are numbered in the order they were said, which is their msgid. *)
(* recv() gives whole lines: the accumulator joins what a chunk cuts.      *)
(***************************************************************************)
EXTENDS Integers, Sequences, SequencesExt

CONSTANTS
    SeenMax,    \* IRC_SEEN_MAX: msgids remembered
    Window,     \* messages the server replays on JOIN
    MaxTalk,    \* bound: messages said in the channel
    MaxDials,   \* bound: connections the worker opens
    MaxClients  \* bound: manual connects

ASSUME SeenAssumption == SeenMax \in Nat \ {0} /\ Window \in Nat /\ Window <= SeenMax

VARIABLES
    tab,        \* UI thread: loop, closing (irc_client_close) or gone
    client,     \* g_client: number of the manual connect, 0 for NULL
    clients,    \* manual connects so far
    connected,  \* g_connected
    status,     \* the status bar
    pane,       \* messages on the pane
    seen,       \* g_seen: the msgids of the ring, oldest first
    posted,     \* WM_IRC_NOTIFY messages, oldest first
    quit,       \* stop_request
    irc,        \* the worker: where it is
    conn,       \* the worker's socket: none, open, or closed
    closes,     \* times that socket was closed
    ever,       \* ever_registered
    bannerDue,  \* banner_pending
    ss,         \* Session: [req, fin, reached, banner, redial]
    lines,      \* lines of the server under way
    chan,       \* the server: [heard, said, joined, up, gap, pinged, refused]
    dials       \* connections so far

tabVars == <<tab, client, clients, connected, status, pane, seen>>
sessVars == <<ever, bannerDue, ss>>
sockVars == <<conn, closes>>
srvVars == <<lines, chan>>
vars == <<tabVars, posted, quit, irc, sockVars, sessVars, srvVars, dials>>

-------------------------------------------------------------------------------
NoSession == [req |-> FALSE, fin |-> FALSE, reached |-> FALSE, banner |-> FALSE, redial |-> FALSE]
Line(cmd, n) == [cmd |-> cmd, n |-> n]
Event(kind, n) == [kind |-> kind, n |-> n, from |-> clients, redial |-> ss.redial]
Post(kind, n) == posted' = Append(posted, Event(kind, n))
Hears(what) == chan' = [chan EXCEPT !.heard = @ \cup what]

Init ==
    /\ tab = "loop" /\ client = 0 /\ clients = 0 /\ connected = FALSE /\ status = "none"
    /\ pane = <<>> /\ seen = <<>> /\ posted = <<>> /\ quit = FALSE
    /\ irc = "none" /\ conn = "none" /\ closes = 0 /\ ever = FALSE /\ bannerDue = FALSE
    /\ ss = NoSession /\ lines = <<>> /\ dials = 0
    /\ chan = [heard |-> {}, said |-> 0, joined |-> FALSE, up |-> FALSE, gap |-> 0,
                pinged |-> FALSE, refused |-> FALSE]

-------------------------------------------------------------------------------
(* The tab.  Posted messages are taken before user input. *)

UserTurn == tab = "loop" /\ posted = <<>>

(* irc_on_connect: the pane and the dedup set are wiped. *)
OnConnect ==
    /\ UserTurn /\ ~connected /\ clients < MaxClients
    /\ client' = clients + 1 /\ clients' = clients + 1
    /\ connected' = TRUE /\ status' = "connecting" /\ pane' = <<>> /\ seen' = <<>>
    /\ quit' = FALSE /\ irc' = "dial" /\ ever' = FALSE /\ bannerDue' = TRUE
    /\ conn' = "none" /\ closes' = 0 /\ ss' = NoSession
    /\ UNCHANGED <<tab, posted, srvVars, dials>>

(* irc_client_close: the request, then the socket, then the join. *)
CloseSignals_StopOnly == quit' = TRUE /\ UNCHANGED sockVars
CloseSignals ==
    /\ quit' = TRUE
    /\ IF conn = "open" THEN conn' = "closed" /\ closes' = closes + 1 ELSE UNCHANGED sockVars

IrcClose(next) ==
    /\ tab' = next /\ CloseSignals
    /\ UNCHANGED <<client, clients, connected, pane, seen, irc, sessVars, srvVars, dials>>

OnDisconnect ==
    /\ UserTurn /\ connected /\ client # 0 /\ status' = "disconnected"
    /\ IrcClose("closing") /\ UNCHANGED posted

OnShutdown ==
    /\ UserTurn /\ status' = status
    /\ IF client # 0 THEN IrcClose("leaving") /\ UNCHANGED posted
       ELSE tab' = "gone" /\ UNCHANGED <<client, clients, connected, pane, seen, posted, quit, irc, sockVars, sessVars, srvVars, dials>>

(* The worker ended, or four seconds have passed with it inside a call that *)
(* neither the request nor the socket reaches; the handle is freed.         *)
Unreached == irc = "resolve" \/ (irc = "recv" /\ conn = "open" /\ lines = <<>> /\ chan.up)
JoinEnds ==
    /\ tab \in {"closing", "leaving"} /\ (irc = "ended" \/ Unreached)
    /\ irc' = CASE irc = "ended" -> "none" [] irc = "resolve" -> "lost" [] irc = "recv" -> "cut"
    /\ client' = 0 /\ connected' = FALSE
    /\ tab' = IF tab = "closing" THEN "loop" ELSE "gone"
    /\ UNCHANGED <<clients, status, pane, seen, posted, quit, sockVars, sessVars, srvVars, dials>>

(* on_irc_message: the dedup ring drops what a replay sends again. *)
Remembered_Short(ids) == IF Len(ids) >= SeenMax THEN Tail(ids) ELSE ids
Remembered(ids) == IF Len(ids) > SeenMax THEN Tail(ids) ELSE ids
IsSeen_Never(n) == FALSE
IsSeen(n) == Contains(seen, n)
Take(kind) == tab = "loop" /\ posted # <<>> /\ Head(posted).kind = kind /\ posted' = Tail(posted)

OnMessage ==
    /\ Take("MESSAGE")
    /\ LET n == Head(posted).n
       IN  IF IsSeen(n) THEN UNCHANGED <<pane, seen>>
           ELSE pane' = Append(pane, n) /\ seen' = Remembered(Append(seen, n))
    /\ UNCHANGED <<tab, client, clients, connected, status, quit, irc, sockVars, sessVars, srvVars, dials>>

OnSystem ==
    /\ Take("SYSTEM")
    /\ UNCHANGED <<tabVars, quit, irc, sockVars, sessVars, srvVars, dials>>

OnRegistered ==
    /\ Take("REGISTERED") /\ status' = IF connected THEN "connected" ELSE status
    /\ UNCHANGED <<tab, client, clients, connected, pane, seen, quit, irc, sockVars, sessVars, srvVars, dials>>

(* on_irc_failed closes the client, whose worker has posted its last.       *)
OnFailed ==
    /\ Take("FAILED") /\ status' = "failed"
    /\ IF client # 0 THEN IrcClose("closing")
       ELSE connected' = FALSE /\ UNCHANGED <<tab, client, clients, pane, seen, quit, irc, sockVars, sessVars, srvVars, dials>>

-------------------------------------------------------------------------------
(* The worker: rx_thread_proc and open_socket. *)

Works(place) == irc = place
Goes(place) == irc' = place

(* The attempt is announced; then getaddrinfo(). *)
Dials ==
    /\ Works("dial") /\ ~quit /\ dials < MaxDials /\ Goes("resolve")
    /\ IF bannerDue /\ ~ever THEN Post("SYSTEM", 0) ELSE UNCHANGED posted
    /\ dials' = dials + 1 /\ conn' = "none" /\ closes' = 0
    /\ UNCHANGED <<tabVars, quit, sessVars, srvVars>>

SeesQuit ==
    /\ Works("dial") /\ quit /\ Goes("ended")
    /\ UNCHANGED <<tabVars, posted, quit, sockVars, sessVars, srvVars, dials>>

Resolves ==
    /\ Works("resolve")
    /\ \/ Goes("failed") /\ UNCHANGED sockVars
       \/ IF quit THEN Goes("failed") /\ UNCHANGED sockVars
          ELSE Goes("connecting") /\ conn' = "open" /\ closes' = 0
    /\ UNCHANGED <<tabVars, posted, quit, sessVars, srvVars, dials>>

(* The connect in slices: stopped, refused, out of time or through.  A      *)
(* failure closes the socket, whether or not it has been closed.            *)
ConnectFails ==
    /\ Works("connecting") /\ Goes("failed")
    /\ conn' = "none" /\ closes' = closes + 1
    /\ UNCHANGED <<tabVars, posted, quit, sessVars, srvVars, dials>>

(* run_session begins with CAP LS, NICK and USER. *)
ConnectSucceeds ==
    /\ Works("connecting") /\ conn = "open" /\ ~quit /\ Goes("recv")
    /\ IF bannerDue /\ ~ever THEN Post("SYSTEM", 0) ELSE UNCHANGED posted
    /\ ss' = [NoSession EXCEPT !.banner = bannerDue, !.redial = ever]
    /\ chan' = [chan EXCEPT !.heard = {"LS", "NICK"}, !.up = TRUE, !.pinged = FALSE, !.refused = FALSE]
    /\ lines' = <<>>
    /\ UNCHANGED <<tabVars, quit, sockVars, ever, bannerDue, dials>>

(* Terminal before the first registration; the stop request is looked at    *)
(* before the reason is posted.                                             *)
LooksAtFailure ==
    /\ Works("failed") /\ Goes(IF quit THEN "ended" ELSE IF ~ever THEN "report" ELSE "backoff")
    /\ UNCHANGED <<tabVars, posted, quit, sockVars, sessVars, srvVars, dials>>

Farewell_None == UNCHANGED posted
Farewell == Post("FAILED", 0)
Reports ==
    /\ Works("report") /\ Farewell /\ Goes("ended")
    /\ UNCHANGED <<tabVars, quit, sockVars, sessVars, srvVars, dials>>

(* wait_backoff, in slices that see the request. *)
BackoffEnds ==
    /\ Works("backoff") /\ Goes(IF quit THEN "ended" ELSE "dial")
    /\ UNCHANGED <<tabVars, posted, quit, sockVars, sessVars, srvVars, dials>>

(* The session ends: with its socket, once.                                 *)
SessionEnds ==
    /\ Works("recv") /\ (quit \/ conn # "open" \/ ~chan.up)
    /\ IF conn = "open" THEN conn' = "none" /\ closes' = closes + 1 ELSE UNCHANGED sockVars
    /\ Goes(IF quit THEN "ended" ELSE IF ~ss.reached /\ ~ever THEN "report" ELSE "backoff")
    /\ chan' = [chan EXCEPT !.up = FALSE, !.heard = {}, !.joined = FALSE] /\ lines' = <<>>
    /\ UNCHANGED <<tabVars, posted, quit, sessVars, dials>>

-------------------------------------------------------------------------------
(* handle_line, by command.  A send after the socket is closed is lost with *)
(* the connection.                                                          *)

Handles(cmd) ==
    /\ Works("recv") /\ ~quit /\ conn = "open"
    /\ lines # <<>> /\ Head(lines).cmd = cmd /\ lines' = Tail(lines)
handled == <<tabVars, quit, irc, sockVars, dials>>

HandlesPing ==
    /\ Handles("PING") /\ Hears({"PONG"})
    /\ UNCHANGED <<handled, posted, sessVars>>

(* The last line of the list asks; its answer, either way, ends the         *)
(* negotiation.                                                             *)
Asks(cmd) == ~ss.req /\ cmd = "LS"
Concludes_OnAck(cmd) == ss.req /\ ~ss.fin /\ cmd = "ACK"
Concludes(cmd) == ss.req /\ ~ss.fin /\ cmd \in {"ACK", "NAK"}
HandlesCap ==
    /\ \E cmd \in {"LS*", "LS", "ACK", "NAK"} :
          /\ Handles(cmd)
          /\ CASE Asks(cmd)      -> ss' = [ss EXCEPT !.req = TRUE] /\ Hears({"REQ"})
               [] Concludes(cmd) -> ss' = [ss EXCEPT !.fin = TRUE] /\ Hears({"END"})
               [] OTHER          -> UNCHANGED <<ss, chan>>
    /\ IF ss.banner THEN Post("SYSTEM", 0) ELSE UNCHANGED posted
    /\ UNCHANGED <<handled, ever, bannerDue>>

HandlesWelcome ==
    /\ Handles("001")
    /\ ss' = [ss EXCEPT !.reached = TRUE] /\ ever' = TRUE /\ Hears({"JOIN"})
    /\ posted' = posted \o (<<Event("REGISTERED", 0)>> \o IF ss.banner THEN <<Event("SYSTEM", 0)>> ELSE <<>>)
    /\ UNCHANGED <<handled, bannerDue>>

HandlesNickInUse ==
    /\ Handles("433") /\ Hears({"NICK"})
    /\ UNCHANGED <<handled, posted, sessVars>>

(* The rest of the banner; 376 is its end.                                  *)
HandlesMotdEnd ==
    /\ Handles("376")
    /\ IF ss.banner
       THEN Post("SYSTEM", 0) /\ ss' = [ss EXCEPT !.banner = FALSE] /\ bannerDue' = FALSE
       ELSE UNCHANGED <<posted, ss, bannerDue>>
    /\ UNCHANGED <<handled, ever, chan>>

HandlesMessage ==
    /\ Handles("PRIVMSG") /\ Post("MESSAGE", Head(lines).n)
    /\ UNCHANGED <<handled, sessVars, chan>>

-------------------------------------------------------------------------------
(* The server: it answers what it has heard, says PING when it likes, and   *)
(* replays the last of the channel to whoever joins.                        *)

Sends(cmds, heard) ==
    /\ lines' = lines \o cmds /\ chan' = [chan EXCEPT !.heard = heard]
srvKept == <<tabVars, posted, quit, irc, sockVars, sessVars, dials>>

Lists == "LS" \in chan.heard /\ \E more \in {<<>>, <<Line("LS*", 0)>>} :
            Sends(more \o <<Line("LS", 0)>>, (chan.heard \ {"LS"}) \cup {"HELD"})
Answers == "REQ" \in chan.heard /\ \E cmd \in {"ACK", "NAK"} : Sends(<<Line(cmd, 0)>>, chan.heard \ {"REQ"})
Releases == "END" \in chan.heard /\ Sends(<<>>, chan.heard \ {"END", "HELD"})
Welcome == <<Line("001", 0), Line("376", 0)>>
TakesNick ==
    /\ "NICK" \in chan.heard /\ chan.heard \cap {"LS", "HELD"} = {}
    /\ \/ Sends(Welcome, chan.heard \ {"NICK"})
       \/ /\ ~chan.refused /\ lines' = Append(lines, Line("433", 0))
          /\ chan' = [chan EXCEPT !.heard = @ \ {"NICK"}, !.refused = TRUE]
Replays ==
    /\ "JOIN" \in chan.heard
    /\ LET from == IF chan.said > Window THEN chan.said - Window ELSE 0
       IN  /\ lines' = lines \o [i \in 1 .. chan.said - from |-> Line("PRIVMSG", from + i)]
           /\ chan' = [chan EXCEPT !.heard = @ \ {"JOIN"}, !.joined = TRUE, !.gap = from]

Replies == chan.up /\ (Lists \/ Answers \/ Releases \/ TakesNick \/ Replays) /\ UNCHANGED srvKept

Pings ==
    /\ chan.up /\ ~chan.pinged
    /\ lines' = Append(lines, Line("PING", 0)) /\ chan' = [chan EXCEPT !.pinged = TRUE]
    /\ UNCHANGED srvKept

Talks ==
    /\ chan.said < MaxTalk /\ chan' = [chan EXCEPT !.said = @ + 1]
    /\ lines' = IF chan.joined THEN Append(lines, Line("PRIVMSG", chan.said + 1)) ELSE lines
    /\ UNCHANGED srvKept

Drops == chan.up /\ chan' = [chan EXCEPT !.up = FALSE] /\ UNCHANGED <<srvKept, lines>>

-------------------------------------------------------------------------------
Tab == JoinEnds \/ OnMessage \/ OnSystem \/ OnRegistered \/ OnFailed
Worker ==
    \/ Dials \/ SeesQuit \/ Resolves \/ ConnectFails \/ ConnectSucceeds \/ LooksAtFailure \/ Reports \/ BackoffEnds
    \/ SessionEnds \/ HandlesPing \/ HandlesCap \/ HandlesWelcome \/ HandlesNickInUse \/ HandlesMotdEnd
    \/ HandlesMessage
Next == OnConnect \/ OnDisconnect \/ OnShutdown \/ Tab \/ Worker \/ Replies \/ Pings \/ Talks \/ Drops

(* The two threads run; the user and the server owe nothing. *)
Spec == Init /\ [][Next]_vars /\ WF_vars(Tab) /\ WF_vars(Worker)

-------------------------------------------------------------------------------
(* irc_module.c:242-272: what the +H replay sends again is shown once, the   *)
(* pane keeps the order of the channel, and a message is missing only when   *)
(* more than the replay holds was said while the connection was down.        *)
PaneIsChannel ==
    /\ \A i, j \in DOMAIN pane : i < j => pane[i] < pane[j]
    /\ pane # <<>> => \A n \in chan.gap + 1 .. Last(pane) : Contains(pane, n)

(* irc_client.c:445-486: the client and the server never both wait for the   *)
(* other, whatever the list was cut into and whether the capabilities were   *)
(* granted: with nothing under way either is about to act or it has joined.  *)
ServerOwes == chan.heard \cap {"LS", "REQ", "END", "JOIN"} # {} \/ ("NICK" \in chan.heard /\ "HELD" \notin chan.heard)
NotBothWaiting ==
    irc = "recv" /\ conn = "open" /\ chan.up /\ lines = <<>> => ServerOwes \/ chan.joined

(* irc_client.c:715-741: closing the socket ends a worker that waits for the *)
(* server within the join, and only a name lookup outlasts it; a worker that *)
(* has ended is released, by FAILED or by the user, and the tab that closes  *)
(* it goes on; the buttons tell whether there is a client.                   *)
WorkerReleased ==
    /\ [](irc # "cut" /\ (tab = "loop" => (connected <=> client # 0)))
    /\ [](tab = "loop" /\ status = "failed" => ~connected)
    /\ (irc = "ended" /\ client # 0) ~> (client = 0)
    /\ (tab = "closing") ~> (tab # "closing")

(* "A user irc_client_close() during a pending connect tears down silently   *)
(* (no IRC_EVT_FAILED)" (irc_client.h:113-114).                              *)
DisconnectIsSilent == status = "disconnected" => \A i \in DOMAIN posted : posted[i].kind # "FAILED"

(* "Automatic reconnects after a mid-session drop always suppress the banner *)
(* regardless of this flag" (irc_client.h:103-105).                          *)
BannerOnlyAtFirst == \A i \in DOMAIN posted : posted[i].kind = "SYSTEM" => ~posted[i].redial

(* "close the live socket to unblock recv()/connect() without racing the     *)
(* worker's reconnect loop" (irc_client.c:87-89): no socket is closed twice. *)
ClosedOnce == closes <= 1
===============================================================================
