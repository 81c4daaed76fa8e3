------------------------------ MODULE RipSession ------------------------------
(***************************************************************************)
(* One RIPscrip tab: the UI thread (src/src/ripscrip_module.c), the telnet *)
(* receive thread (src/src/telnet_proto.c) and the Zmodem worker           *)
(* (src/src/zmodem_recv.c), which meet in the window's message queue, the  *)
(* socket lock and the byte ring.  The server and the socket are external. *)
(*                                                                         *)
(* The payload is a sequence of items, each with its number and a kind:    *)
(*   scene   bytes the RIP parser draws     query   ESC [ ! , to be answered *)
(*   hex     "** ZDLE B", a Zmodem header   frame   other Zmodem bytes       *)
(*   fin     the last bytes of a transfer   opt     telnet option bytes      *)
(* The ring never fills here (ZmodemRing has that), what ends a transfer   *)
(* is left open (ZmodemSession has that), and memory does not run out.     *)
(***************************************************************************)
EXTENDS Integers, Sequences, SequencesExt

CONSTANTS
    MaxSessions,    \* bound: connections the user makes
    MaxTransfers,   \* bound: Zmodem transfers started
    MaxItems,       \* bound: items the server sends in one session
    MaxChunk,       \* bound: items one recv() returns
    MayStall        \* whether the server may stop reading for a while

VARIABLES
    ui,         \* UI thread: [at, for]
    telnet,     \* g_telnet: number of the session, 0 for NULL
    connected,  \* g_connected
    everDrew,   \* g_ever_drew
    zmr,        \* g_zmr and g_zmodem_active: number of the transfer, 0 for none
    active,     \* g_active of zmodem_recv.c: number of the transfer, 0 for none
    queue,      \* the window's posted messages, oldest first
    sid, freed, \* sessions opened so far, and whether the last one's handle is freed
    rx, held,   \* the receive thread and the payload in its hands
    sock, stop, lock,   \* t->sock, t->stop_request, holder of t->send_lock
    worker,     \* the Zmodem worker: [at, last, t, home]
    ring,       \* items pushed to the worker and not taken
    cancel,     \* cancel_request or stop_request of the transfer
    transfers,  \* transfers started so far
    peer, stalled, wire, sent,  \* server and socket: up or gone, not reading, under way, numbered so far
    phase,      \* server: drawing, asked for a file, sending one
    seen, strayed   \* history: items in the order of consumption; the receiver took a scene item

uiVars == <<ui, telnet, connected, everDrew, zmr, active>>
rxVars == <<rx, held, sock, stop>>
zVars == <<worker, ring, cancel, transfers>>
peerVars == <<peer, stalled, wire, sent, phase>>
histVars == <<seen, strayed>>
vars == <<uiVars, queue, sid, freed, rxVars, lock, zVars, peerVars, histVars>>

-------------------------------------------------------------------------------
Kinds == {"scene", "query", "hex", "frame", "fin"}
Loop == [at |-> "loop", for |-> "input"]
At(place, why) == [at |-> place, for |-> why]
Post(m) == queue' = Append(queue, m)
FromRx(event, items) == [event |-> event, from |-> sid, items |-> items]
Events == {"CONNECTED", "DATA", "ERROR", "CLOSED", "DONE"}

Has(items, kind) == \E i \in DOMAIN items : items[i].kind = kind
Numbers(items) == [i \in DOMAIN items |-> items[i].n]

(* send() returns: the server takes the bytes, or the socket is no more. *)
Sendable == ~stalled \/ peer = "gone" \/ sock # "open"

Init ==
    /\ ui = Loop /\ telnet = 0 /\ connected = FALSE /\ everDrew = FALSE
    /\ zmr = 0 /\ active = 0 /\ queue = <<>> /\ sid = 0 /\ freed = FALSE
    /\ rx = "none" /\ held = <<>> /\ sock = "none" /\ stop = FALSE /\ lock = "free"
    /\ worker = [at |-> "none", last |-> FALSE, t |-> 0, home |-> 0]
    /\ ring = <<>> /\ cancel = FALSE /\ transfers = 0
    /\ peer = "up" /\ stalled = FALSE /\ wire = <<>> /\ sent = 0 /\ phase = "scene"
    /\ seen = <<>> /\ strayed = FALSE

-------------------------------------------------------------------------------
(* The UI thread.  Posted messages are taken before user input. *)

UserTurn == ui.at = "loop" /\ queue = <<>>

Connect ==
    /\ UserTurn /\ ~connected /\ telnet = 0 /\ sid < MaxSessions
    /\ sid' = sid + 1 /\ telnet' = sid + 1 /\ freed' = FALSE
    /\ everDrew' = FALSE
    /\ rx' = "connecting" /\ sock' = "none" /\ stop' = FALSE /\ held' = <<>>
    /\ peer' = "up" /\ stalled' = FALSE /\ wire' = <<>> /\ sent' = 0 /\ phase' = "scene"
    /\ seen' = <<>>
    /\ UNCHANGED <<ui, connected, zmr, active, queue, lock, zVars, strayed>>

(* zmodem_recv_start: the worker begins by sending ZRINIT. *)
CanBegin ==
    /\ zmr = 0 /\ connected /\ telnet # 0
    /\ active = 0 /\ transfers < MaxTransfers

Begin(items) ==
    /\ zmr' = transfers + 1 /\ active' = transfers + 1 /\ transfers' = transfers + 1
    /\ ring' = items /\ cancel' = FALSE
    /\ worker' = [at |-> "send", last |-> FALSE, t |-> 0, home |-> telnet]

(* A command of the scene goes out; one that asks for a file switches the   *)
(* receiver in first, and is held back when that fails.                     *)
Command(download) ==
    /\ UserTurn /\ connected /\ telnet # 0 /\ zmr = 0
    /\ IF download THEN CanBegin /\ Begin(<<>>) ELSE UNCHANGED <<zmr, active, zVars>>
    /\ ui' = At("send", IF download THEN "download" ELSE "command")
    /\ UNCHANGED <<telnet, connected, everDrew, queue, sid, freed, rxVars, lock, peerVars, histVars>>

UiSendStarts ==
    /\ ui.at = "send" /\ lock = "free"
    /\ lock' = "ui" /\ ui' = At("sending", ui.for)
    /\ UNCHANGED <<telnet, connected, everDrew, zmr, active, queue, sid, freed, rxVars, zVars, peerVars, histVars>>

UiSendReturns ==
    /\ ui.at = "sending" /\ Sendable
    /\ lock' = "free" /\ ui' = Loop
    /\ phase' = IF ui.for = "download" /\ peer = "up" /\ sock = "open" /\ phase = "scene" THEN "asked" ELSE phase
    /\ UNCHANGED <<telnet, connected, everDrew, zmr, active, queue, sid, freed, rxVars, zVars, peer, stalled, wire, sent, histVars>>

(* Escape on the canvas while a transfer owns the stream. *)
Escape_Abandons ==
    /\ UserTurn /\ connected /\ telnet # 0 /\ zmr # 0
    /\ cancel' = TRUE /\ ui' = At("finish", "done")
    /\ UNCHANGED <<telnet, connected, everDrew, zmr, active, queue, sid, freed, rxVars, lock, worker, ring, transfers, peerVars, histVars>>
Escape ==
    /\ UserTurn /\ connected /\ telnet # 0 /\ zmr # 0 /\ ~cancel
    /\ cancel' = TRUE
    /\ UNCHANGED <<uiVars, queue, sid, freed, rxVars, lock, worker, ring, transfers, peerVars, histVars>>

(* rip_close_session begins: with the transfer if there is one, then the    *)
(* socket, then the flags.                                                  *)
Blank == everDrew' = FALSE

CloseFlags(why) ==
    /\ connected' = FALSE
    /\ IF why = "close" THEN Blank /\ ui' = Loop
                        ELSE UNCHANGED everDrew /\ ui' = At("gone", why)

Teardown_SocketOnly(why) ==
    /\ telnet # 0
    /\ stop' = TRUE /\ ui' = At("lock", why) /\ UNCHANGED <<connected, everDrew, cancel>>
Teardown(why) ==
    IF zmr # 0
    THEN /\ cancel' = TRUE /\ ui' = At("finish", why)
         /\ UNCHANGED <<stop, connected, everDrew>>
    ELSE /\ UNCHANGED cancel
         /\ IF telnet # 0
            THEN stop' = TRUE /\ ui' = At("lock", why) /\ UNCHANGED <<connected, everDrew>>
            ELSE CloseFlags(why) /\ UNCHANGED stop

TeardownFrame == UNCHANGED <<telnet, zmr, active, sid, freed, rx, held, sock, lock, worker, ring, transfers, peerVars, histVars>>

(* The Disconnect button is enabled while connected. *)
Disconnect ==
    /\ UserTurn /\ connected
    /\ Teardown("close") /\ TeardownFrame /\ UNCHANGED queue

Shutdown ==
    /\ UserTurn
    /\ Teardown("shutdown") /\ TeardownFrame /\ UNCHANGED queue

-------------------------------------------------------------------------------
(* The UI thread takes a posted message. *)

Take(event) ==
    /\ ui.at = "loop" /\ queue # <<>> /\ Head(queue).event = event
    /\ queue' = Tail(queue)

OnConnected ==
    /\ Take("CONNECTED")
    /\ connected' = TRUE
    /\ UNCHANGED <<ui, telnet, everDrew, zmr, active, sid, freed, rxVars, lock, zVars, peerVars, histVars>>

OnError ==
    /\ Take("ERROR")
    /\ UNCHANGED <<uiVars, sid, freed, rxVars, lock, zVars, peerVars, histVars>>

(* rip_consume of items: scene items may draw, a query is answered.  Where  *)
(* the caller ignores what was drawn, it says so with counts = FALSE.       *)
Consume(items, counts) ==
    /\ seen' = seen \o Numbers(items) /\ UNCHANGED strayed
    /\ IF Has(items, "scene") /\ counts THEN everDrew' \in {everDrew, TRUE} ELSE UNCHANGED everDrew
    /\ ui' = IF Has(items, "query") /\ telnet # 0 THEN At("send", "answer") ELSE Loop

(* Transfer mode: the chunk goes to the receiver. *)
OnDataTransfer ==
    /\ zmr # 0 /\ Take("DATA")
    /\ ring' = ring \o Head(queue).items
    /\ UNCHANGED <<uiVars, sid, freed, rxVars, lock, worker, cancel, transfers, peerVars, histVars>>

(* rip_scan_for_zmodem: the first header, 0 if there is none. *)
FirstHex(items, i) == items[i].kind = "hex" /\ \A j \in 1 .. i - 1 : items[j].kind # "hex"
HexAt(items) == IF Has(items, "hex") THEN CHOOSE i \in DOMAIN items : FirstHex(items, i) ELSE 0

(* A header in the stream: what came up to it is the parser's, the rest the *)
(* receiver's.                                                              *)
Rest_All(items, at) == items
Rest(items, at) == SubSeq(items, at + 1, Len(items))
OnDataSwitch ==
    /\ zmr = 0 /\ Take("DATA")
    /\ LET items == Head(queue).items
           at == HexAt(items)
       IN  /\ at > 0 /\ CanBegin
           /\ Consume(SubSeq(items, 1, at), FALSE)
           /\ Begin(Rest(items, at))
    /\ UNCHANGED <<telnet, connected, sid, freed, rxVars, lock, peerVars>>

(* No header, or the receiver would not start. *)
OnDataScene ==
    /\ zmr = 0 /\ Take("DATA")
    /\ LET items == Head(queue).items IN (HexAt(items) = 0 \/ ~CanBegin) /\ Consume(items, TRUE)
    /\ UNCHANGED <<telnet, connected, zmr, active, sid, freed, rxVars, lock, zVars, peerVars>>

OnClosed ==
    /\ Take("CLOSED")
    /\ Teardown("close") /\ TeardownFrame

OnDone ==
    /\ Take("DONE")
    /\ IF zmr = 0 THEN UNCHANGED <<ui, cancel>> ELSE ui' = At("finish", "done") /\ cancel' = TRUE
    /\ UNCHANGED <<telnet, connected, everDrew, zmr, active, sid, freed, rxVars, lock, worker, ring, transfers, peerVars, histVars>>

-------------------------------------------------------------------------------
(* zmodem_recv_finish and telnet_proto_close, which hold the UI thread.     *)

AfterTransfer ==
    IF telnet # 0
    THEN stop' = TRUE /\ ui' = At("lock", ui.for) /\ UNCHANGED <<connected, everDrew>>
    ELSE CloseFlags(ui.for) /\ UNCHANGED stop

(* After DONE the bytes behind the transfer go to the parser; in a teardown *)
(* they are discarded.                                                      *)
Tail_Dropped == <<>>
TailItems == ring
FinishJoined ==
    /\ ui.at = "finish" /\ worker.at = "ended"
    /\ zmr' = 0 /\ active' = 0 /\ ring' = <<>>
    /\ worker' = [worker EXCEPT !.at = "none"]
    /\ IF ui.for = "done"
       THEN Consume(TailItems, TRUE) /\ UNCHANGED <<stop, connected>>
       ELSE AfterTransfer /\ UNCHANGED histVars
    /\ UNCHANGED <<telnet, queue, sid, freed, rx, held, sock, lock, cancel, transfers, peerVars>>

(* Five seconds pass with the worker inside telnet_proto_send: the session  *)
(* is leaked and g_active stays.                                            *)
FinishTimeout ==
    /\ ui.at = "finish" /\ worker.at \in {"locking", "sending"} /\ ~Sendable
    /\ zmr' = 0 /\ ring' = <<>>
    /\ AfterTransfer
    /\ UNCHANGED <<telnet, active, queue, sid, freed, rx, held, sock, lock, worker, cancel, transfers, peerVars, histVars>>

(* The stream ends with its socket, and with it its history. *)
CloseSocket ==
    /\ ui.at = "lock" /\ lock = "free"
    /\ sock' = IF sock = "open" THEN "closed" ELSE sock
    /\ ui' = At("join", ui.for)
    /\ wire' = <<>> /\ sent' = 0 /\ phase' = "scene" /\ seen' = <<>>
    /\ UNCHANGED <<telnet, connected, everDrew, zmr, active, queue, sid, freed, rx, held, stop, lock, zVars, peer, stalled, strayed>>

(* WaitForSingleObject(rx_thread, 3000): the thread ended, or it is still   *)
(* in getaddrinfo() or connect(), which a stop request does not reach.      *)
Joined_AtOnce == TRUE
Joined == rx \in {"ended", "connecting"}
FreeHandle ==
    /\ ui.at = "join" /\ Joined
    /\ freed' = TRUE /\ telnet' = 0
    /\ rx' = IF rx = "ended" THEN "none" ELSE rx
    /\ CloseFlags(ui.for)
    /\ UNCHANGED <<zmr, active, queue, sid, held, sock, stop, lock, zVars, peerVars, histVars>>

-------------------------------------------------------------------------------
(* The receive thread. *)

rxKept == <<uiVars, sid, freed, stop, zVars, histVars>>

RxConnects ==
    /\ rx = "connecting" /\ ~freed
    /\ \/ rx' = "recv" /\ sock' = "open" /\ Post(FromRx("CONNECTED", <<>>))
       \/ rx' = "ended" /\ sock' = sock
          /\ queue' = queue \o <<FromRx("ERROR", <<>>), FromRx("CLOSED", <<>>)>>
    /\ UNCHANGED <<rxKept, held, lock, peerVars>>

(* recv() returns a chunk; option bytes leave it and are answered. *)
Payload_Raw(items) == items
Payload(items) ==
    LET kept[i \in 0 .. Len(items)] ==
            IF i = 0 THEN <<>>
            ELSE IF items[i].kind = "opt" THEN kept[i - 1] ELSE Append(kept[i - 1], items[i])
    IN  kept[Len(items)]
RxReceives ==
    /\ rx = "recv" /\ ~stop /\ sock = "open" /\ wire # <<>>
    /\ \E k \in 1 .. MaxChunk :
          /\ k <= Len(wire)
          /\ held' = Payload(SubSeq(wire, 1, k))
          /\ wire' = SubSeq(wire, k + 1, Len(wire))
          /\ rx' = IF Has(SubSeq(wire, 1, k), "opt") THEN "reply" ELSE "post"
    /\ UNCHANGED <<rxKept, sock, queue, lock, peer, stalled, sent, phase>>

RxReplyStarts ==
    /\ rx = "reply" /\ lock = "free"
    /\ lock' = "rx" /\ rx' = "replying"
    /\ UNCHANGED <<rxKept, held, sock, queue, peerVars>>

RxReplyReturns_KeepsLock ==
    /\ rx = "replying" /\ Sendable
    /\ rx' = IF held = <<>> THEN "recv" ELSE "post"
    /\ UNCHANGED <<rxKept, held, sock, lock, queue, peerVars>>
RxReplyReturns ==
    /\ rx = "replying" /\ Sendable
    /\ lock' = "free" /\ rx' = IF held = <<>> THEN "recv" ELSE "post"
    /\ UNCHANGED <<rxKept, held, sock, queue, peerVars>>

RxPosts ==
    /\ rx = "post"
    /\ Post(FromRx("DATA", held)) /\ held' = <<>> /\ rx' = "recv"
    /\ UNCHANGED <<rxKept, sock, lock, peerVars>>

(* Stop request, end of stream or error; CLOSED follows whatever it was. *)
Farewell_OnlyUnasked == IF stop THEN UNCHANGED queue ELSE Post(FromRx("CLOSED", <<>>))
Farewell_OnlyAsked == IF stop THEN Post(FromRx("CLOSED", <<>>)) ELSE UNCHANGED queue
Farewell == Post(FromRx("CLOSED", <<>>))
RxCloses ==
    /\ rx = "recv" /\ lock = "free"
    /\ stop \/ sock # "open" \/ (peer = "gone" /\ wire = <<>>)
    /\ sock' = "closed" /\ rx' = "ended" /\ Farewell
    /\ UNCHANGED <<rxKept, held, lock, peerVars>>

-------------------------------------------------------------------------------
(* The Zmodem worker. *)

workerKept == <<uiVars, sid, freed, rxVars, transfers>>

(* It takes an item and goes on, answers, or is done with the last one. *)
WorkerTakes ==
    /\ worker.at = "wait" /\ ring # <<>> /\ ~cancel
    /\ seen' = Append(seen, Head(ring).n)
    /\ strayed' = (strayed \/ Head(ring).kind = "scene")
    /\ ring' = Tail(ring)
    /\ \E next \in IF Head(ring).kind = "fin" THEN {"end"} ELSE {"wait", "send"} :
          worker' = [worker EXCEPT !.at = next]
    /\ UNCHANGED <<workerKept, cancel, queue, lock, peerVars>>

(* A timeout, an error or a cancel: the sender is told, then the end. *)
WorkerStops ==
    /\ worker.at = "wait"
    /\ worker' = [worker EXCEPT !.at = "send", !.last = TRUE]
    /\ UNCHANGED <<workerKept, ring, cancel, queue, lock, peerVars, histVars>>

(* rip_zmr_send reads g_telnet; then the lock of what it read. *)
WorkerReads ==
    /\ worker.at = "send"
    /\ worker' = IF telnet # 0
                 THEN [worker EXCEPT !.at = "locking", !.t = telnet]
                 ELSE [worker EXCEPT !.at = "end"]
    /\ UNCHANGED <<workerKept, ring, cancel, queue, lock, peerVars, histVars>>

WorkerSendStarts ==
    /\ worker.at = "locking" /\ worker.t = sid /\ ~freed /\ lock = "free"
    /\ lock' = "worker" /\ worker' = [worker EXCEPT !.at = "sending"]
    /\ UNCHANGED <<workerKept, ring, cancel, queue, peerVars, histVars>>

(* A server told of the end goes back to its scene. *)
WorkerSendReturns ==
    /\ worker.at = "sending" /\ Sendable
    /\ lock' = "free"
    /\ worker' = [worker EXCEPT !.at = IF worker.last THEN "end" ELSE "wait", !.t = 0]
    /\ phase' = IF worker.last THEN "scene" ELSE phase
    /\ UNCHANGED <<workerKept, ring, cancel, queue, peer, stalled, wire, sent, histVars>>

WorkerEnds ==
    /\ worker.at = "end"
    /\ worker' = [worker EXCEPT !.at = "ended", !.last = FALSE]
    /\ Post([event |-> "DONE", from |-> active, items |-> <<>>])
    /\ UNCHANGED <<workerKept, ring, cancel, lock, peerVars, histVars>>

-------------------------------------------------------------------------------
(* The server, and the stream between. *)

PeerOffers ==
    CASE phase = "scene" -> {"scene", "query", "hex"}
      [] phase = "asked" -> {"scene", "hex"}
      [] phase = "file"  -> {"frame", "fin"}

PeerSends ==
    /\ sock = "open" /\ peer = "up" /\ sent < MaxItems
    /\ \E kind \in PeerOffers :
          /\ sent' = sent + 1
          /\ wire' = Append(wire, [n |-> sent + 1, kind |-> kind])
          /\ phase' = CASE kind = "hex" -> "file" [] kind = "fin" -> "scene" [] OTHER -> phase
    /\ UNCHANGED <<uiVars, queue, sid, freed, rxVars, lock, zVars, peer, stalled, histVars>>

PeerNegotiates ==
    /\ sock = "open" /\ peer = "up" /\ ~Has(wire, "opt") /\ sent = 1
    /\ wire' = Append(wire, [n |-> 0, kind |-> "opt"])
    /\ UNCHANGED <<uiVars, queue, sid, freed, rxVars, lock, zVars, peer, stalled, sent, phase, histVars>>

PeerChanges ==
    /\ sock = "open" /\ peer = "up"
    /\ \/ peer' = "gone" /\ stalled' = stalled
       \/ MayStall /\ stalled' = ~stalled /\ peer' = peer
    /\ UNCHANGED <<uiVars, queue, sid, freed, rxVars, lock, zVars, wire, sent, phase, histVars>>

-------------------------------------------------------------------------------
User == Connect \/ Command(TRUE) \/ Command(FALSE) \/ Escape \/ Disconnect \/ Shutdown
Ui == \/ UiSendStarts \/ UiSendReturns
      \/ OnConnected \/ OnError \/ OnDataTransfer \/ OnDataSwitch \/ OnDataScene \/ OnClosed \/ OnDone
      \/ FinishJoined \/ FinishTimeout \/ CloseSocket \/ FreeHandle
Rx == RxConnects \/ RxReceives \/ RxReplyStarts \/ RxReplyReturns \/ RxPosts \/ RxCloses
Worker == WorkerTakes \/ WorkerStops \/ WorkerReads \/ WorkerSendStarts \/ WorkerSendReturns \/ WorkerEnds
Peer == PeerSends \/ PeerNegotiates \/ PeerChanges

Next == User \/ Ui \/ Rx \/ Worker \/ Peer

(* The Suite's own threads keep running; the user and the server need not   *)
(* do anything.  The lock is granted in the end to each thread that wants it. *)
Spec ==
    /\ Init /\ [][Next]_vars
    /\ WF_vars(Ui) /\ WF_vars(Rx) /\ WF_vars(Worker)
    /\ SF_vars(UiSendStarts \/ CloseSocket)
    /\ SF_vars(RxReplyStarts \/ RxCloses)
    /\ SF_vars(WorkerSendStarts)

-------------------------------------------------------------------------------
Item == [n : 1 .. MaxItems, kind : Kinds]

TypeOK ==
    /\ ui.at \in {"loop", "send", "sending", "finish", "lock", "join", "gone"}
    /\ ui.for \in {"input", "command", "download", "answer", "done", "close", "shutdown"}
    /\ telnet \in {0, sid} /\ sid \in 0 .. MaxSessions
    /\ {connected, everDrew, freed, stop, cancel, stalled} \subseteq BOOLEAN
    /\ zmr \in {0, active} /\ active \in 0 .. MaxTransfers
    /\ \A i \in DOMAIN queue : queue[i].event \in Events
    /\ rx \in {"none", "connecting", "recv", "reply", "replying", "post", "ended"}
    /\ lock \in {"free", "ui", "rx", "worker"}
    /\ sock \in {"none", "open", "closed"}
    /\ worker.at \in {"none", "wait", "send", "locking", "sending", "end", "ended"}
    /\ ring \in Seq(Item) /\ held \in Seq(Item)

(* ripscrip_module.c:147-154: every item the server sent is in one place    *)
(* only, and in its order: consumed, in the ring, in a posted chunk, in the *)
(* receive thread's hands or under way.  Nothing is lost, doubled or        *)
(* overtaken by the switch into and out of a transfer.                      *)
InQueue == FlattenSeq([i \in DOMAIN queue |-> Numbers(queue[i].items)])
OneStream ==
    telnet # 0 /\ (ui.at \in {"loop", "send", "sending"} \/ ui.for = "done") =>
        seen \o Numbers(ring) \o InQueue \o Numbers(held)
            \o Numbers(Payload(wire))
        = [i \in 1 .. sent |-> i]

(* Sessions and transfers are apart.  A message of an earlier session is     *)
(* never taken by a later one: its CLOSED would end the new session and its  *)
(* DATA would draw on it.  No receive thread is left to post one when the    *)
(* user may connect again.  The DONE of a transfer is only ever taken as its *)
(* own: zmodem_recv_finish would otherwise stop one that is still running.   *)
OwnEvents ==
    /\ telnet # 0 => \A i \in DOMAIN queue : queue[i].event # "DONE" => queue[i].from = telnet
    /\ telnet = 0 /\ ui = Loop => rx = "none"
    /\ zmr # 0 => \A i \in DOMAIN queue : queue[i].event = "DONE" => queue[i].from = zmr

(* A transfer never outlives the session it was started in: unless it was    *)
(* leaked, a worker that is about to write writes to that session and        *)
(* through a handle that is not freed.  Nor does the scene: a tab without a  *)
(* session shows none, whatever chunks were still posted when it ended       *)
(* (ripscrip_module.c:808-835).                                              *)
NothingOutlives ==
    /\ telnet = 0 /\ ui = Loop /\ queue = <<>> => ~everDrew
    /\ zmr # 0 => connected /\ telnet # 0
    /\ active = zmr /\ worker.at \in {"locking", "sending"} =>
           worker.t = worker.home /\ worker.t = sid /\ ~freed

(* Both, for any order of connects, transfers, escapes, drops and messages   *)
(* (rip_close_session, rip_zmodem_abandon, telnet_proto_close).              *)
SessionsAreApart == OwnEvents /\ NothingOutlives

(* A session the server has ended is torn down, transfer or not; and every  *)
(* handler of the UI thread returns: no send, no join and no lock holds it   *)
(* for ever.                                                                *)
SessionsEnd ==
    /\ peer = "gone" ~> (telnet = 0 \/ ui.at = "gone")
    /\ ui.at \notin {"loop", "gone"} ~> ui.at \in {"loop", "gone"}

(* zmodem_recv.c:1096-1098, "The worker only ever waits on the ring with a  *)
(* timeout, so this should not happen": finishing a transfer always finds   *)
(* its worker stopped.                                                      *)
WorkerNeverLeaked == active # 0 => zmr = active

(* telnet_proto.h, "close the socket, join the thread, free the handle": no *)
(* receive thread is left with a freed handle.                              *)
JoinedBeforeFree == freed => rx \in {"none", "ended"}

(* ripscrip_module.c:153-154, "The scene stream is therefore ... never loses *)
(* a byte across the switch": the receiver takes no item of the scene.      *)
SceneKept == ~strayed
===============================================================================
