# Verification of the MGT Unicorn Suite

TLA+ models of the Suite's own concurrent cores, the TLC configurations that
check them, and theorems about every modelled part that TLAPS proves. Paths are
relative to the repository (`src/...` in `PROJECT.json` is that tree).

The Suite is one Win32 program: a window with tabs, each a *module* that speaks
one historical protocol. All tabs share one pattern. The UI thread owns the
window and dispatches posted messages; anything that can block runs on a worker
thread, which hands its result back by a posted message, by a flag a timer
polls, or through a ring buffer. There is no scheduler and no shared runtime:
each tab writes its own hand-over, its own teardown and its own timeouts. That
is where the program is hard to test, and what these models are about.

Contents: [1 inventory](#1-inventory), [2 plan](#2-plan),
[3 the modules](#3-the-modules-and-the-code), [4 the runs](#4-the-runs),
[5 claims that do not hold](#5-claims-that-do-not-hold),
[6 fairness](#6-fairness), [7 proofs](#7-proofs),
[8 what is left out](#8-what-is-left-out).

## 1 Inventory

### 1.1 Modelled

**Zmodem receive** (`src/zmodem_recv.c`, over the vendored `third_party/mbzm`).
State: a 1 MB byte ring with two manual-reset events, a cancel flag, a stop flag,
and the worker's own conversation state (open file, bytes received, error count,
path). Operations: `start`, `push` (UI thread), `cancel`, `finish` (join, drain,
free), and the worker's `zmr_thread` with `zm_recv`/`ring_pop`. It calls the
session's `send` callback and posts PROGRESS and DONE. Hard: the events against
the fill count, a push into a full ring, a cancel between the check and the read,
a join that times out, damaged and overtaken frames, a sender that may be anyone.
Correct when: no wake-up is lost, bytes keep their order, what is written is what
was sent, a cancel is obeyed and not blamed on the sender, nothing is freed under
the worker, other files are left alone.

**RIPscrip tab** (`src/ripscrip_module.c`) **over the telnet transport**
(`src/telnet_proto.c`). State: the telnet handle, connected and transfer flags,
what has been drawn; in the transport a receive thread, a socket, a stop flag, a
send lock, the option parser. Operations: connect, scene commands, Escape,
Disconnect, shutdown, and the handlers of CONNECTED, DATA, ERROR, CLOSED and DONE.
Hard: one byte stream is switched between two consumers in the middle of a chunk,
with earlier chunks still posted; three threads write to one socket under one
lock; teardown is from the UI thread, from the server, or in mid-transfer.
Correct when: each byte is consumed once and in order, no message of an old
session or transfer reaches a new one, no handler hangs, a server close ends all.

**Telnet options** (the parser in `src/telnet_proto.c`). State: parser state,
pending verb, a bounded subnegotiation buffer, the server-echo flag. Hard: cuts
at any byte, commands inside data, a parser that answers *every* command.
Correct when: the payload is exact, options settle alike on both sides, requests
are answered, the negotiation ends.

**Software update** (`src/suite_update.c`). State: `g_busy`, `g_check_mode`, the
registry settings, one worker, one posted message, one modal box, the downloaded
file. Operations: manual and startup check, fetch, offer, skip, download, verify,
hand-over, shutdown. Hard: a flag taken on one thread and released on another
through several boxes; a timer that fires inside a modal loop; a publisher who
changes the manifest meanwhile; settings that survive launches. Correct when:
`g_busy` is neither leaked nor doubled, what is installed was offered, verified
and newer, a skip is respected, boxes appear when and only when they should.

**Archie** (`src/archie_ardp.c`, `src/archie_module.c`, `src/ftp_fetch.c`).
State: query in flight, packets collected, result and selection, Save As box, FTP
worker and its local file. Hard: UDP loses, doubles and reorders; a timer frees
the result under an open modal box; FTP fails at every step. Correct when: hits
are the whole reply, a download said to be saved is whole, a failed one leaves
nothing, both jobs end.

**Live Radio** (`src/radio_engine.c` under `src/liveradio_module.c`). State: the
engine's run state, stop event and request handle, the ICY and ADTS parsers, the
PCM ring, a network worker and a render thread, the tab's own state. Operations:
play, stop, destroy; on the worker connect, read, split metadata from audio,
frame, decode, write to the ring, tear down; on the render thread wake and fill.
Hard: audio, a length byte and metadata are cut anywhere by the reads, the
listener joins in the middle of a frame; states are posted by a worker that is
stopped, fails or is replaced meanwhile; the join is shorter than the connect.
Correct when: what is heard is what was sent, the tab tells the truth about its
engine, a stop ends both threads, an engine is freed after its worker.

**Audio playback** (`src/audio_service.c`). State, all global: the flag that
admits one playback, the worker's handle, two events, the buffers, the device,
the status window and its level meter. Operations: play bytes or an address,
stop, close the window, shutdown; the worker's fetch, decode, play, clean-up and
last message. Hard: the service is free again before the last message of a run
is handled, so two runs overlap in their globals. Correct when: a run neither
stops, frees nor cuts another, every window closes, shutdown is safe.

**IRC viewer** (`src/irc_client.c` under `src/irc_module.c`). State: the client,
the worker with its socket, stop request, back-off and session flags
(capabilities, nick, JOIN, banner), the pane and the ring of message ids seen.
Operations: connect, disconnect, shutdown, and the handlers of the worker's
events. Hard: registration is held until CAP END, a reconnect replays what was
shown and skips what was not, a disconnect may come in every state of the
worker. Correct when: the pane is the channel without doubles, client and server
never wait for each other, a worker always ends and is released.

**Web views** (`src/webview2_host_service.c`) **and the Newspaper**
(`src/newspaper_module.c`, `newspaper_picker.c`, `newspaper_service.c`). State:
a browser under asynchronous creation with one queued address and visibility;
the current issue, the index worker, detached manifest workers, a cache of 4
manifests. Operations: both completions, index ready or failed, navigation
completed, picker, Print, destroy. Hard: browser, index, pick and visibility in
any order; workers that read the current issue when they run; destroy with all
of them under way. Correct when: the browser shows what the tab takes for
current, Print comes back, the cache holds one of each.

**Gopher** (`src/gopher_module.c`, `src/gopher_protocol.c`). State: one fetch in
flight, the document, the current address, two history stacks of 64. Operations:
go, home, refresh, back, forward, click, search, save, and the handler of a
finished fetch, which also runs inside a modal box. Hard: Back changes the stacks
before the fetch it starts is accepted, done or failed; the receive loop has a time-out
of each receive and no other end than the server's. Correct when: the history
is the user's trail, what is on the canvas is the current address, the flag comes
back.

**GW-BASIC** (`src/gwbasic_module.c`, the queue and tick of `src/gwb_machine.c`).
State: the machine, its worker, two events and two flags, a keyboard queue of 63,
a paste. Operations: show, hide, key, Ctrl-Break, paste, restart, shutdown; the
worker's feed and tick; the guest's reads, flushes and pushes of keys. Hard: worker,
user and guest fill the queue that the guest reads and may flush; a restart joins, frees, boots and starts again. Correct when: a paste
arrives in order, and whole unless somebody throws it away, no wake is lost, one thread owns the machine.

**Live TV** (`src/livetv_module.c` over `src/player_service.c`). State: the tab's
state and its player, the slot of the active player, each player's own state with
its engine, its mute and its warm-up gate. Operations: start, stop, retry, close;
a load worker that waits for the stream, plays it muted for five seconds, unmutes
and posts PLAYING itself; the engine's callback; the handler of the events. Hard:
UI thread, worker and callback share all of this without a lock, the engine's own
PLAYING must not be shown while that of the worker must, and events, workers and
callbacks outlive the player they were for. Correct when: a picture that is shown
has its sound, "Connecting" ends, a late event changes nothing.

### 1.2 Not modelled yet, or at all

| Component | State and hard part | What would make it correct |
|---|---|---|
| Suite shell, modes (`suite_shell.c`, `mode_toggle.c`) | active tab, mode, shutdown order over all tabs | every tab deactivated once, shutdown reaches each worker |
| HTTPS fetch, SHA-256 | none between calls | outcomes are those assumed in `SuiteUpdate` |
| Telnet tab, VT220 (`telnet_module.c`, `vt_term.c`) | screen ring, cursor, scroll region, escape states | cursor in the page, scroll keeps lines, cut-independence |
| Finger, QOTD | receive thread without options | as the transport |
| RIPscrip drawing (`rip_parser.c`, `rip_*`) | command line over chunks, buttons, press feedback | cut-independence, one command per press |
| WAIS | synchronous search, a probe on a worker | probe of an old server is not shown for a new one |
| ARPA mail | RFC 765 reply classes, retries | accepted only if the server accepted |
| CU-SeeMe | UDP receive, watchdog, keep-alive | frames of one conference only, watchdog ends a dead one |
| NABU | serial relay, channel exchange, keyboard buffer | relay loses no byte, exchange resynchronises |
| Minitel, NAPLPS | decoders of a byte stream | cut-independence, cursor in range |
| Retro Web (`web_module.c`) | one libwww parser at a time, page worker, timers | never two parsers at once |
| Website tab (`website_module.c`) | the other user of the web view, with scripts and history | as the Newspaper |
| Interface helpers, Minitel in the browser, tools, installer, vendored code | no concurrency of their own, or other authors' code | left out |

`PROJECT.json` names the sources of each and, under `hazards`, the lines where
the code is exposed to an order, a failure or a boundary a test hardly reaches,
with the properties that would notice.

## 2 Plan

Order of work; the first five stages are done.

1. **Stream and transfer core** (done): `ZmodemRing` with its abstract
   specification `ByteStream`, `ZmodemSession`, `ZmodemLink` (the session
   composed with a sender and a wire), `TelnetParser`, `RipSession` (three
   threads, queue, lock: the composition of the tab with transport and transfer).
2. **Hand-over by worker and timer** (done): `SuiteUpdate`, `Archie`.
3. **Media** (done): `RadioEngine`, `AudioService`, `LiveTv`.
4. **Chat and browser** (done): `IrcViewer`, `WebViewHost` with `NewspaperTab`.
5. **Fetcher and machine** (done): `GopherTab`, `GwBasicTab`.
6. **The rest of the workers**: the NABU serial relay and channel exchange, the
   WAIS probe, the single parser of `web_module.c`, the shell's shutdown order.
7. **Decoders** as pure step functions over cuts of a stream: `vt_term.c`,
   `minitel_decode.c`, `naplps_decode.c`, `rip_parser.c`.

Abstract specifications worth stating: `ByteStream` (what a session owes its
caller, stated and implemented), a *single job* specification (a request is
answered once or dropped at teardown) for update, Archie, Gopher and WAIS, and
a *latest request wins* specification for the fetchers.

Theorems wanted: the safety invariants of every run, which section 7 has, and
those of the modules of stages 6 and 7. A decoder's would follow the proof about
`parse_chunk`: what it becomes after two chunks is what it becomes after their
concatenation, and what was put out before makes no difference. No module meant
for proofs declares a `RECURSIVE` operator.

## 3 The modules and the code

`PROJECT.json` maps each definition to the lines it stands for. Common
conventions: one action is one stretch of code between two points where another
thread can interfere (a lock taken or released, a wait, a blocking call, a
posted message). An operator `X_Slip` beside `X` is the same operator with a
plausible mistake; no specification uses it, and the checks that a property can
fail at all replace `X` by it.

### ZmodemRing, ByteStream

| TLA+ | code (`src/zmodem_recv.c`) |
|---|---|
| `ring head tail count` | the buffer and cursors under `ring_lock` |
| `dataEvt spaceEvt` | the two manual-reset events |
| `uipc`, `base len off pwaited` | where the UI thread is in `zmodem_recv_push`, `_finish` |
| `wpc waited ret` | where the worker is in `zm_recv`/`ring_pop` |
| `PushBegin PushCopy PushWait` | entry, one critical section, one wait of the push loop |
| `RecvCancelled RecvBegin PopByte PopEmpty PopGiveUp PopWait` | the branches of `zm_recv` and `ring_pop` |
| `Cancel FinishBegin FinishJoined FinishTimeout` | cancel; stop and join; drain and free, or leak |

A byte is its position in the delivered stream, so order, loss and duplication
are visible in the histories `accepted`, `popped`, `rest`. A timed wait adds one
poll whatever ended it, as `waited += 100` does, so a spurious wake-up is a
behaviour of the model too. `ByteStream` says what the caller may rely on
(accept behind, consume from the front, hand back the rest once); `StreamSpec`
instantiates it with the ring read in cursor order.

### ZmodemSession

`zmr_thread` from its first ZRINIT to its clean-up. `phase` is the place in the
loop (`top` sends ZRINIT, `await` reads a header, `sinit`/`file`/`data` read a
subpacket, `dtop` begins a data frame, `oo` the tail after ZFIN); each disjunct
of `Conversation` is one branch of the header switch or of the data loop,
including the trailing close, delete and reply. The sender is unconstrained:
`Items` holds every header type, every kind of block, damage, CAN sequences,
stray text, silence, in every state. A position counts blocks; `disk` is the set
of names `build_unique_path` tries, each free, taken by the user, or written by
the session. The vendored framing is modelled by what the session sees of it.

### ZmodemLink

Extends the session with a streaming sender of one file, a wire of bounded
length and damage (`Put`): the sender rewinds on ZRPOS and takes the ZRINIT after
its ZEOF for acceptance. It is the environment in which promises about a
*successful* transfer make sense. The sender is not in the repository; it is
modelled from the frames `zmr_thread` answers.

### RipSession

`ui` is the UI thread: at its message loop, or inside one of the blocking parts
of a handler (`send`, `sending`, `finish`, `lock`, `join`) with the reason it is
there. `queue` is the window's message queue. `rx` and `worker` are the receive
thread and the transfer worker, `lock` is `send_lock`. Actions: `Connect`,
`Command`, `Escape`, `Disconnect`, `Shutdown`; `OnConnected`, `OnError`,
`OnDataTransfer`, `OnDataSwitch`, `OnDataScene`, `OnClosed`, `OnDone`;
`FinishJoined`, `FinishTimeout`, `CloseSocket`, `FreeHandle`; the `Rx...` and
`Worker...` steps. The payload is numbered items of a few kinds. Windows hands
out posted messages before input, hence `UserTurn`. What ends a transfer is left
open (that is `ZmodemSession`) and the ring never fills (that is `ZmodemRing`).
`MaxTransfers` also stands for a receiver that does not start.

### TelnetParser

`Step` is the `switch` of the parser on one byte; `Parsed` is its run over a chunk
and `ParseChunk` takes a chunk of at most `RecvBuf` bytes, which may end anywhere,
and keeps the state between chunks. The server is
external and keeps the RFC 854 rule of answering only changes. Symbols stand for
bytes; `ServerData` also sends data bytes with the value of a command, and IAC
doubled, because there the parser could go wrong.

### SuiteUpdate

`worker`, `msg` and `ui` are the three places where the one piece of work guarded
by `g_busy` can be. `StartCheck` is `start_check` with the assignment of
`g_check_mode` *before* the test of `g_busy`, as in the code; `CheckPosts` reads
the mode last, as `check_thread` does. `Compare` is
`suite_update_compare_versions`, with numeric and word identifiers. A release is
its place in the order of publication, which the code never sees: properties are
stated in that order and the code decides by `Compare`. The publisher may publish
or go back, downloads may be damaged, the clock moves, the Suite is restarted.

### Archie

`worker` is `archie_query` (attempts, total from the first datagram, packets by
number), `net` and `requests` the two directions of UDP. `Poll` and
`DownloadPoll` are the timers, which run while a modal box is open. `OnDownload`
opens the Save As box on the selected hit; `SaveAs` copies it afterwards, from
memory that may have been replaced (`HitRead` is every value it may then hold).
`Ftp...` are the steps of `ftp_fetch_file`, each of which may fail.

### RadioEngine

`wk` is the network worker (`start`, `open`, `send`, the read loop `read`,
`recv`, `consume`, `frame`, `write`, then `teardown`, `joinrender`, `ended`),
`render` the render thread, `ui` the tab with the state it shows. The stream is
a sequence of symbols: header and body of numbered frames, the metadata length,
metadata. `ServerSends` composes it as `icy-metaint` says and the wire is read in
chunks that end anywhere; `ConsumesAudio`, `ConsumesLength` and `ConsumesMeta`
are the three phases of `re_consume`, `Decodes` the loop that cuts frames from
the accumulator, `WritesPcm` the bounded wait for room. A stop sets the event and
closes the request; `JoinEnds` is the eight-second join, which may give up while
the worker is in a send. Decoder and device are external and may fail.

### AudioService

A *run* is one accepted request; every global names the run it belongs to, so
that one run's use of another's is visible. `player[r]` is where the worker of
run `r` is; its four last steps (`CleanUp`, `Fails`, `Frees`, `Leaves`) are apart
because the service admits the next request between them. `PlayAccepted`,
`PlayRefused`, `StatusShown`, `WindowClosed` are the posted messages. `audioHurt`
collects what was used after its end.

### IrcViewer

`irc` is the place of the worker in its two nested loops (dial, session), `ss`
the record `Session`; one action handles one line of the server. The server is
external: it lists capabilities on one line or two, grants or refuses them, may
refuse a nick once, holds registration until CAP END, replays on JOIN, pings and
drops. `tab`, `pane`, `seen`, `status` are the UI thread's; `OnConnect`,
`OnDisconnect`, `OnShutdown` the user's. A disconnect sets `quit` and closes the
socket, as the worker also may: `closes` counts.

### WebViewHost, NewspaperTab

A host is a record, with one operator for each function of the service;
`NewspaperTab` owns it in the variable `host` and calls them from its handlers.
`NewsEnvironment` and `NewsController` are the two completions, `LateCompletion`
one that comes after destroy. `workers` are the detached manifest workers: `ManifestBegins`
reads `current_id`, `ManifestFetched` stores and posts. `mcache` is the cache,
least recently used first. `TabDestroyed` leaves completions and workers under
way, and `freedUse` notes which of them then use freed memory.

### GopherTab

`job` is the worker's request and the place it is at, `done` its posted result. The
receive loop is a loop: the worker waits in `recv` (place `recv`), the server sends
more (`ServerSends`) or ends its document (`ServerCloses`), and `Receives` takes what
came and waits again. `RecvEnds` leaves the loop, at the server's end, a lost
connection or a time-out, and posts what there is.
`BackClicked` and `ForwardClicked` change both stacks and clear the current
address before `Navigate`, which may refuse; `ShowsDocument` pushes, clears
forward and replaces the canvas. `boxes` are the open modal boxes: results are
delivered inside them, clicks are not. `trail` and `here` are the user's own view
of the visit, `strayed` that a Back or Forward was refused or failed.

### GwBasicTab

`worker` is the place in `gb_worker` (`top`, `wait`, `room` read, `feed` under
`g_lock`, `tick`); `ui` the UI thread, at its loop or in the join of a restart or
of the shutdown. `kq` is the queue and `kq_visible` how many of its keys have
arrived; `Occupied` is the test of `gb_feed_paste`, taken before the lock. The
guest is external, its services are not: it reads a key that has arrived
(`GuestReads`), empties the whole queue (`GuestFlushes`, INT 21h AH=0Ch), puts a
key of its own behind the others (`GuestPushes`, INT 16h AH=05h), halts until a
key arrives, or ends. `whole` says that no key of the present paste was thrown
away: a Ctrl-Break, a flush, a restart makes it false where the queue held one.
The user is assumed to type at most `Reserve` keys while one feed is under way,
which is a few microseconds.

### LiveTv

An attempt has a number, which names its player and its worker; a number is never
used again, so that an address given out twice is not in the model. `players` keeps
what a destroyed player held, with the engine NULL, since worker and callback go on
reading through their pointer; `tvUi = "crashed"` is a call through that NULL.
`loader` is the worker: `SourceSet`, `WaitOver`, the steps of `WarmUp` one by one,
`LooksAtState`, `BecomesLoaded` (its test and its assignment are apart), and
`LoaderPlays`, which reads the tab's player again. CANPLAYTHROUGH only releases the
wait, and the wait has a time-out, so `WaitOver` may come at any time. `MfRaises`
is the callback's read of its owner, `MfPosts` its post. `PlayerDestroyed` is
stop and destroy; `EnterSplash` is the end of the join, which may give up.
`alone` remembers that no attempt was begun beside an earlier worker.

### MCListening, MCReaders

Tabs share the UI thread, which finishes one handler before it begins another,
and nothing else, so that a behaviour of several is an interleaving of their own.
These two modules check several tabs in one run: a behaviour is one of them,
chosen in the first state.

## 4 The runs

Run inside this directory, for instance `tlc -config MCZmodemRing.cfg
MCZmodemRing`. Deadlock is not checked: in each model the system really may
stop (a session is freed, a user does nothing more).

**ring** (`MCZmodemRing.cfg`): ring of 3 bytes, pushes of up to 4, 6 bytes in
all, 2 idle polls, 1 push poll. A push longer than the ring, two laps of the
cursors, a full ring that drops a remainder and goes on behind the gap, a cancel
and a join at every step all happen within these bounds; nothing in the code
depends on the ring being larger.
`NoLostWakeup` (events agree with the fill outside the lock),
`OneByteAfterCancel`, `NoFreeUnderWorker`, `WaitsEnd` (push, join and pop end),
`StreamSpec` (implements `ByteStream`: order kept whatever was dropped).

**session** (`MCZmodemSession.cfg`): 2 tolerated errors, ceiling of 2 blocks, 2
names, any sender. Enough for a second file after a first, both names taken, one
block over the ceiling and one error over the limit.
`PositionsAreReal` (every ZRPOS is what is on disk, success means the file is
there, the ceiling holds), `FilesAccountedFor` (a failed file is removed, the
user's are not written), `CancelObeyed` (ends, at most one more block is written,
and it is not reported as a sender that went quiet; that the CAN goes out is not
checked).

**link** (`MCZmodemLink.cfg`): file of 2 blocks, 4 items on the wire, 2 damaged.
Two faults damage a block and its retransmission, or a block and the header
that answers it; four items let a ZEOF overtake a ZRPOS.
`SourceArrives` (what is on disk is a prefix, and all of it when nothing was
damaged), `LinkEnds`.

**rip_session** (`MCRipSession.cfg`): 2 sessions, 2 transfers, 2 items per
session, chunks of 2, a server that may stop reading. Two of each is what it
takes for something old to meet something new.
`OneStream` (every item in one place and in order across the switch),
`SessionsAreApart` (transfer, drawing and flags end with the session, and no
message of an old session or transfer is taken for a new one's).

**rip_live** (`MCRipSession_Live.cfg`): 1 session, 1 transfer, a server that
keeps reading (one that does not can hold a `send()` for ever, which is section
5's leaked worker). `SessionsEnd`: a server's close ends session and transfer,
and the UI thread comes back from every wait.

**telnet_parser** (`MCTelnetParser.cfg`): 4 units, chunks of up to 3 bytes, a
buffer of 3 and a body of 4. Every unit is cut at every place, and four units let
an option be offered, settled, withdrawn and offered again.
`PayloadExact`, `OptionsSettled` (both sides agree, every SEND was answered),
`NegotiationEnds`.

**update** (`MCSuiteUpdate.cfg`): 3 releases (two pre-releases that differ in a
number of one and of two digits, and the release itself), 2 launches, throttle
and clock of 2. Three releases let one be skipped, one be published after it and
one withdrawn; the second launch reads the settings the first left.
`BusyIsOneThing`, `BoxIsDue` (a box appears when it must and never about a
skipped release), `InstallsWhatWasOffered`, `CheckConcludes`.

**archie** (`MCArchie.cfg`): 2 searches of 2 datagrams, 1 retransmission, 1
doubled datagram, files of 2 blocks. Datagrams of a first request, of its
repetition and of the earlier search are under way at once.
`AnswerIsWhole`, `DownloadVerdict`, `JobsEnd`.

**listening** (`MCListening.cfg`), three alternatives. *Radio*: frames of 2
symbols, metadata after every 3, chunks of 2, a ring of one block, 6 audio
symbols, 2 engines: a frame, a length byte and a metadata block are each cut at
every place, the ring is full while the worker holds a block, and an engine is
replaced while states of the first are posted. *Sound*: 2 requests, so that every
step of a finished run meets every step of the next. *Television*: 2 attempts and
2 events of the engines, so that a worker, a callback and a message of the first
meet the player of the second, and a warm-up has an event of its own and an error.
`HeardAsSent`, `TabFollowsEngine`, `ReaderIsJoined` (only a stop that came before
the request handle was there leaves a worker), `StopEnds` (radio); `RunsAreApart`,
`EveryWindowCloses` (sound); `PictureHasSound` (no picture before the unmute, or
of a player that is gone), `ConnectingEnds` (also if the engine never says a word)
(television).

**readers** (`MCReaders.cfg`), four alternatives. *IRC*: 2 manual connects and 2
connections, 3 messages, a replay and a memory of 1: messages are lost, replayed
and shown once, a drop or a disconnect comes at every step. *Newspaper*: 3
issues, a cache of 2, 3 picks: an eviction, and three manifest workers at once.
*Gopher*: 3 addresses and a search, a history of 2, 4 fetches: a stack overflows,
a page is revisited, a menu arrives in the search box; servers send as often as they
like before they end. *GW-BASIC*: 3 inputs, each a key or a paste of 2 keystrokes, a
queue of 2 of which one is kept free, 2 machines, and a guest that flushes and pushes
at any time: a paste takes several feeds, a key falls between the room's reading and
the push, a paste replaces another, a flush falls between two feeds of one paste or on
a queue with nothing of it, a program ends and is restarted. The code's sizes (63 and
8, 64, 4, 4096) enter only through comparisons with these constants.
`PaneIsChannel`, `NotBothWaiting`, `WorkerReleased` (IRC); `BrowserFollowsTab`,
`ManifestsServePrint` (the button comes back, one of each is cached) (Newspaper); `HistoryIsTrail`, `FetchesEnd`
(from servers that end what they send) (Gopher); `KeysArrive`, `WakeIsKept` (GW-BASIC).

Two more runs expect a violation and are the subject of the next section. The
configurations `*_Claims.cfg` are not runs of the project: each holds the claims
about one module that the code does not keep, one of them active, to be tried one
at a time (`tlc -config RadioEngine_Claims.cfg RadioEngine`; the module is the
file's name before `_Claims`). Type invariants are the last line of some of
them, and of the proofs of section 7.

## 5 Claims that do not hold

Each of these is what a comment, a header or a message of the repository says;
TLC finds a behaviour of the code against it. The two that have a configuration of
their own, `MCSuiteUpdate_Manual` and `MCArchie_Chosen`, are runs and findings of
the project; the others are lines of the `*_Claims.cfg` of the module named.

| Module or run | Property | The code does | The text says |
|---|---|---|---|
| `MCZmodemSession` | `TheirsKept` | with all candidate names taken, the last one tried stays in `z->path` and the clean-up deletes it | "Never overwrites a file that is already there" (`zmodem_recv.c:480`) |
| `MCZmodemLink` | `OkMeansWhole` | ZEOF is accepted at any position; when it overtakes the retransmission the sender takes the ZRINIT for acceptance and a truncated file is reported OK | "file received and closed" (`zmodem_recv.h:50`) |
| `MCSuiteUpdate_Manual` | `ManualReports` | the startup timer overwrites the mode of a running manual check, whose answer is then silent | "A MANUAL check always reports something" (`suite_update.h:125`) |
| `MCArchie_Chosen` | `DownloadIsChosen` | the selected hit is read after the Save As box, during which the result may have been replaced | "FTP the selected file" (`archie_module.c:541`) |
| `MCZmodemSession` | `BadBlocksBounded` | a good header resets the counter, so bad blocks never add up | "consecutive protocol errors we absorb" (`zmodem_recv.c:125`) |
| `MCZmodemSession` | `NoPartialLeft` | a ZFILE closes an unfinished file and forgets it | "removed and the path cleared" (`:991`) |
| `MCZmodemSession` | `SenderCancelReported` | a CAN sequence between headers is skipped and ends as a time-out | "the sender went quiet" (`zmodem_recv.h:57`) |
| `MCZmodemSession` | `SessionCeiling` | `received` starts again with each file | "on the session total, not just on one file" (`:59`) |
| `MCZmodemSession` | `TailKept` | the first byte after ZFIN is taken for an "O" | "must be handed on, not dropped" (`zmodem_recv.h:77`) |
| `MCZmodemLink` | `DropNeverCorrupts` | a whole block lost inside a frame is invisible to a per-block CRC | "Dropped bytes fail a CRC" (`:262`) |
| `MCRipSession` | `WorkerNeverLeaked` | the worker also waits inside `send()` | "only ever waits on the ring" (`:1096`) |
| `MCRipSession` | `SceneKept` | the receiver is switched in before the command goes out; scene bytes still under way go to it | "never loses a byte across the switch" (`ripscrip_module.c:154`) |
| `MCRipSession` | `JoinedBeforeFree` | the three-second join ends under a longer `connect()`, and the handle is freed | "join the thread, free the handle" (`telnet_proto.h:81`) |
| `MCTelnetParser` | `AbandonedCleanly` | the command that broke off a subnegotiation is half consumed; its option byte becomes payload | "abandon SB cleanly" (`telnet_proto.c:228`) |
| `MCArchie` | `NoHole` | the total is the first datagram's even when a repeated request is answered in more pieces | "the ARDP total-packet count" (`archie_ardp.c:30`) |
| `MCArchie` | `TheirsUntilOpened` | a failure before the local file is opened deletes a file that was there | "only once the transfer is about to start" (`ftp_fetch.c:249`) |
| `RadioEngine` | `JoinedBeforeFree` | the join lasts eight seconds, a connect ten and a name lookup longer; the engine is then freed | "signals the worker, joins it, tears down" (`radio_engine.h:72`) |
| `RadioEngine` | `DecoderFailurePublished` | a decoder that cannot be created, or rejects the stream's types, records its text and publishes no state: the worker reads on and tries again with every block, and the tab says "connecting" until the stream ends | "error already published" (`radio_engine.c:408`) |
| `AudioService` | `FreshStartKeepsMeter`, `FreshStartKeepsStatus` | the window of a finished run is destroyed after the next began, and takes its meter; the last status goes to the newer window | "so that a stale teardown can't race a fresh start" (`audio_service.c:772`) |
| `AudioService` | `LockOutlivesWorker` | the shutdown gives up its join and deletes the lock the worker enters on its way out | "let it leak rather than corrupt state" (`audio_service.c:1150`) |
| `IrcViewer` | `DisconnectIsSilent` | FAILED may already be posted when the user disconnects, and overwrites the status | "tears down silently (no IRC_EVT_FAILED)" (`irc_client.h:113`) |
| `IrcViewer` | `BannerOnlyAtFirst` | a connection lost before the banner's end leaves the flag set for the next | "Automatic reconnects ... always suppress the banner" (`irc_client.h:103`) |
| `IrcViewer` | `ClosedOnce` | worker and UI thread may both close the same socket, outside the lock | "without racing the worker's reconnect loop" (`irc_client.c:88`) |
| `NewspaperTab` | `PrintHasManifest` | the message of an earlier issue's worker enables the button; Print then fetches on the UI thread | "Print needs the manifest cached" (`newspaper_module.c:204`) |
| `NewspaperTab` | `PickStays` | an issue picked before the browser is ready is replaced by the latest | the pick is the current issue |
| `NewspaperTab` | `PrintedStays` | nothing keeps the manifest that Print holds from eviction by a detached worker | "stays valid until the service is destroyed (or evicted" (`newspaper_service.h:47`) |
| `NewspaperTab` | `NothingAfterFree` | completions and workers that outlive the tab use it | nothing says so; the code checks nothing |
| `GopherTab` | `TimeoutFires` | the 15 s are of one `recv`: a server that sends a byte now and then is never timed out, the loop has no cap, deadline or cancel, and while it lasts every click is refused | "the recv loop has a 15s timeout ... let the timeout fire" (`gopher_module.c:2099`) |
| `GopherTab` | `BackIsKept` | the page and the current address leave the stacks before the fetch is accepted; refused or failed, both are lost to the history | "record the previous URL on the back stack on success" (`gopher_module.c:1052`) |
| `GopherTab` | `WholeOrError` | a receive that times out or fails ends the loop like the server's close: the part received is a success | "on any failure ... the return value is non-zero" (`gopher_protocol.h:41`) |
| `GopherTab` | `ItemOutlivesBox` | a menu that arrives inside the search box frees the item whose host is used afterwards | nothing says so; the pointer is kept |
| `GwBasicTab` | `OneOwner` | a join that gives up after five seconds frees the machine under its worker and starts a second | "One thread owns the machine" (`gwb_machine.h:50`) |
| `LiveTv` | `OnePlayer` | a retry after an error creates the next player without destroying the first | "only ever has one Player alive at a time" (`player_service.c:418`) |
| `LiveTv` | `ErrorStays` | the ERROR event releases the worker before the UI thread has noted the error; the worker warms up all the same and posts PLAYING, which leaves the error screen | "Click anywhere or Space goes to LOADING" (`livetv_module.c:12`) |
| `LiveTv` | `LockstepAlways` | a worker that an error and a retry left behind ends with `player_play` of the new player, not yet muted for its own warm-up; muted afterwards, it is shown | "so the user sees frames in lockstep with audible audio" (`livetv_module.c:508`) |
| `LiveTv` | `WarmUpSurvivesDestroy` | the worker holds a reference to the engine, but uses it through `p->engine`, NULL by then | "instead of crashing" (`player_service.c:843`) |

Smaller observations, not stated as properties:

* Update: a skipped version suppresses the startup prompt even of a required
  update; a `last_checked` in the future silences startup checks until the clock
  passes it.
* Radio: a device that cannot be opened is tried again for every block, with the
  ring initialised anew; the tab ignores STOPPED, so it shows "playing" after the
  server's end; a retry after an error does not destroy the old engine first; the
  UI thread, "never blocked" (`radio_engine.h:27`), waits up to eight seconds.
* Audio: the error status is closed by the same message that ends the run, so
  that it is hardly seen.
* Television: the wait is for CANPLAYTHROUGH and lasts 10 s where the header
  speaks of LOADEDMETADATA and 15 s; a `player_create` that fails overwrites the
  pointer to the player that was there.
* IRC: of a line longer than the buffer the tail is handled as a line of its own
  (`irc_client.c:588`).
* GW-BASIC: a Ctrl-Break throws away what is queued of a paste and the rest is
  typed on behind the hole, and so does a program that flushes the keyboard (INT 21h
  AH=0Ch), while the status line goes on to say that the paste was typed in; the message of a program that ended may be handled
  after a restart, and the status then invites a key press that restarts nothing.

## 6 Fairness

Only what the Suite itself schedules is fair; the user (except for a modal box
that is open in `SuiteUpdate`), the servers and the network owe nothing.

* `ZmodemRing`: a thread inside `ring_pop`, a push or a join goes on; these waits
  all have time-outs in the code. Nothing obliges the worker to read again.
* `ZmodemSession`: the worker runs; `zm_recv` returns in 30 s at the latest.
* `ZmodemLink`: both ends and the wire go on.
* `RipSession`: the three threads run. Taking `send_lock` is strongly fair for
  each contender, because other threads take and release it in between; a
  critical section does not starve a waiter for ever.
* `TelnetParser`: bytes arrive and answers are read; the server may fall silent.
* `SuiteUpdate`: fetches end, messages are dispatched, an open box is answered, a closing process ends. That
  a fetch ends is more than its time-outs, which are of one call each: a server that
  trickles is stopped by the size limits of `http_fetch.c`, which is late, but an end.
* `Archie`: `SO_RCVTIMEO` bounds every receive of both workers, timers fire. That the
  receives are finitely many is assumed of the servers: the datagrams on the way are
  bounded and a file has an end.
* `RadioEngine`: the two threads and the UI thread run, since every WinHTTP call
  has a time-out and the render thread wakes for the device; the server may send
  nothing more.
* `AudioService`: worker and messages go on, and a device that plays comes to the
  end of what it was given.
* `LiveTv`: the workers, whose waits end by time-out or sleep, the callbacks that
  have begun and the UI thread; the engine need not raise anything.
* `IrcViewer`: the tab and the worker; the server may be silent for ever, which is
  why `NotBothWaiting` is about states.
* `GopherTab`: the worker, each of whose socket calls times out (`SO_RCVTIMEO`, a
  bounded connect), and the delivery of its message, by the shell's pump or a box's.
  This does not end a fetch, since the receive loop may go round without limit
  (`TimeoutFires`). `FetchesEnd` rests on one thing more, which is not the Suite's to
  see to and is stated apart as `ServersEnd`: a server ends its document at last (weak
  fairness of `ServerCloses`, which `MCReaders` adds).
* `GwBasicTab`: the worker, the end of a tick, which has a budget of instructions
  whatever the guest does in it, and the UI thread inside a join. In **readers** its
  properties are about states; `TabRuns`, that a shown machine is ticked again and
  again, needs the fairness and is checked with `GwBasicTab_Claims.cfg`.
* `NewspaperTab`: none; its properties are about states.

## 7 Proofs

Checked by `tlapm`; no step is left open. Each proof is an inductive invariant, with
a lemma for its initial states, one for its steps, and others for what the steps
have in common.
The assumptions on constants are stated in the modules and evaluated by TLC:
`RingAssumption` (a positive ring, natural bounds), `SessionAssumption` (natural
limits, one name or more), `LinkAssumption` (a file of a block or more that does not
exceed the ceiling, its blocks numbered in order; only the theorem about the link
rests on it), `ParserAssumption` (a chunk of a byte or more, and a subnegotiation
buffer with room for a terminal-type request, which the code's 256 bytes have),
`AudioAssumption`, `BlocksAssumption`,
`RadioAssumption` (a ring with room for a block, frames longer than their header),
`NewspaperAssumption` (the latest issue is one, and no issue is `NoPage`),
`GopherAssumption` (a positive history, and the empty address is no address),
`BasicAssumption` (a queue longer than the room that is kept free),
`TvAssumption`, `SeenAssumption` and `SizesAssumption` (natural bounds).

**Stream_proofs**. *Ring*, for every ring size, every traffic and every number of
polls. `RingTypeOK`: `TypeOK` is not inductive by itself, since `off` could pass
`len` and the take be negative; with `PushBounded == off <= len` it is
(`TypeInv`). `TakeFact` bounds a pass of the push loop by the room, `SlotFact`
keeps cursors in the ring. `RingNoLostWakeup`, `RingOneByteAfterCancel` and
`RingNoFreeUnderWorker` follow from `ControlInv`, which is checked on top of
`TypeInv` and strengthens the second of them to `LateBounded`: a worker that
takes a byte after the cancel leaves `ring_pop`, and does not come back, since
`zm_recv` looks at the flag first. `RingImplementsStream` is the refinement: the
queue of `ByteStream` is the ring read from `tail` in cursor order, and each step
is mapped to one of the abstract actions or to a stutter. The lemmas about that
reading say what one take appends and one pop removes, across the wrap.
*Telnet*, for any chunk, any number of commands and any buffer a request fits in.
Both theorems look at `End`, the state the parser will have when all that is on its
way has arrived. A chunk that is parsed does not change it (`ParsedJoined`: the run
over a concatenation is the run over its second part from where the first ends), so
that the cuts of `recv()` disappear; what was handed on and answered before makes no
difference to what follows (`ParsedAfter`). What remains is one lemma for each
command the server sends, which says what the whole of it does to a parser that is
between commands (`Proper` is the set of possible answers). `ParserInv` says of `End`
what is `Promised` as long as the server breaks off no subnegotiation: its payload
is the one the server meant, for every offer the server waits for an answer is under
way, the last answer about the echo agrees with `server_echo`, and if there is none
the flag agrees with the server (`EchoDue`). Whatever it does, there is an answer for
each terminal-type request (`Asked`). The server's reading of an answer takes away the
first of them (`AnswerTaken`). With nothing under way the parser is at its `End`, and
`TelnetPayloadExact` and `TelnetOptionsSettled` are what was promised.

**ZmodemSession_proofs**, against any sender, for any limits, ceiling and number of
names. `SessionPositionsAreReal` needs to know that the data loop is only entered
with a file open, and that an open file holds exactly what was received
(`SessionInv`). The first free name is a `CHOOSE` of the least, which exists by
`LeastOf` (the library's well-founded induction used once, on a set).
`SessionFilesAccountedFor` is about steps and uses the same invariant. Of
`CancelObeyed` two thirds are proved: `SessionOneLateBlock` (`LastRead`: the block
written after a cancel is the one read when it came) and
`SessionCancelIsNotBlamed`; that the session ends is liveness.

**ZmodemLink_proofs**, for a file of any length, any wire, error limit and number of
names. `LinkSourceArrives` has a hypothesis, `~MayLose`: an item that is swallowed
whole may corrupt the file, which section 5 shows, so that without it the statement
is false. `PrefixInv` says that each block on the wire lies right behind the one
before it or behind the header of its position, damaged or not (`InOrder`), and that
a receiver in a state in which it would write the next sound block finds the right
one first (`RightNext`); a receiver that lost one is out of that state until a header
with its own position brings it back. It rests on `SessionInv`, and each branch of
`zmr_thread` is one lemma about what it takes from the wire and leaves on the disk.
The second half of the theorem is about a transfer that was not damaged (and, as the
link has it, not cancelled): `CalmInv` says that while nothing was, sender, wire and
receiver are at places of one `Script` of `FileLen + 7` items (`OnScript`): the receiver has taken `g` of them, the sender
put `n`, the wire is what lies between, and replies are those due so far
(`SenderAt`, `ReceiverAt`, `Given`, `Answer`). On it nobody ever has to wait out a silence
(`NoSilence`), so that the conversation leaves the script only where the disk refuses
(`IoEnd`), and at its end the file is whole. Both invariants were checked by TLC
on files of 2 and 3 blocks before they were proved.

**RipSession_proofs**, for any number of sessions, transfers and chunks.
`RipSessionsAreApart`: `ApartInv` says where the UI thread can be (`UiIsWhere`),
that a transfer and its worker are of the open session (`TransferIsOurs`), that
each worker posts one DONE and none is left when the next may begin (`OneDone`),
that CLOSED is the last the receive thread posts (`ClosedIsLast`), and that what is
posted is of the open session (`PostedIsOurs`).
`RipOneStream`: what the scene has drawn, the ring, the posted chunks, what the
receive thread holds and what is on the wire, read one behind the other (`Stream`),
are the items 1 to `sent` while a session is open (`FlowInv`). Every step moves a
piece from one place to the one before it, which leaves the whole as it was
(`Moves`); the switch into a transfer cuts a chunk in two, and the switch back lays
the tail of the ring in front of what is still posted. That options may be taken out
before or after a concatenation, and that a chunk's numbers are spread over its
parts, are lemmas about functions mapped over sequences (`MappedSpreads`,
`FlattenJoined`, `PayloadJoined`, `PostedJoined`).

**SuiteUpdate_proofs**, for any releases, throttle, clock and number of launches.
`UpdateBusyIsOneThing`: the invariant `OneThing` adds the shapes of what is
handed over and the facts about a process that is going down (a worker may
outlive the window, never the process; boxes only in a running one);
`HandCount` turns the sum of three into a case distinction.
`UpdateInstallsWhatWasOffered` and `UpdateBoxIsDue` have a hypothesis,
`PublishedInOrder`: that `Compare` puts releases in the order in which they were
published. This is a property of the publisher's version numbers, not of the
code, and it is stated in the theorems (`ASSUME PublishedInOrder PROVE ...`); the
releases of the run satisfy it. The invariant `Chain` follows one release through
manifest, answer, offer, download, verification and confirmation: at each stage
it is newer than the installed one, and a file that reached confirmation has that
release's hash. `Due` adds that what is skipped was published, and that an answer
to a manual check belongs to a user who asked, although `g_check_mode` may change
under a running check.

**Archie_proofs**, for replies and files of any size. `ArchieAnswerIsWhole` has a
hypothesis, `Steady`: the server answers a repeated request alike. Without it the
code may join two replies, which section 5 shows. The invariant `AnswerInv` says
that all datagrams under way are of such replies (`NetIsReplies`) and that what is
collected is a set of them, each counted once; so a count that equals the total
means all of them (`ReplySize`), and the least number at which the sorted pieces
could differ from the reply shows that they do not (`OrderIsOwn`, `BodyIsWhole`).
`ArchieDownloadVerdict`: the invariant `FileFollowsTransfer` gives the local file at each step of `ftp_fetch_file` (not
the code's own until it is opened, then exactly the blocks received). One lemma
covers all failures (`GiveUpKeeps`), one the steps that leave the file alone
(`MoveKeeps`).

**Listening_proofs**. *Radio*, for any stream, sizes and number of starts.
`RadioReaderIsJoined`: `OpenedLate` says that a request found open after the stop
was opened after it, and then its worker looks at the event before it reads.
`RadioTabFollowsEngine`: `EngineSays` gives the engine's state for each place of its
worker, `TabIsTold` that what the tab does not show yet is in the one message that
is under way (`Posted` and its companion: what a post and a delivery change).
`RadioHeardAsSent`: what was sent and not yet taken is read by a run of splitter
states (`Track`) that begins where the splitter is and ends where the server is
(`Split`); a read or a send moves one end of it. Taking the sound up to the next
length in one piece is many steps of that run; that they are all sound follows
from the least place where one could not be (`RunOfSound`). The sound taken is
frames up to a base and the accumulator from it on, so that the first header in
there is that of the next frame (`HeadIsNext`, with the arithmetic of frames in
`FrameSounds`). Of the blocks, `RingIsRun` and `NextFollows`: until the stop nothing
is dropped, and a render thread that was filling when the stop came takes one
block more, which still follows, because only a full ring makes the worker drop one.
*Sound*, for any number of requests. `AudioRunsAreApart`: at most one worker is
under way, that of the last run, and the service is taken until it leaves
(`OneWorker`); buffers, device and events are that run's (`BuffersAreOwn`,
`DeviceIsOwn`, `EventsAreOwn`).
*Television*, for any number of attempts and events. `TvPictureHasSound`: while no
attempt was begun beside an earlier worker, all that is under way is of the last
one (`LastAlone`), its player is muted only behind the gate of its warm-up
(`MutedBehindGate`, `GateHolds`), and a PLAYING that will be believed is of a player
that has its sound (`PlayingIsActive`).

**Readers_proofs**. *Newspaper*, for any issues, cache and number of picks.
`NewsBrowserFollowsTab`: before the browser is there its queue agrees with the
tab, afterwards the browser itself does (`Agrees`, through `Address` and
`Visible`). `QueueIsApplied` and `NavigateGoes` are the facts about the host.
`NewsManifestsServePrint`: `CacheSound` (each issue once, bounded, through a
removal and an append), and `PrintIsOwed`: a cached current issue has its button,
or a load to complete, a worker that has not looked yet, or a message.
*Gopher*, for any addresses, history size and number of fetches.
`GopherHistoryIsTrail`: `OnTrail` says that nothing was visited yet, or that the
trail is the two stacks laid around one page (`Laid`), which is the current one or
the one a Back or Forward is fetching. `LaidBack`, `LaidForward` and `LaidUpTo`
are what a move between the stacks and a new visit do to that sequence,
`VisitedIs` adds the bound; `OneFetch` says that there is one request or result.
*GW-BASIC*, for any sizes and any number of machines. `BasicWakeIsKept`: a worker
waits only for a reason that ends with a wake (`WaitHasReason`), the stop event is
set only during a join (`StopIsBrief`), and the exit flag is of the machine that
is there (`ExitIsOwn`).
`BasicKeysArrive`: what a feed may still push fits into the queue beside what the
user may type meanwhile, so no pasted key is dropped by a full queue (`RoomIsKept`);
the pasted keys that are queued come after the last one read, in order
(`PasteInTurn`), and are, as long as none was thrown away, all of them up to
`paste_pos` (`PasteIsWhole`); the user's are in order (`UserInTurn`); no queued key is
of a text pasted later (`TypedBefore`). `Discarded` is what a Ctrl-Break and the
guest's flush have in common: they may end `whole`, and nothing else. It rests on the
model's bound of `Reserve` keys typed during one feed, which is what the code's
`+ 8` relies on. `OneMore` and `OneFewer` are the queue with a key more and a key
fewer.
*IRC*, for any window and any number of connections and messages.
`IrcNotBothWaiting`: while the server holds registration back, what releases it
is under way (`HeldIsReleased`), and so is what answers the nickname up to the
join (`NickIsAnswered`); that the list is asked for once (`OneNegotiation`) makes
both inductive. `Arrive` and `LineTaken` say which commands a queue of lines holds
after lines arrive or one is taken. `IrcPaneIsChannel`: the channel of a message
is followed through lines and posted text to the pane as one queue (`Flows`). In it
a message told for the first time is newer than all before it, and one told again
is no older than the replay window (`OnTheWay`). The ring the viewer compares with
is the end of the pane (`RingIsEnd`), so what has left it is older than any replay
(`NotSeenIsNew`), and no worker talks without a client (`Control`).

Recursive functions (`Parsed`, `Payload`, the flattening of a sequence) are unfolded
one step at a time, and what holds of every length is proved from the least length at
which it could fail (`CountsUp`, the library's well-founded induction used on a set of
numbers), since a theorem with an operator as parameter cannot be instantiated here.

Every safety invariant of a passing run is a theorem. Only model-checked are the
liveness properties, which this prover does not do: `WaitsEnd`, the end of
`CancelObeyed`, `LinkEnds`, `SessionsEnd`, `NegotiationEnds`, `CheckConcludes`,
`JobsEnd`, `StopEnds`, `EveryWindowCloses`, `ConnectingEnds`, `WorkerReleased`,
`FetchesEnd`, and `TabRuns`, which no run checks.

## 8 What is left out

* Running out of memory, but for the copy of the ring's tail, and threads that cannot
  be created, but where a module has the failure as a step.
* What is drawn, shown or formatted; progress messages; file names beyond the
  search for a free one. The content of a block matters only in `ZmodemLink`.
* Name resolution and the choice of an address are one outcome, success or not.
* The JSON of the manifest, the check of the download's host, the command line
  of the installer. SHA-256 is taken to tell two installers apart.
* The parsing of the Archie reply (each datagram stands for its hits) and the
  text of FTP replies other than the one that decides.
* Radio, audio and web: the decoders, the device, the scripts and messages of a
  page, the cover cache, Save PDF, the printing itself, the level meter's value.
* Television: the size and place of the picture, PAUSE events, the log's poll
  thread, the reference count of Media Foundation.
* IRC: the cutting of lines and the numerics whose effect is one SYSTEM event.
* Gopher: the menu parser, the image viewer. GW-BASIC: the processor (vendored),
  BIOS and DOS but for the keyboard, sound, screen, folder.
* The processes of the far ends, modelled from how the code uses them: the Zmodem
  sender and the framing of mbzm, the telnet server, sockets, the publisher, the
  Archie and FTP servers, the radio and IRC servers, the browser, the BASIC
  program, the network.
* The components of section 1.2, in the order of the plan; vendored code, tools
  and installer not at all.
