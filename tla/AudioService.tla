---------------------------- MODULE AudioService ----------------------------
(***************************************************************************)
(* audio_service.c: one playback at a time, for the Gopher and Web tabs.   *)
(* A request on the UI thread creates a status window and a worker; the    *)
(* worker fetches, decodes and plays, and posts what it does to the        *)
(* window; its last message closes it.  Stop, or closing the window, only  *)
(* sets an event the worker looks at between its steps and while the       *)
(* device plays.                                                           *)
(*                                                                         *)
(* Everything is in globals: the window (g_status_hwnd), the buffers       *)
(* (g_in_buf, g_play_url, g_play_name, g_pcm), the device and the level    *)
(* meter of the window (g_meter).  A run is one accepted request; runs are *)
(* numbered from 1, and 0 stands for NULL.                                 *)
(***************************************************************************)
EXTENDS Naturals, Sequences

CONSTANT MaxRequests     \* bound: requests to play something

ASSUME AudioAssumption == MaxRequests \in Nat \ {0}

VARIABLES
  g_playing, g_status_hwnd, g_stop_event, g_done_event,
  g_thread,       \* the run whose worker the service can join
  buffers,        \* the run that filled g_in_buf, g_play_url and g_play_name
  g_meter,        \* the window whose level meter g_meter is
  device,         \* g_hwo: "closed", "playing", or "drained" (all of it was heard)
  player,         \* run -> where its worker is
  windows,        \* the status windows that exist
  label,          \* window -> the status it shows
  audioBox,       \* the UI thread's posted messages, oldest first
  requests,       \* requests so far
  runs,           \* accepted requests so far
  stopAsked,      \* was the current run asked to stop
  audioUi,        \* "loop", "stop" and "shutdown" (in a join), "down"
  audioHurt       \* what was used after it had been deleted or taken over

audioVars == <<g_playing, g_status_hwnd, g_stop_event, g_done_event, g_thread, buffers, g_meter, device,
               player, windows, label, audioBox, requests, runs, stopAsked, audioUi, audioHurt>>

Runs == 1..MaxRequests

AudioInit ==
  /\ g_playing = FALSE /\ g_status_hwnd = 0
  /\ g_stop_event = FALSE /\ g_done_event = FALSE
  /\ g_thread = 0 /\ buffers = 0 /\ g_meter = 0
  /\ device = "closed"
  /\ player = [r \in Runs |-> "none"]
  /\ windows = {}
  /\ label = [r \in Runs |-> "fetching"]
  /\ audioBox = <<>>
  /\ requests = 0 /\ runs = 0
  /\ stopAsked = FALSE
  /\ audioUi = "loop"
  /\ audioHurt = {}

-----------------------------------------------------------------------------
(* The worker of run r.  It posts to the window g_status_hwnd then names.   *)

ToWindow(kind) == IF g_status_hwnd = 0 THEN <<>> ELSE <<[to |-> g_status_hwnd, kind |-> kind]>>

Moves(r, from, to) == player[r] \in from /\ player' = [player EXCEPT ![r] = to]

\* The bytes have been fetched, or came with the request; the first look at the
\* stop event.
Fetched(r) ==
  /\ Moves(r, {"fetch"}, IF g_stop_event THEN "cleanup" ELSE "decode")
  /\ UNCHANGED <<g_playing, g_status_hwnd, g_stop_event, g_done_event, g_thread, buffers, g_meter, device,
                 windows, label, audioBox, requests, runs, stopAsked, audioUi, audioHurt>>

Decoded(r) ==
  /\ Moves(r, {"decode"}, IF g_stop_event THEN "cleanup" ELSE "open")
  /\ audioBox' = audioBox \o ToWindow("decoding")
  /\ UNCHANGED <<g_playing, g_status_hwnd, g_stop_event, g_done_event, g_thread, buffers, g_meter, device,
                 windows, label, requests, runs, stopAsked, audioUi, audioHurt>>

\* The fetch, the header, the decoder or the device may fail.
WorkFails(r) ==
  /\ Moves(r, {"fetch", "decode", "open"}, "fail")
  /\ UNCHANGED <<g_playing, g_status_hwnd, g_stop_event, g_done_event, g_thread, buffers, g_meter, device,
                 windows, label, audioBox, requests, runs, stopAsked, audioUi, audioHurt>>

\* audio_play_pcm: the whole sound is one buffer of the device.
DeviceOpened(r) ==
  /\ Moves(r, {"open"}, "wait")
  /\ audioBox' = audioBox \o ToWindow("playing")
  /\ device' = "playing"
  /\ UNCHANGED <<g_playing, g_status_hwnd, g_stop_event, g_done_event, g_thread, buffers, g_meter,
                 windows, label, requests, runs, stopAsked, audioUi, audioHurt>>

\* audio_waveout_proc: the device has played its buffer to the end.
WaveOutDone ==
  /\ device = "playing"
  /\ device' = "drained"
  /\ g_done_event' = TRUE
  /\ UNCHANGED <<g_playing, g_status_hwnd, g_stop_event, g_thread, buffers, g_meter, player,
                 windows, label, audioBox, requests, runs, stopAsked, audioUi, audioHurt>>

\* WaitForMultipleObjects: the done event, first in the array, is consumed.
WaitEnds(r) ==
  /\ g_done_event \/ g_stop_event
  /\ Moves(r, {"wait"}, "cleanup")
  /\ g_done_event' = FALSE
  /\ UNCHANGED <<g_playing, g_status_hwnd, g_stop_event, g_thread, buffers, g_meter, device,
                 windows, label, audioBox, requests, runs, stopAsked, audioUi, audioHurt>>

\* audio_close_waveout: a reset hands back a buffer that still plays, which sets
\* the done event although nobody waits for it any more.  Then the last two
\* messages.
LastWords_OnSuccess(how) == ToWindow(how) \o (IF how = "done" THEN ToWindow("close") ELSE <<>>)
LastWords(how) == ToWindow(how) \o ToWindow("close")

CleansUp(r, from, how) ==
  /\ Moves(r, {from}, "exit1")
  /\ g_done_event' = (g_done_event \/ device = "playing")
  /\ device' = "closed"
  /\ audioBox' = audioBox \o LastWords(how)
  /\ UNCHANGED <<g_playing, g_status_hwnd, g_stop_event, g_thread, buffers, g_meter,
                 windows, label, requests, runs, stopAsked, audioUi, audioHurt>>

CleanUp(r) == CleansUp(r, "cleanup", "done")
Fails(r)   == CleansUp(r, "fail", "error")

\* exit_thread: the buffers are freed, and only then the service is given free,
\* under the lock (which audio_service_shutdown may have deleted by now).
ExitOrder_GivesUpFirst == [free |-> "exit2", leave |-> "exit1"]
ExitOrder == [free |-> "exit1", leave |-> "exit2"]

AfterExit(at) == IF at = "exit1" THEN "exit2" ELSE "gone"

Frees(r) ==
  /\ Moves(r, {ExitOrder.free}, AfterExit(ExitOrder.free))
  /\ buffers' = 0
  /\ audioHurt' = IF buffers \in {0, r} THEN audioHurt ELSE audioHurt \cup {"buffers"}
  /\ UNCHANGED <<g_playing, g_status_hwnd, g_stop_event, g_done_event, g_thread, g_meter, device,
                 windows, label, audioBox, requests, runs, stopAsked, audioUi>>

Leaves(r) ==
  /\ Moves(r, {ExitOrder.leave}, AfterExit(ExitOrder.leave))
  /\ g_playing' = FALSE /\ g_status_hwnd' = 0
  /\ audioHurt' = IF audioUi = "down" THEN audioHurt \cup {"lock"} ELSE audioHurt
  /\ UNCHANGED <<g_stop_event, g_done_event, g_thread, buffers, g_meter, device,
                 windows, label, audioBox, requests, runs, stopAsked, audioUi>>

-----------------------------------------------------------------------------
(* The UI thread: requests and the status window's procedure.              *)

\* A click on a link of the Web page, or a download the Gopher tab has ready:
\* it waits in the queue like any other message.
PlayRequested ==
  /\ audioUi = "loop" /\ requests < MaxRequests
  /\ requests' = requests + 1
  /\ audioBox' = Append(audioBox, [to |-> 0, kind |-> "play"])
  /\ UNCHANGED <<g_playing, g_status_hwnd, g_stop_event, g_done_event, g_thread, buffers, g_meter, device,
                 player, windows, label, runs, stopAsked, audioUi, audioHurt>>

Handles(kind) == audioUi = "loop" /\ audioBox # <<>> /\ Head(audioBox).kind = kind

\* audio_start_common resets the events of the run before; the window's
\* WM_CREATE binds the level meter to it.
EventsReset_StopOnly == g_stop_event' = FALSE /\ UNCHANGED g_done_event
EventsReset == g_stop_event' = FALSE /\ g_done_event' = FALSE

\* audio_service_play_url and audio_service_play_bytes_named, accepted ...
PlayAccepted ==
  /\ Handles("play") /\ ~g_playing
  /\ runs' = runs + 1
  /\ g_playing' = TRUE
  /\ EventsReset
  /\ stopAsked' = FALSE
  /\ buffers' = runs'
  /\ g_status_hwnd' = runs' /\ windows' = windows \cup {runs'} /\ g_meter' = runs'
  /\ g_thread' = runs' /\ player' = [player EXCEPT ![runs'] = "fetch"]
  /\ audioBox' = Tail(audioBox)
  /\ UNCHANGED <<device, label, requests, audioUi, audioHurt>>

\* ... and refused: one playback at a time.
PlayRefused ==
  /\ Handles("play") /\ g_playing
  /\ audioBox' = Tail(audioBox)
  /\ UNCHANGED <<g_playing, g_status_hwnd, g_stop_event, g_done_event, g_thread, buffers, g_meter, device,
                 player, windows, label, requests, runs, stopAsked, audioUi, audioHurt>>

\* audio_status_set_label writes into the window g_status_hwnd names, which need
\* not be the window the message came for.
StatusShown ==
  /\ \E kind \in {"decoding", "playing", "done", "error"} : Handles(kind)
  /\ audioBox' = Tail(audioBox)
  /\ label' = IF g_status_hwnd = 0 THEN label ELSE [label EXCEPT ![g_status_hwnd] = Head(audioBox).kind]
  /\ UNCHANGED <<g_playing, g_status_hwnd, g_stop_event, g_done_event, g_thread, buffers, g_meter, device,
                 player, windows, requests, runs, stopAsked, audioUi, audioHurt>>

\* DestroyWindow of w: its messages go with it, and its WM_DESTROY destroys the
\* meter g_meter names.
Destroyed(w, box) ==
  /\ windows' = windows \ {w}
  /\ g_meter' = IF w \in windows THEN 0 ELSE g_meter
  /\ audioBox' = SelectSeq(box, LAMBDA msg : msg.to # w)

WindowClosed ==
  /\ Handles("close")
  /\ Destroyed(Head(audioBox).to, Tail(audioBox))
  /\ UNCHANGED <<g_playing, g_status_hwnd, g_stop_event, g_done_event, g_thread, buffers, device,
                 player, label, requests, runs, stopAsked, audioUi, audioHurt>>

\* The Stop button and the window's close box: input, so every posted message
\* has been handled.
StopClicked ==
  /\ audioUi = "loop" /\ audioBox = <<>> /\ windows # {}
  /\ g_stop_event' = TRUE /\ stopAsked' = TRUE
  /\ UNCHANGED <<g_playing, g_status_hwnd, g_done_event, g_thread, buffers, g_meter, device,
                 player, windows, label, audioBox, requests, runs, audioUi, audioHurt>>

-----------------------------------------------------------------------------
(* audio_service_shutdown, at the end of the program.                      *)

\* audio_service_stop up to its join: the device is reset from this thread.
ShutDown ==
  /\ audioUi = "loop"
  /\ audioUi' = IF g_playing THEN "stop" ELSE "shutdown"
  /\ g_stop_event' = (g_stop_event \/ g_playing)
  /\ stopAsked' = (stopAsked \/ g_playing)
  /\ IF g_playing /\ device = "playing"
     THEN device' = "drained" /\ g_done_event' = TRUE
     ELSE UNCHANGED <<device, g_done_event>>
  /\ UNCHANGED <<g_playing, g_status_hwnd, g_thread, buffers, g_meter,
                 player, windows, label, audioBox, requests, runs, audioHurt>>

Joined == \A r \in Runs : g_thread = r => player[r] = "gone"

\* A join gives up after five seconds; only the fetch takes that long.
AudioJoinEnds == \A r \in Runs : g_thread = r => player[r] \in {"gone", "fetch"}

\* The end of audio_service_stop: the window goes, the handle if it was joined.
StopReturns ==
  /\ audioUi = "stop" /\ AudioJoinEnds
  /\ audioUi' = "shutdown"
  /\ g_thread' = IF Joined THEN 0 ELSE g_thread
  /\ Destroyed(runs, audioBox)
  /\ UNCHANGED <<g_playing, g_status_hwnd, g_stop_event, g_done_event, buffers, device,
                 player, label, requests, runs, stopAsked, audioHurt>>

\* The second join; then the events and the lock are deleted.
ShutDownReturns ==
  /\ audioUi = "shutdown" /\ AudioJoinEnds
  /\ audioUi' = "down"
  /\ g_thread' = 0
  /\ UNCHANGED <<g_playing, g_status_hwnd, g_stop_event, g_done_event, buffers, g_meter, device,
                 player, windows, label, audioBox, requests, runs, stopAsked, audioHurt>>

AudioWorker(r) ==
  Fetched(r) \/ Decoded(r) \/ WorkFails(r) \/ DeviceOpened(r) \/ WaitEnds(r)
    \/ CleanUp(r) \/ Fails(r) \/ Frees(r) \/ Leaves(r)

AudioMessages == PlayAccepted \/ PlayRefused \/ StatusShown \/ WindowClosed

AudioNext ==
  \/ \E r \in Runs : AudioWorker(r)
  \/ WaveOutDone \/ PlayRequested \/ AudioMessages \/ StopClicked
  \/ ShutDown \/ StopReturns \/ ShutDownReturns

AudioSpec == AudioInit /\ [][AudioNext]_audioVars

\* The worker and the UI thread run; a sound is played to its end.
AudioFairness ==
  /\ WF_audioVars(\E r \in Runs : AudioWorker(r))
  /\ WF_audioVars(AudioMessages)
  /\ WF_audioVars(WaveOutDone)

AudioLiveSpec == AudioSpec /\ AudioFairness

-----------------------------------------------------------------------------
(* Properties.                                                             *)

\* A playback nobody stopped has been heard to its end when its device is
\* closed: a done or stop event left over from the run before does not cut it
\* (audio_start_common's two resets, the wait of audio_worker).  The buffers
\* and names of an accepted request are never freed by the worker of an earlier
\* one, and a free service holds none (audio_worker's exit_thread,
\* audio_service_play_bytes_named, which fills them outside the lock).
RunsAreApart ==
  /\ \A r \in Runs : player[r] = "cleanup" /\ ~stopAsked => device # "playing"
  /\ "buffers" \notin audioHurt
  /\ ~g_playing => buffers = 0 /\ device = "closed"

\* Every status window closes, whether its playback ended, failed or was
\* stopped (AUDIO_MSG_DONE): when nothing more is requested none is left, unless
\* the program ends first.
EveryWindowCloses == windows # {} ~> windows = {} \/ audioUi # "loop"

-----------------------------------------------------------------------------
(* What comments say and the code does not do.                             *)

\* audio_service.c:771-772: "so that a stale teardown can't race a fresh start":
\* a window of a finished run, destroyed when the next one has started, takes
\* the level meter of that one with it, and its last status is written there.
FreshStartKeepsMeter == g_playing /\ g_status_hwnd \in windows /\ audioUi = "loop" => g_meter = g_status_hwnd
FreshStartKeepsStatus ==
  \A r \in Runs : r \in windows /\ label[r] \in {"done", "error"} => player[r] \in {"exit1", "exit2", "gone"}

\* audio_service.c:1150: a wedged worker is let leak "rather than corrupt
\* state": the lock it enters on its way out is deleted by the shutdown.
LockOutlivesWorker == "lock" \notin audioHurt
=============================================================================
