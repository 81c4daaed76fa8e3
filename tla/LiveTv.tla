------------------------------- MODULE LiveTv -------------------------------
(***************************************************************************)
(* Live TV: the tab (livetv_module.c) over the player                      *)
(* (player_service.c), which wraps the Media Foundation engine.  Three     *)
(* threads meet here without a lock: the UI thread; the load worker of an  *)
(* attempt, which may wait ten seconds for the stream and five more for    *)
(* the muted warm-up; and the engine's callback, which releases the worker *)
(* and posts to the window.  The player's state and the tab's are written  *)
(* from both the UI thread and the workers.                                *)
(*                                                                         *)
(* Attempts are numbered from 1.  The player and the worker of an attempt  *)
(* have its number, and 0 is NULL.  An address is not used again: a number *)
(* names one player for ever.                                              *)
(***************************************************************************)
EXTENDS Naturals, Sequences, FiniteSets

CONSTANTS
  MaxPlays,     \* bound: attempts of the user
  MaxEvents     \* bound: events the engines raise

ASSUME TvAssumption == MaxPlays \in Nat /\ MaxEvents \in Nat

VARIABLES
  tvState,          \* st->state, in lower case; "gone" when the pane is destroyed
  st_player,        \* st->player
  g_active_player,
  players,          \* the players, each with its engine
  loader,           \* the workers: [at, step, player]
  notify,           \* the callback between its read of owner and its post
  tvBox,            \* WM_PLAYER_ENGINE_EVENT messages posted, oldest first
  tvUi,             \* "loop", "join", "closing" (in a join), "down", or "crashed"
  plays, raised,    \* attempts, and events of the engines, so far
  alone             \* history: no attempt was begun while an earlier worker was under way

tvVars == <<tvState, st_player, g_active_player, players, loader, notify, tvBox, tvUi, plays, raised, alone>>

Plays == 1..MaxPlays

\* engine: "none" before it is created, "idle", "source" (loading), "play",
\* "failed" after an ERROR event, "null" when it is destroyed.
NewPlayer == [state |-> "IDLE", engine |-> "none", muted |-> FALSE, warming_up |-> FALSE]

TvInit ==
  /\ tvState = "splash" /\ st_player = 0 /\ g_active_player = 0
  /\ players = [p \in Plays |-> NewPlayer]
  /\ loader = [i \in Plays |-> [at |-> "none", step |-> 1, player |-> 0]]
  /\ notify = <<>> /\ tvBox = <<>> /\ tvUi = "loop" /\ plays = 0 /\ raised = 0
  /\ alone = TRUE

Exists(p) == players[p].engine \notin {"none", "null"}
Event(kind, p) == [event |-> kind, player |-> p]

\* lt_player_state_cb, on whichever thread calls it.
Shown(state) ==
  CASE tvState = "gone"  -> tvState
    [] state = "PLAYING" -> "playing"
    [] state = "ERROR"   -> "error"
    [] OTHER             -> tvState

-----------------------------------------------------------------------------
(* The engine (external) and its callback.                                 *)

\* What an engine may raise; a live stream may stall and play again.  The event
\* CANPLAYTHROUGH only releases the worker, see WaitOver.
Raisable(p) ==
  CASE players[p].engine = "source" -> {"LOADEDMETADATA", "ERROR"}
    [] players[p].engine = "play"   -> {"LOADEDMETADATA", "PLAYING", "ERROR"}
    [] OTHER                        -> {}

\* EventNotify: owner is read ...
MfRaises(p, kind) ==
  /\ tvUi # "crashed" /\ notify = <<>>
  /\ raised < MaxEvents /\ kind \in Raisable(p)
  /\ raised' = raised + 1
  /\ notify' = <<Event(kind, p)>>
  /\ players' = [players EXCEPT ![p].engine = IF kind = "ERROR" THEN "failed" ELSE @]
  /\ UNCHANGED <<tvState, st_player, g_active_player, loader, tvBox, tvUi, plays, alone>>

\* ... and the event posted, perhaps after player_destroy has drained the queue.
MfPosts ==
  /\ tvUi # "crashed" /\ notify # <<>>
  /\ notify' = <<>>
  /\ tvBox' = IF tvState = "gone" THEN tvBox ELSE tvBox \o notify
  /\ UNCHANGED <<tvState, st_player, g_active_player, players, loader, tvUi, plays, raised, alone>>

-----------------------------------------------------------------------------
(* lt_load_worker and player_load_hls, in the worker of attempt i.         *)

At(i, place) == loader[i].at = place /\ tvUi # "crashed"
Goes(i, place) == loader' = [loader EXCEPT ![i].at = place]

LoaderStarts(i) ==
  /\ At(i, "start")
  /\ loader' = [loader EXCEPT ![i].at = IF st_player = 0 THEN "done" ELSE "load", ![i].player = st_player]
  /\ UNCHANGED <<tvState, st_player, g_active_player, players, notify, tvBox, tvUi, plays, raised, alone>>

\* SetSource takes the address ...
SourceSet(i) ==
  LET p == loader[i].player IN
  /\ At(i, "load") /\ Exists(p)
  /\ Goes(i, "wait")
  /\ players' = [players EXCEPT ![p].state = "LOADING", ![p].engine = "source"]
  /\ UNCHANGED <<tvState, st_player, g_active_player, notify, tvBox, tvUi, plays, raised, alone>>

\* ... or refuses it; a player destroyed by now has no engine to ask.
SourceRefused(i) ==
  LET p == loader[i].player IN
  /\ At(i, "load")
  /\ Goes(i, "failed")
  /\ IF Exists(p)
     THEN players' = [players EXCEPT ![p].state = "ERROR"] /\ tvState' = Shown("ERROR")
     ELSE UNCHANGED <<players, tvState>>
  /\ UNCHANGED <<st_player, g_active_player, notify, tvBox, tvUi, plays, raised, alone>>

\* The wait ends by CANPLAYTHROUGH, by ERROR, or by its watchdog at any time; that
\* the event is set therefore decides nothing.  An error is in state only if the
\* UI thread has handled its message already.
WaitOver(i) ==
  LET p == loader[i].player IN
  /\ At(i, "wait")
  /\ IF players[p].state = "ERROR" THEN Goes(i, "failed") /\ tvState' = Shown("ERROR")
     ELSE Goes(i, IF Exists(p) THEN "warm" ELSE "tail") /\ UNCHANGED tvState
  /\ UNCHANGED <<st_player, g_active_player, players, notify, tvBox, tvUi, plays, raised, alone>>

\* The muted warm-up, step by step.
WarmUp_GateLast   == <<"play muted", "gate", "unmute", "ungate", "refire">>
WarmUp_OpensEarly == <<"gate", "play muted", "ungate", "unmute", "refire">>
WarmUp_NoRefire   == <<"gate", "play muted", "unmute", "ungate">>
WarmUp == <<"gate", "play muted", "unmute", "ungate", "refire">>

Playing(q) == [q EXCEPT !.engine = IF @ = "source" THEN "play" ELSE @]

\* What a step does to its player.  All but "ungate" go through p->engine, which
\* player_destroy sets to NULL although the worker holds a reference to it.
Warmed(q, step) ==
  CASE step = "gate"       -> [q EXCEPT !.warming_up = TRUE]
    [] step = "play muted" -> [Playing(q) EXCEPT !.muted = TRUE]
    [] step = "unmute"     -> [q EXCEPT !.muted = FALSE]
    [] step = "ungate"     -> [q EXCEPT !.warming_up = FALSE]
    [] OTHER               -> q

WarmsUp(i) ==
  LET p == loader[i].player
      n == loader[i].step
  IN
  /\ At(i, "warm")
  /\ IF WarmUp[n] # "ungate" /\ ~Exists(p)
     THEN tvUi' = "crashed" /\ UNCHANGED <<players, loader, tvBox>>
     ELSE /\ players' = [players EXCEPT ![p] = Warmed(@, WarmUp[n])]
          /\ loader' = [loader EXCEPT ![i].step = @ + 1, ![i].at = IF n < Len(WarmUp) THEN @ ELSE "tail"]
          /\ tvBox' = IF WarmUp[n] = "refire" /\ p = g_active_player
                      THEN Append(tvBox, Event("PLAYING", p)) ELSE tvBox
          /\ UNCHANGED tvUi
  /\ UNCHANGED <<tvState, st_player, g_active_player, notify, plays, raised, alone>>

\* After the warm-up the state is looked at ...
LooksAtState(i) ==
  LET s == players[loader[i].player].state IN
  /\ At(i, "tail")
  /\ Goes(i, CASE s = "ERROR" -> "failed" [] s = "LOADING" -> "loaded" [] OTHER -> "play")
  /\ tvState' = IF s = "ERROR" THEN Shown("ERROR") ELSE tvState
  /\ UNCHANGED <<st_player, g_active_player, players, notify, tvBox, tvUi, plays, raised, alone>>

\* ... and written, whatever the UI thread wrote meanwhile.
BecomesLoaded(i) ==
  /\ At(i, "loaded")
  /\ Goes(i, "play")
  /\ players' = [players EXCEPT ![loader[i].player].state = "LOADED"]
  /\ UNCHANGED <<tvState, st_player, g_active_player, notify, tvBox, tvUi, plays, raised, alone>>

\* player_play of the player st->player then is.
LoaderPlays(i) ==
  /\ At(i, "play")
  /\ Goes(i, "done")
  /\ players' = [p \in Plays |-> IF p = st_player THEN Playing(players[p]) ELSE players[p]]
  /\ UNCHANGED <<tvState, st_player, g_active_player, notify, tvBox, tvUi, plays, raised, alone>>

\* The worker's own st->state = LT_STATE_ERROR.
LoaderFails(i) ==
  /\ At(i, "failed")
  /\ Goes(i, "done")
  /\ tvState' = Shown("ERROR")
  /\ UNCHANGED <<st_player, g_active_player, players, notify, tvBox, tvUi, plays, raised, alone>>

-----------------------------------------------------------------------------
(* The UI thread.                                                          *)

\* player_handle_window_event: a message of a player that is not the active one
\* is dropped.
IsOurs_Always(p) == TRUE
IsOurs(p) == p = g_active_player

NewState(q, kind) ==
  CASE kind = "LOADEDMETADATA" /\ q.state = "LOADING" -> "LOADED"
    [] kind = "PLAYING" /\ ~q.warming_up              -> "PLAYING"
    [] kind = "ERROR"                                 -> "ERROR"
    [] OTHER                                          -> q.state

OnEngineEvent ==
  /\ tvUi = "loop" /\ tvBox # <<>>
  /\ tvBox' = Tail(tvBox)
  /\ LET p == Head(tvBox).player
         s == NewState(players[p], Head(tvBox).event)
     IN  IF IsOurs(p) /\ s # players[p].state
         THEN players' = [players EXCEPT ![p].state = s] /\ tvState' = Shown(s)
         ELSE UNCHANGED <<players, tvState>>
  /\ UNCHANGED <<st_player, g_active_player, loader, notify, tvUi, plays, raised, alone>>

\* A click, Space or Enter is input: every posted message has been handled.
Clicked == tvUi = "loop" /\ tvBox = <<>>

\* lt_enter_loading: a player that is still there after an error is forgotten.
EnterLoadingTv ==
  /\ Clicked /\ tvState \in {"splash", "error"} /\ plays < MaxPlays
  /\ plays' = plays + 1
  /\ players' = [players EXCEPT ![plays'].engine = "idle"]
  /\ st_player' = plays' /\ g_active_player' = plays'
  /\ loader' = [loader EXCEPT ![plays'].at = "start"]
  /\ tvState' = "loading"
  /\ alone' = (alone /\ \A i \in Plays : loader[i].at \in {"none", "done"})
  /\ UNCHANGED <<notify, tvBox, tvUi, raised>>

\* player_init fails, or player_create, whose NULL replaces the player.
EnterLoadingFails ==
  /\ Clicked /\ tvState \in {"splash", "error"}
  /\ tvState' = "error"
  /\ st_player' \in {st_player, 0}
  /\ UNCHANGED <<g_active_player, players, loader, notify, tvBox, tvUi, plays, raised, alone>>

\* player_stop and player_destroy: the slot is given up, owner is NULL from now
\* on, the queue is drained, the engine shut down and released.
PlayerDestroyed ==
  /\ players' = IF st_player = 0 THEN players
                ELSE [players EXCEPT ![st_player].state = "STOPPED", ![st_player].engine = "null"]
  /\ g_active_player' = IF g_active_player = st_player THEN 0 ELSE g_active_player
  /\ tvBox' = IF st_player = 0 THEN tvBox ELSE <<>>
  /\ st_player' = 0

\* lt_enter_splash up to the join of the worker, which gives up after 500 ms.
StopTv ==
  /\ Clicked /\ tvState = "playing"
  /\ PlayerDestroyed
  /\ tvUi' = "join"
  /\ UNCHANGED <<tvState, loader, notify, plays, raised, alone>>

EnterSplash ==
  /\ tvUi = "join"
  /\ tvUi' = "loop" /\ tvState' = "splash"
  /\ UNCHANGED <<st_player, g_active_player, players, loader, notify, tvBox, plays, raised, alone>>

\* WM_DESTROY, at the end of the program, up to the same join, and its end.
PaneCloses ==
  /\ tvUi = "loop"
  /\ PlayerDestroyed
  /\ tvUi' = "closing"
  /\ UNCHANGED <<tvState, loader, notify, plays, raised, alone>>

PaneClosed ==
  /\ tvUi = "closing"
  /\ tvUi' = "down" /\ tvState' = "gone" /\ tvBox' = <<>>
  /\ UNCHANGED <<st_player, g_active_player, players, loader, notify, plays, raised, alone>>

Loader(i) ==
  \/ LoaderStarts(i) \/ SourceSet(i) \/ SourceRefused(i) \/ WaitOver(i) \/ WarmsUp(i)
  \/ LooksAtState(i) \/ BecomesLoaded(i) \/ LoaderPlays(i) \/ LoaderFails(i)
UiTv == OnEngineEvent \/ EnterSplash \/ PaneClosed
TvUser == EnterLoadingTv \/ EnterLoadingFails \/ StopTv \/ PaneCloses

TvNext ==
  \/ \E i \in Plays : Loader(i)
  \/ \E p \in Plays : \E kind \in {"LOADEDMETADATA", "PLAYING", "ERROR"} : MfRaises(p, kind)
  \/ MfPosts \/ UiTv \/ TvUser

TvSpec == TvInit /\ [][TvNext]_tvVars

\* The workers run, their waits have time-outs and their steps are bounded;
\* callbacks and messages go on.
\* The engine need never raise anything.
TvFairness == WF_tvVars(\E i \in Plays : Loader(i)) /\ WF_tvVars(MfPosts) /\ WF_tvVars(UiTv)
TvLiveSpec == TvSpec /\ TvFairness

-----------------------------------------------------------------------------
(* Properties.                                                             *)

HasSound(p) == p # 0 /\ Exists(p) /\ ~players[p].muted

\* The picture is shown with its sound: while the tab says "playing" there is an
\* active player, and it is not muted, whatever events of the warm-up or of an
\* earlier player were under way (warming_up in player_handle_window_event, the
\* order of the warm-up in player_load_hls, the g_active_player check); unless
\* the worker of an earlier attempt was left to run beside this one.
PictureHasSound == alone /\ tvState = "playing" /\ tvUi = "loop" => HasSound(g_active_player)

\* "Connecting" ends although the PLAYING event of the engine is swallowed in the
\* warm-up, and even if the engine says nothing at all (the watchdog and the
\* synthetic event of player_load_hls).
ConnectingEnds == tvState = "loading" ~> tvState # "loading" \/ tvUi = "crashed"

-----------------------------------------------------------------------------
(* What comments say and the code does not do.                             *)

\* player_service.c:418: "only ever has one Player alive at a time": a retry
\* after an error creates the next without destroying the first.
OnePlayer == Cardinality({p \in Plays : Exists(p)}) <= 1

\* livetv_module.c:12: an error is left by a click.  The worker that the ERROR
\* event releases goes on before the UI thread has noted the error, and five
\* seconds later posts PLAYING.
ErrorStays == [][tvState = "error" => tvState' # "playing"]_tvState

\* livetv_module.c:509: picture and audible sound begin "in lockstep".  A worker that
\* an error and a retry have left behind ends with player_play of the player
\* that is there by then, before that one is muted for its own warm-up.
LockstepAlways == tvState = "playing" /\ tvUi = "loop" => HasSound(g_active_player)

\* player_service.c:843: the extra reference lets the warm-up survive a destroy;
\* the pointer it is used through is NULL by then.
WarmUpSurvivesDestroy == tvUi # "crashed"
=============================================================================
