----------------------------- MODULE GwBasicTab -----------------------------
(* The GW-BASIC tab (gwbasic_module.c): the UI thread, the worker that owns  *)
(* the machine and ticks it, the two events and two flags between them, the  *)
(* paste that the worker types in, and the machine's keyboard queue          *)
(* (gwb_machine.c), which both threads fill and which the guest reads,       *)
(* flushes and fills too.                                                    *)
EXTENDS Integers, Sequences, SequencesExt

CONSTANTS
    PasteLen,    \* keystrokes of a pasted text
    QueueCap,    \* keys the queue holds, 63 in the code
    Reserve,     \* room gb_feed_paste leaves for the user, 8 in the code
    MaxInputs, MaxBoots    \* bounds: keys and pastes together, machines

ASSUME BasicAssumption ==
    /\ {PasteLen, QueueCap, Reserve} \subseteq Nat \ {0} /\ Reserve < QueueCap
    /\ {MaxInputs, MaxBoots} \subseteq Nat

\* A key is a user's, numbered; the n-th keystroke of the pasted text; the word a
\* Ctrl-Break queues; or one the guest pushes itself.
UserKey(n) == <<"user", n>>
PasteKey(id, n) == <<"paste", n, id>>
BreakKey == <<"break", 0>>
GuestKey == <<"guest", 0>>
Nothing == [paste |-> 0, user |-> 0]

VARIABLES
    ui,                 \* the UI thread: "free", in gb_stop_thread ("restarting", "closing"), or "closed"
    worker,             \* where gb_worker is, or "none"
    g_stop, g_wake,     \* the events: manual and auto reset
    g_paused, g_exited,
    guest,              \* the machine: "none", "runs" or "exited"
    break_req,
    kq, kq_visible,     \* the queue, and how many of its keys have arrived
    paste_pos,          \* g_paste_pos; PasteLen when g_paste is NULL
    quota,              \* keys this feed may still push
    guestRead,          \* the last of the paste and of the user that the guest has read
    whole,              \* a text was pasted here and none of its queued keys was discarded
    typed, typedInFeed, pastes, boots,
    left                \* a join timed out: the worker still runs on what is freed

keyVars == <<kq, kq_visible, guestRead, typed, typedInFeed>>
pasteVars == <<paste_pos, quota, pastes, whole>>
flagVars == <<g_stop, g_wake, g_paused, g_exited>>
machineVars == <<guest, break_req, boots>>
basicVars == <<ui, worker, left, keyVars, pasteVars, flagVars, machineVars>>

IsPasted(k) == k[1] = "paste" /\ k[3] = pastes
IsTyped(k) == k[1] = "user"
NonePasted == \A k \in Range(kq) : ~IsPasted(k)

BasicInit ==
    /\ ui = "free" /\ worker = "none" /\ left = FALSE
    /\ g_stop = FALSE /\ g_wake = FALSE /\ g_paused = TRUE /\ g_exited = FALSE
    /\ guest = "none" /\ break_req = FALSE /\ boots = 0
    /\ kq = <<>> /\ kq_visible = 0 /\ guestRead = Nothing /\ typed = 0 /\ typedInFeed = 0
    /\ paste_pos = PasteLen /\ quota = 0 /\ pastes = 0 /\ whole = FALSE

-------------------------------------------------------------------------------
(* The UI thread. *)

\* gb_start without a machine: boots one, which may fail, and starts the worker.
Boots ==
    /\ g_exited' = FALSE /\ break_req' = FALSE
    /\ \/ boots < MaxBoots /\ boots' = boots + 1 /\ guest' = "runs" /\ worker' = "top"
       \/ boots' = boots /\ guest' = "none" /\ worker' = "none"

gwbasic_module_activate_NoWake == g_wake' = g_wake
gwbasic_module_activate_Wakes == g_wake' = TRUE
gwbasic_module_activate ==
    /\ ui = "free" /\ g_paused
    /\ IF guest = "none" THEN Boots ELSE UNCHANGED <<worker, g_exited, machineVars>>
    /\ g_paused' = FALSE /\ gwbasic_module_activate_Wakes
    /\ UNCHANGED <<ui, left, g_stop, keyVars, pasteVars>>

gwbasic_module_deactivate ==
    /\ ui = "free" /\ ~g_paused /\ g_paused' = TRUE
    /\ UNCHANGED <<ui, worker, left, g_stop, g_wake, g_exited, keyVars, pasteVars, machineVars>>

\* gwb_push_key: a key that finds the queue full is dropped.
Pushed(q, k) == IF Len(q) < QueueCap THEN Append(q, k) ELSE q

\* The user types no more than Reserve keys while one feed is under way.
KeyTyped ==
    /\ ui = "free" /\ ~g_paused /\ guest # "none" /\ ~g_exited /\ typed + pastes < MaxInputs
    /\ typed' = typed + 1
    /\ IF worker \in {"room", "feed"} THEN typedInFeed < Reserve /\ typedInFeed' = typedInFeed + 1
                          ELSE UNCHANGED typedInFeed
    /\ kq' = Pushed(kq, UserKey(typed'))
    /\ UNCHANGED <<ui, worker, left, kq_visible, guestRead, pasteVars, flagVars, machineVars>>

CtrlBreak ==
    /\ ui = "free" /\ ~g_paused /\ guest # "none" /\ ~g_exited /\ break_req' = TRUE
    /\ UNCHANGED <<ui, worker, left, keyVars, pasteVars, flagVars, guest, boots>>

\* Under g_lock: an unfinished paste is replaced.
gb_paste_clipboard ==
    /\ ui = "free" /\ ~g_paused /\ guest # "none" /\ worker # "feed" /\ typed + pastes < MaxInputs
    /\ pastes' = pastes + 1 /\ paste_pos' = 0 /\ whole' = TRUE
    /\ guestRead' = [guestRead EXCEPT !.paste = 0]
    /\ UNCHANGED <<ui, worker, left, kq, kq_visible, typed, typedInFeed, quota, flagVars, machineVars>>

\* The Restart button, and any key once the program has ended.
Restart ==
    /\ ui = "free" /\ ~g_paused
    /\ ui' = "restarting" /\ g_stop' = (g_stop \/ worker # "none")
    /\ UNCHANGED <<worker, left, g_wake, g_paused, g_exited, keyVars, pasteVars, machineVars>>

\* gb_stop_thread has joined the worker: the rest of gb_restart.
gb_stop_thread_NoReset == UNCHANGED g_stop
gb_stop_thread == g_stop' = FALSE
Joined ==
    /\ worker \in {"none", "ended"} /\ gb_stop_thread
    /\ kq' = <<>> /\ kq_visible' = 0 /\ guestRead' = Nothing /\ paste_pos' = PasteLen /\ whole' = FALSE
    /\ UNCHANGED <<left, g_paused, typed, typedInFeed, pastes, quota>>
gb_restart ==
    /\ ui = "restarting" /\ ui' = "free" /\ Joined
    /\ Boots /\ g_wake' = TRUE

\* A worker that is held in a tick by a file the guest reads or writes.
JoinTimesOut ==
    /\ ui \in {"restarting", "closing"} /\ worker = "tick" /\ left' = TRUE
    /\ UNCHANGED <<ui, worker, keyVars, pasteVars, flagVars, machineVars>>

CloseSuite ==
    /\ ui = "free" /\ ui' = "closing" /\ g_stop' = (g_stop \/ worker # "none")
    /\ UNCHANGED <<worker, left, g_wake, g_paused, g_exited, keyVars, pasteVars, machineVars>>
gwbasic_module_shutdown ==
    /\ ui = "closing" /\ ui' = "closed" /\ Joined /\ worker' = "none" /\ guest' = "none"
    /\ UNCHANGED <<g_wake, g_exited, break_req, boots>>

-------------------------------------------------------------------------------
(* The worker. *)

\* The event and the flags are looked at; then gb_feed_paste asks for the room,
\* outside g_lock.
Occupied_NoReserve == Len(kq)
Occupied == Len(kq) + Reserve
Top ==
    /\ worker = "top"
    /\ IF g_stop THEN worker' = "ended" /\ UNCHANGED quota
       ELSE IF g_paused \/ g_exited THEN worker' = "wait" /\ UNCHANGED quota
       ELSE worker' = "room" /\ quota' = (IF Occupied < QueueCap THEN QueueCap - Occupied ELSE 0)
    /\ UNCHANGED <<ui, left, keyVars, paste_pos, pastes, whole, flagVars, machineVars>>

Wait ==
    /\ worker = "wait" /\ (g_stop \/ g_wake)
    /\ IF g_stop THEN worker' = "ended" /\ UNCHANGED g_wake
                 ELSE worker' = "top" /\ g_wake' = FALSE
    /\ UNCHANGED <<ui, left, g_stop, g_paused, g_exited, keyVars, pasteVars, machineVars>>

FeedBegins ==
    /\ worker = "room" /\ worker' = "feed"
    /\ UNCHANGED <<ui, left, keyVars, pasteVars, flagVars, machineVars>>

FeedKey ==
    /\ worker = "feed" /\ quota > 0 /\ paste_pos < PasteLen
    /\ quota' = quota - 1 /\ paste_pos' = paste_pos + 1
    /\ kq' = Pushed(kq, PasteKey(pastes, paste_pos'))
    /\ UNCHANGED <<ui, worker, left, kq_visible, guestRead, typed, typedInFeed, pastes, whole, flagVars, machineVars>>

\* gwb_run_tick's beginning: a Ctrl-Break empties the queue and queues its own
\* word, then one key arrives.
Arrived(n, q) == IF n < Len(q) THEN n + 1 ELSE n
TickBegins ==
    /\ worker = "feed" /\ (quota = 0 \/ paste_pos = PasteLen) /\ worker' = "tick"
    /\ break_req' = FALSE /\ quota' = 0 /\ typedInFeed' = 0
    /\ kq' = (IF break_req THEN <<BreakKey>> ELSE kq)
    /\ kq_visible' = (IF break_req THEN 1 ELSE Arrived(kq_visible, kq))
    /\ whole' = (whole /\ (break_req => NonePasted))
    /\ UNCHANGED <<ui, left, guestRead, typed, paste_pos, pastes, flagVars, guest, boots>>

Noted(k) == guestRead' = [guestRead EXCEPT !.paste = IF IsPasted(k) THEN k[2] ELSE @, !.user = IF IsTyped(k) THEN k[2] ELSE @]

\* The guest takes a key that has arrived, or halts until one does.
key_pop_Peeks == UNCHANGED kq
key_pop == kq' = Tail(kq)
GuestReads ==
    /\ worker = "tick" /\ guest = "runs" /\ kq_visible > 0
    /\ Noted(Head(kq)) /\ key_pop /\ kq_visible' = kq_visible - 1
    /\ UNCHANGED <<ui, worker, left, typed, typedInFeed, pasteVars, flagVars, machineVars>>

\* INT 21h AH=0Ch: whatever is queued is thrown away, what was pasted too.
key_clear_KeepsVisible == kq' = <<>> /\ UNCHANGED kq_visible
key_clear == kq' = <<>> /\ kq_visible' = 0
GuestFlushes ==
    /\ worker = "tick" /\ guest = "runs" /\ key_clear
    /\ whole' = (whole /\ NonePasted)
    /\ UNCHANGED <<ui, worker, left, guestRead, typed, typedInFeed, paste_pos, quota, pastes, flagVars, machineVars>>

\* INT 16h AH=05h: the guest puts a key behind the others.
GuestPushes ==
    /\ worker = "tick" /\ guest = "runs" /\ kq' = Pushed(kq, GuestKey)
    /\ UNCHANGED <<ui, worker, left, kq_visible, guestRead, typed, typedInFeed, pasteVars, flagVars, machineVars>>

GuestHalts ==
    /\ worker = "tick" /\ guest = "runs" /\ kq_visible = 0 /\ kq # <<>> /\ kq_visible' = 1
    /\ UNCHANGED <<ui, worker, left, kq, guestRead, typed, typedInFeed, pasteVars, flagVars, machineVars>>

GuestExits ==
    /\ worker = "tick" /\ guest = "runs" /\ guest' = "exited"
    /\ UNCHANGED <<ui, worker, left, break_req, boots, keyVars, pasteVars, flagVars>>

\* The snapshot; then the rest of the tick's time, or the end of the program.
TickEnds ==
    /\ worker = "tick"
    /\ g_exited' = (g_exited \/ guest = "exited") /\ worker' = "top"
    /\ UNCHANGED <<ui, left, g_stop, g_wake, g_paused, keyVars, pasteVars, machineVars>>

-------------------------------------------------------------------------------
BasicUser ==
    \/ gwbasic_module_activate \/ gwbasic_module_deactivate \/ KeyTyped \/ CtrlBreak
    \/ gb_paste_clipboard \/ Restart \/ CloseSuite
BasicUi == gb_restart \/ gwbasic_module_shutdown
BasicWorker ==
    \/ Top \/ Wait \/ FeedBegins \/ FeedKey \/ TickBegins \/ GuestReads
    \/ GuestFlushes \/ GuestPushes \/ GuestHalts \/ GuestExits \/ TickEnds
\* What the program does once two threads share a machine that was freed is
\* undefined and not followed.
BasicNext == ~left /\ (BasicUser \/ BasicUi \/ JoinTimesOut \/ BasicWorker)

(* Threads are scheduled; a tick runs for a budget of instructions, so the    *)
(* guest cannot keep the worker in it.                                        *)
BasicSpec == BasicInit /\ [][BasicNext]_basicVars
             /\ WF_basicVars(~left /\ BasicUi) /\ WF_basicVars(~left /\ BasicWorker)
             /\ WF_basicVars(~left /\ TickEnds)

-------------------------------------------------------------------------------
(* A pasted text is typed in, in order, however the queue fills and whatever  *)
(* the user and the guest push meanwhile; and whole, unless a Ctrl-Break, a   *)
(* flush by the guest, a restart or the next paste discards part of it.  The  *)
(* user's keys, some of which a full queue or a flush drops, arrive in the    *)
(* order they were typed (gwbasic_module.c:228-240, where the room is read    *)
(* before the lock is taken; gwb_machine.c:212-263, 1567-1569, 2255-2272).    *)
PastedAt == {i \in DOMAIN kq : IsPasted(kq[i])}
TypedAt == {i \in DOMAIN kq : IsTyped(kq[i])}
InTurn(places, last) ==
    \A i \in places : kq[i][2] > last /\ \A j \in places : i < j => kq[i][2] < kq[j][2]
KeysArrive ==
    /\ InTurn(PastedAt, guestRead.paste) /\ InTurn(TypedAt, guestRead.user)
    /\ whole => {kq[i][2] : i \in PastedAt} = guestRead.paste + 1 .. paste_pos
    /\ kq_visible <= Len(kq)

(* While the tab is on the screen and its program has not ended there is a    *)
(* worker, and one that waits has a wake on its way: none is lost between its *)
(* look at the flags and its wait, across hiding, showing, ends and restarts  *)
(* (gwbasic_module.c:416-424, 478-525, 1238-1240).                            *)
WakeIsKept ==
    ui = "free" /\ ~g_paused /\ guest = "runs" =>
        worker \notin {"none", "ended"} /\ (worker = "wait" => g_wake \/ g_stop)

(* So the machine is ticked again and again while it is shown, by a worker    *)
(* that no wake has passed by (gwbasic_module.c:412-471, 1238-1240).          *)
TabRuns == (~g_paused /\ guest = "runs") ~> (worker = "tick" \/ g_paused \/ guest # "runs" \/ ui # "free" \/ left)

-------------------------------------------------------------------------------
(* What a comment says and the code does not do.                             *)

(* gwb_machine.h:50, "One thread owns the machine": a join that gives up      *)
(* after 5 s frees it under the worker and starts a second one.               *)
OneOwner == ~left
===============================================================================
