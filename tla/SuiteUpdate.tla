----------------------------- MODULE SuiteUpdate -----------------------------
(***************************************************************************)
(* Help > Update (src/src/suite_update.c): the check on a worker thread,   *)
(* the offer, the verified download and the hand-over to the installer,    *)
(* over several launches of the Suite.  The publisher, the download, the   *)
(* user, the clock and the installer are external.                         *)
(*                                                                         *)
(* A release is its place in Releases, the versions in the order they are  *)
(* published; the code never sees that order and compares versions.        *)
(* The bytes of an installer are the release they install, 0 if damaged.   *)
(***************************************************************************)
EXTENDS Integers, Sequences

CONSTANTS
    Releases,   \* <<[n |-> major.minor.patch, pre |-> identifiers], ...>>
    Throttle,   \* UPDATE_THROTTLE_HOURS
    MaxClock,   \* bound: time that passes
    MaxLaunches \* bound: launches of the Suite

(* An identifier of a pre-release is a number or a word. *)
Number(v) == [num |-> TRUE, val |-> v]
Word(v) == [num |-> FALSE, val |-> v]

VARIABLES
    app,        \* SUITE_VERSION_STR: the release that is installed
    manifest,   \* what the update host serves: [v, floor], v = 0 for the placeholder
    now,        \* the clock
    enabled, last, skipped,     \* the settings in HKCU; last = -1 and skipped = 0: absent
    launches, proc,             \* launches so far; the process: off, up or closing
    due,        \* the startup timer is set
    busy, mode, \* g_busy and g_check_mode
    worker,     \* check or download thread: [at, r], r the UpdResult or UpdDownload
    msg,        \* RESULT and DLDONE posted to the main window
    ui,         \* the main window: [at, r], at loop or the box that is open
    file,       \* the downloaded installer on disk, -1 for none
    asked,      \* history: the user asked in this launch
    owed        \* history: the user asked and has seen no answer

settingVars == <<enabled, last, skipped>>
worldVars == <<app, manifest, now, launches>>
histVars == <<asked, owed>>
vars == <<worldVars, settingVars, proc, due, busy, mode, worker, msg, ui, file, histVars>>

-------------------------------------------------------------------------------
(* suite_update_compare_versions: negative, 0 or positive.                  *)

Sign(a, b) == IF a < b THEN -1 ELSE IF a > b THEN 1 ELSE 0

IdentCmp(x, y) == IF x.num # y.num THEN (IF x.num THEN -1 ELSE 1) ELSE Sign(x.val, y.val)

PreCmp(a, b) ==
    LET last1 == Len(a) + Len(b) + 1
        from[i \in 1 .. last1] ==
            IF i > Len(a) \/ i > Len(b) THEN Sign(Len(a), Len(b))
            ELSE IF IdentCmp(a[i], b[i]) # 0 THEN IdentCmp(a[i], b[i]) ELSE from[i + 1]
    IN  from[1]

Compare_PreNewer(a, b) ==
    IF a.n # b.n THEN Sign(a.n, b.n) ELSE PreCmp(a.pre, b.pre)
Compare(a, b) ==
    IF a.n # b.n THEN Sign(a.n, b.n)
    ELSE IF a.pre = <<>> \/ b.pre = <<>> THEN Sign(Len(b.pre), Len(a.pre))
    ELSE PreCmp(a.pre, b.pre)

Older(i, j) == Compare(Releases[i], Releases[j]) < 0

-------------------------------------------------------------------------------
Idle == [at |-> "none", r |-> [v |-> 0]]
Loop == [at |-> "loop", r |-> [v |-> 0]]

Init ==
    /\ app = 1 /\ manifest = [v |-> 0, floor |-> 0] /\ now = 0
    /\ enabled = TRUE /\ last = -1 /\ skipped = 0
    /\ launches = 0 /\ proc = "off" /\ due = FALSE
    /\ busy = FALSE /\ mode = "manual" /\ worker = Idle /\ msg = <<>> /\ ui = Loop
    /\ file = -1 /\ asked = FALSE /\ owed = FALSE

Launch ==
    /\ proc = "off" /\ launches < MaxLaunches
    /\ launches' = launches + 1 /\ proc' = "up" /\ due' = TRUE
    /\ busy' = FALSE /\ mode' = "manual" /\ msg' = <<>> /\ ui' = Loop
    /\ asked' = FALSE /\ owed' = FALSE
    /\ UNCHANGED <<app, manifest, now, settingVars, worker, file>>

(* start_check.  A second request is told that one is running. *)
StartCheck_NoFlag(m) ==
    mode' = m /\ busy' = TRUE /\ worker' = [at |-> "fetch", r |-> [v |-> 0]]
StartCheck(m) ==
    /\ mode' = m
    /\ IF busy THEN UNCHANGED <<busy, worker>>
       ELSE busy' = TRUE /\ worker' = [at |-> "fetch", r |-> [v |-> 0]]

ManualCheck ==
    /\ proc = "up" /\ ui.at = "loop"
    /\ StartCheck("manual")
    /\ asked' = TRUE /\ owed' = (owed \/ ~busy)
    /\ UNCHANGED <<worldVars, settingVars, proc, due, msg, ui, file>>

(* The one-shot timer, which a modal box does not hold back. *)
Recently == last >= 0 /\ (now <= last \/ now - last < Throttle)

StartupCheck ==
    /\ proc = "up" /\ due /\ due' = FALSE
    /\ IF enabled /\ ~Recently THEN StartCheck("startup") ELSE UNCHANGED <<busy, mode, worker>>
    /\ UNCHANGED <<worldVars, settingVars, proc, msg, ui, file, histVars>>

-------------------------------------------------------------------------------
(* check_thread *)

FetchReturns ==
    /\ worker.at = "fetch"
    /\ \E ok \in BOOLEAN :
          worker' = [at |-> "post", r |-> [ok |-> ok, v |-> manifest.v, floor |-> manifest.floor, mode |-> "none"]]
    /\ UNCHANGED <<worldVars, settingVars, proc, due, busy, mode, msg, ui, file, histVars>>

(* The mode of the answer is read last, and the check stamped whatever it   *)
(* found; without a window to post to, the flag is released here.           *)
Deliver(m) ==
    IF proc = "up" THEN msg' = Append(msg, m) /\ UNCHANGED busy
                   ELSE busy' = FALSE /\ UNCHANGED msg

CheckPosts ==
    /\ worker.at = "post"
    /\ last' = now
    /\ Deliver([what |-> "RESULT", r |-> [worker.r EXCEPT !.mode = mode]])
    /\ worker' = Idle
    /\ UNCHANGED <<worldVars, enabled, skipped, proc, due, mode, ui, file, histVars>>

(* download_thread: the file is hashed against the manifest that was        *)
(* offered, and deleted when it differs.                                    *)
DownloadReturns ==
    /\ worker.at = "download"
    /\ \/ \E bytes \in {0, worker.r.v} : file' = bytes /\ worker' = [worker EXCEPT !.at = "verify"]
       \/ file' = -1 /\ worker' = [at |-> "done", r |-> [v |-> worker.r.v, ok |-> FALSE]]
    /\ UNCHANGED <<worldVars, settingVars, proc, due, busy, mode, msg, ui, histVars>>

Matches_Any(bytes, v) == bytes >= 0
Matches(bytes, v) == bytes = v
Verify ==
    /\ worker.at = "verify"
    /\ LET ok == Matches(file, worker.r.v)
       IN  /\ worker' = [at |-> "done", r |-> [v |-> worker.r.v, ok |-> ok]]
           /\ file' = IF ok THEN file ELSE -1
    /\ UNCHANGED <<worldVars, settingVars, proc, due, busy, mode, msg, ui, histVars>>

DownloadPosts ==
    /\ worker.at = "done"
    /\ Deliver([what |-> "DLDONE", r |-> worker.r])
    /\ worker' = Idle
    /\ UNCHANGED <<worldVars, settingVars, proc, due, mode, ui, file, histVars>>

-------------------------------------------------------------------------------
(* on_result and on_download_done.  A box keeps the handler, and the flag,  *)
(* until the user answers.                                                  *)

Placeholder(r) == r.v = 0
Required(r) == r.floor > 0 /\ Older(app, r.floor)
WasSkipped_Exactly(r) == r.mode = "startup" /\ skipped = r.v
WasSkipped(r) == r.mode = "startup" /\ skipped > 0 /\ ~Older(skipped, r.v)

Release_Forgotten == UNCHANGED busy
Release == busy' = FALSE
Say_Always(r) == ui' = [at |-> "notice", r |-> r] /\ owed' = FALSE /\ UNCHANGED busy
Say(r) == IF r.mode = "manual" THEN ui' = [at |-> "notice", r |-> r] /\ owed' = FALSE /\ UNCHANGED busy
                               ELSE Release /\ UNCHANGED <<ui, owed>>
Offer(r) == ui' = [at |-> "offer", r |-> r] /\ owed' = FALSE /\ UNCHANGED busy

OnResult ==
    /\ proc = "up" /\ ui.at = "loop" /\ msg # <<>> /\ Head(msg).what = "RESULT"
    /\ msg' = Tail(msg)
    /\ LET r == Head(msg).r
       IN  IF ~r.ok \/ Placeholder(r) \/ ~Older(app, r.v) THEN Say(r)
           ELSE IF WasSkipped(r) THEN Release /\ UNCHANGED <<ui, owed>>
           ELSE Offer(r)
    /\ UNCHANGED <<worldVars, settingVars, proc, due, mode, worker, file, asked>>

(* A notice is dismissed. *)
Dismiss ==
    /\ ui.at \in {"notice", "sorry"} /\ ui' = Loop /\ Release
    /\ UNCHANGED <<worldVars, settingVars, proc, due, mode, worker, msg, file, histVars>>

(* Update now, later, or skip where the dialog has that button; the startup *)
(* checkbox is saved whatever the answer.                                   *)
Answer ==
    /\ ui.at = "offer" /\ ui' = Loop
    /\ enabled' \in BOOLEAN
    /\ \/ /\ worker' = [at |-> "download", r |-> [v |-> ui.r.v]]
          /\ UNCHANGED <<busy, skipped>>
       \/ Release /\ UNCHANGED <<worker, skipped>>
       \/ /\ ui.r.mode = "startup" /\ ~Required(ui.r)
          /\ skipped' = ui.r.v /\ Release /\ UNCHANGED worker
    /\ UNCHANGED <<worldVars, last, proc, due, mode, msg, file, histVars>>

OnDownloadDone ==
    /\ proc = "up" /\ ui.at = "loop" /\ msg # <<>> /\ Head(msg).what = "DLDONE"
    /\ msg' = Tail(msg)
    /\ ui' = [at |-> IF Head(msg).r.ok THEN "confirm" ELSE "sorry", r |-> Head(msg).r]
    /\ UNCHANGED <<worldVars, settingVars, proc, due, busy, mode, worker, file, histVars>>

(* Continue starts the installer on the file and closes the Suite; the user *)
(* may cancel, and the installer may not start.                             *)
Confirm ==
    /\ ui.at = "confirm"
    /\ \/ /\ app' = file /\ proc' = "closing" /\ Release /\ ui' = Loop
       \/ ui' = [ui EXCEPT !.at = "sorry"] /\ UNCHANGED <<app, proc, busy>>
    /\ UNCHANGED <<manifest, now, launches, settingVars, due, mode, worker, msg, file, histVars>>

(* The window closes; suite_update_shutdown waits for the worker, and after *)
(* half a minute the process ends without it.                               *)
Close ==
    /\ proc = "up" /\ ui.at = "loop"
    /\ proc' = "closing"
    /\ UNCHANGED <<worldVars, settingVars, due, busy, mode, worker, msg, ui, file, histVars>>

ProcessEnds ==
    /\ proc = "closing"
    /\ proc' = "off" /\ worker' = Idle /\ due' = FALSE
    /\ owed' = FALSE
    /\ UNCHANGED <<worldVars, settingVars, busy, mode, msg, ui, file, asked>>

-------------------------------------------------------------------------------
(* The publisher, who may go back to the release before, and the clock. *)

Publish ==
    /\ \/ /\ manifest.v < Len(Releases)
          /\ \E floor \in {0, manifest.v + 1} : manifest' = [v |-> manifest.v + 1, floor |-> floor]
       \/ manifest.v > 1 /\ manifest' = [v |-> manifest.v - 1, floor |-> 0]
    /\ UNCHANGED <<app, now, launches, settingVars, proc, due, busy, mode, worker, msg, ui, file, histVars>>

Tick ==
    /\ now < MaxClock /\ now' = now + 1
    /\ UNCHANGED <<app, manifest, launches, settingVars, proc, due, busy, mode, worker, msg, ui, file, histVars>>

Worker == FetchReturns \/ CheckPosts \/ DownloadReturns \/ Verify \/ DownloadPosts
Window == OnResult \/ OnDownloadDone
User == Dismiss \/ Answer \/ Confirm
Next == \/ Launch \/ ManualCheck \/ StartupCheck \/ Worker \/ Window \/ User
        \/ Close \/ ProcessEnds \/ Publish \/ Tick

(* Fetches end (http_fetch.c sets timeouts), messages are dispatched, and   *)
(* the user answers a box that is open; a closing process ends.              *)
Spec == Init /\ [][Next]_vars /\ WF_vars(Worker) /\ WF_vars(Window) /\ WF_vars(User) /\ WF_vars(ProcessEnds)

-------------------------------------------------------------------------------
TypeOK ==
    /\ app \in 1 .. Len(Releases) /\ manifest.v \in 0 .. Len(Releases)
    /\ last \in -1 .. MaxClock /\ skipped \in 0 .. Len(Releases) /\ file \in -1 .. Len(Releases)
    /\ {enabled, due, busy, asked, owed} \subseteq BOOLEAN
    /\ proc \in {"off", "up", "closing"} /\ mode \in {"manual", "startup"}
    /\ worker.at \in {"none", "fetch", "post", "download", "verify", "done"}
    /\ ui.at \in {"loop", "notice", "offer", "confirm", "sorry"}
    /\ Len(msg) <= 1

(* g_busy guards one piece of work, which is with the worker, in the message *)
(* queue or in an open box: never two at a time, and it is never still held  *)
(* when there is none, or no check would ever run again.                     *)
InHand == (IF worker.at = "none" THEN 0 ELSE 1) + Len(msg) + (IF ui.at = "loop" THEN 0 ELSE 1)
BusyIsOneThing == proc = "up" => InHand = (IF busy THEN 1 ELSE 0)

(* suite_update.h:32-34: what the installer is started on is the release the *)
(* user was offered, whole, and one published after the installed one.       *)
InstallsWhatWasOffered == [][app' # app => app' = ui.r.v /\ app' > app]_vars

(* suite_update.h:131, "Silent unless there is genuinely something to     *)
(* offer": a startup check never offers a skipped release or one published    *)
(* before it (suite_update.h:98-100); no box says that there is nothing to a  *)
(* user who never asked, and none says so of a release that is newer than the *)
(* installed one.                                                            *)
BoxIsDue ==
    /\ ui.at = "offer" /\ ui.r.mode = "startup" => ui.r.v > skipped
    /\ ui.at = "notice" => asked /\ (ui.r.ok => ui.r.v <= app)

(* A check or a download always comes to its end and gives the flag back.    *)
CheckConcludes == busy ~> (~busy \/ proc = "off")

(* suite_update.h:125, "A MANUAL check always reports something": an answer   *)
(* the user is owed is still being worked on, until a box gives it.          *)
ManualReports == proc = "up" /\ owed => busy
===============================================================================
