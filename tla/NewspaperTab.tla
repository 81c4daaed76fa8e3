---------------------------- MODULE NewspaperTab ----------------------------
(***************************************************************************)
(* The Newspaper tab (newspaper_module.c, newspaper_picker.c and the       *)
(* manifest cache of newspaper_service.c) on its browser (WebViewHost).    *)
(*                                                                         *)
(* On the UI thread: the browser's completions, the messages of the        *)
(* workers and the user's clicks.  Off it: the worker that loads the       *)
(* index, and one detached worker for every navigation the browser         *)
(* completes, which reads current_id when it gets to run, fetches that     *)
(* issue's manifest into the cache and posts a message that does not say   *)
(* which issue it was for.  The Print button waits for such a message.     *)
(*                                                                         *)
(* news_latest_id is Latest.  The picker, once shown, is closed by the     *)
(* close button, by Esc or by a click on an issue.                         *)
(***************************************************************************)
EXTENDS WebViewHost, Sequences, SequencesExt, FiniteSets

CONSTANTS Issues,       \* the back issues
          Latest,       \* the one the index names as the latest
          CacheCap,     \* NEWS_MANIFEST_CACHE: entries of the manifest cache
          MaxPicks      \* bound: issues picked in one run; one more navigation is automatic

ASSUME NewspaperAssumption == Latest \in Issues /\ NoPage \notin Issues /\ CacheCap \in Nat \ {0}

VARIABLES
  host,           \* st->wv2
  index,          \* index worker: "loading", "loaded", "failed"
  newsBox,        \* the window's posted messages, oldest first
  nm,             \* NmState, see TabType
  picker,         \* is the picker on the screen
  printing,       \* the issue whose manifest pointer print_run holds, or NoPage
  workers,        \* manifest workers, slot -> [at, issue]
  mcache,         \* manifests kept, least recently used first
  picks,          \* issues picked so far
  freedUse        \* a worker or a handler that used freed memory

newsVars == <<host, index, newsBox, nm, picker, printing, workers, mcache, picks, freedUse>>

Slots == 1..(MaxPicks + 1)

TabType == [alive: BOOLEAN, wv2_ready: BOOLEAN, index_loaded: BOOLEAN, navigated: BOOLEAN,
            current_id: Issues \cup {NoPage}, back: BOOLEAN, save: BOOLEAN, print: BOOLEAN]

Idle == [at |-> "idle", issue |-> NoPage]

\* What the variables hold.
NewsTypeOK ==
  /\ host \in HostType(Issues, MaxPicks + 1)
  /\ index \in {"loading", "loaded", "failed"}
  /\ newsBox \in Seq({"indexReady", "indexFail", "manifest"})
  /\ nm \in TabType
  /\ picker \in BOOLEAN
  /\ printing \in Issues \cup {NoPage}
  /\ workers \in [Slots -> [at: {"idle", "kicked", "fetching"}, issue: Issues \cup {NoPage}]]
  /\ mcache \in Seq(Issues)
  /\ picks \in 0..MaxPicks
  /\ freedUse \subseteq {"host", "service"}

NewsInit ==
  /\ host = NewHost
  /\ index = "loading"
  /\ newsBox = <<>>
  /\ nm = [alive |-> TRUE, wv2_ready |-> FALSE, index_loaded |-> FALSE, navigated |-> FALSE,
            current_id |-> NoPage, back |-> FALSE, save |-> FALSE, print |-> FALSE]
  /\ picker = FALSE
  /\ printing = NoPage
  /\ workers = [w \in Slots |-> Idle]
  /\ mcache = <<>>
  /\ picks = 0
  /\ freedUse = {}

-----------------------------------------------------------------------------
(* newspaper_service.c: the manifest cache.                                *)

InCache(id) == \E i \in DOMAIN mcache : mcache[i] = id

\* manifest_cache_lookup: a hit is made the most recently used.
Touched(id) == Append(RemoveAt(mcache, CHOOSE i \in DOMAIN mcache : mcache[i] = id), id)

\* The second half of news_fetch_manifest, under the lock: another caller may
\* have been faster; otherwise the oldest entry makes room.
Stored_NoRecheck(id) ==
  Append(IF Len(mcache) = CacheCap THEN Tail(mcache) ELSE mcache, id)
Stored_NoEvict(id) == IF InCache(id) THEN Touched(id) ELSE Append(mcache, id)
Stored(id) ==
  IF InCache(id) THEN Touched(id)
  ELSE Append(IF Len(mcache) = CacheCap THEN Tail(mcache) ELSE mcache, id)

-----------------------------------------------------------------------------
(* newspaper_module.c: navigation.  Each operator returns the pair of the   *)
(* tab and the host after the call.                                        *)

\* nm_navigate_to_issue: Print is disabled until a manifest has come in, Save
\* is left as it was.
nm_navigate_to_issue_Later(t, h, id) ==
  <<[t EXCEPT !.current_id = id, !.navigated = TRUE, !.print = FALSE], h>>
nm_navigate_to_issue(t, h, id) ==
  <<[t EXCEPT !.current_id = id, !.navigated = TRUE, !.print = FALSE], wv2_navigate(h, id)>>

nm_navigate_to_latest(t, h) ==
  IF t.current_id = Latest /\ t.navigated THEN <<t, h>> ELSE nm_navigate_to_issue(t, h, Latest)

Becomes(pair) == nm' = pair[1] /\ host' = pair[2]

-----------------------------------------------------------------------------
(* The browser, answered on the UI thread.                                 *)

NewsEnvironment ==
  /\ host.stage = "env"
  /\ \E ok \in BOOLEAN : host' = EnvH_Invoke(host, ok)
  /\ UNCHANGED <<index, newsBox, nm, picker, printing, workers, mcache, picks, freedUse>>

\* WV2CtrlH_Invoke, and nm_wv2_ready_cb inside it.
ReadyCallback_Never(t, h)  == <<[t EXCEPT !.wv2_ready = TRUE], h>>
ReadyCallback(t, h) ==
  LET r == [t EXCEPT !.wv2_ready = TRUE]
  IN  IF r.index_loaded THEN nm_navigate_to_latest(r, h) ELSE <<r, h>>

NewsController ==
  /\ host.stage = "controller"
  /\ \E ok \in BOOLEAN :
       LET h == CtrlH_Invoke(host, ok)
       IN  Becomes(IF ok THEN ReadyCallback(nm, h) ELSE <<nm, h>>)
  /\ UNCHANGED <<index, newsBox, picker, printing, workers, mcache, picks, freedUse>>

\* A completion that comes after the tab has gone: its handler still has the
\* host and writes to it (the runtime may also withdraw the request).
LateCompletion ==
  /\ host.stage = "freed" /\ host.late
  /\ host' = [host EXCEPT !.late = FALSE]
  /\ freedUse' \in {freedUse, freedUse \cup {"host"}}
  /\ UNCHANGED <<index, newsBox, nm, picker, printing, workers, mcache, picks>>

\* nm_wv2_nav_cb on NavigationCompleted, successful or not, superseded or not:
\* a detached worker is started (nm_kick_manifest_fetch).
Kicked_OnlyMissing(w) == IF InCache(nm.current_id) THEN workers[w] ELSE [at |-> "kicked", issue |-> NoPage]
Kicked(w) == [at |-> "kicked", issue |-> NoPage]

NavigationCompleted ==
  /\ Ready(host) /\ host.loads > 0
  /\ host' = [host EXCEPT !.loads = @ - 1]
  /\ \E w \in Slots :
       /\ workers[w].at = "idle"
       /\ \A v \in Slots : v < w => workers[v].at # "idle"
       /\ workers' = [workers EXCEPT ![w] = Kicked(w)]
  /\ UNCHANGED <<index, newsBox, nm, picker, printing, mcache, picks, freedUse>>

-----------------------------------------------------------------------------
(* The workers.                                                            *)

\* nm_index_worker: after the tab has gone its message finds no window.
IndexWorker ==
  /\ index = "loading"
  /\ index' \in {"loaded", "failed"}
  /\ newsBox' = IF nm.alive THEN Append(newsBox, IF index' = "loaded" THEN "indexReady" ELSE "indexFail")
                ELSE newsBox
  /\ freedUse' = IF nm.alive THEN freedUse ELSE freedUse \cup {"service"}
  /\ UNCHANGED <<host, nm, picker, printing, workers, mcache, picks>>

\* nm_manifest_worker begins: the window has no state any more, or it copies
\* current_id, which the UI thread may have changed since the completion.
ManifestBegins(w) ==
  /\ workers[w].at = "kicked"
  /\ IF ~nm.alive
     THEN workers' = [workers EXCEPT ![w] = Idle] /\ UNCHANGED <<newsBox, mcache>>
     ELSE LET id == nm.current_id
          IN  IF InCache(id)
              THEN /\ workers' = [workers EXCEPT ![w] = Idle]
                   /\ mcache' = Touched(id)
                   /\ newsBox' = Append(newsBox, "manifest")
              ELSE /\ workers' = [workers EXCEPT ![w] = [at |-> "fetching", issue |-> id]]
                   /\ UNCHANGED <<newsBox, mcache>>
  /\ UNCHANGED <<host, index, nm, picker, printing, picks, freedUse>>

\* The rest of news_fetch_manifest, off the lock until the manifest is there,
\* and the message.  A fetch that failed says nothing.
ManifestFetched(w) ==
  /\ workers[w].at = "fetching"
  /\ workers' = [workers EXCEPT ![w] = Idle]
  /\ IF ~nm.alive
     THEN freedUse' = freedUse \cup {"service"} /\ UNCHANGED <<newsBox, mcache>>
     ELSE /\ UNCHANGED freedUse
          /\ \/ mcache' = Stored(workers[w].issue) /\ newsBox' = Append(newsBox, "manifest")
             \/ UNCHANGED <<newsBox, mcache>>
  /\ UNCHANGED <<host, index, nm, picker, printing, picks>>

-----------------------------------------------------------------------------
(* Messages and clicks.  print_run is modal but pumps messages; only the    *)
(* clicks wait for it.                                                     *)

IndexReady ==
  /\ nm.alive /\ newsBox # <<>> /\ Head(newsBox) = "indexReady"
  /\ newsBox' = Tail(newsBox)
  /\ LET t == [nm EXCEPT !.index_loaded = TRUE, !.back = TRUE]
     IN  Becomes(IF t.wv2_ready THEN nm_navigate_to_latest(t, host) ELSE <<t, host>>)
  /\ UNCHANGED <<index, picker, printing, workers, mcache, picks, freedUse>>

IndexFailed ==
  /\ nm.alive /\ newsBox # <<>> /\ Head(newsBox) = "indexFail"
  /\ newsBox' = Tail(newsBox)
  /\ UNCHANGED <<host, index, nm, picker, printing, workers, mcache, picks, freedUse>>

\* WM_USER + 73: whichever issue it was for.
ManifestReady ==
  /\ nm.alive /\ newsBox # <<>> /\ Head(newsBox) = "manifest"
  /\ newsBox' = Tail(newsBox)
  /\ nm' = [nm EXCEPT !.save = TRUE, !.print = TRUE]
  /\ UNCHANGED <<host, index, picker, printing, workers, mcache, picks, freedUse>>

Clickable == nm.alive /\ printing = NoPage

\* nm_on_back_issues: the browser paints over any window, so it is hidden
\* while the picker is shown.
BackIssues ==
  /\ Clickable /\ nm.back
  /\ picker' = TRUE
  /\ host' = wv2_set_visible(host, FALSE)
  /\ UNCHANGED <<index, newsBox, nm, printing, workers, mcache, picks, freedUse>>

\* picker_hide, and nm_on_picker_dismiss inside it.
Dismissed_Esc(h) == h
Dismissed(h) == wv2_set_visible(h, TRUE)

PickerClosed ==
  /\ Clickable /\ picker
  /\ picker' = FALSE
  /\ host' = Dismissed(host)
  /\ UNCHANGED <<index, newsBox, nm, printing, workers, mcache, picks, freedUse>>

\* NpProc on a cell: hide first, then nm_on_picked_issue.
IssuePicked(id) ==
  /\ Clickable /\ picker /\ picks < MaxPicks
  /\ picker' = FALSE
  /\ Becomes(nm_navigate_to_issue(nm, Dismissed(host), id))
  /\ picks' = picks + 1
  /\ UNCHANGED <<index, newsBox, printing, workers, mcache, freedUse>>

\* nm_on_print: the manifest is fetched again, on this thread; print_run keeps
\* the pointer while its dialogs are up.
PrintClicked ==
  /\ Clickable /\ nm.print
  /\ \/ mcache' = Stored(nm.current_id) /\ printing' = nm.current_id
     \/ ~InCache(nm.current_id) /\ UNCHANGED <<mcache, printing>>
  /\ UNCHANGED <<host, index, newsBox, nm, picker, workers, picks, freedUse>>

PrintEnds ==
  /\ nm.alive /\ printing # NoPage
  /\ printing' = NoPage
  /\ UNCHANGED <<host, index, newsBox, nm, picker, workers, mcache, picks, freedUse>>

\* WM_DESTROY: the index worker gets two seconds (it may need more), the
\* manifest workers are not waited for.
TabDestroyed ==
  /\ Clickable
  /\ nm' = [nm EXCEPT !.alive = FALSE]
  /\ host' = wv2_destroy(host)
  /\ picker' = FALSE
  /\ newsBox' = <<>>
  /\ UNCHANGED <<index, printing, workers, mcache, picks, freedUse>>

NewsNext ==
  \/ NewsEnvironment \/ NewsController \/ LateCompletion \/ NavigationCompleted
  \/ IndexWorker \/ IndexReady \/ IndexFailed \/ ManifestReady
  \/ \E w \in Slots : ManifestBegins(w) \/ ManifestFetched(w)
  \/ BackIssues \/ PickerClosed \/ PrintClicked \/ PrintEnds \/ TabDestroyed
  \/ \E id \in Issues : IssuePicked(id)

NewsSpec == NewsInit /\ [][NewsNext]_newsVars

-----------------------------------------------------------------------------
(* Properties.                                                             *)

\* Whichever comes first of the browser and the index, and whatever was queued
\* or picked in between: once both are there an issue has been opened, and the
\* browser is at the issue the tab takes for the current one, the issue Save
\* and Print would act on (nm_wv2_ready_cb, IndexReady, wv2_apply_pending).
\* And the browser, which paints over every window, is off the screen exactly
\* while the picker is on it, also when the picker was opened, or closed, before
\* the browser was created (wv2_set_visible's queue, nm_on_picker_dismiss).
BrowserFollowsTab ==
  /\ nm.alive /\ nm.wv2_ready =>
       /\ nm.index_loaded => nm.current_id # NoPage
       /\ host.page = nm.current_id
  /\ nm.alive /\ Ready(host) => (host.shown <=> ~picker)

\* The Print button comes back after every navigation: when nothing is loading,
\* no worker runs and no message waits, a manifest that is in the cache has
\* enabled the button of its issue (nm_wv2_nav_cb, nm_manifest_worker).
PrintComesBack ==
  /\ nm.alive /\ host.loads = 0 /\ newsBox = <<>>
  /\ \A w \in Slots : workers[w] = Idle
  /\ InCache(nm.current_id)
  => nm.print

\* Two workers, or a worker and Print, that fetch the same manifest at the same
\* time leave one entry of it, and the cache stays within its bound
\* (news_fetch_manifest: the re-check under the lock).
OneManifestEach ==
  Len(mcache) <= CacheCap /\ Cardinality(ToSet(mcache)) = Len(mcache)

\* Both: whatever workers, navigations and Print do at the same time, the cache
\* is sound and the button of an issue that is in it comes back
\* (news_fetch_manifest, nm_kick_manifest_fetch).
ManifestsServePrint == PrintComesBack /\ OneManifestEach

-----------------------------------------------------------------------------
(* What comments and headers say and the code does not do.                 *)

\* newspaper_module.c:204: "Print needs the manifest cached"; the message of an
\* earlier issue's worker enables the button of the issue opened since, and
\* Print then fetches on the UI thread.
PrintHasManifest == nm.alive /\ nm.print => InCache(nm.current_id)

\* An issue the user picked stays until another pick; one picked before the
\* browser is there is replaced by the latest as soon as it is.
PickStays ==
  [][nm.current_id # NoPage /\ nm'.current_id # nm.current_id => picks' = picks + 1]_newsVars

\* newspaper_service.h:47: a manifest stays valid until the service is destroyed
\* or it is evicted; nothing keeps the one print_run holds from eviction.
PrintedStays == printing # NoPage => InCache(printing)

\* Nothing the tab started uses the tab, its service or its host after them.
NothingAfterFree == freedUse = {}
=============================================================================
