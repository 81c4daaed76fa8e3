---------------------------- MODULE Readers_proofs ----------------------------
(* Machine-checked theorems about four tabs: the Newspaper (NewspaperTab on  *)
(* WebViewHost), Gopher (GopherTab), GW-BASIC (GwBasicTab) and the IRC       *)
(* viewer (IrcViewer), for any set of issues, any cache, history, queue and  *)
(* paste, any window of the replay and any number of connections and         *)
(* messages.                                                                 *)
EXTENDS NewspaperTab, GopherTab, GwBasicTab, IrcViewer, SequenceTheorems, FiniteSetTheorems, TLAPS

-------------------------------------------------------------------------------
(* The Newspaper: its browser is where the tab believes it to be.            *)

HostShape ==
  [stage: {"env", "controller", "ready", "failed", "freed"}, late: BOOLEAN, shown: BOOLEAN, want: BOOLEAN,
   uri: Issues \cup {NoPage}, page: Issues \cup {NoPage}, loads: Int]

\* What the browser will show, and where it will be, once the queue has been
\* applied.
Pending(h) == h.stage \in {"env", "controller"}
Visible(h) == IF Pending(h) THEN h.want ELSE h.shown
Address(h) == IF Pending(h) THEN h.uri ELSE h.page

-------------------------------------------------------------------------------
(* The operations of the host.                                               *)

LEMMA SentGoes ==
  ASSUME NEW h \in HostShape, NEW id \in Issues
  PROVE  /\ Sent(h, id) \in HostShape
         /\ Sent(h, id).stage = h.stage
         /\ Sent(h, id).page = id
         /\ Sent(h, id).shown = h.shown
<1> DEFINE n == h.loads + 1
<1>1. n \in Int
  BY DEF HostShape
<1>2. Sent(h, id) = [h EXCEPT !.page = id, !.loads = n]
  BY DEF Sent
<1> HIDE DEF n
<1>3. QED
  BY <1>1, <1>2 DEF HostShape

LEMMA NavigateGoes ==
  ASSUME NEW h \in HostShape, NEW id \in Issues, Ready(h) \/ Pending(h)
  PROVE  /\ wv2_navigate(h, id) \in HostShape
         /\ wv2_navigate(h, id).stage = h.stage
         /\ Address(wv2_navigate(h, id)) = id
         /\ Visible(wv2_navigate(h, id)) = Visible(h)
         /\ Pending(h) => wv2_navigate(h, id).page = h.page
<1>1. CASE Ready(h)
  BY <1>1, SentGoes DEF wv2_navigate, Ready, Pending, Address, Visible
<1>2. CASE ~Ready(h)
  <2>1. /\ [h EXCEPT !.uri = id] \in HostShape
        /\ [h EXCEPT !.uri = id].stage = h.stage /\ [h EXCEPT !.uri = id].uri = id
        /\ [h EXCEPT !.uri = id].want = h.want /\ [h EXCEPT !.uri = id].page = h.page
    BY DEF HostShape
  <2>2. wv2_navigate(h, id) = [h EXCEPT !.uri = id]
    BY <1>2 DEF wv2_navigate
  <2>3. QED
    BY <1>2, <2>1, <2>2 DEF Ready, Pending, Address, Visible
<1>3. QED
  BY <1>1, <1>2

LEMMA NavigateShape ==
  ASSUME NEW h \in HostShape, NEW id \in Issues
  PROVE  /\ wv2_navigate(h, id) \in HostShape
         /\ wv2_navigate(h, id).stage = h.stage
<1>1. [h EXCEPT !.uri = id] \in HostShape /\ [h EXCEPT !.uri = id].stage = h.stage
  BY DEF HostShape
<1>2. QED
  BY <1>1, SentGoes DEF wv2_navigate

LEMMA DestroyFrees ==
  ASSUME NEW h \in HostShape
  PROVE  wv2_destroy(h) \in HostShape /\ wv2_destroy(h).stage = "freed"
<1> DEFINE late == h.stage \in {"env", "controller"}
           loads == 0
<1>1. late \in BOOLEAN /\ loads \in Int
  OBVIOUS
<1>2. wv2_destroy(h) = [h EXCEPT !.stage = "freed", !.late = late, !.loads = loads]
  BY DEF wv2_destroy
<1> HIDE DEF late, loads
<1>3. QED
  BY <1>1, <1>2 DEF HostShape

LEMMA SetVisibleShows ==
  ASSUME NEW h \in HostShape, NEW v \in BOOLEAN
  PROVE  /\ wv2_set_visible(h, v) \in HostShape
         /\ wv2_set_visible(h, v).stage = h.stage
         /\ wv2_set_visible(h, v).page = h.page
         /\ Address(wv2_set_visible(h, v)) = Address(h)
         /\ Ready(h) \/ Pending(h) => Visible(wv2_set_visible(h, v)) = v
BY DEF HostShape, wv2_set_visible, Ready, Pending, Address, Visible

\* The queue is applied whole: nothing asked of the host before the browser was
\* there is lost.
LEMMA QueueIsApplied ==
  ASSUME NEW h \in HostShape, Pending(h), h.page = NoPage
  PROVE  /\ CtrlH_Invoke(h, TRUE) \in HostShape
         /\ Ready(CtrlH_Invoke(h, TRUE))
         /\ CtrlH_Invoke(h, TRUE).page = h.uri
         /\ CtrlH_Invoke(h, TRUE).shown = h.want
<1> DEFINE r == [h EXCEPT !.stage = "ready"]
           vis == [r EXCEPT !.shown = r.want, !.want = TRUE]
<1>1. r \in HostShape /\ r.stage = "ready" /\ r.page = NoPage /\ r.uri = h.uri /\ r.want = h.want
  BY DEF HostShape
<1>2. vis \in HostShape /\ vis.stage = "ready" /\ vis.page = NoPage /\ vis.uri = h.uri /\ vis.shown = h.want
  BY <1>1 DEF HostShape
<1>3. CtrlH_Invoke(h, TRUE) = IF h.uri = NoPage THEN vis ELSE [Sent(vis, h.uri) EXCEPT !.uri = NoPage]
  BY <1>1 DEF CtrlH_Invoke, wv2_apply_pending
<1> HIDE DEF vis
<1>4. CASE h.uri = NoPage
  BY <1>2, <1>3, <1>4 DEF Ready
<1>5. CASE h.uri # NoPage
  <2>1. h.uri \in Issues
    BY <1>5 DEF HostShape
  <2>2. /\ Sent(vis, h.uri) \in HostShape
        /\ Sent(vis, h.uri).stage = "ready" /\ Sent(vis, h.uri).page = h.uri /\ Sent(vis, h.uri).shown = h.want
    BY <1>2, <2>1, SentGoes
  <2>3. QED
    BY <1>3, <1>5, <2>2 DEF HostShape, Ready
<1>6. QED
  BY <1>4, <1>5

-------------------------------------------------------------------------------
(* The invariant.  Before the browser is there, what it will be told agrees   *)
(* with the tab; afterwards, what it was told.                                *)

TabShape == nm \in TabType /\ host \in HostShape /\ picker \in BOOLEAN

Agrees(t, h, p) ==
  /\ t.wv2_ready <=> Ready(h)
  /\ h.stage # "freed"
  /\ Ready(h) \/ Pending(h) => Address(h) = t.current_id /\ Visible(h) = ~p
  /\ Pending(h) => h.page = NoPage
  /\ Ready(h) /\ t.index_loaded => t.current_id # NoPage

NewsInv == TabShape /\ (IF nm.alive THEN Agrees(nm, host, picker) ELSE host.stage = "freed")

LEMMA NewsInvInit == NewsInit => NewsInv
<1> SUFFICES ASSUME NewsInit PROVE NewsInv
  OBVIOUS
<1>1. host \in HostShape
  BY DEF NewsInit, NewHost, HostShape
<1>2. nm \in TabType /\ picker = FALSE
  BY DEF NewsInit, TabType
<1>3. Agrees(nm, host, FALSE)
  BY DEF NewsInit, NewHost, Agrees, Ready, Pending, Address, Visible
<1>4. QED
  BY <1>1, <1>2, <1>3 DEF NewsInit, NewsInv, TabShape

\* nm_navigate_to_issue, wherever it is called from.
LEMMA IssueAgrees ==
  ASSUME NEW t \in TabType, NEW h \in HostShape, NEW p \in BOOLEAN, NEW id \in Issues,
         t.wv2_ready <=> Ready(h), h.stage # "freed",
         Ready(h) \/ Pending(h) => Visible(h) = ~p, Pending(h) => h.page = NoPage
  PROVE  /\ nm_navigate_to_issue(t, h, id)[1] \in TabType
         /\ nm_navigate_to_issue(t, h, id)[1].alive = t.alive
         /\ nm_navigate_to_issue(t, h, id)[2] \in HostShape
         /\ Agrees(nm_navigate_to_issue(t, h, id)[1], nm_navigate_to_issue(t, h, id)[2], p)
<1> DEFINE u == [t EXCEPT !.current_id = id, !.navigated = TRUE, !.print = FALSE]
           g == wv2_navigate(h, id)
<1>1. u \in TabType /\ u.alive = t.alive /\ u.current_id = id /\ u.wv2_ready = t.wv2_ready
  BY DEF TabType
<1>2. g \in HostShape /\ g.stage = h.stage
  BY NavigateShape
<1>3. Ready(h) \/ Pending(h) => Address(g) = id /\ Visible(g) = Visible(h)
  BY NavigateGoes
<1>4. Pending(h) => g.page = h.page
  BY NavigateGoes
<1>5. nm_navigate_to_issue(t, h, id)[1] = u /\ nm_navigate_to_issue(t, h, id)[2] = g
  BY DEF nm_navigate_to_issue
<1> HIDE DEF u, g
<1>6. Agrees(u, g, p)
  BY <1>1, <1>2, <1>3, <1>4, NewspaperAssumption DEF Agrees, Ready, Pending
<1>7. QED
  BY <1>1, <1>2, <1>5, <1>6

\* nm_navigate_to_latest, from a tab that agrees but for an issue to open.
LEMMA LatestAgrees ==
  ASSUME NEW t \in TabType, NEW h \in HostShape, NEW p \in BOOLEAN, Ready(h), t.wv2_ready,
         Address(h) = t.current_id, Visible(h) = ~p
  PROVE  /\ nm_navigate_to_latest(t, h)[1] \in TabType
         /\ nm_navigate_to_latest(t, h)[1].alive = t.alive
         /\ nm_navigate_to_latest(t, h)[2] \in HostShape
         /\ Agrees(nm_navigate_to_latest(t, h)[1], nm_navigate_to_latest(t, h)[2], p)
<1>1. ~Pending(h) /\ h.stage # "freed" /\ Latest \in Issues
  BY NewspaperAssumption DEF Ready, Pending
<1>2. CASE t.current_id = Latest /\ t.navigated
  BY <1>1, <1>2, NewspaperAssumption DEF nm_navigate_to_latest, Agrees
<1>3. CASE ~(t.current_id = Latest /\ t.navigated)
  BY <1>1, <1>3, IssueAgrees DEF nm_navigate_to_latest
<1>4. QED
  BY <1>2, <1>3

-------------------------------------------------------------------------------
LEMMA NewsInvStep == NewsInv /\ [NewsNext]_newsVars => NewsInv'
<1> SUFFICES ASSUME NewsInv, [NewsNext]_newsVars PROVE NewsInv'
  OBVIOUS
<1> USE DEF NewsInv, TabShape
<1>1. CASE NewsEnvironment
  <2>1. PICK ok \in BOOLEAN : host' = EnvH_Invoke(host, ok)
    BY <1>1 DEF NewsEnvironment
  <2>2. nm' = nm /\ picker' = picker /\ host.stage = "env"
    BY <1>1 DEF NewsEnvironment
  <2>3. /\ host' \in HostShape /\ host'.stage \in {"controller", "failed"}
        /\ host'.uri = host.uri /\ host'.page = host.page /\ host'.want = host.want
    BY <2>1 DEF EnvH_Invoke, HostShape
  <2>4. QED
    BY <2>2, <2>3 DEF Agrees, Ready, Pending, Address, Visible
<1>2. CASE NewsController
  <2>1. PICK ok \in BOOLEAN :
          Becomes(IF ok THEN ReadyCallback(nm, CtrlH_Invoke(host, ok)) ELSE <<nm, CtrlH_Invoke(host, ok)>>)
    BY <1>2 DEF NewsController
  <2>2. picker' = picker /\ host.stage = "controller" /\ Pending(host)
    BY <1>2 DEF NewsController, Pending
  <2>3. CASE ~ok
    <3>1. nm' = nm /\ host' = [host EXCEPT !.stage = "failed"]
      BY <2>1, <2>3 DEF Becomes, CtrlH_Invoke
    <3>2. host' \in HostShape /\ host'.stage = "failed"
      BY <3>1 DEF HostShape
    <3>3. QED
      BY <2>2, <3>1, <3>2 DEF Agrees, Ready, Pending
  <2>4. CASE ok /\ nm.alive
    <3> DEFINE h == CtrlH_Invoke(host, TRUE)
               r == [nm EXCEPT !.wv2_ready = TRUE]
    <3>1. h \in HostShape /\ Ready(h) /\ h.page = host.uri /\ h.shown = host.want
      BY <2>2, <2>4, QueueIsApplied DEF Agrees
    <3>2. r \in TabType /\ r.alive /\ r.wv2_ready /\ r.current_id = nm.current_id /\ r.index_loaded = nm.index_loaded
      BY <2>4 DEF TabType
    <3>3. Address(h) = r.current_id /\ Visible(h) = ~picker
      BY <2>2, <2>4, <3>1, <3>2 DEF Agrees, Address, Visible, Ready, Pending
    <3>4. Becomes(IF r.index_loaded THEN nm_navigate_to_latest(r, h) ELSE <<r, h>>)
      BY <2>1, <2>4 DEF ReadyCallback
    <3> HIDE DEF h, r
    <3>5. CASE r.index_loaded
      BY <2>2, <3>1, <3>2, <3>3, <3>4, <3>5, LatestAgrees DEF Becomes
    <3>6. CASE ~r.index_loaded
      BY <2>2, <3>1, <3>2, <3>3, <3>4, <3>6 DEF Becomes, Agrees, Ready, Pending
    <3>7. QED
      BY <3>5, <3>6
  <2>5. CASE ok /\ ~nm.alive
    BY <2>2, <2>5 DEF Pending
  <2>6. QED
    BY <2>3, <2>4, <2>5
<1>3. CASE LateCompletion
  <2>1. host' = [host EXCEPT !.late = FALSE] /\ host.stage = "freed" /\ nm' = nm /\ picker' = picker
    BY <1>3 DEF LateCompletion
  <2>2. host' \in HostShape /\ host'.stage = "freed"
    BY <2>1 DEF HostShape
  <2>3. QED
    BY <2>1, <2>2 DEF Agrees
<1>4. CASE NavigationCompleted
  <2>1. nm' = nm /\ picker' = picker /\ host' = [host EXCEPT !.loads = host.loads - 1]
    BY <1>4 DEF NavigationCompleted
  <2>2. /\ host' \in HostShape /\ host'.stage = host.stage /\ host'.page = host.page
        /\ host'.uri = host.uri /\ host'.shown = host.shown /\ host'.want = host.want
    BY <2>1 DEF HostShape
  <2>3. QED
    BY <2>1, <2>2 DEF Agrees, Ready, Pending, Address, Visible
<1>5. CASE IndexReady
  <2> DEFINE t == [nm EXCEPT !.index_loaded = TRUE, !.back = TRUE]
  <2>1. nm.alive /\ Becomes(IF t.wv2_ready THEN nm_navigate_to_latest(t, host) ELSE <<t, host>>)
    BY <1>5 DEF IndexReady
  <2>2. t \in TabType /\ t.wv2_ready = nm.wv2_ready /\ t.current_id = nm.current_id /\ t.alive = nm.alive
    BY DEF TabType
  <2>3. picker' = picker
    BY <1>5 DEF IndexReady
  <2> HIDE DEF t
  <2>4. CASE t.wv2_ready
    <3>1. Ready(host) /\ Address(host) = t.current_id /\ Visible(host) = ~picker
      BY <2>1, <2>2, <2>4 DEF Agrees
    <3>2. QED
      BY <2>1, <2>2, <2>3, <2>4, <3>1, LatestAgrees DEF Becomes
  <2>5. CASE ~t.wv2_ready
    BY <2>1, <2>2, <2>3, <2>5 DEF Becomes, Agrees
  <2>6. QED
    BY <2>4, <2>5
<1>6. CASE ManifestReady
  <2>1. nm' = [nm EXCEPT !.save = TRUE, !.print = TRUE] /\ host' = host /\ picker' = picker /\ nm.alive
    BY <1>6 DEF ManifestReady
  <2>2. /\ nm' \in TabType /\ nm'.alive = nm.alive /\ nm'.wv2_ready = nm.wv2_ready
        /\ nm'.index_loaded = nm.index_loaded /\ nm'.current_id = nm.current_id
    BY <2>1 DEF TabType
  <2>3. QED
    BY <2>1, <2>2 DEF Agrees
<1>7. CASE BackIssues
  <2>1. nm.alive /\ nm' = nm /\ picker' = TRUE /\ host' = wv2_set_visible(host, FALSE)
    BY <1>7 DEF BackIssues, Clickable
  <2>2. QED
    BY <2>1, SetVisibleShows DEF Agrees, Ready, Pending
<1>8. CASE PickerClosed
  <2>1. nm.alive /\ nm' = nm /\ picker' = FALSE /\ host' = wv2_set_visible(host, TRUE)
    BY <1>8 DEF PickerClosed, Clickable, Dismissed
  <2>2. QED
    BY <2>1, SetVisibleShows DEF Agrees, Ready, Pending
<1>9. CASE \E id \in Issues : IssuePicked(id)
  <2>1. PICK id \in Issues : IssuePicked(id)
    BY <1>9
  <2> DEFINE h == wv2_set_visible(host, TRUE)
  <2>2. nm.alive /\ picker' = FALSE /\ Becomes(nm_navigate_to_issue(nm, h, id))
    BY <2>1 DEF IssuePicked, Clickable, Dismissed
  <2>3. h \in HostShape /\ h.stage = host.stage /\ h.page = host.page /\ (Ready(h) \/ Pending(h) => Visible(h) = TRUE)
    BY SetVisibleShows DEF Ready, Pending
  <2> HIDE DEF h
  <2>4. (nm.wv2_ready <=> Ready(h)) /\ h.stage # "freed" /\ (Pending(h) => h.page = NoPage)
    BY <2>2, <2>3 DEF Agrees, Ready, Pending
  <2>5. nm'.alive
    BY <2>2, <2>3, <2>4, IssueAgrees DEF Becomes
  <2>6. QED
    BY <2>2, <2>3, <2>4, <2>5, IssueAgrees DEF Becomes
<1>10. CASE TabDestroyed
  <2>1. nm' = [nm EXCEPT !.alive = FALSE] /\ host' = wv2_destroy(host) /\ picker' = FALSE
    BY <1>10 DEF TabDestroyed
  <2>2. nm' \in TabType /\ ~nm'.alive
    BY <2>1 DEF TabType
  <2>3. host' \in HostShape /\ host'.stage = "freed"
    BY <2>1, DestroyFrees
  <2>4. QED
    BY <2>1, <2>2, <2>3
<1>11. CASE UNCHANGED <<host, nm, picker>>
  BY <1>11 DEF Agrees, Ready, Pending, Address, Visible
<1>12. ASSUME NEW w \in Slots, ManifestBegins(w) \/ ManifestFetched(w) PROVE UNCHANGED <<host, nm, picker>>
  BY <1>12 DEF ManifestBegins, ManifestFetched
<1>13. IndexWorker \/ IndexFailed \/ PrintClicked \/ PrintEnds => UNCHANGED <<host, nm, picker>>
  BY DEF IndexWorker, IndexFailed, PrintClicked, PrintEnds
<1>14. UNCHANGED newsVars => UNCHANGED <<host, nm, picker>>
  BY DEF newsVars
<1>15. QED
  BY <1>1, <1>2, <1>3, <1>4, <1>5, <1>6, <1>7, <1>8, <1>9, <1>10, <1>11, <1>12, <1>13, <1>14 DEF NewsNext

(* Whichever comes first of the browser and the index, and whatever is picked, *)
(* the browser is at the issue Save and Print act on, and off the screen       *)
(* exactly while the picker is on it (nm_wv2_ready_cb, wv2_apply_pending,      *)
(* wv2_set_visible, nm_on_picker_dismiss).                                     *)
THEOREM NewsBrowserFollowsTab == NewsSpec => []BrowserFollowsTab
<1>1. NewsInv => BrowserFollowsTab
  BY DEF NewsInv, TabShape, Agrees, BrowserFollowsTab, Ready, Pending, Address, Visible
<1>2. QED
  BY <1>1, NewsInvInit, NewsInvStep, PTL DEF NewsSpec

-------------------------------------------------------------------------------
(* The manifests.  The cache holds each issue once; whoever put the current   *)
(* issue there, or will find it there, has a message on its way.              *)

Distinct(s) == \A i, j \in DOMAIN s : s[i] = s[j] => i = j

\* An entry taken out.
LEMMA RemoveAtFact ==
  ASSUME NEW S, NEW s \in Seq(S), NEW k \in 1..Len(s)
  PROVE  /\ RemoveAt(s, k) \in Seq(S)
         /\ Len(RemoveAt(s, k)) = Len(s) - 1
         /\ \A i \in 1..(Len(s) - 1) : RemoveAt(s, k)[i] = IF i < k THEN s[i] ELSE s[i + 1]
<1> DEFINE a == SubSeq(s, 1, k - 1)
           b == SubSeq(s, k + 1, Len(s))
<1>1. Len(s) \in Nat /\ k \in Nat /\ 1 <= k /\ k <= Len(s) /\ \A i \in 1..Len(s) : s[i] \in S
  BY ElementOfSeq, LenProperties
<1>2. a \in Seq(S) /\ Len(a) = k - 1 /\ \A i \in 1..(k - 1) : a[i] = s[i]
  <2>1. \A i \in 1..(k - 1) : s[i] \in S
    BY <1>1
  <2>2. /\ a \in Seq(S)
        /\ Len(a) = IF 1 <= k - 1 THEN (k - 1) - 1 + 1 ELSE 0
        /\ \A i \in 1..((k - 1) - 1 + 1) : a[i] = s[1 + i - 1]
    BY <1>1, <2>1, SubSeqProperties
  <2> HIDE DEF a
  <2>3. QED
    BY <1>1, <2>2
<1>3. b \in Seq(S) /\ Len(b) = Len(s) - k /\ \A i \in 1..(Len(s) - k) : b[i] = s[k + i]
  <2>1. \A i \in (k + 1)..Len(s) : s[i] \in S
    BY <1>1
  <2>2. /\ b \in Seq(S)
        /\ Len(b) = IF k + 1 <= Len(s) THEN Len(s) - (k + 1) + 1 ELSE 0
        /\ \A i \in 1..(Len(s) - (k + 1) + 1) : b[i] = s[(k + 1) + i - 1]
    BY <1>1, <2>1, SubSeqProperties
  <2> HIDE DEF b
  <2>3. QED
    BY <1>1, <2>2
<1>4. RemoveAt(s, k) = a \o b
  BY DEF RemoveAt
<1> HIDE DEF a, b
<1>5. /\ a \o b \in Seq(S) /\ Len(a \o b) = Len(a) + Len(b)
      /\ \A i \in 1..(Len(a) + Len(b)) : (a \o b)[i] = IF i <= Len(a) THEN a[i] ELSE b[i - Len(a)]
  BY <1>2, <1>3, ConcatProperties
<1> DEFINE c == a \o b
<1> HIDE DEF c
<1>6. /\ c \in Seq(S) /\ Len(c) = Len(s) - 1
      /\ \A i \in 1..(Len(s) - 1) : c[i] = IF i <= k - 1 THEN a[i] ELSE b[i - (k - 1)]
  BY <1>1, <1>2, <1>3, <1>5 DEF c
<1>7. ASSUME NEW i \in 1..(Len(s) - 1) PROVE c[i] = IF i < k THEN s[i] ELSE s[i + 1]
  <2>1. CASE i < k
    BY <1>1, <1>2, <1>6, <2>1
  <2>2. CASE ~(i < k)
    <3>1. i - (k - 1) \in 1..(Len(s) - k) /\ k + (i - (k - 1)) = i + 1
      BY <1>1, <2>2
    <3>2. c[i] = b[i - (k - 1)]
      BY <1>1, <1>6, <2>2
    <3>3. QED
      BY <1>3, <2>2, <3>1, <3>2
  <2>3. QED
    BY <2>1, <2>2
<1>8. QED
  BY <1>4, <1>6, <1>7 DEF c

\* A new element goes to the end.
LEMMA AppendDistinct ==
  ASSUME NEW S, NEW s \in Seq(S), NEW id \in S, Distinct(s), \A i \in DOMAIN s : s[i] # id
  PROVE  Distinct(Append(s, id))
<1> DEFINE t == Append(s, id)
<1>1. /\ t \in Seq(S) /\ Len(t) = Len(s) + 1
      /\ \A i \in 1..Len(s) : t[i] = s[i]
      /\ t[Len(s) + 1] = id
  BY AppendProperties
<1>2. DOMAIN s = 1..Len(s) /\ Len(s) \in Nat
  BY LenProperties
<1>3. DOMAIN t = 1..(Len(s) + 1)
  BY <1>1, LenProperties
<1> HIDE DEF t
<1>4. ASSUME NEW i \in DOMAIN t, NEW j \in DOMAIN t, t[i] = t[j] PROVE i = j
  <2>1. CASE i \in 1..Len(s) /\ j \in 1..Len(s)
    BY <1>1, <1>2, <1>4, <2>1 DEF Distinct
  <2>2. CASE i = Len(s) + 1 /\ j \in 1..Len(s)
    BY <1>1, <1>2, <1>4, <2>2
  <2>3. CASE j = Len(s) + 1 /\ i \in 1..Len(s)
    BY <1>1, <1>2, <1>4, <2>3
  <2>4. QED
    BY <1>2, <1>3, <2>1, <2>2, <2>3
<1>5. Distinct(t)
  BY <1>4 DEF Distinct
<1>6. QED
  BY <1>5 DEF t

\* A sequence without repetitions has as many elements as places.
LEMMA DistinctCount ==
  ASSUME NEW S, NEW s \in Seq(S), Distinct(s)
  PROVE  Cardinality(ToSet(s)) = Len(s)
<1>1. DOMAIN s = 1..Len(s) /\ Len(s) \in Nat
  BY LenProperties
<1>2. s \in [1..Len(s) -> ToSet(s)]
  <2>1. s = [i \in 1..Len(s) |-> s[i]]
    BY <1>1, LenProperties, ElementOfSeq, IsASeq
  <2>2. \A i \in 1..Len(s) : s[i] \in ToSet(s)
    BY <1>1 DEF ToSet
  <2>3. QED
    BY <2>1, <2>2
<1>3. s \in Injection(1..Len(s), ToSet(s))
  BY <1>1, <1>2 DEF Injection, IsInjective, Distinct
<1>4. s \in Surjection(1..Len(s), ToSet(s))
  BY <1>1, <1>2 DEF Surjection, ToSet
<1>5. ExistsBijection(1..Len(s), ToSet(s))
  BY <1>3, <1>4 DEF ExistsBijection, Bijection
<1>6. QED
  BY <1>1, <1>5, FS_CountingElements

CacheSound ==
  /\ mcache \in Seq(Issues \cup {NoPage})
  /\ Distinct(mcache)
  /\ Len(mcache) <= CacheCap

\* A hit moves the entry and keeps the set.
LEMMA TouchedSound ==
  ASSUME CacheSound, NEW id \in Issues \cup {NoPage}, InCache(id)
  PROVE  /\ Touched(id) \in Seq(Issues \cup {NoPage})
         /\ Distinct(Touched(id))
         /\ Len(Touched(id)) <= CacheCap
         /\ \A i \in DOMAIN Touched(id) : InCache(Touched(id)[i])
<1> DEFINE S == Issues \cup {NoPage}
           k == CHOOSE i \in DOMAIN mcache : mcache[i] = id
           r == RemoveAt(mcache, k)
<1>1. mcache \in Seq(S) /\ DOMAIN mcache = 1..Len(mcache) /\ Len(mcache) \in Nat
  BY LenProperties DEF CacheSound
<1>2. k \in 1..Len(mcache) /\ mcache[k] = id
  BY <1>1 DEF InCache
<1> HIDE DEF k
<1>3. /\ r \in Seq(S) /\ Len(r) = Len(mcache) - 1
      /\ \A i \in 1..(Len(mcache) - 1) : r[i] = IF i < k THEN mcache[i] ELSE mcache[i + 1]
  BY <1>1, <1>2, RemoveAtFact
<1>4. DOMAIN r = 1..(Len(mcache) - 1)
  BY <1>3, LenProperties
<1> HIDE DEF r
<1> DEFINE from(i) == IF i < k THEN i ELSE i + 1
<1>5. \A i \in DOMAIN r : from(i) \in 1..Len(mcache) /\ from(i) # k /\ r[i] = mcache[from(i)]
  BY <1>1, <1>2, <1>3, <1>4
<1>6. \A i, j \in DOMAIN r : from(i) = from(j) => i = j
  BY <1>1, <1>2, <1>4
<1> HIDE DEF from
<1>7. Distinct(r)
  BY <1>1, <1>5, <1>6 DEF Distinct, CacheSound
<1>8. \A i \in DOMAIN r : r[i] # id
  BY <1>1, <1>2, <1>5 DEF Distinct, CacheSound
<1>9. Touched(id) = Append(r, id)
  BY DEF Touched, r, k
<1>10. /\ Append(r, id) \in Seq(S) /\ Len(Append(r, id)) = Len(mcache)
       /\ \A i \in 1..Len(r) : Append(r, id)[i] = r[i]
       /\ Append(r, id)[Len(r) + 1] = id
  <2>1. /\ Append(r, id) \in Seq(S) /\ Len(Append(r, id)) = Len(r) + 1
        /\ \A i \in 1..Len(r) : Append(r, id)[i] = r[i]
        /\ Append(r, id)[Len(r) + 1] = id
    BY <1>3, AppendProperties
  <2> DEFINE t == Append(r, id)
  <2> HIDE DEF t
  <2>2. Len(t) = Len(mcache)
    BY <1>1, <1>3, <2>1 DEF t
  <2>3. QED
    BY <2>1, <2>2 DEF t
<1>11. DOMAIN Append(r, id) = 1..Len(mcache)
  BY <1>10, LenProperties
<1> DEFINE t == Append(r, id)
           n == Len(mcache)
<1> HIDE DEF t, n
<1>12. ASSUME NEW i \in DOMAIN t PROVE InCache(t[i])
  <2>1. n \in Nat /\ DOMAIN t = 1..n /\ DOMAIN r = 1..(n - 1) /\ Len(r) = n - 1
    BY <1>1, <1>3, <1>4, <1>11 DEF t, n
  <2>2. CASE i \in DOMAIN r
    <3>1. t[i] = mcache[from(i)]
      BY <1>5, <1>10, <2>1, <2>2 DEF t
    <3>2. QED
      BY <1>1, <1>5, <2>2, <3>1 DEF InCache
  <2>3. CASE i \notin DOMAIN r
    <3>1. i = Len(r) + 1
      BY <2>1, <2>3
    <3>2. t[i] = id
      BY <1>10, <3>1 DEF t
    <3>3. QED
      BY <3>2 DEF InCache
  <2>4. QED
    BY <2>2, <2>3
<1>13. QED
  BY <1>3, <1>7, <1>8, <1>9, <1>10, <1>12, AppendDistinct DEF CacheSound, t

\* What news_fetch_manifest leaves in the cache: nothing new but the issue.
LEMMA StoredSound ==
  ASSUME CacheSound, NEW id \in Issues \cup {NoPage}
  PROVE  /\ Stored(id) \in Seq(Issues \cup {NoPage})
         /\ Distinct(Stored(id))
         /\ Len(Stored(id)) <= CacheCap
         /\ \A i \in DOMAIN Stored(id) : Stored(id)[i] = id \/ InCache(Stored(id)[i])
<1>1. CASE InCache(id)
  BY <1>1, TouchedSound DEF Stored
<1>2. CASE ~InCache(id)
  <2> DEFINE S == Issues \cup {NoPage}
             rest == IF Len(mcache) = CacheCap THEN Tail(mcache) ELSE mcache
  <2>1. mcache \in Seq(S) /\ DOMAIN mcache = 1..Len(mcache) /\ Len(mcache) \in Nat /\ Len(mcache) <= CacheCap
        /\ CacheCap \in Nat \ {0}
    BY LenProperties, NewspaperAssumption DEF CacheSound
  <2>2. /\ rest \in Seq(S) /\ Len(rest) < CacheCap /\ Distinct(rest)
        /\ \A i \in DOMAIN rest : InCache(rest[i])
    <3>1. CASE Len(mcache) = CacheCap
      <4> DEFINE t == Tail(mcache)
      <4>1. mcache # <<>>
        BY <2>1, <3>1, EmptySeq
      <4>2. /\ t \in Seq(S) /\ Len(t) = Len(mcache) - 1
            /\ \A i \in 1..Len(t) : t[i] = mcache[i + 1]
        BY <2>1, <4>1, HeadTailProperties
      <4>3. DOMAIN t = 1..Len(t)
        BY <4>2, LenProperties
      <4>4. rest = t
        BY <3>1
      <4> HIDE DEF t, rest
      <4>5. \A i \in DOMAIN t : i + 1 \in 1..Len(mcache) /\ t[i] = mcache[i + 1]
        BY <2>1, <4>2, <4>3
      <4>6. Distinct(t)
        <5> SUFFICES ASSUME NEW i \in DOMAIN t, NEW j \in DOMAIN t, t[i] = t[j] PROVE i = j
          BY DEF Distinct
        <5>1. i + 1 = j + 1
          BY <2>1, <4>5 DEF CacheSound, Distinct
        <5>2. QED
          BY <2>1, <4>2, <4>3, <5>1
      <4>7. \A i \in DOMAIN t : InCache(t[i])
        BY <2>1, <4>5 DEF InCache
      <4>8. QED
        BY <2>1, <3>1, <4>2, <4>4, <4>6, <4>7
    <3>2. CASE Len(mcache) # CacheCap
      <4>1. rest = mcache
        BY <3>2
      <4>2. Len(mcache) < CacheCap
        <5> DEFINE n == Len(mcache)
        <5>1. n \in Nat /\ CacheCap \in Nat /\ n <= CacheCap /\ n # CacheCap
          BY <2>1, <3>2
        <5> HIDE DEF n
        <5>2. n < CacheCap
          BY <5>1
        <5>3. QED
          BY <5>2 DEF n
      <4>3. \A i \in DOMAIN mcache : InCache(mcache[i])
        BY DEF InCache
      <4>4. mcache \in Seq(S) /\ Distinct(mcache)
        BY DEF CacheSound
      <4> HIDE DEF rest
      <4>5. QED
        BY <4>1, <4>2, <4>3, <4>4
    <3>3. QED
      BY <3>1, <3>2
  <2>3. Stored(id) = Append(rest, id)
    BY <1>2 DEF Stored
  <2> HIDE DEF rest
  <2>4. DOMAIN rest = 1..Len(rest) /\ Len(rest) \in Nat
    BY <2>2, LenProperties
  <2>5. \A i \in DOMAIN rest : rest[i] # id
    BY <1>2, <2>2
  <2>6. /\ Append(rest, id) \in Seq(S) /\ Len(Append(rest, id)) = Len(rest) + 1
        /\ \A i \in 1..Len(rest) : Append(rest, id)[i] = rest[i]
        /\ Append(rest, id)[Len(rest) + 1] = id
    BY <2>2, AppendProperties
  <2>7. DOMAIN Append(rest, id) = 1..(Len(rest) + 1)
    BY <2>6, LenProperties
  <2>8. Distinct(Append(rest, id))
    BY <2>2, <2>5, AppendDistinct
  <2>9. ASSUME NEW i \in DOMAIN Append(rest, id)
        PROVE  Append(rest, id)[i] = id \/ InCache(Append(rest, id)[i])
    <3>1. i \in DOMAIN rest \/ i = Len(rest) + 1
      BY <2>4, <2>7
    <3>2. QED
      BY <2>2, <2>4, <2>6, <3>1
  <2>10. Len(Append(rest, id)) <= CacheCap
    BY <2>1, <2>2, <2>4, <2>6
  <2>11. QED
    BY <2>3, <2>6, <2>8, <2>9, <2>10
<1>3. QED
  BY <1>1, <1>2

-------------------------------------------------------------------------------
(* The way to the button.  An issue that is in the cache has its button, or a  *)
(* navigation still to complete, a worker that has not looked yet, or a        *)
(* message on its way.  Before the browser is there, none of them has begun.   *)

Messages == {"indexReady", "indexFail", "manifest"}
Note(box) == \E i \in DOMAIN box : box[i] = "manifest"
Kicking(ws) == \E w \in Slots : ws[w].at = "kicked"

Unused(t, box, ws, c) == c = <<>> /\ ~t.print /\ ~Note(box) /\ \A w \in Slots : ws[w].at = "idle"
Owed(t, h, box, ws) == t.print \/ h.loads > 0 \/ Note(box) \/ Kicking(ws)

Shapes ==
  /\ newsBox \in Seq(Messages)
  /\ workers \in [Slots -> [at: {"idle", "kicked", "fetching"}, issue: Issues \cup {NoPage}]]
  /\ host.loads >= 0

PrintIsOwed ==
  nm.alive => /\ ~Ready(host) => Unused(nm, newsBox, workers, mcache)
              /\ InCache(nm.current_id) => Owed(nm, host, newsBox, workers)

PrintInv == Shapes /\ CacheSound /\ PrintIsOwed

\* A message that comes, or goes.
LEMMA NoteAppended ==
  ASSUME NEW box \in Seq(Messages), NEW m \in Messages
  PROVE  /\ Append(box, m) \in Seq(Messages)
         /\ Note(Append(box, m)) <=> Note(box) \/ m = "manifest"
<1> DEFINE b == Append(box, m)
<1>1. /\ b \in Seq(Messages) /\ Len(b) = Len(box) + 1
      /\ \A i \in 1..Len(box) : b[i] = box[i]
      /\ b[Len(box) + 1] = m
  BY AppendProperties
<1>2. DOMAIN box = 1..Len(box) /\ Len(box) \in Nat
  BY LenProperties
<1>3. DOMAIN b = 1..(Len(box) + 1)
  BY <1>1, LenProperties
<1> HIDE DEF b
<1>4. Note(b) <=> Note(box) \/ m = "manifest"
  <2>1. ASSUME Note(b) PROVE Note(box) \/ m = "manifest"
    <3>1. PICK i \in DOMAIN b : b[i] = "manifest"
      BY <2>1 DEF Note
    <3>2. i \in 1..Len(box) \/ i = Len(box) + 1
      BY <1>2, <1>3
    <3>3. QED
      BY <1>1, <1>2, <3>1, <3>2 DEF Note
  <2>2. ASSUME Note(box) PROVE Note(b)
    <3>1. PICK i \in DOMAIN box : box[i] = "manifest"
      BY <2>2 DEF Note
    <3>2. i \in DOMAIN b /\ b[i] = "manifest"
      BY <1>1, <1>2, <1>3, <3>1
    <3>3. QED
      BY <3>2 DEF Note
  <2>3. ASSUME m = "manifest" PROVE Note(b)
    <3>1. Len(box) + 1 \in DOMAIN b /\ b[Len(box) + 1] = "manifest"
      BY <1>1, <1>2, <1>3, <2>3
    <3>2. QED
      BY <3>1 DEF Note
  <2>4. QED
    BY <2>1, <2>2, <2>3
<1>5. QED
  BY <1>1, <1>4 DEF b

LEMMA NoteTaken ==
  ASSUME NEW box \in Seq(Messages), box # <<>>
  PROVE  /\ Tail(box) \in Seq(Messages)
         /\ Note(Tail(box)) => Note(box)
         /\ Note(box) => Note(Tail(box)) \/ Head(box) = "manifest"
<1> DEFINE b == Tail(box)
<1>1. /\ b \in Seq(Messages) /\ Len(b) = Len(box) - 1
      /\ \A i \in 1..Len(b) : b[i] = box[i + 1]
  BY HeadTailProperties
<1>2. DOMAIN box = 1..Len(box) /\ Len(box) \in Nat /\ DOMAIN b = 1..Len(b) /\ Head(box) = box[1]
  BY <1>1, LenProperties
<1> HIDE DEF b
<1>3. ASSUME Note(b) PROVE Note(box)
  <2>1. PICK i \in DOMAIN b : b[i] = "manifest"
    BY <1>3 DEF Note
  <2>2. i + 1 \in DOMAIN box /\ box[i + 1] = "manifest"
    BY <1>1, <1>2, <2>1
  <2>3. QED
    BY <2>2 DEF Note
<1>4. ASSUME Note(box), Head(box) # "manifest" PROVE Note(b)
  <2>1. PICK i \in DOMAIN box : box[i] = "manifest"
    BY <1>4 DEF Note
  <2>2. i # 1
    BY <1>2, <1>4, <2>1
  <2>3. i - 1 \in DOMAIN b /\ (i - 1) + 1 = i
    BY <1>1, <1>2, <2>2
  <2>4. QED
    BY <1>1, <1>2, <2>1, <2>3 DEF Note
<1>5. QED
  BY <1>1, <1>3, <1>4 DEF b

\* What a navigation does to the loads and to the button.
LEMMA NavigateOwes ==
  ASSUME NEW t \in TabType, NEW h \in HostShape, NEW id \in Issues
  PROVE  /\ nm_navigate_to_issue(t, h, id)[1].alive = t.alive
         /\ ~nm_navigate_to_issue(t, h, id)[1].print
         /\ nm_navigate_to_issue(t, h, id)[2].stage = h.stage
         /\ nm_navigate_to_issue(t, h, id)[2].loads = IF Ready(h) THEN h.loads + 1 ELSE h.loads
<1> DEFINE u == [t EXCEPT !.current_id = id, !.navigated = TRUE, !.print = FALSE]
           n == h.loads + 1
<1>1. u.alive = t.alive /\ ~u.print
  BY DEF TabType
<1>2. wv2_navigate(h, id).stage = h.stage
  BY NavigateShape
<1>3. wv2_navigate(h, id).loads = IF Ready(h) THEN n ELSE h.loads
  <2>1. CASE Ready(h)
    <3>1. wv2_navigate(h, id) = [h EXCEPT !.page = id, !.loads = n]
      BY <2>1 DEF wv2_navigate, Sent
    <3> HIDE DEF n
    <3>2. QED
      BY <2>1, <3>1 DEF HostShape
  <2>2. CASE ~Ready(h)
    BY <2>2 DEF wv2_navigate, HostShape
  <2>3. QED
    BY <2>1, <2>2
<1>4. nm_navigate_to_issue(t, h, id) = <<u, wv2_navigate(h, id)>>
  BY DEF nm_navigate_to_issue
<1> HIDE DEF u
<1>5. QED
  BY <1>1, <1>2, <1>3, <1>4

LEMMA LatestOwes ==
  ASSUME NEW t \in TabType, NEW h \in HostShape, Ready(h)
  PROVE  \/ nm_navigate_to_latest(t, h) = <<t, h>>
         \/ /\ nm_navigate_to_latest(t, h)[1].alive = t.alive
            /\ ~nm_navigate_to_latest(t, h)[1].print
            /\ nm_navigate_to_latest(t, h)[2].stage = h.stage
            /\ nm_navigate_to_latest(t, h)[2].loads = h.loads + 1
BY NavigateOwes, NewspaperAssumption DEF nm_navigate_to_latest

LEMMA PrintInvInit == NewsInit => PrintInv
<1> SUFFICES ASSUME NewsInit PROVE PrintInv
  OBVIOUS
<1>1. newsBox = <<>> /\ mcache = <<>> /\ host.loads = 0 /\ ~nm.print
  BY DEF NewsInit, NewHost
<1>2. <<>> \in Seq(Messages) /\ <<>> \in Seq(Issues \cup {NoPage}) /\ Len(<<>>) = 0 /\ DOMAIN <<>> = {}
  OBVIOUS
<1>3. workers = [w \in Slots |-> Idle]
  BY DEF NewsInit
<1>4. Shapes
  BY <1>1, <1>2, <1>3 DEF Shapes, Idle
<1>5. CacheSound
  BY <1>1, <1>2, NewspaperAssumption DEF CacheSound, Distinct
<1>6. PrintIsOwed
  BY <1>1, <1>2, <1>3 DEF PrintIsOwed, Unused, Note, InCache, Idle
<1>7. QED
  BY <1>4, <1>5, <1>6 DEF PrintInv

\* The steps of the browser, and of the tab on it: the cache and the workers
\* stay as they are.
LEMMA BrowserSteps ==
  ASSUME NewsInv, PrintInv,
         \/ NewsEnvironment \/ NewsController \/ LateCompletion
         \/ BackIssues \/ PickerClosed \/ PrintEnds \/ TabDestroyed
         \/ \E id \in Issues : IssuePicked(id)
  PROVE  PrintInv'
<1> USE DEF NewsInv, TabShape, PrintInv
<1>1. UNCHANGED <<mcache, workers>> /\ (newsBox' = newsBox \/ newsBox' = <<>>)
  BY DEF NewsEnvironment, NewsController, LateCompletion, BackIssues, PickerClosed, PrintEnds, TabDestroyed, IssuePicked
<1>2. CacheSound'
  BY <1>1 DEF CacheSound
<1>3. /\ newsBox' \in Seq(Messages)
      /\ workers' \in [Slots -> [at: {"idle", "kicked", "fetching"}, issue: Issues \cup {NoPage}]]
  <2>1. <<>> \in Seq(Messages)
    OBVIOUS
  <2>2. QED
    BY <1>1, <2>1 DEF Shapes
<1>4. host.loads \in Int /\ host.loads >= 0
  BY DEF Shapes, HostShape
<1>a. ASSUME host'.loads >= 0, PrintIsOwed' PROVE PrintInv'
  BY <1>2, <1>3, <1>a DEF Shapes
<1>b. ASSUME nm' = nm, host'.loads = host.loads, Ready(host)' <=> Ready(host), newsBox' = newsBox
      PROVE  PrintInv'
  BY <1>1, <1>4, <1>a, <1>b DEF PrintIsOwed, Unused, Owed, Note, Kicking, InCache
<1>5. CASE NewsEnvironment
  <2>1. /\ nm' = nm /\ newsBox' = newsBox /\ host'.loads = host.loads
        /\ host.stage = "env" /\ host'.stage \in {"controller", "failed"}
    BY <1>5 DEF NewsEnvironment, EnvH_Invoke, HostShape
  <2>2. QED
    BY <1>b, <2>1 DEF Ready
<1>6. CASE NewsController
  <2>1. PICK ok \in BOOLEAN :
          Becomes(IF ok THEN ReadyCallback(nm, CtrlH_Invoke(host, ok)) ELSE <<nm, CtrlH_Invoke(host, ok)>>)
    BY <1>6 DEF NewsController
  <2>2. newsBox' = newsBox /\ host.stage = "controller" /\ nm.alive /\ Pending(host)
    BY <1>6 DEF NewsController, Pending
  <2>3. CASE ~ok
    <3>1. nm' = nm /\ host' = [host EXCEPT !.stage = "failed"]
      BY <2>1, <2>3 DEF Becomes, CtrlH_Invoke
    <3>2. host'.stage = "failed" /\ host'.loads = host.loads
      BY <3>1 DEF HostShape
    <3>3. QED
      BY <1>b, <2>2, <3>1, <3>2 DEF Ready
  <2>4. CASE ok
    <3> DEFINE h == CtrlH_Invoke(host, TRUE)
               r == [nm EXCEPT !.wv2_ready = TRUE]
    <3>1. h \in HostShape /\ Ready(h)
      BY <2>2, QueueIsApplied DEF Agrees
    <3>2. h.loads >= 0
      <4> DEFINE vis == [[host EXCEPT !.stage = "ready"] EXCEPT !.shown = host.want, !.want = TRUE]
                 n == vis.loads + 1
      <4>1. vis \in HostShape /\ vis.loads = host.loads
        BY DEF HostShape
      <4>2. h = IF host.uri = NoPage THEN vis ELSE [[vis EXCEPT !.page = host.uri, !.loads = n] EXCEPT !.uri = NoPage]
        BY DEF CtrlH_Invoke, wv2_apply_pending, Sent, HostShape
      <4>3. n \in Int /\ n >= 0
        BY <1>4, <4>1
      <4> HIDE DEF vis, n
      <4>4. QED
        BY <1>4, <4>1, <4>2, <4>3 DEF HostShape
    <3>3. r \in TabType /\ r.alive
      BY <2>2 DEF TabType
    <3>4. Becomes(IF r.index_loaded THEN nm_navigate_to_latest(r, h) ELSE <<r, h>>)
      BY <2>1, <2>4 DEF ReadyCallback
    <3>5. Ready(host') /\ host'.loads >= 0
      <4> HIDE DEF h, r
      <4>1. h.loads \in Int
        BY <3>1 DEF HostShape
      <4>2. QED
        BY <3>1, <3>2, <3>3, <3>4, <4>1, LatestOwes DEF Becomes, Ready
    <3>6. mcache = <<>>
      BY <2>2 DEF PrintIsOwed, Unused, Ready
    <3>7. PrintIsOwed'
      BY <1>1, <3>5, <3>6 DEF PrintIsOwed, InCache, Ready
    <3>8. QED
      BY <1>a, <3>5, <3>7
  <2>5. QED
    BY <2>3, <2>4
<1>7. CASE LateCompletion
  <2>1. host' = [host EXCEPT !.late = FALSE] /\ nm' = nm /\ newsBox' = newsBox
    BY <1>7 DEF LateCompletion
  <2>2. host'.stage = host.stage /\ host'.loads = host.loads
    BY <2>1 DEF HostShape
  <2>3. QED
    BY <1>b, <2>1, <2>2 DEF Ready
<1>8. CASE BackIssues \/ PickerClosed
  <2>1. PICK v \in BOOLEAN : host' = wv2_set_visible(host, v)
    BY <1>8 DEF BackIssues, PickerClosed, Dismissed
  <2>2. nm' = nm /\ newsBox' = newsBox
    BY <1>8 DEF BackIssues, PickerClosed
  <2>3. host'.stage = host.stage /\ host'.loads = host.loads
    BY <2>1 DEF wv2_set_visible, HostShape
  <2>4. QED
    BY <1>b, <2>2, <2>3 DEF Ready
<1>9. CASE PrintEnds
  BY <1>b, <1>9 DEF PrintEnds
<1>10. CASE TabDestroyed
  <2>1. nm' = [nm EXCEPT !.alive = FALSE] /\ host' = wv2_destroy(host)
    BY <1>10 DEF TabDestroyed
  <2>2. ~nm'.alive
    BY <2>1 DEF TabType
  <2>3. host'.loads = 0
    BY <2>1 DEF wv2_destroy, HostShape
  <2>4. QED
    BY <1>a, <2>2, <2>3 DEF PrintIsOwed
<1>11. CASE \E id \in Issues : IssuePicked(id)
  <2>1. PICK id \in Issues : IssuePicked(id)
    BY <1>11
  <2> DEFINE h == wv2_set_visible(host, TRUE)
  <2>2. nm.alive /\ newsBox' = newsBox /\ Becomes(nm_navigate_to_issue(nm, h, id))
    BY <2>1 DEF IssuePicked, Clickable, Dismissed
  <2>3. h \in HostShape /\ h.stage = host.stage
    BY SetVisibleShows
  <2>4. h.loads = host.loads
    BY DEF wv2_set_visible, HostShape
  <2> HIDE DEF h
  <2>5. /\ ~nm'.print /\ host'.stage = host.stage
        /\ host'.loads = IF Ready(host) THEN host.loads + 1 ELSE host.loads
    BY <2>2, <2>3, <2>4, NavigateOwes DEF Becomes, Ready
  <2>6. host'.loads >= 0 /\ (Ready(host) => host'.loads > 0)
    BY <1>4, <2>5
  <2>7. CASE Ready(host)
    <3>1. Ready(host')
      BY <2>5, <2>7 DEF Ready
    <3>2. PrintIsOwed'
      BY <2>6, <2>7, <3>1 DEF PrintIsOwed, Owed, Ready
    <3>3. QED
      BY <1>a, <2>6, <3>2
  <2>8. CASE ~Ready(host)
    <3>1. Unused(nm, newsBox, workers, mcache)
      BY <2>2, <2>8 DEF PrintIsOwed
    <3>2. Unused(nm', newsBox', workers', mcache')
      BY <1>1, <2>2, <2>5, <3>1 DEF Unused, Note
    <3>3. ~InCache(nm.current_id)'
      BY <3>2 DEF Unused, InCache
    <3>4. PrintIsOwed'
      BY <3>2, <3>3 DEF PrintIsOwed
    <3>5. QED
      BY <1>a, <2>6, <3>4
  <2>9. QED
    BY <2>7, <2>8
<1>12. QED
  BY <1>5, <1>6, <1>7, <1>8, <1>9, <1>10, <1>11

\* The steps of the workers and their messages: the tab's issue and its browser
\* stay as they are.
LEMMA WorkerSteps ==
  ASSUME NewsInv, PrintInv,
         \/ NavigationCompleted \/ IndexWorker \/ IndexFailed \/ ManifestReady \/ PrintClicked
         \/ \E w \in Slots : ManifestBegins(w) \/ ManifestFetched(w)
  PROVE  PrintInv'
<1> USE DEF NewsInv, TabShape, PrintInv
<1>1. host.loads \in Int /\ host.loads >= 0 /\ nm.current_id \in Issues \cup {NoPage}
  BY DEF Shapes, HostShape, TabType
<1>2. nm.alive => (nm.wv2_ready <=> Ready(host)) /\ host.stage # "freed"
  BY DEF Agrees
<1>3. CASE NavigationCompleted
  <2>1. PICK w \in Slots : workers[w].at = "idle" /\ workers' = [workers EXCEPT ![w] = Kicked(w)]
    BY <1>3 DEF NavigationCompleted
  <2>2. /\ Ready(host) /\ host.loads > 0 /\ host' = [host EXCEPT !.loads = host.loads - 1]
        /\ UNCHANGED <<newsBox, nm, mcache>>
    BY <1>3 DEF NavigationCompleted
  <2>3. Kicked(w) \in [at: {"idle", "kicked", "fetching"}, issue: Issues \cup {NoPage}] /\ Kicked(w).at = "kicked"
    BY DEF Kicked
  <2>4. host'.loads = host.loads - 1 /\ host'.stage = host.stage
    BY <2>2 DEF HostShape
  <2>5. Shapes' /\ workers'[w] = Kicked(w)
    BY <1>1, <2>1, <2>2, <2>3, <2>4 DEF Shapes
  <2>6. Kicking(workers')
    BY <2>3, <2>5 DEF Kicking
  <2>7. PrintIsOwed'
    BY <2>2, <2>4, <2>6 DEF PrintIsOwed, Owed, Ready
  <2>8. QED
    BY <2>2, <2>5, <2>7 DEF CacheSound
<1>4. CASE IndexWorker \/ IndexFailed
  <2>1. UNCHANGED <<host, nm, workers, mcache>>
    BY <1>4 DEF IndexWorker, IndexFailed
  <2>2. newsBox' \in Seq(Messages) /\ (Note(newsBox') <=> Note(newsBox))
    <3>1. \/ newsBox' = newsBox
          \/ \E m \in Messages : m # "manifest" /\ newsBox' = Append(newsBox, m)
          \/ newsBox # <<>> /\ Head(newsBox) # "manifest" /\ newsBox' = Tail(newsBox)
      BY <1>4 DEF IndexWorker, IndexFailed, Messages
    <3>2. QED
      BY <3>1, NoteAppended, NoteTaken DEF Shapes
  <2>3. Shapes' /\ CacheSound'
    BY <2>1, <2>2 DEF Shapes, CacheSound
  <2>4. PrintIsOwed'
    BY <2>1, <2>2 DEF PrintIsOwed, Unused, Owed, InCache
  <2>5. QED
    BY <2>3, <2>4
<1>5. CASE ManifestReady
  <2>1. /\ nm' = [nm EXCEPT !.save = TRUE, !.print = TRUE] /\ newsBox # <<>> /\ newsBox' = Tail(newsBox)
        /\ nm.alive /\ Head(newsBox) = "manifest" /\ UNCHANGED <<host, workers, mcache>>
    BY <1>5 DEF ManifestReady
  <2>2. nm'.print
    BY <2>1 DEF TabType
  <2>3. newsBox' \in Seq(Messages)
    BY <2>1, NoteTaken DEF Shapes
  <2>4. Note(newsBox)
    BY <2>1 DEF Note, Shapes
  <2>5. Ready(host)
    BY <2>1, <2>4 DEF PrintIsOwed, Unused
  <2>6. PrintIsOwed'
    BY <2>1, <2>2, <2>5 DEF PrintIsOwed, Owed
  <2>7. QED
    BY <2>1, <2>3, <2>6 DEF Shapes, CacheSound
<1>6. CASE PrintClicked
  <2>1. nm.alive /\ nm.print /\ UNCHANGED <<host, newsBox, nm, workers>>
    BY <1>6 DEF PrintClicked, Clickable
  <2>2. CacheSound'
    BY <1>1, <1>6, StoredSound DEF PrintClicked, CacheSound
  <2>3. Ready(host)
    BY <2>1 DEF PrintIsOwed, Unused
  <2>4. PrintIsOwed'
    BY <2>1, <2>3 DEF PrintIsOwed, Owed
  <2>5. QED
    BY <2>1, <2>2, <2>4 DEF Shapes
<1>7. ASSUME NEW w \in Slots, workers[w].at # "idle", UNCHANGED <<host, nm>>,
             NEW r \in [at: {"idle", "fetching"}, issue: Issues \cup {NoPage}], workers' = [workers EXCEPT ![w] = r],
             CacheSound', newsBox' \in Seq(Messages), nm.alive => Ready(host),
             nm.alive => \/ ~InCache(nm.current_id)'
                         \/ Note(newsBox')
                         \/ UNCHANGED <<newsBox, mcache>> /\ workers[w].at = "fetching"
      PROVE  PrintInv'
  <2>1. Shapes'
    BY <1>7 DEF Shapes
  <2>2. PrintIsOwed'
    <3>1. CASE nm.alive /\ UNCHANGED <<newsBox, mcache>> /\ workers[w].at = "fetching"
      <4>1. \A v \in Slots : workers[v].at = "kicked" => workers'[v].at = "kicked"
        BY <1>7, <3>1 DEF Shapes
      <4>2. Kicking(workers) => Kicking(workers')
        BY <4>1 DEF Kicking
      <4>3. InCache(nm.current_id)' => InCache(nm.current_id)
        BY <1>7, <3>1 DEF InCache
      <4>4. QED
        BY <1>7, <3>1, <4>2, <4>3 DEF PrintIsOwed, Owed
    <3>2. CASE ~nm.alive \/ ~InCache(nm.current_id)' \/ Note(newsBox')
      BY <1>7, <3>2 DEF PrintIsOwed, Owed
    <3>3. QED
      BY <1>7, <3>1, <3>2
  <2>3. QED
    BY <1>7, <2>1, <2>2
<1>8. ASSUME NEW w \in Slots, workers[w].at # "idle" PROVE nm.alive => Ready(host)
  BY <1>8 DEF PrintIsOwed, Unused
<1>9. Idle \in [at: {"idle", "fetching"}, issue: Issues \cup {NoPage}] /\ "manifest" \in Messages
  BY DEF Idle, Messages
<1>10. ASSUME NEW w \in Slots, ManifestBegins(w) PROVE PrintInv'
  <2>1. workers[w].at = "kicked" /\ UNCHANGED <<host, nm>>
    BY <1>10 DEF ManifestBegins
  <2>2. nm.alive => Ready(host)
    BY <1>8, <2>1
  <2>3. CASE ~nm.alive
    BY <1>7, <1>9, <1>10, <2>1, <2>2, <2>3 DEF ManifestBegins, Shapes, CacheSound
  <2>4. CASE nm.alive /\ InCache(nm.current_id)
    <3>1. /\ workers' = [workers EXCEPT ![w] = Idle] /\ mcache' = Touched(nm.current_id)
          /\ newsBox' = Append(newsBox, "manifest")
      BY <1>10, <2>4 DEF ManifestBegins
    <3>2. CacheSound'
      BY <1>1, <2>4, <3>1, TouchedSound DEF CacheSound
    <3>3. newsBox' \in Seq(Messages) /\ Note(newsBox')
      BY <1>9, <3>1, NoteAppended DEF Shapes
    <3>4. QED
      BY <1>7, <1>9, <2>1, <2>2, <3>1, <3>2, <3>3
  <2>5. CASE nm.alive /\ ~InCache(nm.current_id)
    <3> DEFINE r == [at |-> "fetching", issue |-> nm.current_id]
    <3>1. workers' = [workers EXCEPT ![w] = r] /\ UNCHANGED <<newsBox, mcache>>
      BY <1>10, <2>5 DEF ManifestBegins
    <3>2. r \in [at: {"idle", "fetching"}, issue: Issues \cup {NoPage}]
      BY <1>1
    <3> HIDE DEF r
    <3>3. CacheSound' /\ newsBox' \in Seq(Messages)
      BY <3>1 DEF CacheSound, Shapes
    <3>4. ~InCache(nm.current_id)'
      BY <2>1, <2>5, <3>1 DEF InCache
    <3>5. QED
      BY <1>7, <2>1, <2>2, <3>1, <3>2, <3>3, <3>4
  <2>6. QED
    BY <2>3, <2>4, <2>5
<1>11. ASSUME NEW w \in Slots, ManifestFetched(w) PROVE PrintInv'
  <2>1. /\ workers[w].at = "fetching" /\ UNCHANGED <<host, nm>> /\ workers' = [workers EXCEPT ![w] = Idle]
        /\ workers[w].issue \in Issues \cup {NoPage}
    BY <1>11 DEF ManifestFetched, Shapes
  <2>2. nm.alive => Ready(host)
    BY <1>8, <2>1
  <2>3. CASE UNCHANGED <<newsBox, mcache>>
    BY <1>7, <1>9, <2>1, <2>2, <2>3 DEF Shapes, CacheSound
  <2>4. CASE mcache' = Stored(workers[w].issue) /\ newsBox' = Append(newsBox, "manifest")
    <3>1. CacheSound'
      BY <2>1, <2>4, StoredSound DEF CacheSound
    <3>2. newsBox' \in Seq(Messages) /\ Note(newsBox')
      BY <1>9, <2>4, NoteAppended DEF Shapes
    <3>3. QED
      BY <1>7, <1>9, <2>1, <2>2, <3>1, <3>2
  <2>5. QED
    BY <1>11, <2>3, <2>4 DEF ManifestFetched
<1>12. QED
  BY <1>3, <1>4, <1>5, <1>6, <1>10, <1>11

LEMMA PrintInvStep == NewsInv /\ PrintInv /\ [NewsNext]_newsVars => PrintInv'
<1> SUFFICES ASSUME NewsInv, PrintInv, [NewsNext]_newsVars PROVE PrintInv'
  OBVIOUS
<1>1. CASE UNCHANGED newsVars
  BY <1>1 DEF newsVars, PrintInv, Shapes, CacheSound, PrintIsOwed, Unused, Owed, Note, Kicking, InCache, Ready
<1>2. CASE IndexReady
  <2> DEFINE t == [nm EXCEPT !.index_loaded = TRUE, !.back = TRUE]
  <2>1. /\ nm.alive /\ newsBox # <<>> /\ Head(newsBox) # "manifest" /\ newsBox' = Tail(newsBox)
        /\ Becomes(IF t.wv2_ready THEN nm_navigate_to_latest(t, host) ELSE <<t, host>>)
        /\ UNCHANGED <<workers, mcache>>
    BY <1>2 DEF IndexReady
  <2>2. newsBox' \in Seq(Messages) /\ (Note(newsBox') <=> Note(newsBox))
    BY <2>1, NoteTaken DEF PrintInv, Shapes
  <2>3. /\ t \in TabType /\ t.alive /\ t.current_id = nm.current_id /\ t.print = nm.print
        /\ t.wv2_ready <=> Ready(host)
    BY <2>1 DEF NewsInv, TabShape, TabType, Agrees
  <2>4. host \in HostShape /\ host.loads \in Int /\ host.loads >= 0 /\ PrintIsOwed
    BY DEF NewsInv, TabShape, HostShape, PrintInv, Shapes
  <2> HIDE DEF t
  <2>5. CASE nm' = t /\ host' = host
    <3>1. PrintIsOwed'
      BY <2>1, <2>2, <2>3, <2>4, <2>5 DEF PrintIsOwed, Unused, Owed, InCache
    <3>2. QED
      BY <2>1, <2>2, <2>4, <2>5, <3>1 DEF PrintInv, Shapes, CacheSound
  <2>6. CASE ~(nm' = t /\ host' = host)
    <3>1. Ready(host) /\ host'.stage = host.stage /\ host'.loads = host.loads + 1
      BY <2>1, <2>3, <2>4, <2>6, LatestOwes DEF Becomes
    <3>2. host'.loads > 0 /\ host'.loads >= 0
      BY <2>4, <3>1
    <3>3. PrintIsOwed'
      BY <3>1, <3>2 DEF PrintIsOwed, Owed, Ready
    <3>4. QED
      BY <2>1, <2>2, <3>2, <3>3 DEF PrintInv, Shapes, CacheSound
  <2>7. QED
    BY <2>5, <2>6
<1>3. QED
  BY <1>1, <1>2, BrowserSteps, WorkerSteps DEF NewsNext

(* Whatever workers, navigations and Print do at the same time, for any cache  *)
(* and any number of picks: the cache holds each manifest once and never more  *)
(* than its bound, and when all has come to rest the Print button of an issue  *)
(* whose manifest is there is enabled (news_fetch_manifest,                    *)
(* nm_kick_manifest_fetch, nm_manifest_worker).                                *)
THEOREM NewsManifestsServePrint == NewsSpec => []ManifestsServePrint
<1>1. PrintInv => OneManifestEach
  BY DistinctCount DEF PrintInv, CacheSound, OneManifestEach
<1>2. PrintInv => PrintComesBack
  <2> SUFFICES ASSUME PrintInv, nm.alive, host.loads = 0, newsBox = <<>>,
                      \A w \in Slots : workers[w] = Idle, InCache(nm.current_id)
               PROVE  nm.print
    BY DEF PrintComesBack
  <2>1. ~Note(newsBox)
    BY DEF Note
  <2>2. ~Kicking(workers)
    BY DEF Kicking, Idle
  <2>3. QED
    BY <2>1, <2>2 DEF PrintInv, PrintIsOwed, Owed
<1>3. NewsInv /\ PrintInv /\ [NewsNext]_newsVars => (NewsInv /\ PrintInv)'
  BY NewsInvStep, PrintInvStep
<1>4. PrintInv => ManifestsServePrint
  BY <1>1, <1>2 DEF ManifestsServePrint
<1>5. QED
  BY <1>3, <1>4, NewsInvInit, PrintInvInit, PTL DEF NewsSpec

-------------------------------------------------------------------------------
(* Gopher: the two stacks around a page, as the one sequence they stand for. *)

Laid(b, p, f) == b \o <<p>> \o Reverse(f)

LEMMA LaidAt ==
  ASSUME NEW S, NEW b \in Seq(S), NEW p \in S, NEW f \in Seq(S)
  PROVE  /\ Laid(b, p, f) \in Seq(S)
         /\ Len(Laid(b, p, f)) = Len(b) + 1 + Len(f)
         /\ \A i \in 1..Len(b) : Laid(b, p, f)[i] = b[i]
         /\ Laid(b, p, f)[Len(b) + 1] = p
         /\ \A i \in Len(b) + 2..Len(b) + 1 + Len(f) : Laid(b, p, f)[i] = f[Len(f) - i + Len(b) + 2]
<1> DEFINE r == Reverse(f)
           bp == b \o <<p>>
<1>1. Len(b) \in Nat /\ Len(f) \in Nat
  BY LenProperties
<1>2. \A i \in 1..Len(f) : f[Len(f) - i + 1] \in S
  BY <1>1, ElementOfSeq
<1>3. r \in [1..Len(f) -> S] /\ \A i \in 1..Len(f) : r[i] = f[Len(f) - i + 1]
  BY <1>1, <1>2 DEF Reverse
<1>4. r \in Seq(S) /\ Len(r) = Len(f)
  BY <1>1, <1>3
<1>5. /\ <<p>> \in Seq(S) /\ Len(<<p>>) = 1 /\ <<p>>[1] = p
  OBVIOUS
<1>6. /\ bp \in Seq(S) /\ Len(bp) = Len(b) + 1
      /\ \A i \in 1..Len(b) + 1 : bp[i] = IF i <= Len(b) THEN b[i] ELSE <<p>>[i - Len(b)]
  BY <1>5, ConcatProperties
<1>7. /\ bp[Len(b) + 1] = p /\ \A i \in 1..Len(b) : bp[i] = b[i]
  BY <1>1, <1>5, <1>6
<1> HIDE DEF bp, r
<1>8. /\ bp \o r \in Seq(S) /\ Len(bp \o r) = Len(b) + 1 + Len(f)
      /\ \A i \in 1..Len(b) + 1 + Len(f) : (bp \o r)[i] = IF i <= Len(b) + 1 THEN bp[i] ELSE r[i - (Len(b) + 1)]
  <2>1. /\ bp \o r \in Seq(S) /\ Len(bp \o r) = Len(bp) + Len(r)
        /\ \A i \in 1..Len(bp) + Len(r) : (bp \o r)[i] = IF i <= Len(bp) THEN bp[i] ELSE r[i - Len(bp)]
    <3>1. bp \in Seq(S) /\ r \in Seq(S)
      BY <1>4, <1>6
    <3>2. QED
      BY <3>1, ConcatProperties
  <2>2. Len(bp) = Len(b) + 1 /\ Len(r) = Len(f)
    BY <1>4, <1>6
  <2>3. QED
    BY <2>1, <2>2, Zenon
<1>9. \A i \in Len(b) + 2..Len(b) + 1 + Len(f) :
        /\ i \in 1..Len(b) + 1 + Len(f) /\ ~(i <= Len(b) + 1)
        /\ i - (Len(b) + 1) \in 1..Len(f)
        /\ Len(f) - (i - (Len(b) + 1)) + 1 = Len(f) - i + Len(b) + 2
  BY <1>1
<1>10. \A i \in Len(b) + 2..Len(b) + 1 + Len(f) : (bp \o r)[i] = f[Len(f) - i + Len(b) + 2]
  BY <1>3, <1>8, <1>9
<1>11. /\ Len(b) + 1 \in 1..Len(b) + 1 + Len(f) /\ Len(b) + 1 <= Len(b) + 1
       /\ \A i \in 1..Len(b) : i \in 1..Len(b) + 1 + Len(f) /\ i <= Len(b) + 1
  BY <1>1
<1>12. (bp \o r)[Len(b) + 1] = p /\ \A i \in 1..Len(b) : (bp \o r)[i] = b[i]
  BY <1>7, <1>8, <1>11
<1>13. Laid(b, p, f) = bp \o r
  BY DEF Laid, bp, r
<1>14. QED
  BY <1>8, <1>10, <1>12, <1>13

LEMMA FrontLast ==
  ASSUME NEW S, NEW s \in Seq(S), s # <<>>
  PROVE  /\ Front(s) \in Seq(S) /\ Len(s) \in Nat \ {0} /\ Len(Front(s)) = Len(s) - 1
         /\ \A i \in 1..Len(s) - 1 : Front(s)[i] = s[i]
         /\ Last(s) = s[Len(s)] /\ Last(s) \in S
<1>1. Len(s) \in Nat \ {0}
  BY EmptySeq
<1>2. \A i \in 1..Len(s) : s[i] \in S
  BY ElementOfSeq
<1>3. /\ SubSeq(s, 1, Len(s) - 1) \in Seq(S)
      /\ Len(SubSeq(s, 1, Len(s) - 1)) = IF 1 <= Len(s) - 1 THEN Len(s) - 1 - 1 + 1 ELSE 0
      /\ \A i \in 1..Len(s) - 1 - 1 + 1 : SubSeq(s, 1, Len(s) - 1)[i] = s[1 + i - 1]
  <2>1. 1 \in Int /\ Len(s) - 1 \in Int /\ \A i \in 1..Len(s) - 1 : s[i] \in S
    BY <1>1, <1>2
  <2> DEFINE n == Len(s) - 1
  <2> HIDE DEF n
  <2>2. /\ SubSeq(s, 1, n) \in Seq(S)
        /\ Len(SubSeq(s, 1, n)) = IF 1 <= n THEN n - 1 + 1 ELSE 0
        /\ \A i \in 1..n - 1 + 1 : SubSeq(s, 1, n)[i] = s[1 + i - 1]
    BY <2>1, SubSeqProperties DEF n
  <2>3. QED
    BY <2>2 DEF n
<1>4. Front(s) = SubSeq(s, 1, Len(s) - 1) /\ Last(s) = s[Len(s)]
  BY DEF Front, Last
<1>5. Len(Front(s)) = Len(s) - 1
  <2> DEFINE n == Len(s)
  <2>1. n \in Nat \ {0} /\ Len(Front(s)) = IF 1 <= n - 1 THEN n - 1 - 1 + 1 ELSE 0
    BY <1>1, <1>3, <1>4
  <2> HIDE DEF n
  <2>2. Len(Front(s)) = n - 1
    BY <2>1
  <2>3. QED
    BY <2>2 DEF n
<1>6. ASSUME NEW i \in 1..Len(s) - 1
      PROVE  Front(s)[i] = s[i]
  <2>1. i \in 1..Len(s) - 1 - 1 + 1 /\ 1 + i - 1 = i
    BY <1>1
  <2>2. QED
    BY <2>1, <1>3, <1>4
<1>7. Len(s) \in 1..Len(s)
  BY <1>1
<1>8. QED
  BY <1>1, <1>2, <1>3, <1>4, <1>5, <1>6, <1>7

\* Going back moves the page before the current one between the stacks, ...
LEMMA LaidBack ==
  ASSUME NEW S, NEW b \in Seq(S), NEW p \in S, NEW f \in Seq(S), b # <<>>
  PROVE  Laid(Front(b), Last(b), Append(f, p)) = Laid(b, p, f)
<1> DEFINE fp == Append(f, p)
           fb == Front(b)
           q == Last(b)
<1>1. /\ fb \in Seq(S) /\ Len(b) \in Nat \ {0} /\ Len(fb) = Len(b) - 1
      /\ (\A i \in 1..Len(b) - 1 : fb[i] = b[i]) /\ q = b[Len(b)] /\ q \in S
  BY FrontLast
<1>2. /\ fp \in Seq(S) /\ Len(fp) = Len(f) + 1 /\ fp[Len(f) + 1] = p
      /\ \A i \in 1..Len(f) : fp[i] = f[i]
  BY AppendProperties
<1>3. Len(f) \in Nat
  BY LenProperties
<1> HIDE DEF fp, fb, q
<1> DEFINE s == Laid(fb, q, fp)
           t == Laid(b, p, f)
<1>4. /\ s \in Seq(S) /\ Len(s) = Len(fb) + 1 + Len(fp)
      /\ \A i \in 1..Len(fb) : s[i] = fb[i]
      /\ s[Len(fb) + 1] = q
      /\ \A i \in Len(fb) + 2..Len(fb) + 1 + Len(fp) : s[i] = fp[Len(fp) - i + Len(fb) + 2]
  <2> fb \in Seq(S) /\ q \in S /\ fp \in Seq(S)
    BY <1>1, <1>2
  <2>1. s \in Seq(S)
    BY LaidAt
  <2>2. Len(s) = Len(fb) + 1 + Len(fp)
    BY LaidAt
  <2>3. \A i \in 1..Len(fb) : s[i] = fb[i]
    BY LaidAt
  <2>4. s[Len(fb) + 1] = q
    BY LaidAt
  <2>5. \A i \in Len(fb) + 2..Len(fb) + 1 + Len(fp) : s[i] = fp[Len(fp) - i + Len(fb) + 2]
    BY LaidAt
  <2>6. QED
    BY <2>1, <2>2, <2>3, <2>4, <2>5, Zenon
<1>5. /\ t \in Seq(S) /\ Len(t) = Len(b) + 1 + Len(f)
      /\ \A i \in 1..Len(b) : t[i] = b[i]
      /\ t[Len(b) + 1] = p
      /\ \A i \in Len(b) + 2..Len(b) + 1 + Len(f) : t[i] = f[Len(f) - i + Len(b) + 2]
  <2>1. t \in Seq(S)
    BY LaidAt
  <2>2. Len(t) = Len(b) + 1 + Len(f)
    BY LaidAt
  <2>3. \A i \in 1..Len(b) : t[i] = b[i]
    BY LaidAt
  <2>4. t[Len(b) + 1] = p
    BY LaidAt
  <2>5. \A i \in Len(b) + 2..Len(b) + 1 + Len(f) : t[i] = f[Len(f) - i + Len(b) + 2]
    BY LaidAt
  <2>6. QED
    BY <2>1, <2>2, <2>3, <2>4, <2>5, Zenon
<1> HIDE DEF s, t
<1>6. Len(s) = Len(t)
  BY <1>1, <1>2, <1>3, <1>4, <1>5
<1>7. ASSUME NEW i \in 1..Len(t)
      PROVE  s[i] = t[i]
  <2>1. CASE i \in 1..Len(b) - 1
    BY <2>1, <1>1, <1>4, <1>5
  <2>2. CASE i = Len(b)
    BY <2>2, <1>1, <1>4, <1>5
  <2>3. CASE i = Len(b) + 1
    <3>1. i \in Len(fb) + 2..Len(fb) + 1 + Len(fp) /\ Len(fp) - i + Len(fb) + 2 = Len(f) + 1
      BY <2>3, <1>1, <1>2, <1>3
    <3>2. QED
      BY <2>3, <3>1, <1>2, <1>4, <1>5
  <2>4. CASE i \in Len(b) + 2..Len(b) + 1 + Len(f)
    <3>1. /\ i \in Len(fb) + 2..Len(fb) + 1 + Len(fp)
          /\ Len(fp) - i + Len(fb) + 2 = Len(f) - i + Len(b) + 2
          /\ Len(f) - i + Len(b) + 2 \in 1..Len(f)
      BY <2>4, <1>1, <1>2, <1>3
    <3>2. QED
      BY <2>4, <3>1, <1>2, <1>4, <1>5
  <2>5. QED
    BY <2>1, <2>2, <2>3, <2>4, <1>1, <1>3, <1>5
<1>8. QED
  BY <1>4, <1>5, <1>6, <1>7, SeqEqual DEF s, t, fp, fb, q

\* ... going forward the page after it, ...
LEMMA LaidForward ==
  ASSUME NEW S, NEW b \in Seq(S), NEW p \in S, NEW f \in Seq(S), f # <<>>
  PROVE  Laid(Append(b, p), Last(f), Front(f)) = Laid(b, p, f)
<1> DEFINE ff == Front(f)
           q == Last(f)
<1>1. /\ ff \in Seq(S) /\ Len(f) \in Nat \ {0} /\ Len(ff) = Len(f) - 1
      /\ (\A i \in 1..Len(f) - 1 : ff[i] = f[i]) /\ q = f[Len(f)] /\ q \in S
  BY FrontLast
<1>2. Append(b, p) \in Seq(S) /\ Append(b, p) # <<>> /\ Len(Append(b, p)) = Len(b) + 1
      /\ (\A i \in 1..Len(b) : Append(b, p)[i] = b[i]) /\ Append(b, p)[Len(b) + 1] = p
  BY AppendProperties
<1>3. Front(Append(b, p)) = b /\ Last(Append(b, p)) = p
  <2>1. /\ Front(Append(b, p)) \in Seq(S) /\ Len(Front(Append(b, p))) = Len(Append(b, p)) - 1
        /\ \A i \in 1..Len(Append(b, p)) - 1 : Front(Append(b, p))[i] = Append(b, p)[i]
        /\ Last(Append(b, p)) = Append(b, p)[Len(Append(b, p))]
    BY <1>2, FrontLast
  <2>2. Len(b) \in Nat /\ Len(b) + 1 - 1 = Len(b)
    BY LenProperties
  <2>3. QED
    BY <2>1, <2>2, <1>2, SeqEqual
<1>4. Append(ff, q) = f
  <2>1. /\ Append(ff, q) \in Seq(S) /\ Len(Append(ff, q)) = Len(ff) + 1
        /\ (\A i \in 1..Len(ff) : Append(ff, q)[i] = ff[i]) /\ Append(ff, q)[Len(ff) + 1] = q
    BY <1>1, AppendProperties
  <2>2. Len(Append(ff, q)) = Len(f) /\ \A i \in 1..Len(f) : Append(ff, q)[i] = f[i]
    BY <2>1, <1>1
  <2>3. QED
    BY <2>1, <2>2, SeqEqual
<1> HIDE DEF ff, q
<1>5. Laid(Front(Append(b, p)), Last(Append(b, p)), Append(ff, q)) = Laid(Append(b, p), q, ff)
  BY <1>1, <1>2, LaidBack
<1>6. QED
  BY <1>3, <1>4, <1>5 DEF ff, q

\* ... and up to the current page a sequence is the back stack and that page.
LEMMA LaidUpTo ==
  ASSUME NEW S, NEW b \in Seq(S), NEW p \in S, NEW f \in Seq(S)
  PROVE  /\ SubSeq(Laid(b, p, f), 1, Len(b) + 1) = Append(b, p)
         /\ Laid(b, p, <<>>) = Append(b, p)
<1> DEFINE t == Laid(b, p, f)
           a == Append(b, p)
           u == SubSeq(t, 1, Len(b) + 1)
           v == Laid(b, p, <<>>)
<1>1. Len(b) \in Nat /\ Len(f) \in Nat
  BY LenProperties
<1>2. /\ a \in Seq(S) /\ Len(a) = Len(b) + 1
      /\ (\A i \in 1..Len(b) : a[i] = b[i]) /\ a[Len(b) + 1] = p
  BY AppendProperties
<1>3. /\ t \in Seq(S) /\ Len(t) = Len(b) + 1 + Len(f)
      /\ (\A i \in 1..Len(b) : t[i] = b[i]) /\ t[Len(b) + 1] = p
  BY LaidAt
<1>4. <<>> \in Seq(S) /\ Len(<<>>) = 0
  BY EmptySeq
<1>5. /\ v \in Seq(S) /\ Len(v) = Len(b) + 1 + Len(<<>>)
      /\ (\A i \in 1..Len(b) : v[i] = b[i]) /\ v[Len(b) + 1] = p
  <2> DEFINE e == <<>>
  <2>1. e \in Seq(S)
    BY <1>4
  <2> HIDE DEF e
  <2>2. Laid(b, p, e) \in Seq(S) /\ Len(Laid(b, p, e)) = Len(b) + 1 + Len(e)
    BY <2>1, LaidAt
  <2>3. \A i \in 1..Len(b) : Laid(b, p, e)[i] = b[i]
    BY <2>1, LaidAt
  <2>4. Laid(b, p, e)[Len(b) + 1] = p
    BY <2>1, LaidAt
  <2>5. QED
    BY <2>2, <2>3, <2>4 DEF e
<1>6. \A i \in 1..Len(b) + 1 : t[i] \in S
  BY <1>1, <1>3, ElementOfSeq
<1> HIDE DEF t, a, v
<1>7. /\ u \in Seq(S) /\ Len(u) = Len(b) + 1
      /\ \A i \in 1..Len(b) + 1 : u[i] = t[i]
  <2> DEFINE n == Len(b) + 1
  <2>1. n \in Int /\ 1 \in Int /\ 1 <= n /\ n - 1 + 1 = n
    BY <1>1
  <2> HIDE DEF n
  <2>2. \A i \in 1..n : t[i] \in S
    BY <1>6 DEF n
  <2>3. /\ SubSeq(t, 1, n) \in Seq(S) /\ Len(SubSeq(t, 1, n)) = IF 1 <= n THEN n - 1 + 1 ELSE 0
        /\ \A i \in 1..n - 1 + 1 : SubSeq(t, 1, n)[i] = t[1 + i - 1]
    BY <2>1, <2>2, SubSeqProperties
  <2>4. \A i \in 1..n : 1 + i - 1 = i
    BY <2>1
  <2>5. QED
    BY <2>1, <2>3, <2>4 DEF n
<1> HIDE DEF u
<1>8. ASSUME NEW i \in 1..Len(a)
      PROVE  u[i] = a[i] /\ v[i] = a[i]
  <2>1. i \in 1..Len(b) + 1 /\ (i \in 1..Len(b) \/ i = Len(b) + 1)
    BY <1>1, <1>2
  <2>2. u[i] = a[i]
    BY <2>1, <1>2, <1>3, <1>7
  <2>3. v[i] = a[i]
    BY <2>1, <1>2, <1>5
  <2>4. QED
    BY <2>2, <2>3
<1>9. u = a
  BY <1>2, <1>7, <1>8, SeqEqual
<1>10. v = a
  <2>1. Len(v) = Len(a)
    BY <1>1, <1>2, <1>4, <1>5
  <2>2. QED
    BY <2>1, <1>2, <1>5, <1>8, SeqEqual
<1>11. QED
  BY <1>9, <1>10 DEF t, a, u, v

LEMMA VisitedIs ==
  ASSUME NEW S, NEW b \in Seq(S), NEW p \in S, NEW f \in Seq(S), NEW u \in S, NEW n \in Nat \ {0},
         Len(b) <= n
  PROVE  LET t == Append(SubSeq(Laid(b, p, f), 1, Len(b) + 1), u)
             k == Append(IF Len(b) >= n THEN Tail(b) ELSE b, p)
         IN  /\ k \in Seq(S) /\ Len(k) <= n
             /\ (IF Len(t) > n + 1 THEN Tail(t) ELSE t) = Laid(k, u, <<>>)
             /\ Len(Laid(k, u, <<>>)) = Len(k) + 1
<1> DEFINE bp == Append(b, p)
           t == Append(bp, u)
           k == Append(IF Len(b) >= n THEN Tail(b) ELSE b, p)
<1>1. /\ bp \in Seq(S) /\ bp # <<>> /\ Len(bp) = Len(b) + 1 /\ Len(b) \in Nat
  BY AppendProperties, LenProperties
<1>2. Append(SubSeq(Laid(b, p, f), 1, Len(b) + 1), u) = t
  BY LaidUpTo
<1>3. t \in Seq(S) /\ Len(t) = Len(b) + 2
  BY <1>1, AppendProperties
<1>4. \A s \in Seq(S) : Laid(s, u, <<>>) = Append(s, u) /\ Len(Append(s, u)) = Len(s) + 1
  <2>1. <<>> \in Seq(S)
    BY EmptySeq
  <2>2. QED
    BY <2>1, LaidUpTo, AppendProperties
<1>5. CASE Len(b) >= n
  <2>1. Len(b) # 0 /\ Len(b) = n
    BY <1>1, <1>5
  <2>2. b # <<>>
    BY <2>1, EmptySeq
  <2>3. Tail(b) \in Seq(S) /\ Len(Tail(b)) = Len(b) - 1
    BY <2>2, HeadTailProperties
  <2>4. Tail(bp) = Append(Tail(b), p)
    BY <2>2, HeadTailAppend
  <2>5. Tail(t) = Append(Tail(bp), u)
    BY <1>1, HeadTailAppend
  <2>6. k = Append(Tail(b), p)
    BY <1>5
  <2>7. k \in Seq(S) /\ Len(k) = Len(b)
    <3>1. Append(Tail(b), p) \in Seq(S) /\ Len(Append(Tail(b), p)) = Len(Tail(b)) + 1
      BY <2>3, AppendProperties
    <3>2. Len(Tail(b)) + 1 = Len(b)
      BY <1>1, <2>3
    <3> HIDE DEF k
    <3>3. QED
      BY <2>6, <3>1, <3>2
  <2>8. Len(t) > n + 1
    BY <1>1, <1>3, <1>5
  <2>9. Laid(k, u, <<>>) = Tail(t) /\ Len(Laid(k, u, <<>>)) = Len(k) + 1
    BY <1>4, <2>4, <2>5, <2>6, <2>7
  <2> HIDE DEF t, k
  <2>10. QED
    BY <1>2, <2>1, <2>7, <2>8, <2>9 DEF k
<1>6. CASE ~(Len(b) >= n)
  <2>1. k = bp
    BY <1>6
  <2>2. ~(Len(t) > n + 1) /\ Len(bp) <= n
    BY <1>1, <1>3, <1>6
  <2>3. Laid(bp, u, <<>>) = t /\ Len(Laid(bp, u, <<>>)) = Len(bp) + 1
    BY <1>1, <1>4
  <2> HIDE DEF t, k, bp
  <2>4. QED
    BY <1>1, <1>2, <2>1, <2>2, <2>3 DEF k
<1>7. QED
  BY <1>5, <1>6

-------------------------------------------------------------------------------
(* The one fetch, and the place in the history.                              *)

Documents == Targets \ Files
Fetches == [url: Targets, push: BOOLEAN, at: {"connect", "recv", "data", "end"}]
GopherAnswers == [url: Targets, push: BOOLEAN, ok: BOOLEAN, whole: BOOLEAN]

OneFetch ==
    /\ job = None \/ job \in Fetches
    /\ done = <<>> \/ \E r \in GopherAnswers : done = <<r>>
    /\ g_fetch_in_flight \in BOOLEAN
    /\ job # None => g_fetch_in_flight /\ done = <<>>
    /\ done # <<>> => g_fetch_in_flight
    /\ g_fetch_in_flight => job # None \/ done # <<>>

WantedUrl == IF job # None THEN job.url ELSE Result.url
Moving == g_fetch_in_flight /\ (IF job # None THEN ~job.push ELSE ~Result.push)

HistShape ==
    /\ back \in Seq(Documents) /\ fwd \in Seq(Documents)
    /\ current \in Documents \cup {Nowhere}
    /\ current # Nowhere => canvas = current
    /\ strayed \in BOOLEAN

Unvisited ==
    /\ current = Nowhere /\ here = 0 /\ trail = <<>> /\ back = <<>> /\ fwd = <<>>
    /\ ~Moving
IsAt(p) ==
    /\ trail = Laid(back, p, fwd) /\ here = Len(back) + 1
    /\ Len(back) + Len(fwd) <= HistMax
    /\ current = p \/ (current = Nowhere /\ Moving)
    /\ Moving => WantedUrl = p
OnTrail == ~strayed => Unvisited \/ \E p \in Documents : IsAt(p)

TrailInv == OneFetch /\ HistShape /\ OnTrail

LEMMA JobIsThere ==
  ASSUME job \in Fetches
  PROVE  job # None
BY GopherAssumption DEF Fetches, None

\* A fetch that is begun, or refused because there is one.
LEMMA FetchBegins ==
  ASSUME OneFetch, NEW u \in Targets, NEW push \in BOOLEAN, StartFetch(u, push)
  PROVE  /\ OneFetch'
         /\ \/ UNCHANGED fetchVars
            \/ /\ ~g_fetch_in_flight /\ g_fetch_in_flight'
               /\ Moving' <=> ~push
               /\ WantedUrl' = u
<1>1. CASE g_fetch_in_flight
  <2>1. UNCHANGED fetchVars
    BY <1>1 DEF StartFetch
  <2>2. QED
    BY <2>1 DEF fetchVars, OneFetch
<1>2. CASE ~g_fetch_in_flight
  <2> DEFINE j == [url |-> u, push |-> push, at |-> "connect"]
  <2>1. job' = j /\ g_fetch_in_flight' = TRUE /\ done' = done
    BY <1>2 DEF StartFetch
  <2>2. done = <<>>
    BY <1>2 DEF OneFetch
  <2>3. j \in Fetches /\ j.url = u /\ j.push = push
    BY DEF Fetches
  <2> HIDE DEF j
  <2>4. job' # None
    BY <2>1, <2>3, GopherAssumption DEF Fetches, None
  <2>5. OneFetch'
    BY <2>1, <2>2, <2>3, <2>4 DEF OneFetch
  <2>6. WantedUrl' = u
    BY <2>1, <2>3, <2>4 DEF WantedUrl
  <2>7. Moving' <=> ~push
    BY <2>1, <2>3, <2>4 DEF Moving
  <2>8. QED
    BY <1>2, <2>1, <2>5, <2>6, <2>7
<1>3. QED
  BY <1>1, <1>2 DEF OneFetch

LEMMA OneFetchNavigates ==
  ASSUME OneFetch, NEW u \in Targets, NEW push \in BOOLEAN, Navigate(u, push)
  PROVE  /\ OneFetch'
         /\ \/ UNCHANGED fetchVars
            \/ /\ ~g_fetch_in_flight /\ g_fetch_in_flight'
               /\ Moving' <=> ~push
               /\ WantedUrl' = u
<1>1. CASE Supported(u)
  BY <1>1, FetchBegins DEF Navigate
<1>2. CASE ~Supported(u)
  <2>1. UNCHANGED fetchVars
    BY <1>2 DEF Navigate
  <2>2. QED
    BY <2>1 DEF fetchVars, OneFetch
<1>3. QED
  BY <1>1, <1>2

LEMMA FetchUnchanged ==
  ASSUME OneFetch, UNCHANGED fetchVars
  PROVE  OneFetch' /\ (Moving' <=> Moving) /\ WantedUrl' = WantedUrl
BY DEF OneFetch, fetchVars, Moving, WantedUrl, Result

\* A step that leaves the history alone: what it begins is pushed or fetches
\* the current page again, what it ends was not a Back or Forward.
LEMMA StaysOnTrail ==
  ASSUME TrailInv, OneFetch', UNCHANGED <<back, fwd, current, canvas, trail, here>>,
         strayed' \in BOOLEAN, ~strayed' => ~strayed,
         ~strayed' /\ Moving' => (Moving /\ WantedUrl' = WantedUrl) \/ (current # Nowhere /\ WantedUrl' = current),
         ~strayed' /\ Moving /\ ~Moving' => current # Nowhere
  PROVE  TrailInv'
<1>1. HistShape'
  BY DEF TrailInv, HistShape
<1>2. ASSUME ~strayed'
      PROVE  Unvisited' \/ \E p \in Documents : IsAt(p)'
  <2>1. CASE Unvisited
    BY <1>2, <2>1 DEF Unvisited, Moving
  <2>2. CASE \E p \in Documents : IsAt(p)
    <3>1. PICK p \in Documents : IsAt(p)
      BY <2>2
    <3>2. p # Nowhere
      BY GopherAssumption DEF Documents
    <3>3. IsAt(p)'
      BY <1>2, <3>1, <3>2 DEF IsAt, Moving
    <3>4. QED
      BY <3>3
  <2>3. QED
    BY <1>2, <2>1, <2>2 DEF TrailInv, OnTrail
<1>3. QED
  BY <1>1, <1>2 DEF TrailInv, OnTrail

LEMMA TrailInvInit == GopherInit => TrailInv
<1> SUFFICES ASSUME GopherInit PROVE TrailInv
  OBVIOUS
<1>1. <<>> \in Seq(Documents)
  BY EmptySeq
<1>2. OneFetch
  BY DEF GopherInit, OneFetch
<1>2b. HistShape
  <2>1. back \in Seq(Documents) /\ fwd \in Seq(Documents)
    BY <1>1 DEF GopherInit
  <2>2. current = Nowhere /\ strayed = FALSE
    BY DEF GopherInit
  <2>3. strayed \in BOOLEAN
    BY <2>2, Zenon
  <2>4. QED
    BY <2>1, <2>2, <2>3 DEF HistShape
<1>3. ~Moving
  BY DEF GopherInit, Moving
<1>4. Unvisited
  BY <1>3 DEF GopherInit, Unvisited
<1>5. QED
  BY <1>2, <1>2b, <1>4 DEF TrailInv, OnTrail

LEMMA OpenKeepsTrail == TrailInv /\ Open => TrailInv'
<1> SUFFICES ASSUME TrailInv, Open PROVE TrailInv'
  OBVIOUS
<1>1. PICK u \in Targets : Navigate(u, TRUE)
  BY DEF Open
<1>2. UNCHANGED <<back, fwd, current, canvas, trail, here, strayed>>
  BY DEF Open, histVars, userVars
<1>3. CASE UNCHANGED fetchVars
  <2>1. OneFetch' /\ (Moving' <=> Moving) /\ WantedUrl' = WantedUrl
    BY <1>3, FetchUnchanged DEF TrailInv
  <2>2. strayed' \in BOOLEAN /\ (~strayed' => ~strayed)
    BY <1>2 DEF TrailInv, HistShape
  <2>3. UNCHANGED <<back, fwd, current, canvas, trail, here>>
    BY <1>2
  <2>4. QED
    BY <2>1, <2>2, <2>3, StaysOnTrail
<1>4. CASE ~UNCHANGED fetchVars
  <2>1. OneFetch' /\ ~g_fetch_in_flight /\ ~Moving'
    BY <1>1, <1>4, OneFetchNavigates DEF TrailInv
  <2>2. ~Moving
    BY <2>1 DEF Moving
  <2>3. QED
    BY <1>2, <2>1, <2>2, StaysOnTrail DEF TrailInv, HistShape
<1>5. QED
  BY <1>3, <1>4

LEMMA RefreshKeepsTrail == TrailInv /\ Refresh => TrailInv'
<1> SUFFICES ASSUME TrailInv, Refresh PROVE TrailInv'
  OBVIOUS
<1>1. Navigate(current, FALSE) /\ current # Nowhere /\ current \in Targets
  BY DEF Refresh, TrailInv, HistShape, Documents
<1>2. UNCHANGED <<back, fwd, current, canvas, trail, here, strayed>>
  BY DEF Refresh, histVars, userVars
<1>3. CASE UNCHANGED fetchVars
  <2>1. OneFetch' /\ (Moving' <=> Moving) /\ WantedUrl' = WantedUrl
    BY <1>3, FetchUnchanged DEF TrailInv
  <2>2. strayed' \in BOOLEAN /\ (~strayed' => ~strayed)
    BY <1>2 DEF TrailInv, HistShape
  <2>3. UNCHANGED <<back, fwd, current, canvas, trail, here>>
    BY <1>2
  <2>4. QED
    BY <2>1, <2>2, <2>3, StaysOnTrail
<1>4. CASE ~UNCHANGED fetchVars
  <2>1. OneFetch' /\ ~g_fetch_in_flight /\ Moving' /\ WantedUrl' = current
    BY <1>1, <1>4, OneFetchNavigates DEF TrailInv
  <2>2. QED
    BY <1>1, <1>2, <2>1, StaysOnTrail DEF TrailInv, HistShape
<1>5. QED
  BY <1>3, <1>4

\* A stack that takes the current page stays a stack of documents.
LEMMA KeptShape ==
  ASSUME HistShape, NEW stack \in Seq(Documents)
  PROVE  Kept(stack) \in Seq(Documents)
<1>1. CASE current # Nowhere /\ Len(stack) < HistMax
  BY <1>1, AppendProperties DEF Kept, HistShape
<1>2. CASE ~(current # Nowhere /\ Len(stack) < HistMax)
  BY <1>2 DEF Kept
<1>3. QED
  BY <1>1, <1>2

LEMMA BackKeepsTrail == TrailInv /\ BackClicked => TrailInv'
<1> SUFFICES ASSUME TrailInv, BackClicked PROVE TrailInv'
  OBVIOUS
<1>1. back # <<>> /\ back' = Front(back) /\ fwd' = Kept(fwd) /\ current' = Nowhere
      /\ here' = here - 1 /\ trail' = trail /\ strayed' = (strayed \/ ~Accepted(Last(back)))
      /\ Navigate(Last(back), FALSE)
  BY DEF BackClicked
<1>2. /\ Front(back) \in Seq(Documents) /\ Len(back) \in Nat \ {0} /\ Len(Front(back)) = Len(back) - 1
      /\ Last(back) \in Documents
  BY <1>1, FrontLast DEF TrailInv, HistShape
<1>3. OneFetch'
  BY <1>1, <1>2, OneFetchNavigates DEF TrailInv, Documents
<1>4. HistShape'
  BY <1>1, <1>2, KeptShape DEF TrailInv, HistShape
<1>5. ASSUME ~strayed'
      PROVE  \E p \in Documents : IsAt(p)'
  <2>1. ~strayed /\ Supported(Last(back)) /\ ~g_fetch_in_flight
    BY <1>1, <1>5 DEF TrailInv, HistShape, Accepted
  <2>2. Moving' /\ WantedUrl' = Last(back)
    <3>1. ~UNCHANGED fetchVars
      <4>1. g_fetch_in_flight'
        BY <1>1, <2>1 DEF Navigate, StartFetch
      <4>2. QED
        BY <2>1, <4>1 DEF fetchVars
    <3>2. QED
      BY <1>1, <1>2, <3>1, OneFetchNavigates DEF TrailInv, Documents
  <2>3. PICK p \in Documents : IsAt(p)
    BY <1>1, <2>1 DEF TrailInv, OnTrail, Unvisited
  <2>4. current = p /\ p # Nowhere
    BY <2>1, <2>3, GopherAssumption DEF IsAt, Moving, Documents
  <2>5. fwd \in Seq(Documents) /\ back \in Seq(Documents) /\ Len(fwd) \in Nat
    BY LenProperties DEF TrailInv, HistShape
  <2>6. Len(fwd) < HistMax /\ Len(back) + Len(fwd) <= HistMax /\ here = Len(back) + 1 /\ trail = Laid(back, p, fwd)
    BY <1>2, <2>3, <2>5, GopherAssumption DEF IsAt
  <2>7. fwd' = Append(fwd, p) /\ Len(Append(fwd, p)) = Len(fwd) + 1
    BY <1>1, <2>4, <2>5, <2>6, AppendProperties DEF Kept
  <2>8. trail' = Laid(back', Last(back), fwd')
    BY <1>1, <2>5, <2>6, <2>7, LaidBack
  <2>9. here' = Len(back') + 1 /\ Len(back') + Len(fwd') <= HistMax
    BY <1>1, <1>2, <2>5, <2>6, <2>7, GopherAssumption
  <2>10. PICK q \in Documents : q = Last(back)
    BY <1>2
  <2>11. IsAt(q)'
    BY <1>1, <2>2, <2>8, <2>9, <2>10 DEF IsAt
  <2>12. QED
    BY <2>11
<1>6. QED
  BY <1>3, <1>4, <1>5 DEF TrailInv, OnTrail

LEMMA ForwardKeepsTrail == TrailInv /\ ForwardClicked => TrailInv'
<1> SUFFICES ASSUME TrailInv, ForwardClicked PROVE TrailInv'
  OBVIOUS
<1>1. fwd # <<>> /\ fwd' = Front(fwd) /\ back' = Kept(back) /\ current' = Nowhere
      /\ here' = here + 1 /\ trail' = trail /\ strayed' = (strayed \/ ~Accepted(Last(fwd)))
      /\ Navigate(Last(fwd), FALSE)
  BY DEF ForwardClicked
<1>2. /\ Front(fwd) \in Seq(Documents) /\ Len(fwd) \in Nat \ {0} /\ Len(Front(fwd)) = Len(fwd) - 1
      /\ Last(fwd) \in Documents
  BY <1>1, FrontLast DEF TrailInv, HistShape
<1>3. OneFetch'
  BY <1>1, <1>2, OneFetchNavigates DEF TrailInv, Documents
<1>4. HistShape'
  BY <1>1, <1>2, KeptShape DEF TrailInv, HistShape
<1>5. ASSUME ~strayed'
      PROVE  \E p \in Documents : IsAt(p)'
  <2>1. ~strayed /\ Supported(Last(fwd)) /\ ~g_fetch_in_flight
    BY <1>1, <1>5 DEF TrailInv, HistShape, Accepted
  <2>2. Moving' /\ WantedUrl' = Last(fwd)
    <3>1. ~UNCHANGED fetchVars
      <4>1. g_fetch_in_flight'
        BY <1>1, <2>1 DEF Navigate, StartFetch
      <4>2. QED
        BY <2>1, <4>1 DEF fetchVars
    <3>2. QED
      BY <1>1, <1>2, <3>1, OneFetchNavigates DEF TrailInv, Documents
  <2>3. PICK p \in Documents : IsAt(p)
    BY <1>1, <2>1 DEF TrailInv, OnTrail, Unvisited
  <2>4. current = p /\ p # Nowhere
    BY <2>1, <2>3, GopherAssumption DEF IsAt, Moving, Documents
  <2>5. fwd \in Seq(Documents) /\ back \in Seq(Documents) /\ Len(back) \in Nat
    BY LenProperties DEF TrailInv, HistShape
  <2>6. Len(back) < HistMax /\ Len(back) + Len(fwd) <= HistMax /\ here = Len(back) + 1 /\ trail = Laid(back, p, fwd)
    BY <1>2, <2>3, <2>5, GopherAssumption DEF IsAt
  <2>7. back' = Append(back, p) /\ Len(Append(back, p)) = Len(back) + 1
    BY <1>1, <2>4, <2>5, <2>6, AppendProperties DEF Kept
  <2>8. trail' = Laid(back', Last(fwd), fwd')
    BY <1>1, <2>5, <2>6, <2>7, LaidForward
  <2>9. here' = Len(back') + 1 /\ Len(back') + Len(fwd') <= HistMax
    BY <1>1, <1>2, <2>5, <2>6, <2>7, GopherAssumption
  <2>10. PICK q \in Documents : q = Last(fwd)
    BY <1>2
  <2>11. IsAt(q)'
    BY <1>1, <2>2, <2>8, <2>9, <2>10 DEF IsAt
  <2>12. QED
    BY <2>11
<1>6. QED
  BY <1>3, <1>4, <1>5 DEF TrailInv, OnTrail

LEMMA SearchKeepsTrail == TrailInv /\ SearchAnswered => TrailInv'
<1> SUFFICES ASSUME TrailInv, SearchAnswered PROVE TrailInv'
  OBVIOUS
<1>1. UNCHANGED <<back, fwd, current, canvas, trail, here>> /\ strayed' = strayed
  BY DEF SearchAnswered, histVars, userVars
<1>2. strayed' \in BOOLEAN /\ (~strayed' => ~strayed)
  BY <1>1 DEF TrailInv, HistShape
<1>3. CASE UNCHANGED fetchVars
  <2>1. OneFetch' /\ (Moving' <=> Moving) /\ WantedUrl' = WantedUrl
    BY <1>3, FetchUnchanged DEF TrailInv
  <2>2. QED
    BY <1>1, <1>2, <2>1, StaysOnTrail
<1>4. CASE ~UNCHANGED fetchVars
  <2>1. PICK q \in Queries : StartFetch(q, TRUE)
    BY <1>4 DEF SearchAnswered
  <2>2. q \in Targets
    BY DEF Targets
  <2>3. OneFetch' /\ ~g_fetch_in_flight /\ ~Moving'
    BY <1>4, <2>1, <2>2, FetchBegins DEF TrailInv
  <2>4. ~Moving
    BY <2>3 DEF Moving
  <2>5. QED
    BY <1>1, <1>2, <2>3, <2>4, StaysOnTrail
<1>5. QED
  BY <1>3, <1>4

\* The worker hands over what it was asked for, whatever the server does meanwhile.
LEMMA WorkerKeepsTrail == TrailInv /\ (GopherWorker \/ GopherServer) => TrailInv'
<1> SUFFICES ASSUME TrailInv, GopherWorker \/ GopherServer PROVE TrailInv'
  OBVIOUS
<1> DEFINE Places == {"connect", "recv", "data", "end"}
<1>1. \/ GopherConnectFails \/ RecvEnds
      \/ \E place \in Places : FetchMoves(place) /\ job # None
  BY DEF GopherWorker, GopherServer, GopherConnects, Receives, ServerSends, ServerCloses, FetchAt
<1>2. /\ UNCHANGED <<back, fwd, current, canvas, trail, here>> /\ strayed' = strayed
      /\ g_fetch_in_flight' = g_fetch_in_flight
  BY <1>1 DEF GopherConnectFails, RecvEnds, FetchMoves, histVars, userVars
<1>3. job # None /\ job \in Fetches /\ g_fetch_in_flight = TRUE /\ done = <<>>
  BY <1>1 DEF GopherConnectFails, RecvEnds, FetchAt, TrailInv, OneFetch
<1>4. OneFetch' /\ (Moving' <=> Moving) /\ WantedUrl' = WantedUrl
  <2>1. ASSUME NEW ok \in BOOLEAN, NEW complete \in BOOLEAN, PostResult(ok, complete)
        PROVE  OneFetch' /\ (Moving' <=> Moving) /\ WantedUrl' = WantedUrl
    <3> DEFINE r == [url |-> job.url, push |-> job.push, ok |-> ok, whole |-> complete]
    <3>1. r \in GopherAnswers /\ r.url = job.url /\ r.push = job.push
      BY <1>3 DEF Fetches, GopherAnswers
    <3>2. done' = Append(<<>>, r) /\ job' = None
      BY <1>3, <2>1 DEF PostResult
    <3> HIDE DEF r
    <3>3. done' = <<r>> /\ done' # <<>> /\ Head(done') = r
      BY <3>2
    <3>4. OneFetch'
      BY <1>2, <1>3, <3>1, <3>2, <3>3 DEF OneFetch
    <3>5. WantedUrl' = WantedUrl
      BY <1>3, <3>1, <3>2, <3>3 DEF WantedUrl, Result
    <3>6. Moving' <=> Moving
      BY <1>2, <1>3, <3>1, <3>2, <3>3 DEF Moving, Result
    <3>7. QED
      BY <3>4, <3>5, <3>6
  <2>2. ASSUME NEW place \in Places, FetchMoves(place)
        PROVE  OneFetch' /\ (Moving' <=> Moving) /\ WantedUrl' = WantedUrl
    <3> DEFINE j == [job EXCEPT !.at = place]
    <3>1. job' = j /\ done' = <<>>
      BY <1>3, <2>2 DEF FetchMoves
    <3>2. j \in Fetches /\ j.url = job.url /\ j.push = job.push
      BY <1>3 DEF Fetches
    <3> HIDE DEF j
    <3>3. job' # None
      BY <3>1, <3>2, GopherAssumption DEF Fetches, None
    <3>4. OneFetch'
      BY <1>2, <1>3, <3>1, <3>2, <3>3 DEF OneFetch
    <3>5. WantedUrl' = WantedUrl
      BY <1>3, <3>1, <3>2, <3>3 DEF WantedUrl
    <3>6. Moving' <=> Moving
      BY <1>2, <1>3, <3>1, <3>2, <3>3 DEF Moving
    <3>7. QED
      BY <3>4, <3>5, <3>6
  <2>3. CASE GopherConnectFails
    BY <2>1, <2>3 DEF GopherConnectFails
  <2>4. CASE RecvEnds
    <3>1. FetchAt("end") \in BOOLEAN /\ PostResult(TRUE, FetchAt("end"))
      BY <2>4 DEF RecvEnds, FetchAt
    <3>2. QED
      BY <2>1, <3>1
  <2>5. QED
    BY <1>1, <2>2, <2>3, <2>4
<1>5. strayed' \in BOOLEAN /\ (~strayed' => ~strayed)
  BY <1>2 DEF TrailInv, HistShape
<1>6. QED
  BY <1>2, <1>4, <1>5, StaysOnTrail

\* What a result that is taken leaves.
LEMMA ResultTaken ==
  ASSUME TrailInv, done # <<>>, Taken, job' = job
  PROVE  /\ Result \in GopherAnswers /\ job = None /\ g_fetch_in_flight = TRUE
         /\ OneFetch' /\ ~Moving'
         /\ WantedUrl = Result.url /\ (Moving <=> ~Result.push)
<1>1. PICK r \in GopherAnswers : done = <<r>>
  BY DEF TrailInv, OneFetch
<1>2. Result = r /\ Tail(done) = <<>>
  BY <1>1 DEF Result
<1>3. job = None /\ g_fetch_in_flight = TRUE
  BY DEF TrailInv, OneFetch
<1>4. done' = <<>> /\ job' = None /\ g_fetch_in_flight' = FALSE
  BY <1>2, <1>3 DEF Taken
<1>5. OneFetch'
  BY <1>4 DEF OneFetch
<1>6. ~Moving'
  BY <1>4 DEF Moving
<1>7. WantedUrl = Result.url
  BY <1>3 DEF WantedUrl
<1>8. Moving <=> ~Result.push
  BY <1>3 DEF Moving
<1>9. QED
  BY <1>1, <1>2, <1>3, <1>5, <1>6, <1>7, <1>8

\* A fetch that moves is after a document of the history.
LEMMA MovingIsAt ==
  ASSUME TrailInv, ~strayed, Moving
  PROVE  WantedUrl \in Documents
BY DEF TrailInv, OnTrail, Unvisited, IsAt

LEMMA FailureKeepsTrail == TrailInv /\ FetchFailed => TrailInv'
<1> SUFFICES ASSUME TrailInv, FetchFailed PROVE TrailInv'
  OBVIOUS
<1>1. /\ done # <<>> /\ Taken /\ job' = job
      /\ UNCHANGED <<back, fwd, current, canvas, trail, here>>
      /\ strayed' = (strayed \/ Moves(Result))
  BY DEF FetchFailed, histVars
<1>2. /\ Result \in GopherAnswers /\ OneFetch' /\ ~Moving'
      /\ WantedUrl = Result.url /\ (Moving <=> ~Result.push)
  BY <1>1, ResultTaken
<1>3. ASSUME ~strayed', Moving, current = Nowhere
      PROVE  FALSE
  <2>1. ~strayed /\ ~Moves(Result)
    BY <1>1, <1>3 DEF TrailInv, HistShape
  <2>2. Result.url \in Menus \cup Texts \cup Queries
    BY <1>2, <1>3, <2>1, MovingIsAt DEF Documents, Targets
  <2>3. QED
    BY <1>2, <1>3, <2>1, <2>2 DEF Moves
<1>4. strayed' \in BOOLEAN
  BY <1>1 DEF TrailInv, HistShape
<1>5. ~strayed' => ~strayed
  BY <1>1 DEF TrailInv, HistShape
<1>6. QED
  BY <1>1, <1>2, <1>3, <1>4, <1>5, StaysOnTrail

LEMMA FileKeepsTrail == TrailInv /\ HandsOnFile => TrailInv'
<1> SUFFICES ASSUME TrailInv, HandsOnFile PROVE TrailInv'
  OBVIOUS
<1>1. /\ done # <<>> /\ Taken /\ job' = job /\ Result.url \in Files
      /\ UNCHANGED <<back, fwd, current, canvas, trail, here, strayed>>
  BY DEF HandsOnFile, histVars, userVars
<1>2. /\ OneFetch' /\ ~Moving' /\ WantedUrl = Result.url
  BY <1>1, ResultTaken
<1>3. ~(~strayed' /\ Moving)
  BY <1>1, <1>2, MovingIsAt DEF Documents
<1>4. strayed' \in BOOLEAN /\ (~strayed' => ~strayed)
  BY <1>1 DEF TrailInv, HistShape
<1>5. UNCHANGED <<back, fwd, current, canvas, trail, here>>
  BY <1>1
<1>6. QED
  BY <1>2, <1>3, <1>4, <1>5, StaysOnTrail

LEMMA DocumentKeepsTrail == TrailInv /\ ShowsDocument => TrailInv'
<1> SUFFICES ASSUME TrailInv, ShowsDocument PROVE TrailInv'
  OBVIOUS
<1> DEFINE u == Result.url
<1>1. /\ done # <<>> /\ Taken /\ job' = job /\ u \notin Files
      /\ current' = u /\ canvas' = u /\ strayed' = strayed
      /\ Result.push =>
           /\ back' = (IF current # Nowhere THEN PushBack ELSE back)
           /\ fwd' = <<>> /\ trail' = Visited(u) /\ here' = Len(trail')
      /\ ~Result.push => UNCHANGED <<back, fwd, trail, here>>
  BY DEF ShowsDocument, Cleared
<1>2. /\ Result \in GopherAnswers /\ OneFetch' /\ ~Moving'
      /\ WantedUrl = u /\ (Moving <=> ~Result.push)
  BY <1>1, ResultTaken
<1>3. u \in Documents /\ Result.push \in BOOLEAN
  BY <1>1, <1>2 DEF GopherAnswers, Documents
<1>4. <<>> \in Seq(Documents) /\ Len(<<>>) = 0
  BY EmptySeq
<1>5. back \in Seq(Documents) /\ fwd \in Seq(Documents) /\ Len(back) \in Nat
  BY LenProperties DEF TrailInv, HistShape
<1> HIDE DEF u
<1>6. PICK x \in Documents : x = u
  BY <1>3
<1>7. CASE ~Result.push
  <2>1. HistShape'
    BY <1>1, <1>3, <1>7 DEF TrailInv, HistShape
  <2>2. ASSUME ~strayed'
        PROVE  IsAt(x)'
    <3>1. PICK p \in Documents : IsAt(p)
      BY <1>1, <1>2, <1>7, <2>2 DEF TrailInv, OnTrail, Unvisited
    <3>2. p = x
      BY <1>2, <1>6, <1>7, <3>1 DEF IsAt
    <3>3. QED
      BY <1>1, <1>2, <1>6, <1>7, <3>1, <3>2 DEF IsAt
  <2>3. QED
    BY <1>2, <2>1, <2>2 DEF TrailInv, OnTrail
<1>8. CASE Result.push
  <2>1. back' \in Seq(Documents)
    <3>1. CASE current = Nowhere
      BY <1>1, <1>5, <1>8, <3>1
    <3>2. CASE current # Nowhere
      <4>1. current \in Documents /\ back' = PushBack
        BY <1>1, <1>8, <3>2 DEF TrailInv, HistShape
      <4> DEFINE k == IF Len(back) >= HistMax THEN Tail(back) ELSE back
      <4>2. k \in Seq(Documents)
        <5>1. CASE Len(back) >= HistMax
          <6>1. back # <<>>
            BY <1>4, <1>5, <5>1, GopherAssumption
          <6>2. QED
            BY <1>5, <5>1, <6>1, HeadTailProperties
        <5>2. QED
          BY <1>5, <5>1
      <4>3. back' = Append(k, current)
        BY <4>1 DEF PushBack
      <4> HIDE DEF k
      <4>4. QED
        BY <4>1, <4>2, <4>3, AppendProperties
    <3>3. QED
      BY <3>1, <3>2
  <2>2. HistShape'
    BY <1>1, <1>3, <1>4, <1>8, <2>1 DEF TrailInv, HistShape
  <2>3. ASSUME ~strayed'
        PROVE  IsAt(x)'
    <3>1. ~strayed /\ ~Moving
      BY <1>1, <1>2, <1>8, <2>3
    <3>2. CASE Unvisited
      <4>1. back' = <<>> /\ fwd' = <<>>
        BY <1>1, <1>8, <3>2 DEF Unvisited
      <4>2. SubSeq(trail, 1, here) = <<>>
        BY <3>2, SubSeqEmpty DEF Unvisited
      <4> DEFINE e == <<>>
                 one == Append(e, x)
      <4>3. Laid(e, x, e) = one /\ Len(one) = 1
        <5>1. e \in Seq(Documents) /\ Len(e) = 0
          BY <1>4
        <5> HIDE DEF e
        <5>2. Laid(e, x, <<>>) = one
          BY <5>1, LaidUpTo
        <5>3. Len(one) = Len(e) + 1
          BY <5>1, AppendProperties
        <5>4. QED
          BY <5>1, <5>2, <5>3 DEF e
      <4>4. Visited(u) = one
        <5>1. Append(SubSeq(trail, 1, here), u) = one
          BY <1>6, <4>2
        <5> HIDE DEF one
        <5>2. ~(Len(one) > HistMax + 1)
          BY <4>3, GopherAssumption
        <5>3. QED
          BY <5>1, <5>2 DEF Visited
      <4> HIDE DEF one
      <4>5. trail' = Laid(back', x, fwd') /\ here' = Len(back') + 1 /\ Len(back') + Len(fwd') <= HistMax
        <5>1. back' = e /\ fwd' = e /\ Len(e) = 0
          BY <1>4, <4>1
        <5>2. trail' = one /\ here' = Len(one)
          BY <1>1, <1>8, <4>4
        <5> HIDE DEF e
        <5>3. QED
          BY <4>3, <5>1, <5>2, GopherAssumption
      <4>6. QED
        BY <1>1, <1>2, <1>6, <4>5 DEF IsAt
    <3>3. CASE \E p \in Documents : IsAt(p)
      <4>1. PICK p \in Documents : IsAt(p)
        BY <3>3
      <4>2. current = p /\ p # Nowhere
        BY <3>1, <4>1, GopherAssumption DEF IsAt, Documents
      <4> DEFINE k == Append(IF Len(back) >= HistMax THEN Tail(back) ELSE back, p)
                 t == Append(SubSeq(Laid(back, p, fwd), 1, Len(back) + 1), x)
      <4>3. Len(back) <= HistMax /\ here = Len(back) + 1 /\ trail = Laid(back, p, fwd)
        <5>1. Len(fwd) \in Nat
          BY LenProperties DEF TrailInv, HistShape
        <5>2. QED
          BY <1>5, <4>1, <5>1, GopherAssumption DEF IsAt
      <4>4. /\ k \in Seq(Documents) /\ Len(k) <= HistMax
            /\ (IF Len(t) > HistMax + 1 THEN Tail(t) ELSE t) = Laid(k, x, <<>>)
            /\ Len(Laid(k, x, <<>>)) = Len(k) + 1
        BY <1>5, <4>3, VisitedIs, GopherAssumption
      <4>5. back' = k /\ fwd' = <<>>
        BY <1>1, <1>8, <4>2 DEF PushBack
      <4>6. Visited(u) = IF Len(t) > HistMax + 1 THEN Tail(t) ELSE t
        BY <1>6, <4>3 DEF Visited
      <4> HIDE DEF k, t
      <4>7. trail' = Laid(back', x, fwd') /\ here' = Len(back') + 1
        BY <1>1, <1>8, <4>4, <4>5, <4>6
      <4>8. Len(back') + Len(fwd') <= HistMax
        BY <1>4, <4>4, <4>5, LenProperties, GopherAssumption
      <4>9. QED
        BY <1>1, <1>2, <1>6, <4>7, <4>8 DEF IsAt
    <3>4. QED
      BY <3>1, <3>2, <3>3 DEF TrailInv, OnTrail
  <2>4. QED
    BY <1>2, <2>2, <2>3 DEF TrailInv, OnTrail
<1>9. QED
  BY <1>3, <1>7, <1>8

LEMMA TrailInvStep == TrailInv /\ [GopherNext]_gopherVars => TrailInv'
<1> SUFFICES ASSUME TrailInv, [GopherNext]_gopherVars PROVE TrailInv'
  OBVIOUS
<1>1. ASSUME UNCHANGED <<histVars, fetchVars, userVars>>
      PROVE  TrailInv'
  <2>1. UNCHANGED <<back, fwd, current, canvas, trail, here>> /\ strayed' = strayed
    BY <1>1 DEF histVars, userVars
  <2>2. OneFetch' /\ (Moving' <=> Moving) /\ WantedUrl' = WantedUrl
    BY <1>1, FetchUnchanged DEF TrailInv
  <2>3. strayed' \in BOOLEAN /\ (~strayed' => ~strayed)
    BY <2>1 DEF TrailInv, HistShape
  <2>4. QED
    BY <2>1, <2>2, <2>3, StaysOnTrail
<1>2. CASE SearchOpens \/ SaveAnswered
  BY <1>1, <1>2 DEF SearchOpens, SaveAnswered
<1>3. CASE UNCHANGED gopherVars
  BY <1>1, <1>3 DEF gopherVars
<1>4. QED
  BY <1>2, <1>3, OpenKeepsTrail, RefreshKeepsTrail, BackKeepsTrail, ForwardKeepsTrail, SearchKeepsTrail,
     WorkerKeepsTrail, FailureKeepsTrail, FileKeepsTrail, DocumentKeepsTrail
     DEF GopherNext, GopherUser, GopherDeliver

(* Until a Back or Forward is refused or fails, the stacks and the page       *)
(* between them are what the user has visited (gopher_module.c:334-356,       *)
(* 1110-1140, 2101-2137), and Refresh fetches what is on the canvas.         *)
THEOREM GopherHistoryIsTrail == GopherSpec => []HistoryIsTrail
<1>1. TrailInv => HistoryIsTrail
  <2> SUFFICES ASSUME TrailInv PROVE HistoryIsTrail
    OBVIOUS
  <2>1. current # Nowhere => canvas = current
    BY DEF TrailInv, HistShape
  <2>2. CASE strayed
    BY <2>1, <2>2 DEF HistoryIsTrail
  <2>3. CASE ~strayed /\ Unvisited
    <3>1. back = <<>> /\ fwd = <<>> /\ trail = <<>> /\ Between = <<>>
      BY <2>3 DEF Unvisited, Between
    <3>2. Reverse(<<>>) = <<>>
      <4>1. <<>> \in Seq(Nat) /\ Len(<<>>) = 0
        BY EmptySeq
      <4>2. Reverse(<<>>) \in Seq(Nat) /\ Len(Reverse(<<>>)) = 0
        <5> DEFINE r == [i \in 1..0 |-> <<>>[0 - i + 1]]
        <5>1. Reverse(<<>>) = r
          BY <4>1 DEF Reverse
        <5>2. r \in [1..0 -> Nat]
          OBVIOUS
        <5> HIDE DEF r
        <5>3. r \in Seq(Nat) /\ Len(r) = 0
          BY <5>2
        <5>4. QED
          BY <5>1, <5>3
      <4>3. QED
        BY <4>2, EmptySeq
    <3>3. back \o Between \o Reverse(fwd) = trail
      <4>1. <<>> \in Seq(Nat)
        BY EmptySeq
      <4>2. <<>> \o <<>> = <<>>
        BY <4>1, ConcatEmptySeq
      <4>3. QED
        BY <3>1, <3>2, <4>2
    <3>4. QED
      BY <2>1, <3>1, <3>3 DEF HistoryIsTrail
  <2>4. CASE ~strayed /\ ~Unvisited
    <3>1. PICK p \in Documents : IsAt(p)
      BY <2>4 DEF TrailInv, OnTrail
    <3>2. Len(back) \in Nat
      BY LenProperties DEF TrailInv, HistShape
    <3>3. here > 0 /\ Len(back) = here - 1
      BY <3>1, <3>2 DEF IsAt
    <3>4. Between = <<p>>
      <4>1. CASE current # Nowhere
        BY <3>1, <4>1 DEF Between, IsAt
      <4>2. CASE current = Nowhere
        <5>1. p # Nowhere
          BY GopherAssumption DEF Documents
        <5>2. Moving /\ WantedUrl = p
          BY <3>1, <4>2, <5>1 DEF IsAt
        <5>3. CASE job # None
          BY <3>3, <4>2, <5>2, <5>3 DEF Between, Moving, WantedUrl
        <5>4. CASE job = None
          BY <3>3, <4>2, <5>2, <5>4 DEF Between, Moving, WantedUrl, TrailInv, OneFetch
        <5>5. QED
          BY <5>3, <5>4
      <4>3. QED
        BY <4>1, <4>2
    <3>5. back \o Between \o Reverse(fwd) = trail
      BY <3>1, <3>4 DEF IsAt, Laid
    <3>6. QED
      BY <2>1, <3>3, <3>5 DEF HistoryIsTrail
  <2>5. QED
    BY <2>2, <2>3, <2>4
<1>2. QED
  BY <1>1, TrailInvInit, TrailInvStep, PTL DEF GopherSpec

-------------------------------------------------------------------------------
(* GW-BASIC: no wake is lost between the UI thread and the worker.           *)

\* There is a worker exactly as long as there is a machine.
WorkerHasMachine == worker = "none" <=> guest = "none"

\* gb_stop_thread sets the stop event and resets it before it returns, and a
\* worker ends for nothing else.
StopIsBrief ==
    /\ g_stop => ui \in {"restarting", "closing"}
    /\ worker = "ended" => g_stop

\* g_exited is of the machine that is there.
ExitIsOwn == g_exited => guest = "exited" \/ ui = "closed"

\* A worker waits for a tab that is hidden, a program that has ended, or with a
\* wake on its way.
WaitHasReason == worker = "wait" => g_paused \/ g_exited \/ g_wake \/ g_stop

BasicTypeOK ==
    /\ ui \in {"free", "restarting", "closing", "closed"}
    /\ {g_stop, g_wake, g_paused, g_exited} \subseteq BOOLEAN
BasicInv == BasicTypeOK /\ WorkerHasMachine /\ StopIsBrief /\ ExitIsOwn /\ WaitHasReason

LEMMA BasicInvInit == BasicInit => BasicInv
BY DEF BasicInit, BasicInv, BasicTypeOK, WorkerHasMachine, StopIsBrief, ExitIsOwn, WaitHasReason

LEMMA BasicInvStep == BasicInv /\ [BasicNext]_basicVars => BasicInv'
<1> SUFFICES ASSUME BasicInv, [BasicNext]_basicVars PROVE BasicInv'
  OBVIOUS
<1> USE DEF BasicInv, BasicTypeOK, WorkerHasMachine, StopIsBrief, ExitIsOwn, WaitHasReason, flagVars, machineVars
<1>1. CASE gwbasic_module_activate
  BY <1>1 DEF gwbasic_module_activate, gwbasic_module_activate_Wakes, Boots
<1>2. CASE gwbasic_module_deactivate
  BY <1>2 DEF gwbasic_module_deactivate
<1>3. CASE KeyTyped
  BY <1>3 DEF KeyTyped
<1>4. CASE CtrlBreak
  BY <1>4 DEF CtrlBreak
<1>5. CASE gb_paste_clipboard
  BY <1>5 DEF gb_paste_clipboard
<1>6. CASE Restart
  BY <1>6 DEF Restart
<1>7. CASE CloseSuite
  BY <1>7 DEF CloseSuite
<1>8. CASE gb_restart
  BY <1>8 DEF gb_restart, Joined, gb_stop_thread, Boots
<1>9. CASE gwbasic_module_shutdown
  BY <1>9 DEF gwbasic_module_shutdown, Joined, gb_stop_thread
<1>10. CASE JoinTimesOut
  BY <1>10 DEF JoinTimesOut
<1>11. CASE Top
  BY <1>11 DEF Top
<1>12. CASE Wait
  BY <1>12 DEF Wait
<1>13. CASE FeedBegins \/ FeedKey \/ TickBegins
  BY <1>13 DEF FeedBegins, FeedKey, TickBegins
<1>14. CASE GuestReads \/ GuestFlushes \/ GuestPushes \/ GuestHalts \/ GuestExits
  BY <1>14 DEF GuestReads, GuestFlushes, GuestPushes, GuestHalts, GuestExits
<1>15. CASE TickEnds
  BY <1>15 DEF TickEnds
<1>16. CASE UNCHANGED basicVars
  BY <1>16 DEF basicVars
<1>17. QED
  BY <1>1, <1>2, <1>3, <1>4, <1>5, <1>6, <1>7, <1>8, <1>9, <1>10, <1>11, <1>12, <1>13, <1>14, <1>15, <1>16
     DEF BasicNext, BasicUser, BasicUi, BasicWorker

(* While the tab is on the screen and its program runs there is a worker, and *)
(* one that waits has a wake on its way (gwbasic_module.c:416-424, 478-525).  *)
THEOREM BasicWakeIsKept == BasicSpec => []WakeIsKept
<1>1. BasicInv => WakeIsKept
  BY DEF BasicInv, BasicTypeOK, WorkerHasMachine, StopIsBrief, ExitIsOwn, WaitHasReason, WakeIsKept
<1>2. QED
  BY <1>1, BasicInvInit, BasicInvStep, PTL DEF BasicSpec

-------------------------------------------------------------------------------
(* GW-BASIC: the keys that are typed and pasted arrive.                      *)

Keys == {UserKey(n) : n \in Nat} \cup {PasteKey(id, n) : id \in Nat, n \in Nat} \cup {BreakKey, GuestKey}

Feeding == worker \in {"room", "feed"}

KeyTypes ==
    /\ kq \in Seq(Keys) /\ kq_visible \in Nat /\ kq_visible <= Len(kq)
    /\ guestRead \in [paste : Nat, user : Nat]
    /\ paste_pos \in 0 .. PasteLen /\ {quota, pastes, typed, typedInFeed} \subseteq Nat

\* What a feed may still push has room, whatever the user types meanwhile.
RoomIsKept ==
    /\ typedInFeed <= Reserve /\ (~Feeding => typedInFeed = 0)
    /\ Feeding /\ quota > 0 => Len(kq) + quota + Reserve <= QueueCap + typedInFeed

\* The user's keys in the queue, and what the guest has read of them, were typed;
\* no text was pasted after the last.
TypedBefore ==
    /\ guestRead.user <= typed /\ \A i \in TypedAt : kq[i][2] <= typed
    /\ \A i \in DOMAIN kq : kq[i][1] = "paste" => kq[i][3] <= pastes

UserInTurn == InTurn(TypedAt, guestRead.user)
PasteInTurn ==
    /\ guestRead.paste <= paste_pos
    /\ InTurn(PastedAt, guestRead.paste)
    /\ \A i \in PastedAt : kq[i][2] <= paste_pos
PasteIsWhole ==
    whole => \A n \in guestRead.paste + 1 .. paste_pos : \E i \in PastedAt : kq[i][2] = n

KeysInv == KeyTypes /\ RoomIsKept /\ TypedBefore /\ UserInTurn /\ PasteInTurn /\ PasteIsWhole

LEMMA KeyFacts ==
    /\ \A k \in Keys : k[2] \in Nat /\ (k[1] = "paste" => k[3] \in Nat)
    /\ \A n \in Nat : UserKey(n) \in Keys /\ UserKey(n)[1] = "user" /\ UserKey(n)[2] = n
    /\ \A id, n \in Nat : /\ PasteKey(id, n) \in Keys /\ PasteKey(id, n)[1] = "paste"
                          /\ PasteKey(id, n)[2] = n /\ PasteKey(id, n)[3] = id
    /\ BreakKey \in Keys /\ BreakKey[1] = "break"
    /\ GuestKey \in Keys /\ GuestKey[1] = "guest"
<1>1. \A n \in Nat : UserKey(n) \in Keys /\ UserKey(n)[1] = "user" /\ UserKey(n)[2] = n
  BY DEF Keys, UserKey
<1>2. \A id, n \in Nat : /\ PasteKey(id, n) \in Keys /\ PasteKey(id, n)[1] = "paste"
                         /\ PasteKey(id, n)[2] = n /\ PasteKey(id, n)[3] = id
  BY DEF Keys, PasteKey
<1>3. BreakKey \in Keys /\ BreakKey[1] = "break" /\ BreakKey[2] = 0
  BY DEF Keys, BreakKey
<1>4. GuestKey \in Keys /\ GuestKey[1] = "guest" /\ GuestKey[2] = 0
  BY DEF Keys, GuestKey
<1>5. ASSUME NEW k \in Keys PROVE k[2] \in Nat /\ (k[1] = "paste" => k[3] \in Nat)
  <2>1. \/ \E n \in Nat : k = UserKey(n)
        \/ \E id \in Nat, n \in Nat : k = PasteKey(id, n)
        \/ k = BreakKey
        \/ k = GuestKey
    BY DEF Keys
  <2>2. QED
    BY <1>1, <1>2, <1>3, <1>4, <2>1
<1>6. QED
  BY <1>1, <1>2, <1>3, <1>4, <1>5

\* A queue with one key more.
LEMMA OneMore ==
  ASSUME kq \in Seq(Keys), NEW k \in Keys, kq' = Append(kq, k), pastes' = pastes
  PROVE  /\ kq' \in Seq(Keys) /\ Len(kq') = Len(kq) + 1 /\ Len(kq) \in Nat /\ kq'[Len(kq) + 1] = k
         /\ DOMAIN kq = 1 .. Len(kq) /\ DOMAIN kq' = DOMAIN kq \cup {Len(kq) + 1}
         /\ \A i \in DOMAIN kq : i < Len(kq) + 1 /\ i # Len(kq) + 1 /\ kq'[i] = kq[i]
         /\ PastedAt' = PastedAt \cup (IF IsPasted(k) THEN {Len(kq) + 1} ELSE {})
         /\ TypedAt' = TypedAt \cup (IF IsTyped(k) THEN {Len(kq) + 1} ELSE {})
<1>1. /\ kq' \in Seq(Keys) /\ Len(kq') = Len(kq) + 1 /\ Len(kq) \in Nat /\ kq'[Len(kq) + 1] = k
      /\ DOMAIN kq = 1 .. Len(kq) /\ DOMAIN kq' = 1 .. Len(kq) + 1
      /\ \A i \in 1 .. Len(kq) : kq'[i] = kq[i]
  OBVIOUS
<1>2. /\ DOMAIN kq' = DOMAIN kq \cup {Len(kq) + 1}
      /\ \A i \in DOMAIN kq : i < Len(kq) + 1 /\ i # Len(kq) + 1 /\ kq'[i] = kq[i]
  BY <1>1
<1> DEFINE n == Len(kq) + 1
<1>3. DOMAIN kq' = DOMAIN kq \cup {n} /\ kq'[n] = k /\ n \notin DOMAIN kq /\ \A i \in DOMAIN kq : kq'[i] = kq[i]
  BY <1>1, <1>2
<1> HIDE DEF n
<1>4. PastedAt' = PastedAt \cup (IF IsPasted(k) THEN {n} ELSE {})
  BY <1>3 DEF PastedAt, IsPasted
<1>5. TypedAt' = TypedAt \cup (IF IsTyped(k) THEN {n} ELSE {})
  BY <1>3 DEF TypedAt, IsTyped
<1>6. QED
  BY <1>1, <1>2, <1>4, <1>5 DEF n

\* And with one key fewer.
LEMMA OneFewer ==
  ASSUME kq \in Seq(Keys), kq # <<>>, kq' = Tail(kq), pastes' = pastes
  PROVE  /\ kq' \in Seq(Keys) /\ Len(kq') = Len(kq) - 1 /\ Head(kq) = kq[1] /\ Head(kq) \in Keys /\ 1 \in DOMAIN kq
         /\ Len(kq) \in Nat /\ Len(kq) > 0
         /\ \A i \in DOMAIN kq : i \in Nat /\ (i # 1 => 1 < i)
         /\ \A i \in DOMAIN kq' : i + 1 \in DOMAIN kq /\ i + 1 # 1 /\ kq'[i] = kq[i + 1]
         /\ \A i, j \in DOMAIN kq' : i < j => i + 1 < j + 1
         /\ \A i \in DOMAIN kq : i # 1 => \E j \in DOMAIN kq' : i = j + 1
         /\ \A i \in PastedAt' : i \in DOMAIN kq' /\ i + 1 \in PastedAt
         /\ \A i \in TypedAt' : i \in DOMAIN kq' /\ i + 1 \in TypedAt
         /\ \A j \in DOMAIN kq' : j + 1 \in PastedAt => j \in PastedAt'
<1>1. /\ kq' \in Seq(Keys) /\ Len(kq') = Len(kq) - 1 /\ Head(kq) = kq[1] /\ Len(kq) \in Nat /\ Len(kq) > 0
      /\ DOMAIN kq = 1 .. Len(kq) /\ DOMAIN kq' = 1 .. Len(kq) - 1
      /\ \A i \in 1 .. Len(kq) - 1 : kq'[i] = kq[i + 1]
  OBVIOUS
<1>2. 1 \in DOMAIN kq /\ kq[1] \in Keys
  BY <1>1
<1>3. \A i \in DOMAIN kq : i \in Nat /\ (i # 1 => 1 < i)
  BY <1>1
<1>4. \A i \in DOMAIN kq' : i + 1 \in DOMAIN kq /\ i + 1 # 1 /\ kq'[i] = kq[i + 1]
  BY <1>1
<1>5. \A i, j \in DOMAIN kq' : i < j => i + 1 < j + 1
  BY <1>1
<1>6. ASSUME NEW i \in DOMAIN kq, i # 1 PROVE \E j \in DOMAIN kq' : i = j + 1
  <2>1. i - 1 \in DOMAIN kq' /\ i = (i - 1) + 1
    BY <1>1, <1>6
  <2>2. QED
    BY <2>1
<1>7. /\ \A i \in PastedAt' : i \in DOMAIN kq' /\ i + 1 \in PastedAt
      /\ \A j \in DOMAIN kq' : j + 1 \in PastedAt => j \in PastedAt'
  BY <1>4 DEF PastedAt, IsPasted
<1>8. \A i \in TypedAt' : i \in DOMAIN kq' /\ i + 1 \in TypedAt
  BY <1>4 DEF TypedAt, IsTyped
<1>9. QED
  BY <1>1, <1>2, <1>3, <1>4, <1>5, <1>6, <1>7, <1>8

LEMMA KeysInvInit == BasicInit => KeysInv
<1> SUFFICES ASSUME BasicInit PROVE KeysInv
  OBVIOUS
<1>1. DOMAIN kq = {} /\ Len(kq) = 0 /\ kq \in Seq(Keys)
  BY DEF BasicInit
<1>2. PastedAt = {} /\ TypedAt = {}
  BY <1>1 DEF PastedAt, TypedAt
<1>3. KeyTypes
  BY <1>1, BasicAssumption DEF KeyTypes, BasicInit, Nothing
<1>4. RoomIsKept
  BY BasicAssumption DEF RoomIsKept, Feeding, BasicInit
<1>5. TypedBefore /\ UserInTurn /\ PasteInTurn /\ PasteIsWhole
  BY <1>1, <1>2, BasicAssumption DEF TypedBefore, UserInTurn, PasteInTurn, PasteIsWhole, InTurn, BasicInit, Nothing
<1>6. QED
  BY <1>3, <1>4, <1>5 DEF KeysInv

\* A step that touches neither the queue, nor the paste, nor the feed.
LEMMA KeysUntouched ==
  ASSUME KeysInv, UNCHANGED keyVars, UNCHANGED pasteVars, Feeding' = Feeding
  PROVE  KeysInv'
<1>1. PastedAt' = PastedAt /\ TypedAt' = TypedAt
  BY DEF PastedAt, TypedAt, IsPasted, IsTyped, keyVars, pasteVars
<1>2. KeyTypes' /\ RoomIsKept'
  BY DEF KeysInv, KeyTypes, RoomIsKept, keyVars, pasteVars
<1>3. TypedBefore' /\ UserInTurn' /\ PasteInTurn' /\ PasteIsWhole'
  BY <1>1 DEF KeysInv, TypedBefore, UserInTurn, PasteInTurn, PasteIsWhole, InTurn, keyVars, pasteVars
<1>4. QED
  BY <1>2, <1>3 DEF KeysInv

\* An empty queue that was never read, before the next paste.
LEMMA KeysEmptied ==
  ASSUME KeysInv, Joined, ~Feeding'
  PROVE  KeysInv'
<1>1. DOMAIN kq' = {} /\ Len(kq') = 0 /\ kq' \in Seq(Keys)
  BY DEF Joined
<1>2. PastedAt' = {} /\ TypedAt' = {}
  BY <1>1 DEF PastedAt, TypedAt
<1>3. KeyTypes'
  BY <1>1, BasicAssumption DEF KeysInv, KeyTypes, Joined, Nothing
<1>4. RoomIsKept'
  BY DEF KeysInv, RoomIsKept, Feeding, Joined
<1>5. TypedBefore'
  <2>1. guestRead'.user <= typed'
    BY DEF KeysInv, KeyTypes, Joined, Nothing
  <2>2. QED
    BY <1>1, <1>2, <2>1 DEF TypedBefore
<1>6. UserInTurn' /\ PasteInTurn' /\ PasteIsWhole'
  BY <1>2, BasicAssumption DEF UserInTurn, PasteInTurn, PasteIsWhole, InTurn, Joined, Nothing
<1>7. QED
  BY <1>3, <1>4, <1>5, <1>6 DEF KeysInv

LEMMA KeyTypedKeeps == KeysInv /\ KeyTyped => KeysInv'
<1> SUFFICES ASSUME KeysInv, KeyTyped PROVE KeysInv'
  OBVIOUS
<1> DEFINE k == UserKey(typed')
<1>1. /\ kq \in Seq(Keys) /\ Len(kq) \in Nat /\ typed \in Nat /\ typed' = typed + 1 /\ typed' \in Nat
      /\ kq_visible' = kq_visible /\ guestRead' = guestRead /\ worker' = worker
      /\ UNCHANGED <<paste_pos, quota, pastes, whole>>
  BY DEF KeysInv, KeyTypes, KeyTyped, pasteVars
<1>2. k \in Keys /\ k[1] = "user" /\ k[2] = typed + 1
  BY <1>1, KeyFacts
<1>3. IsTyped(k) /\ ~IsPasted(k)
  BY <1>2 DEF IsTyped, IsPasted
<1>4. kq' = IF Len(kq) < QueueCap THEN Append(kq, k) ELSE kq
  BY DEF KeyTyped, Pushed
<1>5. IF Feeding THEN typedInFeed < Reserve /\ typedInFeed' = typedInFeed + 1 ELSE typedInFeed' = typedInFeed
  BY DEF KeyTyped, Feeding
<1> HIDE DEF k
<1>6. /\ kq' \in Seq(Keys) /\ Len(kq') \in Nat /\ Len(kq) <= Len(kq') /\ Len(kq') <= Len(kq) + 1
  <2>1. CASE Len(kq) < QueueCap
    <3>1. Len(kq') = Len(kq) + 1 /\ kq' \in Seq(Keys)
      BY <1>1, <1>2, <1>4, <2>1, OneMore
    <3>2. QED
      BY <1>1, <3>1
  <2>2. CASE ~(Len(kq) < QueueCap)
    BY <1>1, <1>4, <2>2
  <2>3. QED
    BY <2>1, <2>2
<1>7. KeyTypes'
  <2>1. kq_visible' \in Nat /\ kq_visible' <= Len(kq')
    BY <1>1, <1>6 DEF KeysInv, KeyTypes
  <2>2. typedInFeed' \in Nat
    BY <1>5 DEF KeysInv, KeyTypes
  <2>3. QED
    BY <1>1, <1>6, <2>1, <2>2 DEF KeysInv, KeyTypes
<1>8. RoomIsKept'
  <2>1. typedInFeed \in Nat /\ quota \in Nat /\ {Reserve, QueueCap} \subseteq Nat /\ Feeding' = Feeding
    BY <1>1, BasicAssumption DEF KeysInv, KeyTypes, Feeding
  <2>2. QED
    BY <1>1, <1>5, <1>6, <2>1 DEF KeysInv, RoomIsKept
<1>9. TypedBefore' /\ UserInTurn' /\ PasteInTurn' /\ PasteIsWhole'
  <2>1. CASE ~(Len(kq) < QueueCap)
    <3>1. kq' = kq
      BY <1>4, <2>1
    <3>2. PastedAt' = PastedAt /\ TypedAt' = TypedAt
      BY <1>1, <3>1 DEF PastedAt, TypedAt, IsPasted, IsTyped
    <3>3. \A i \in TypedAt : kq[i][2] \in Nat
      BY <1>1, KeyFacts DEF TypedAt
    <3>4. guestRead'.user <= typed' /\ \A i \in TypedAt' : kq'[i][2] <= typed'
      BY <1>1, <3>1, <3>2, <3>3 DEF KeysInv, KeyTypes, TypedBefore
    <3>5. QED
      BY <1>1, <3>1, <3>2, <3>4 DEF KeysInv, TypedBefore, UserInTurn, PasteInTurn, PasteIsWhole, InTurn
  <2>2. CASE Len(kq) < QueueCap
    <3> DEFINE n == Len(kq) + 1
    <3>1. /\ DOMAIN kq' = DOMAIN kq \cup {n} /\ kq'[n] = k
          /\ \A i \in DOMAIN kq : i < n /\ i # n /\ kq'[i] = kq[i] /\ i \in Nat
          /\ PastedAt' = PastedAt /\ TypedAt' = TypedAt \cup {n} /\ n \in Nat
      <4>1. kq' = Append(kq, k)
        BY <1>4, <2>2
      <4>2. /\ DOMAIN kq = 1 .. Len(kq) /\ DOMAIN kq' = DOMAIN kq \cup {n} /\ kq'[n] = k
            /\ \A i \in DOMAIN kq : i < n /\ i # n /\ kq'[i] = kq[i]
            /\ PastedAt' = PastedAt \cup (IF IsPasted(k) THEN {n} ELSE {})
            /\ TypedAt' = TypedAt \cup (IF IsTyped(k) THEN {n} ELSE {})
        BY <1>1, <1>2, <4>1, OneMore
      <4>3. n \in Nat /\ \A i \in DOMAIN kq : i \in Nat
        BY <1>1, <4>2
      <4>4. QED
        BY <1>3, <4>2, <4>3
    <3> HIDE DEF n
    <3>2. PastedAt \subseteq DOMAIN kq /\ TypedAt \subseteq DOMAIN kq
      BY DEF PastedAt, TypedAt
    <3>3. \A i \in DOMAIN kq : kq[i][2] \in Nat
      BY <1>1, KeyFacts
    <3>4. guestRead.user \in Nat /\ guestRead.user <= typed /\ \A i \in TypedAt : kq[i][2] <= typed
      BY DEF KeysInv, KeyTypes, TypedBefore
    <3>5. TypedBefore'
      <4>1. \A i \in TypedAt' : kq'[i][2] <= typed'
        BY <1>1, <1>2, <3>1, <3>2, <3>3, <3>4
      <4>2. guestRead'.user <= typed'
        BY <1>1, <3>4
      <4>3. \A i \in DOMAIN kq' : kq'[i][1] = "paste" => kq'[i][3] <= pastes'
        BY <1>1, <1>2, <3>1 DEF KeysInv, TypedBefore
      <4>4. QED
        BY <4>1, <4>2, <4>3 DEF TypedBefore
    <3>6. UserInTurn'
      <4>1. \A i \in TypedAt : kq[i][2] > guestRead.user /\ \A j \in TypedAt : i < j => kq[i][2] < kq[j][2]
        BY DEF KeysInv, UserInTurn, InTurn
      <4>2. \A i \in TypedAt' : kq'[i][2] > guestRead'.user
        BY <1>1, <1>2, <3>1, <3>2, <3>4, <4>1
      <4>3. \A i, j \in TypedAt' : i < j => kq'[i][2] < kq'[j][2]
        <5> SUFFICES ASSUME NEW i \in TypedAt', NEW j \in TypedAt', i < j PROVE kq'[i][2] < kq'[j][2]
          OBVIOUS
        <5>1. i # n
          BY <3>1, <3>2
        <5>2. i \in TypedAt /\ kq'[i] = kq[i] /\ kq[i][2] \in Nat
          BY <3>1, <3>2, <3>3, <5>1
        <5>3. CASE j = n
          <6>1. kq'[j][2] = typed + 1 /\ kq[i][2] <= typed /\ typed \in Nat
            BY <1>1, <1>2, <3>1, <3>4, <5>2, <5>3
          <6>2. QED
            BY <5>2, <6>1
        <5>4. CASE j # n
          BY <3>1, <3>2, <4>1, <5>2, <5>4
        <5>5. QED
          BY <5>3, <5>4
      <4>4. QED
        BY <4>2, <4>3 DEF UserInTurn, InTurn
    <3>7. PasteInTurn' /\ PasteIsWhole'
      <4>1. \A i \in PastedAt : kq'[i] = kq[i]
        BY <3>1, <3>2
      <4>2. QED
        BY <1>1, <3>1, <4>1 DEF KeysInv, PasteInTurn, PasteIsWhole, InTurn
    <3>8. QED
      BY <3>5, <3>6, <3>7
  <2>3. QED
    BY <2>1, <2>2
<1>10. QED
  BY <1>7, <1>8, <1>9 DEF KeysInv

\* A feed has room: the key it types in is never dropped.
LEMMA FeedKeyKeeps == KeysInv /\ FeedKey => KeysInv'
<1> SUFFICES ASSUME KeysInv, FeedKey PROVE KeysInv'
  OBVIOUS
<1> DEFINE k == PasteKey(pastes, paste_pos')
           n == Len(kq) + 1
<1>1. /\ kq \in Seq(Keys) /\ Len(kq) \in Nat /\ paste_pos \in Nat /\ pastes \in Nat /\ quota \in Nat
      /\ paste_pos' = paste_pos + 1 /\ quota' = quota - 1 /\ quota > 0 /\ Feeding /\ Feeding'
      /\ UNCHANGED <<worker, kq_visible, guestRead, typed, typedInFeed, pastes, whole>>
  BY BasicAssumption DEF KeysInv, KeyTypes, FeedKey, Feeding
<1>2. k \in Keys /\ k[1] = "paste" /\ k[2] = paste_pos + 1 /\ k[3] = pastes
  <2>1. paste_pos' \in Nat
    BY <1>1
  <2>2. QED
    BY <1>1, <2>1, KeyFacts
<1>3. IsPasted(k) /\ ~IsTyped(k)
  BY <1>2 DEF IsTyped, IsPasted
<1>4. {Reserve, QueueCap, PasteLen} \subseteq Nat /\ typedInFeed \in Nat /\ typedInFeed <= Reserve
  BY BasicAssumption DEF KeysInv, KeyTypes, RoomIsKept
<1>5. Len(kq) + quota + Reserve <= QueueCap + typedInFeed
  BY <1>1 DEF KeysInv, RoomIsKept
<1>6. kq' = Append(kq, k)
  <2>1. Len(kq) < QueueCap
    BY <1>1, <1>4, <1>5
  <2>2. QED
    BY <2>1 DEF FeedKey, Pushed
<1> HIDE DEF k
<1>7. /\ kq' \in Seq(Keys) /\ Len(kq') = Len(kq) + 1 /\ DOMAIN kq = 1 .. Len(kq)
      /\ DOMAIN kq' = DOMAIN kq \cup {n} /\ kq'[n] = k
      /\ \A i \in DOMAIN kq : i < n /\ i # n /\ kq'[i] = kq[i]
      /\ PastedAt' = PastedAt \cup (IF IsPasted(k) THEN {n} ELSE {})
      /\ TypedAt' = TypedAt \cup (IF IsTyped(k) THEN {n} ELSE {})
  BY <1>1, <1>2, <1>6, OneMore
<1>8. n \in Nat /\ \A i \in DOMAIN kq : i \in Nat
  BY <1>1, <1>7
<1>9. PastedAt' = PastedAt \cup {n} /\ TypedAt' = TypedAt
  BY <1>3, <1>7
<1>10. KeyTypes'
  <2>1. kq_visible' \in Nat /\ kq_visible' <= Len(kq')
    BY <1>1, <1>7 DEF KeysInv, KeyTypes
  <2>2. paste_pos' \in 0 .. PasteLen
    <3>1. paste_pos < PasteLen
      BY DEF FeedKey
    <3>2. QED
      BY <1>1, <1>4, <3>1
  <2>3. quota' \in Nat
    BY <1>1
  <2>4. QED
    BY <1>1, <1>7, <2>1, <2>2, <2>3 DEF KeysInv, KeyTypes
<1>11. RoomIsKept'
  <2>1. Len(kq') + quota' + Reserve <= QueueCap + typedInFeed
    BY <1>1, <1>4, <1>5, <1>7
  <2>2. QED
    BY <1>1, <2>1 DEF KeysInv, RoomIsKept
<1> HIDE DEF n
<1>12. PastedAt \subseteq DOMAIN kq /\ TypedAt \subseteq DOMAIN kq
  BY DEF PastedAt, TypedAt
<1>13. TypedBefore'
  <2>1. \A i \in TypedAt' : kq'[i][2] <= typed'
    BY <1>1, <1>7, <1>9, <1>12 DEF KeysInv, TypedBefore
  <2>2. guestRead'.user <= typed'
    BY <1>1 DEF KeysInv, TypedBefore
  <2>3. \A i \in DOMAIN kq' : kq'[i][1] = "paste" => kq'[i][3] <= pastes'
    BY <1>1, <1>2, <1>7 DEF KeysInv, TypedBefore
  <2>4. QED
    BY <2>1, <2>2, <2>3 DEF TypedBefore
<1>14. UserInTurn'
  <2>1. \A i \in TypedAt : kq'[i] = kq[i]
    BY <1>7, <1>12
  <2>2. QED
    BY <1>1, <1>9, <2>1 DEF KeysInv, UserInTurn, InTurn
<1>15. PasteInTurn' /\ PasteIsWhole'
  <2> DEFINE p == guestRead.paste
  <2>1. /\ p <= paste_pos /\ \A i \in PastedAt : kq[i][2] <= paste_pos
        /\ \A i \in PastedAt : kq[i][2] > p /\ \A j \in PastedAt : i < j => kq[i][2] < kq[j][2]
        /\ whole => \A m \in p + 1 .. paste_pos : \E i \in PastedAt : kq[i][2] = m
    BY DEF KeysInv, PasteInTurn, PasteIsWhole, InTurn
  <2>2. p \in Nat /\ guestRead'.paste = p
    BY <1>1 DEF KeysInv, KeyTypes
  <2> HIDE DEF p
  <2>3. \A i \in PastedAt : kq'[i] = kq[i] /\ kq[i][2] \in Nat /\ i < n /\ i # n /\ i \in Nat
    BY <1>1, <1>7, <1>8, <1>12, KeyFacts
  <2>4. kq'[n][2] = paste_pos + 1
    BY <1>2, <1>7
  <2>5. p <= paste_pos' /\ \A i \in PastedAt' : kq'[i][2] > p /\ kq'[i][2] <= paste_pos'
    <3>1. p <= paste_pos'
      BY <1>1, <2>1, <2>2
    <3>2. \A i \in PastedAt : kq'[i][2] > p /\ kq'[i][2] <= paste_pos'
      BY <1>1, <2>1, <2>3
    <3>3. kq'[n][2] > p /\ kq'[n][2] <= paste_pos'
      BY <1>1, <2>1, <2>2, <2>4
    <3>4. QED
      BY <1>9, <3>1, <3>2, <3>3
  <2>6. ASSUME NEW i \in PastedAt', NEW j \in PastedAt', i < j PROVE kq'[i][2] < kq'[j][2]
    <3>1. i # n
      BY <1>8, <1>9, <2>3, <2>6
    <3>2. i \in PastedAt /\ kq'[i] = kq[i] /\ kq[i][2] \in Nat /\ kq[i][2] <= paste_pos
      BY <1>9, <2>1, <2>3, <3>1
    <3>3. CASE j = n
      BY <1>1, <2>4, <3>2, <3>3
    <3>4. CASE j # n
      <4>1. j \in PastedAt /\ kq'[j] = kq[j]
        BY <1>9, <2>3, <3>4
      <4>2. QED
        BY <2>1, <2>6, <3>2, <4>1
    <3>5. QED
      BY <3>3, <3>4
  <2>7. ASSUME whole, NEW m \in p + 1 .. paste_pos' PROVE \E i \in PastedAt' : kq'[i][2] = m
    <3>1. CASE m = paste_pos + 1
      BY <1>9, <2>4, <3>1
    <3>2. CASE m # paste_pos + 1
      <4>1. m \in p + 1 .. paste_pos
        BY <1>1, <2>2, <2>7, <3>2
      <4>2. PICK i \in PastedAt : kq[i][2] = m
        BY <2>1, <2>7, <4>1
      <4>3. QED
        BY <1>9, <2>3, <4>2
    <3>3. QED
      BY <3>1, <3>2
  <2>8. InTurn(PastedAt, p)'
    BY <2>2, <2>5, <2>6 DEF InTurn, p
  <2>9. QED
    BY <1>1, <2>2, <2>5, <2>7, <2>8 DEF PasteInTurn, PasteIsWhole, InTurn, p
<1>16. QED
  BY <1>10, <1>11, <1>13, <1>14, <1>15 DEF KeysInv

\* A queue without a key of the user's or of the paste: the paste is whole still
\* when the queue held none of it before.
LEMMA Discarded ==
  ASSUME KeysInv, PastedAt' = {}, TypedAt' = {}, whole' => whole /\ NonePasted,
         UNCHANGED <<guestRead, paste_pos>>
  PROVE  UserInTurn' /\ PasteInTurn' /\ PasteIsWhole'
<1>1. UserInTurn' /\ PasteInTurn'
  BY DEF KeysInv, UserInTurn, PasteInTurn, InTurn
<1>2. PasteIsWhole'
  <2> SUFFICES ASSUME whole' PROVE PasteIsWhole'
    BY DEF PasteIsWhole
  <2>1. PastedAt = {} /\ whole
    BY DEF PastedAt, NonePasted, Range
  <2>2. \A n \in guestRead.paste + 1 .. paste_pos : FALSE
    BY <2>1 DEF KeysInv, PasteIsWhole
  <2>3. QED
    BY <2>2 DEF PasteIsWhole
<1>3. QED
  BY <1>1, <1>2

\* A Ctrl-Break empties the queue.
LEMMA TickKeeps == KeysInv /\ TickBegins => KeysInv'
<1> SUFFICES ASSUME KeysInv, TickBegins PROVE KeysInv'
  OBVIOUS
<1>1. /\ kq \in Seq(Keys) /\ Len(kq) \in Nat /\ worker' = "tick" /\ quota' = 0 /\ typedInFeed' = 0
      /\ UNCHANGED <<guestRead, typed, paste_pos, pastes>> /\ kq_visible \in Nat /\ kq_visible <= Len(kq)
  BY DEF KeysInv, KeyTypes, TickBegins
<1>2. RoomIsKept'
  BY <1>1, BasicAssumption DEF RoomIsKept, Feeding
<1>3. CASE break_req
  <2>1. /\ kq' = <<BreakKey>> /\ kq_visible' = 1
        /\ whole' = (whole /\ NonePasted)
    BY <1>3 DEF TickBegins
  <2>2. /\ kq' \in Seq(Keys) /\ Len(kq') = 1 /\ DOMAIN kq' = {1} /\ kq'[1] = BreakKey
    <3>1. BreakKey \in Keys
      BY KeyFacts
    <3>2. QED
      BY <2>1, <3>1
  <2>3. PastedAt' = {} /\ TypedAt' = {}
    BY <2>2, KeyFacts DEF PastedAt, TypedAt, IsPasted, IsTyped
  <2>4. KeyTypes'
    BY <1>1, <2>1, <2>2 DEF KeysInv, KeyTypes
  <2>5. TypedBefore'
    <3>1. \A i \in DOMAIN kq' : kq'[i][1] # "paste"
      BY <2>2, KeyFacts
    <3>2. QED
      BY <1>1, <2>3, <3>1 DEF KeysInv, TypedBefore
  <2>6. UserInTurn' /\ PasteInTurn' /\ PasteIsWhole'
    BY <1>1, <2>1, <2>3, Discarded
  <2>7. QED
    BY <1>2, <2>4, <2>5, <2>6 DEF KeysInv
<1>4. CASE ~break_req
  <2>1. kq' = kq /\ kq_visible' = Arrived(kq_visible, kq) /\ (whole' => whole)
    BY <1>4 DEF TickBegins
  <2>2. PastedAt' = PastedAt /\ TypedAt' = TypedAt
    BY <1>1, <2>1 DEF PastedAt, TypedAt, IsPasted, IsTyped
  <2>3. kq_visible' \in Nat /\ kq_visible' <= Len(kq')
    BY <1>1, <2>1 DEF Arrived
  <2>4. KeyTypes'
    BY <1>1, <2>1, <2>3 DEF KeysInv, KeyTypes
  <2>5. TypedBefore' /\ UserInTurn' /\ PasteInTurn' /\ PasteIsWhole'
    BY <1>1, <2>1, <2>2 DEF KeysInv, TypedBefore, UserInTurn, PasteInTurn, PasteIsWhole, InTurn
  <2>6. QED
    BY <1>2, <2>4, <2>5 DEF KeysInv
<1>5. QED
  BY <1>3, <1>4

\* The key the guest reads is the next of its kind.
LEMMA GuestReadKeeps == KeysInv /\ GuestReads => KeysInv'
<1> SUFFICES ASSUME KeysInv, GuestReads PROVE KeysInv'
  OBVIOUS
<1> DEFINE k == Head(kq)
<1>1. /\ kq \in Seq(Keys) /\ Len(kq) \in Nat /\ kq_visible \in Nat /\ kq_visible <= Len(kq) /\ kq_visible > 0
      /\ kq' = Tail(kq) /\ kq_visible' = kq_visible - 1 /\ Noted(k)
      /\ UNCHANGED <<worker, typed, typedInFeed, paste_pos, quota, pastes, whole>>
      /\ guestRead \in [paste : Nat, user : Nat] /\ typed \in Nat /\ paste_pos \in Nat
  <2>1. paste_pos \in Nat
    BY BasicAssumption DEF KeysInv, KeyTypes
  <2>2. QED
    BY <2>1 DEF KeysInv, KeyTypes, GuestReads, key_pop, pasteVars
<1>2. kq # <<>>
  BY <1>1
<1>3. /\ kq' \in Seq(Keys) /\ Len(kq') = Len(kq) - 1 /\ k = kq[1] /\ k \in Keys /\ 1 \in DOMAIN kq
      /\ \A i \in DOMAIN kq : i \in Nat /\ (i # 1 => 1 < i)
      /\ \A i \in DOMAIN kq' : i + 1 \in DOMAIN kq /\ i + 1 # 1 /\ kq'[i] = kq[i + 1]
      /\ \A i, j \in DOMAIN kq' : i < j => i + 1 < j + 1
      /\ \A i \in DOMAIN kq : i # 1 => \E j \in DOMAIN kq' : i = j + 1
      /\ \A i \in PastedAt' : i \in DOMAIN kq' /\ i + 1 \in PastedAt
      /\ \A i \in TypedAt' : i \in DOMAIN kq' /\ i + 1 \in TypedAt
      /\ \A j \in DOMAIN kq' : j + 1 \in PastedAt => j \in PastedAt'
  BY <1>1, <1>2, OneFewer
<1> HIDE DEF k
<1>4. /\ guestRead' \in [paste : Nat, user : Nat]
      /\ guestRead'.paste = (IF IsPasted(k) THEN k[2] ELSE guestRead.paste)
      /\ guestRead'.user = (IF IsTyped(k) THEN k[2] ELSE guestRead.user)
  <2>1. k[2] \in Nat
    BY <1>3, KeyFacts
  <2>2. QED
    BY <1>1, <2>1 DEF Noted
<1>5. KeyTypes'
  <2>1. kq_visible' \in Nat /\ kq_visible' <= Len(kq')
    BY <1>1, <1>3
  <2>2. QED
    BY <1>1, <1>3, <1>4, <2>1 DEF KeysInv, KeyTypes
<1>6. RoomIsKept'
  <2>1. {Reserve, QueueCap} \subseteq Nat /\ quota \in Nat /\ typedInFeed \in Nat /\ Feeding' = Feeding
    BY <1>1, BasicAssumption DEF KeysInv, KeyTypes, Feeding
  <2>2. Len(kq') = Len(kq) - 1 /\ Len(kq) \in Nat /\ UNCHANGED <<quota, typedInFeed>>
    BY <1>1, <1>3
  <2>3. RoomIsKept
    BY DEF KeysInv
  <2>4. QED
    BY <2>1, <2>2, <2>3 DEF RoomIsKept
<1>7. (IsPasted(k) => 1 \in PastedAt) /\ (IsTyped(k) => 1 \in TypedAt)
  BY <1>3 DEF PastedAt, TypedAt
<1>8. TypedBefore'
  <2>1. guestRead.user <= typed /\ \A i \in TypedAt : kq[i][2] <= typed
    BY DEF KeysInv, TypedBefore
  <2>2. guestRead'.user <= typed'
    BY <1>1, <1>3, <1>4, <1>7, <2>1
  <2>3. \A i \in TypedAt' : kq'[i][2] <= typed'
    BY <1>1, <1>3, <2>1
  <2>4. \A i \in DOMAIN kq' : kq'[i][1] = "paste" => kq'[i][3] <= pastes'
    BY <1>1, <1>3 DEF KeysInv, TypedBefore
  <2>5. QED
    BY <2>2, <2>3, <2>4 DEF TypedBefore
<1>9. UserInTurn'
  <2>1. /\ \A i \in TypedAt : kq[i][2] > guestRead.user
        /\ \A i, j \in TypedAt : i < j => kq[i][2] < kq[j][2]
    BY DEF KeysInv, UserInTurn, InTurn
  <2>2. \A i \in TypedAt : kq[i][2] \in Nat /\ i \in DOMAIN kq
    BY <1>1, KeyFacts DEF TypedAt
  <2>3. \A i \in TypedAt' : kq'[i][2] > guestRead'.user
    <3> SUFFICES ASSUME NEW i \in TypedAt' PROVE kq'[i][2] > guestRead'.user
      OBVIOUS
    <3>1. i + 1 \in TypedAt /\ kq'[i] = kq[i + 1] /\ 1 < i + 1
      BY <1>3
    <3>2. CASE IsTyped(k)
      <4>1. kq[1][2] < kq[i + 1][2] /\ guestRead'.user = kq[1][2]
        BY <1>3, <1>4, <1>7, <2>1, <3>1, <3>2
      <4>2. kq[1][2] \in Nat /\ kq[i + 1][2] \in Nat
        BY <1>7, <2>2, <3>1, <3>2
      <4>3. QED
        BY <3>1, <4>1, <4>2
    <3>3. CASE ~IsTyped(k)
      BY <1>4, <2>1, <3>1, <3>3
    <3>4. QED
      BY <3>2, <3>3
  <2>4. \A i, j \in TypedAt' : i < j => kq'[i][2] < kq'[j][2]
    BY <1>3, <2>1
  <2>5. QED
    BY <2>3, <2>4 DEF UserInTurn, InTurn
<1>10. PasteInTurn' /\ PasteIsWhole'
  <2>1. /\ guestRead.paste <= paste_pos /\ \A i \in PastedAt : kq[i][2] <= paste_pos
        /\ \A i \in PastedAt : kq[i][2] > guestRead.paste
        /\ \A i, j \in PastedAt : i < j => kq[i][2] < kq[j][2]
        /\ whole => \A n \in guestRead.paste + 1 .. paste_pos : \E i \in PastedAt : kq[i][2] = n
    BY DEF KeysInv, PasteInTurn, PasteIsWhole, InTurn
  <2>2. \A i \in PastedAt : kq[i][2] \in Nat /\ i \in DOMAIN kq
    BY <1>1, KeyFacts DEF PastedAt
  <2>3. \A i \in PastedAt' : kq'[i][2] > guestRead'.paste
    <3> SUFFICES ASSUME NEW i \in PastedAt' PROVE kq'[i][2] > guestRead'.paste
      OBVIOUS
    <3>1. i + 1 \in PastedAt /\ kq'[i] = kq[i + 1] /\ 1 < i + 1
      BY <1>3
    <3>2. CASE IsPasted(k)
      <4>1. kq[1][2] < kq[i + 1][2] /\ guestRead'.paste = kq[1][2]
        BY <1>3, <1>4, <1>7, <2>1, <3>1, <3>2
      <4>2. kq[1][2] \in Nat /\ kq[i + 1][2] \in Nat
        BY <1>7, <2>2, <3>1, <3>2
      <4>3. QED
        BY <3>1, <4>1, <4>2
    <3>3. CASE ~IsPasted(k)
      BY <1>4, <2>1, <3>1, <3>3
    <3>4. QED
      BY <3>2, <3>3
  <2>4. \A i, j \in PastedAt' : i < j => kq'[i][2] < kq'[j][2]
    BY <1>3, <2>1
  <2>5. guestRead'.paste <= paste_pos' /\ \A i \in PastedAt' : kq'[i][2] <= paste_pos'
    BY <1>1, <1>3, <1>4, <1>7, <2>1
  <2>6. ASSUME whole
        PROVE  \A n \in guestRead'.paste + 1 .. paste_pos' : \E i \in PastedAt' : kq'[i][2] = n
    <3> SUFFICES ASSUME NEW n \in guestRead'.paste + 1 .. paste_pos PROVE \E i \in PastedAt' : kq'[i][2] = n
      BY <1>1
    <3>1. guestRead.paste \in Nat /\ guestRead'.paste \in Nat
      BY <1>1, <1>4
    <3>2. guestRead.paste <= guestRead'.paste
      BY <1>3, <1>4, <1>7, <2>1, <2>2, <3>1
    <3>3. n \in guestRead.paste + 1 .. paste_pos /\ n > guestRead'.paste
      BY <1>1, <3>1, <3>2
    <3>4. PICK i \in PastedAt : kq[i][2] = n
      BY <2>1, <2>6, <3>3
    <3>5. i # 1
      <4> SUFFICES ASSUME i = 1 PROVE FALSE
        OBVIOUS
      <4>1. IsPasted(k)
        BY <1>3, <3>4 DEF PastedAt
      <4>2. guestRead'.paste = n
        BY <1>3, <1>4, <3>4, <4>1
      <4>3. QED
        BY <3>1, <3>3, <4>2
    <3>6. PICK j \in DOMAIN kq' : i = j + 1
      BY <1>3, <2>2, <3>5
    <3>7. j \in PastedAt' /\ kq'[j] = kq[i]
      BY <1>3, <3>6
    <3>8. QED
      BY <3>4, <3>7
  <2>7. QED
    BY <1>1, <2>3, <2>4, <2>5, <2>6 DEF PasteInTurn, PasteIsWhole, InTurn
<1>11. QED
  BY <1>5, <1>6, <1>8, <1>9, <1>10 DEF KeysInv

\* No queued key is of a text that is pasted now.
LEMMA PasteKeeps == KeysInv /\ gb_paste_clipboard => KeysInv'
<1> SUFFICES ASSUME KeysInv, gb_paste_clipboard PROVE KeysInv'
  OBVIOUS
<1>1. /\ pastes' = pastes + 1 /\ paste_pos' = 0 /\ pastes \in Nat /\ kq \in Seq(Keys)
      /\ UNCHANGED <<worker, kq, kq_visible, typed, typedInFeed, quota>>
      /\ guestRead \in [paste : Nat, user : Nat]
      /\ guestRead' = [guestRead EXCEPT !.paste = 0]
  BY DEF KeysInv, KeyTypes, gb_paste_clipboard
<1>2. guestRead' \in [paste : Nat, user : Nat] /\ guestRead'.paste = 0 /\ guestRead'.user = guestRead.user
  BY <1>1
<1>3. PastedAt' = {}
  <2> SUFFICES ASSUME NEW i \in DOMAIN kq, kq[i][1] = "paste", kq[i][3] = pastes + 1 PROVE FALSE
    BY <1>1 DEF PastedAt, IsPasted
  <2>1. kq[i][3] <= pastes
    BY DEF KeysInv, TypedBefore
  <2>2. QED
    BY <1>1, <2>1
<1>4. TypedAt' = TypedAt
  BY <1>1 DEF TypedAt, IsTyped
<1>5. KeyTypes'
  <2>1. paste_pos' \in 0 .. PasteLen /\ pastes' \in Nat
    BY <1>1, BasicAssumption
  <2>2. QED
    BY <1>1, <1>2, <2>1 DEF KeysInv, KeyTypes
<1>6. RoomIsKept'
  BY <1>1 DEF KeysInv, RoomIsKept, Feeding
<1>7. TypedBefore'
  <2>1. \A i \in DOMAIN kq' : kq'[i][1] = "paste" => kq'[i][3] <= pastes'
    <3> SUFFICES ASSUME NEW i \in DOMAIN kq, kq[i][1] = "paste" PROVE kq[i][3] <= pastes + 1
      BY <1>1
    <3>1. kq[i] \in Keys
      BY <1>1
    <3>2. kq[i][3] <= pastes /\ kq[i][3] \in Nat
      BY <3>1, KeyFacts DEF KeysInv, TypedBefore
    <3>3. QED
      BY <1>1, <3>2
  <2>2. QED
    BY <1>1, <1>2, <1>4, <2>1 DEF KeysInv, TypedBefore
<1>8. UserInTurn'
  BY <1>1, <1>2, <1>4 DEF KeysInv, UserInTurn, InTurn
<1>9. PasteInTurn' /\ PasteIsWhole'
  BY <1>1, <1>2, <1>3 DEF PasteInTurn, PasteIsWhole, InTurn
<1>10. QED
  BY <1>5, <1>6, <1>7, <1>8, <1>9 DEF KeysInv

\* The room is read at the top of the loop, before g_lock is taken.
LEMMA TopKeeps == KeysInv /\ Top => KeysInv'
<1> SUFFICES ASSUME KeysInv, Top PROVE KeysInv'
  OBVIOUS
<1>1. worker = "top" /\ UNCHANGED keyVars /\ UNCHANGED <<paste_pos, pastes, whole>>
  BY DEF Top
<1>2. CASE ~(worker' = "room")
  <2>1. worker' \in {"ended", "wait"} /\ quota' = quota
    BY <1>2 DEF Top
  <2>2. Feeding' = Feeding /\ UNCHANGED pasteVars
    BY <1>1, <2>1 DEF Feeding, pasteVars
  <2>3. QED
    BY <1>1, <2>2, KeysUntouched
<1>3. CASE worker' = "room"
  <2>1. quota' = (IF Occupied < QueueCap THEN QueueCap - Occupied ELSE 0)
    BY <1>3 DEF Top
  <2>2. {Reserve, QueueCap} \subseteq Nat /\ Len(kq) \in Nat /\ typedInFeed = 0
    BY <1>1, BasicAssumption DEF KeysInv, KeyTypes, RoomIsKept, Feeding
  <2>3. quota' \in Nat /\ (quota' > 0 => Len(kq) + quota' + Reserve <= QueueCap)
    BY <2>1, <2>2 DEF Occupied
  <2>4. RoomIsKept'
    BY <1>1, <1>3, <2>2, <2>3 DEF RoomIsKept, Feeding, keyVars
  <2>5. KeyTypes'
    BY <1>1, <2>3 DEF KeysInv, KeyTypes, keyVars
  <2>6. PastedAt' = PastedAt /\ TypedAt' = TypedAt
    BY <1>1 DEF PastedAt, TypedAt, IsPasted, IsTyped, keyVars
  <2>7. TypedBefore' /\ UserInTurn' /\ PasteInTurn' /\ PasteIsWhole'
    BY <1>1, <2>6 DEF KeysInv, TypedBefore, UserInTurn, PasteInTurn, PasteIsWhole, InTurn, keyVars
  <2>8. QED
    BY <2>4, <2>5, <2>7 DEF KeysInv
<1>4. QED
  BY <1>2, <1>3

\* INT 21h AH=0Ch empties the queue.
LEMMA GuestFlushKeeps == KeysInv /\ GuestFlushes => KeysInv'
<1> SUFFICES ASSUME KeysInv, GuestFlushes PROVE KeysInv'
  OBVIOUS
<1>1. /\ kq' = <<>> /\ kq_visible' = 0 /\ worker' = worker /\ whole' = (whole /\ NonePasted)
      /\ UNCHANGED <<guestRead, typed, typedInFeed, paste_pos, quota, pastes>>
      /\ ~Feeding /\ ~Feeding'
  BY DEF GuestFlushes, key_clear, Feeding
<1>2. DOMAIN kq' = {} /\ Len(kq') = 0 /\ kq' \in Seq(Keys)
  BY <1>1
<1>3. PastedAt' = {} /\ TypedAt' = {}
  BY <1>2 DEF PastedAt, TypedAt
<1>4. KeyTypes' /\ RoomIsKept'
  BY <1>1, <1>2 DEF KeysInv, KeyTypes, RoomIsKept
<1>5. TypedBefore'
  BY <1>1, <1>2, <1>3 DEF KeysInv, TypedBefore
<1>6. QED
  BY <1>1, <1>3, <1>4, <1>5, Discarded DEF KeysInv

\* INT 16h AH=05h puts a key behind the others, which is neither pasted nor typed.
LEMMA GuestPushKeeps == KeysInv /\ GuestPushes => KeysInv'
<1> SUFFICES ASSUME KeysInv, GuestPushes PROVE KeysInv'
  OBVIOUS
<1>1. /\ kq \in Seq(Keys) /\ Len(kq) \in Nat /\ kq_visible' = kq_visible /\ ~Feeding /\ ~Feeding'
      /\ UNCHANGED <<guestRead, typed, typedInFeed, paste_pos, quota, pastes, whole>>
  BY DEF KeysInv, KeyTypes, GuestPushes, Feeding, pasteVars
<1>2. GuestKey \in Keys /\ ~IsTyped(GuestKey) /\ ~IsPasted(GuestKey) /\ GuestKey[1] = "guest"
  BY KeyFacts DEF IsTyped, IsPasted
<1>3. /\ kq' \in Seq(Keys) /\ Len(kq') \in Nat /\ Len(kq) <= Len(kq')
      /\ PastedAt' = PastedAt /\ TypedAt' = TypedAt
      /\ \A i \in DOMAIN kq : kq'[i] = kq[i]
      /\ \A i \in DOMAIN kq' : i \in DOMAIN kq \/ kq'[i][1] = "guest"
  <2>1. CASE Len(kq) < QueueCap
    <3> DEFINE n == Len(kq) + 1
    <3>1. kq' = Append(kq, GuestKey) /\ pastes' = pastes
      BY <1>1, <2>1 DEF GuestPushes, Pushed
    <3>2. /\ kq' \in Seq(Keys) /\ Len(kq') = n /\ kq'[n] = GuestKey
          /\ DOMAIN kq' = DOMAIN kq \cup {n} /\ \A i \in DOMAIN kq : kq'[i] = kq[i]
          /\ PastedAt' = PastedAt \cup (IF IsPasted(GuestKey) THEN {n} ELSE {})
          /\ TypedAt' = TypedAt \cup (IF IsTyped(GuestKey) THEN {n} ELSE {})
      BY <1>1, <1>2, <3>1, OneMore
    <3>3. n \in Nat /\ Len(kq) <= n
      BY <1>1
    <3> HIDE DEF n
    <3>4. \A i \in DOMAIN kq' : i \in DOMAIN kq \/ kq'[i][1] = "guest"
      BY <1>2, <3>2
    <3>5. PastedAt' = PastedAt /\ TypedAt' = TypedAt
      BY <1>2, <3>2
    <3>6. QED
      BY <3>2, <3>3, <3>4, <3>5
  <2>2. CASE ~(Len(kq) < QueueCap)
    <3>1. kq' = kq
      BY <2>2 DEF GuestPushes, Pushed
    <3>2. PastedAt' = PastedAt /\ TypedAt' = TypedAt
      BY <1>1, <3>1 DEF PastedAt, TypedAt, IsPasted, IsTyped
    <3>3. QED
      BY <1>1, <3>1, <3>2
  <2>3. QED
    BY <2>1, <2>2
<1>4. KeyTypes' /\ RoomIsKept'
  BY <1>1, <1>3 DEF KeysInv, KeyTypes, RoomIsKept
<1>5. PastedAt \subseteq DOMAIN kq /\ TypedAt \subseteq DOMAIN kq
  BY DEF PastedAt, TypedAt
<1>6. TypedBefore'
  BY <1>1, <1>3, <1>5 DEF KeysInv, TypedBefore
<1>7. UserInTurn' /\ PasteInTurn' /\ PasteIsWhole'
  BY <1>1, <1>3, <1>5 DEF KeysInv, UserInTurn, PasteInTurn, PasteIsWhole, InTurn
<1>8. QED
  BY <1>4, <1>6, <1>7 DEF KeysInv

LEMMA KeysInvStep == BasicInv /\ KeysInv /\ [BasicNext]_basicVars => KeysInv'
<1> SUFFICES ASSUME BasicInv, KeysInv, [BasicNext]_basicVars PROVE KeysInv'
  OBVIOUS
<1>1. CASE gwbasic_module_activate
  <2>1. UNCHANGED keyVars /\ UNCHANGED pasteVars
    BY <1>1 DEF gwbasic_module_activate
  <2>2. Feeding' = Feeding
    BY <1>1 DEF gwbasic_module_activate, Boots, Feeding, BasicInv, WorkerHasMachine
  <2>3. QED
    BY <2>1, <2>2, KeysUntouched
<1>2. CASE gwbasic_module_deactivate \/ CtrlBreak \/ Restart \/ CloseSuite \/ JoinTimesOut
  <2>1. UNCHANGED keyVars /\ UNCHANGED pasteVars /\ Feeding' = Feeding
    BY <1>2 DEF gwbasic_module_deactivate, CtrlBreak, Restart, CloseSuite, JoinTimesOut, Feeding
  <2>2. QED
    BY <2>1, KeysUntouched
<1>3. CASE KeyTyped
  BY <1>3, KeyTypedKeeps
<1>4. CASE gb_paste_clipboard
  BY <1>4, PasteKeeps
<1>5. CASE gb_restart \/ gwbasic_module_shutdown
  <2>1. Joined /\ ~Feeding'
    BY <1>5 DEF gb_restart, gwbasic_module_shutdown, Boots, Feeding
  <2>2. QED
    BY <2>1, KeysEmptied
<1>6. CASE Top
  BY <1>6, TopKeeps
<1>7. CASE Wait \/ FeedBegins \/ GuestExits \/ TickEnds
  <2>1. UNCHANGED keyVars /\ UNCHANGED pasteVars /\ Feeding' = Feeding
    BY <1>7 DEF Wait, FeedBegins, GuestExits, TickEnds, Feeding
  <2>2. QED
    BY <2>1, KeysUntouched
<1>8. CASE FeedKey
  BY <1>8, FeedKeyKeeps
<1>9. CASE TickBegins
  BY <1>9, TickKeeps
<1>10. CASE GuestReads
  BY <1>10, GuestReadKeeps
<1>11. CASE GuestHalts
  <2>1. /\ kq \in Seq(Keys) /\ kq # <<>> /\ kq_visible' = 1 /\ worker' = worker
        /\ UNCHANGED <<kq, guestRead, typed, typedInFeed>> /\ UNCHANGED pasteVars
    BY <1>11 DEF GuestHalts, KeysInv, KeyTypes
  <2>2. kq_visible' \in Nat /\ kq_visible' <= Len(kq)
    BY <2>1
  <2>3. PastedAt' = PastedAt /\ TypedAt' = TypedAt
    BY <2>1 DEF PastedAt, TypedAt, IsPasted, IsTyped, pasteVars
  <2>4. KeyTypes' /\ RoomIsKept'
    BY <2>1, <2>2 DEF KeysInv, KeyTypes, RoomIsKept, Feeding, pasteVars
  <2>5. TypedBefore' /\ UserInTurn' /\ PasteInTurn' /\ PasteIsWhole'
    BY <2>1, <2>3 DEF KeysInv, TypedBefore, UserInTurn, PasteInTurn, PasteIsWhole, InTurn, pasteVars
  <2>6. QED
    BY <2>4, <2>5 DEF KeysInv
<1>12. CASE GuestFlushes \/ GuestPushes
  BY <1>12, GuestFlushKeeps, GuestPushKeeps
<1>13. CASE UNCHANGED basicVars
  <2>1. UNCHANGED keyVars /\ UNCHANGED pasteVars /\ Feeding' = Feeding
    BY <1>13 DEF basicVars, Feeding
  <2>2. QED
    BY <2>1, KeysUntouched
<1>14. QED
  BY <1>1, <1>2, <1>3, <1>4, <1>5, <1>6, <1>7, <1>8, <1>9, <1>10, <1>11, <1>12, <1>13
  DEF BasicNext, BasicUser, BasicUi, BasicWorker

\* What was pasted is read up to guestRead and lies in the queue from there on.
LEMMA KeysInvArrive == KeysInv => KeysArrive
<1> SUFFICES ASSUME KeysInv PROVE KeysArrive
  OBVIOUS
<1>1. kq_visible <= Len(kq) /\ InTurn(TypedAt, guestRead.user) /\ InTurn(PastedAt, guestRead.paste)
  BY DEF KeysInv, KeyTypes, UserInTurn, PasteInTurn
<1>2. ASSUME whole
      PROVE  {kq[i][2] : i \in PastedAt} = guestRead.paste + 1 .. paste_pos
  <2>1. /\ InTurn(PastedAt, guestRead.paste) /\ \A i \in PastedAt : kq[i][2] <= paste_pos
        /\ \A n \in guestRead.paste + 1 .. paste_pos : \E i \in PastedAt : kq[i][2] = n
    BY <1>2 DEF KeysInv, PasteInTurn, PasteIsWhole
  <2>2. guestRead.paste \in Nat /\ paste_pos \in Nat /\ kq \in Seq(Keys)
    BY BasicAssumption DEF KeysInv, KeyTypes
  <2>3. \A i \in PastedAt : kq[i][2] \in Nat
    BY <2>2, KeyFacts DEF PastedAt
  <2>4. \A i \in PastedAt : kq[i][2] \in guestRead.paste + 1 .. paste_pos
    BY <2>1, <2>2, <2>3 DEF InTurn
  <2>5. QED
    BY <2>1, <2>4
<1>3. QED
  BY <1>1, <1>2 DEF KeysArrive

\* A pasted text arrives in order, and whole until a Ctrl-Break, a flush by the guest
\* (INT 21h AH=0Ch), a restart or the next paste throws some of it away; the user's
\* keys arrive in the order they were typed.  The room read outside g_lock stays
\* good: only the user types in meanwhile, Reserve keys are kept for that, and what
\* the guest pushes (INT 16h AH=05h) it pushes before the room is read
\* (gwbasic_module.c:228-240, gwb_machine.c:212-263, 800-803, 1567-1569, 2255-2272).
THEOREM BasicKeysArrive == BasicSpec => []KeysArrive
<1>1. BasicInit => BasicInv /\ KeysInv
  BY BasicInvInit, KeysInvInit
<1>2. BasicInv /\ KeysInv /\ [BasicNext]_basicVars => (BasicInv /\ KeysInv)'
  BY BasicInvStep, KeysInvStep
<1>3. QED
  BY <1>1, <1>2, KeysInvArrive, PTL DEF BasicSpec
-------------------------------------------------------------------------------
(* The IRC viewer: the client and the server never both wait for the other,  *)
(* and the pane is the channel, in order, once.                              *)


Commands == {"LS*", "LS", "ACK", "NAK", "001", "433", "376", "PING", "PRIVMSG"}
Words == {"LS", "NICK", "REQ", "END", "JOIN", "HELD", "PONG"}
LineSet == [cmd : Commands, n : Int]
In(s, cmd) == \E i \in DOMAIN s : s[i].cmd = cmd

SessionShape == [req : BOOLEAN, fin : BOOLEAN, reached : BOOLEAN, banner : BOOLEAN, redial : BOOLEAN]
ServerShape == [heard : SUBSET Words, said : Nat, joined : BOOLEAN, up : BOOLEAN, gap : Int,
                pinged : BOOLEAN, refused : BOOLEAN]

IrcShapes ==
    /\ lines \in Seq(LineSet) /\ ss \in SessionShape /\ chan \in ServerShape
    /\ ever \in BOOLEAN /\ bannerDue \in BOOLEAN

\* The list is asked for once, and answered once.
OneNegotiation(heard, req, fin, ls) ==
    /\ "LS" \in heard => ~req /\ ~In(ls, "LS")
    /\ ~req => ~fin /\ "REQ" \notin heard /\ ~In(ls, "ACK") /\ ~In(ls, "NAK")
    /\ "REQ" \in heard => ~fin /\ ~In(ls, "ACK") /\ ~In(ls, "NAK")

\* While the server holds the registration back, what releases it is under way.
HeldIsReleased(heard, req, fin, ls) ==
    "HELD" \in heard =>
        \/ ~req /\ In(ls, "LS")
        \/ "REQ" \in heard
        \/ req /\ ~fin /\ (In(ls, "ACK") \/ In(ls, "NAK"))
        \/ "END" \in heard

\* So is what answers the nickname, up to the join.
NickIsAnswered(heard, joined, ls) ==
    "NICK" \in heard \/ In(ls, "433") \/ In(ls, "001") \/ "JOIN" \in heard \/ joined

Talking ==
    irc = "recv" =>
        /\ OneNegotiation(chan.heard, ss.req, ss.fin, lines)
        /\ HeldIsReleased(chan.heard, ss.req, ss.fin, lines)
        /\ NickIsAnswered(chan.heard, chan.joined, lines)

IrcInv == IrcShapes /\ Talking

-------------------------------------------------------------------------------
(* Lines that arrive, and lines that are taken.                              *)

LEMMA Arrive ==
    ASSUME NEW s \in Seq(LineSet), NEW t \in Seq(LineSet)
    PROVE  /\ s \o t \in Seq(LineSet)
           /\ \A cmd : In(s \o t, cmd) <=> In(s, cmd) \/ In(t, cmd)
<1>1. s \o t \in Seq(LineSet)
  OBVIOUS
<1>2. ASSUME NEW cmd, In(s, cmd) PROVE In(s \o t, cmd)
  <2>1. PICK i \in DOMAIN s : s[i].cmd = cmd
    BY <1>2 DEF In
  <2>2. i \in DOMAIN (s \o t) /\ (s \o t)[i] = s[i]
    OBVIOUS
  <2>3. QED
    BY <2>1, <2>2 DEF In
<1>3. ASSUME NEW cmd, In(t, cmd) PROVE In(s \o t, cmd)
  <2>1. PICK i \in DOMAIN t : t[i].cmd = cmd
    BY <1>3 DEF In
  <2>2. Len(s) + i \in DOMAIN (s \o t) /\ (s \o t)[Len(s) + i] = t[i]
    OBVIOUS
  <2>3. QED
    BY <2>1, <2>2 DEF In
<1>4. ASSUME NEW cmd, In(s \o t, cmd) PROVE In(s, cmd) \/ In(t, cmd)
  <2>1. PICK i \in DOMAIN (s \o t) : (s \o t)[i].cmd = cmd
    BY <1>4 DEF In
  <2>2. CASE i <= Len(s)
    <3>1. i \in DOMAIN s /\ (s \o t)[i] = s[i]
      BY <2>2
    <3>2. QED
      BY <2>1, <3>1 DEF In
  <2>3. CASE i > Len(s)
    <3>1. i - Len(s) \in DOMAIN t /\ (s \o t)[i] = t[i - Len(s)]
      BY <2>3
    <3>2. QED
      BY <2>1, <3>1 DEF In
  <2>4. QED
    BY <2>2, <2>3
<1>5. QED
  BY <1>1, <1>2, <1>3, <1>4

LEMMA LineTaken ==
    ASSUME NEW s \in Seq(LineSet), s # <<>>
    PROVE  /\ Tail(s) \in Seq(LineSet)
           /\ \A cmd : In(s, cmd) <=> Head(s).cmd = cmd \/ In(Tail(s), cmd)
<1>1. Tail(s) \in Seq(LineSet) /\ Len(s) >= 1
  OBVIOUS
<1>2. ASSUME NEW cmd, In(s, cmd), Head(s).cmd # cmd PROVE In(Tail(s), cmd)
  <2>1. PICK i \in DOMAIN s : s[i].cmd = cmd
    BY <1>2 DEF In
  <2>2. i - 1 \in DOMAIN Tail(s) /\ Tail(s)[i - 1] = s[i]
    BY <1>2, <2>1
  <2>3. QED
    BY <2>1, <2>2 DEF In
<1>3. ASSUME NEW cmd, In(Tail(s), cmd) PROVE In(s, cmd)
  <2>1. PICK i \in DOMAIN Tail(s) : Tail(s)[i].cmd = cmd
    BY <1>3 DEF In
  <2>2. i + 1 \in DOMAIN s /\ Tail(s)[i] = s[i + 1]
    BY <1>1
  <2>3. QED
    BY <2>1, <2>2 DEF In
<1>4. ASSUME NEW cmd, Head(s).cmd = cmd PROVE In(s, cmd)
  BY <1>1, <1>4 DEF In
<1>5. QED
  BY <1>1, <1>2, <1>3, <1>4

LEMMA OneLine ==
    ASSUME NEW cmd \in Commands, NEW n \in Int
    PROVE  /\ <<Line(cmd, n)>> \in Seq(LineSet)
           /\ \A c : In(<<Line(cmd, n)>>, c) <=> c = cmd
<1>1. Line(cmd, n) \in LineSet /\ Line(cmd, n).cmd = cmd
  BY DEF Line, LineSet
<1>2. QED
  BY <1>1 DEF In

LEMMA IrcInvInit == Init => IrcInv
<1> SUFFICES ASSUME Init PROVE IrcInv
  OBVIOUS
<1>1. lines \in Seq(LineSet)
  BY DEF Init
<1>2. ever \in BOOLEAN /\ bannerDue \in BOOLEAN
  BY DEF Init
<1>3. ss \in SessionShape
  BY DEF Init, NoSession, SessionShape
<1>4. chan \in ServerShape
  BY DEF Init, ServerShape
<1>5. QED
  BY <1>1, <1>2, <1>3, <1>4 DEF Init, IrcInv, IrcShapes, Talking

-------------------------------------------------------------------------------
\* A line of the server is handled.
LEMMA HandlersKeep ==
    ASSUME IrcInv,
           \/ HandlesPing \/ HandlesCap \/ HandlesWelcome \/ HandlesNickInUse
           \/ HandlesMotdEnd \/ HandlesMessage
    PROVE  IrcInv'
<1> USE DEF IrcShapes
<1>1. /\ irc = "recv" /\ irc' = irc /\ lines # <<>> /\ lines' = Tail(lines)
      /\ lines' \in Seq(LineSet)
      /\ \A cmd : In(lines, cmd) <=> Head(lines).cmd = cmd \/ In(lines', cmd)
  BY LineTaken DEF IrcInv, HandlesPing, HandlesCap, HandlesWelcome, HandlesNickInUse, HandlesMotdEnd,
               HandlesMessage, Handles, Works, handled
<1>2. /\ OneNegotiation(chan.heard, ss.req, ss.fin, lines)
      /\ HeldIsReleased(chan.heard, ss.req, ss.fin, lines)
      /\ NickIsAnswered(chan.heard, chan.joined, lines)
  BY <1>1 DEF IrcInv, Talking
<1>3. ASSUME NEW what \in SUBSET Words, Hears(what)
      PROVE  chan' \in ServerShape /\ chan'.heard = chan.heard \cup what /\ chan'.joined = chan.joined
  BY <1>3 DEF Hears, IrcInv, ServerShape
<1> USE DEF OneNegotiation, HeldIsReleased, NickIsAnswered
<1>4. CASE HandlesPing
  <2>1. Head(lines).cmd = "PING" /\ Hears({"PONG"}) /\ ss' = ss /\ ever' = ever /\ bannerDue' = bannerDue
    BY <1>4 DEF HandlesPing, Handles, sessVars
  <2>2. chan' \in ServerShape /\ chan'.heard = chan.heard \cup {"PONG"} /\ chan'.joined = chan.joined
    <3>1. {"PONG"} \in SUBSET Words
      BY DEF Words
    <3>2. QED
      BY <1>3, <2>1, <3>1
  <2>3. IrcShapes'
    BY <1>1, <2>1, <2>2 DEF IrcInv
  <2>4. OneNegotiation(chan'.heard, ss'.req, ss'.fin, lines')
    BY <1>1, <1>2, <2>1, <2>2
  <2>5. HeldIsReleased(chan'.heard, ss'.req, ss'.fin, lines')
    BY <1>1, <1>2, <2>1, <2>2
  <2>6. NickIsAnswered(chan'.heard, chan'.joined, lines')
    BY <1>1, <1>2, <2>1, <2>2
  <2>7. QED
    BY <2>3, <2>4, <2>5, <2>6 DEF IrcInv, Talking
<1>5. CASE HandlesCap
  <2>1. PICK cmd \in {"LS*", "LS", "ACK", "NAK"} :
          /\ Handles(cmd)
          /\ CASE Asks(cmd)      -> ss' = [ss EXCEPT !.req = TRUE] /\ Hears({"REQ"})
               [] Concludes(cmd) -> ss' = [ss EXCEPT !.fin = TRUE] /\ Hears({"END"})
               [] OTHER          -> UNCHANGED <<ss, chan>>
    BY <1>5 DEF HandlesCap
  <2>2. Head(lines).cmd = cmd /\ ever' = ever /\ bannerDue' = bannerDue
    BY <1>5, <2>1 DEF HandlesCap, Handles
  <2>3. CASE Asks(cmd)
    <3>1. cmd = "LS" /\ ~ss.req /\ ss' = [ss EXCEPT !.req = TRUE] /\ Hears({"REQ"})
      <4>1. Asks(cmd) /\ ~Concludes(cmd)
        BY <2>3 DEF Asks, Concludes
      <4>2. ss' = [ss EXCEPT !.req = TRUE] /\ Hears({"REQ"})
        BY <2>1, <4>1, SMT
      <4>3. QED
        BY <4>1, <4>2 DEF Asks
    <3>2. ss' \in SessionShape /\ ss'.req /\ ss'.fin = ss.fin
      BY <3>1 DEF IrcInv, SessionShape
    <3>3. chan' \in ServerShape /\ chan'.heard = chan.heard \cup {"REQ"} /\ chan'.joined = chan.joined
      BY <1>3, <3>1 DEF Words
    <3>4. IrcShapes'
      BY <1>1, <2>2, <3>2, <3>3 DEF IrcInv
    <3>5. QED
      BY <1>1, <1>2, <2>2, <3>1, <3>2, <3>3, <3>4 DEF IrcInv, Talking
  <2>4. CASE Concludes(cmd)
    <3>1. cmd \in {"ACK", "NAK"} /\ ss.req /\ ~ss.fin /\ ss' = [ss EXCEPT !.fin = TRUE] /\ Hears({"END"})
      BY <2>1, <2>4 DEF Asks, Concludes
    <3>2. ss' \in SessionShape /\ ss'.req = ss.req /\ ss'.fin
      BY <3>1 DEF IrcInv, SessionShape
    <3>3. chan' \in ServerShape /\ chan'.heard = chan.heard \cup {"END"} /\ chan'.joined = chan.joined
      BY <1>3, <3>1 DEF Words
    <3>4. IrcShapes'
      BY <1>1, <2>2, <3>2, <3>3 DEF IrcInv
    <3>5. QED
      BY <1>1, <1>2, <2>2, <3>1, <3>2, <3>3, <3>4 DEF IrcInv, Talking
  <2>5. CASE ~Asks(cmd) /\ ~Concludes(cmd)
    <3>1. UNCHANGED <<ss, chan>> /\ ~(cmd = "LS" /\ ~ss.req) /\ ~(cmd \in {"ACK", "NAK"} /\ ss.req /\ ~ss.fin)
      BY <2>1, <2>5 DEF Asks, Concludes
    <3>2. QED
      BY <1>1, <1>2, <2>2, <3>1 DEF IrcInv, Talking
  <2>6. QED
    BY <2>3, <2>4, <2>5
<1>6. CASE HandlesWelcome
  <2>1. /\ Head(lines).cmd = "001" /\ Hears({"JOIN"}) /\ ss' = [ss EXCEPT !.reached = TRUE]
        /\ ever' = TRUE /\ bannerDue' = bannerDue
    BY <1>6 DEF HandlesWelcome, Handles
  <2>2. ss' \in SessionShape /\ ss'.req = ss.req /\ ss'.fin = ss.fin
    BY <2>1 DEF IrcInv, SessionShape
  <2>3. chan' \in ServerShape /\ chan'.heard = chan.heard \cup {"JOIN"} /\ chan'.joined = chan.joined
    BY <1>3, <2>1 DEF Words
  <2>4. IrcShapes'
    BY <1>1, <2>1, <2>2, <2>3 DEF IrcInv
  <2>5. QED
    BY <1>1, <1>2, <2>1, <2>2, <2>3, <2>4 DEF IrcInv, Talking
<1>7. CASE HandlesNickInUse
  <2>1. Head(lines).cmd = "433" /\ Hears({"NICK"}) /\ ss' = ss /\ ever' = ever /\ bannerDue' = bannerDue
    BY <1>7 DEF HandlesNickInUse, Handles, sessVars
  <2>2. chan' \in ServerShape /\ chan'.heard = chan.heard \cup {"NICK"} /\ chan'.joined = chan.joined
    BY <1>3, <2>1 DEF Words
  <2>3. IrcShapes'
    BY <1>1, <2>1, <2>2 DEF IrcInv
  <2>4. QED
    BY <1>1, <1>2, <2>1, <2>2, <2>3 DEF IrcInv, Talking
<1>8. CASE HandlesMotdEnd
  <2>1. /\ Head(lines).cmd = "376" /\ chan' = chan /\ ever' = ever
        /\ \/ ss' = [ss EXCEPT !.banner = FALSE] /\ bannerDue' = FALSE
           \/ ss' = ss /\ bannerDue' = bannerDue
    BY <1>8 DEF HandlesMotdEnd, Handles
  <2>2. ss' \in SessionShape /\ ss'.req = ss.req /\ ss'.fin = ss.fin
    BY <2>1 DEF IrcInv, SessionShape
  <2>3. QED
    BY <1>1, <1>2, <2>1, <2>2 DEF IrcInv, Talking
<1>9. CASE HandlesMessage
  <2>1. Head(lines).cmd = "PRIVMSG" /\ chan' = chan /\ ss' = ss /\ ever' = ever /\ bannerDue' = bannerDue
    BY <1>9 DEF HandlesMessage, Handles, sessVars
  <2>2. QED
    BY <1>1, <1>2, <2>1 DEF IrcInv, Talking
<1>10. QED
  BY <1>4, <1>5, <1>6, <1>7, <1>8, <1>9

-------------------------------------------------------------------------------
\* The server does something: lines are added.
LEMMA ServerKeeps ==
    ASSUME IrcInv, Replies \/ Pings \/ Talks \/ Drops
    PROVE  IrcInv'
<1> USE DEF IrcShapes
<1>1. irc' = irc /\ ss' = ss /\ ever' = ever /\ bannerDue' = bannerDue
  BY DEF Replies, Pings, Talks, Drops, srvKept, sessVars
<1>2. irc = "recv" =>
        /\ OneNegotiation(chan.heard, ss.req, ss.fin, lines)
        /\ HeldIsReleased(chan.heard, ss.req, ss.fin, lines)
        /\ NickIsAnswered(chan.heard, chan.joined, lines)
  BY DEF IrcInv, Talking
<1>3. ASSUME NEW cmds \in Seq(LineSet), NEW heard \in SUBSET Words, Sends(cmds, heard)
      PROVE  /\ lines' \in Seq(LineSet) /\ \A cmd : In(lines', cmd) <=> In(lines, cmd) \/ In(cmds, cmd)
             /\ chan' \in ServerShape /\ chan'.heard = heard /\ chan'.joined = chan.joined
  <2>1. lines' = lines \o cmds /\ chan' = [chan EXCEPT !.heard = heard]
    BY <1>3 DEF Sends
  <2>2. chan' \in ServerShape /\ chan'.heard = heard /\ chan'.joined = chan.joined
    BY <2>1 DEF IrcInv, ServerShape
  <2>3. QED
    BY <2>1, <2>2, Arrive DEF IrcInv
<1>4. chan.heard \in SUBSET Words /\ lines \in Seq(LineSet)
  BY DEF IrcInv, ServerShape
<1>5. ASSUME NEW cmd \in Commands, NEW n \in Int, lines' = Append(lines, Line(cmd, n))
      PROVE  lines' \in Seq(LineSet) /\ \A c : In(lines', c) <=> In(lines, c) \/ c = cmd
  <2>1. lines' = lines \o <<Line(cmd, n)>>
    BY <1>4, <1>5
  <2>2. QED
    BY <1>4, <2>1, Arrive, OneLine
<1> USE DEF OneNegotiation, HeldIsReleased, NickIsAnswered
<1>6. CASE Lists
  <2>1. PICK more \in {<<>>, <<Line("LS*", 0)>>} :
          Sends(more \o <<Line("LS", 0)>>, (chan.heard \ {"LS"}) \cup {"HELD"})
    BY <1>6 DEF Lists
  <2>2. more \in Seq(LineSet) /\ \A c : In(more, c) => c = "LS*"
    <3>1. /\ <<Line("LS*", 0)>> \in Seq(LineSet)
          /\ \A c : In(<<Line("LS*", 0)>>, c) <=> c = "LS*"
      BY OneLine DEF Commands
    <3>2. <<>> \in Seq(LineSet) /\ \A c : ~In(<<>>, c)
      BY DEF In
    <3>3. CASE more = <<>>
      BY <3>2, <3>3
    <3>4. CASE more = <<Line("LS*", 0)>>
      BY <3>1, <3>4
    <3>5. QED
      BY <2>1, <3>3, <3>4
  <2>3. /\ more \o <<Line("LS", 0)>> \in Seq(LineSet)
        /\ \A c : In(more \o <<Line("LS", 0)>>, c) <=> In(more, c) \/ c = "LS"
    <3>1. <<Line("LS", 0)>> \in Seq(LineSet) /\ \A c : In(<<Line("LS", 0)>>, c) <=> c = "LS"
      BY OneLine DEF Commands
    <3>2. QED
      BY <2>2, <3>1, Arrive
  <2>4. /\ lines' \in Seq(LineSet) /\ \A c : In(lines', c) <=> In(lines, c) \/ In(more, c) \/ c = "LS"
        /\ chan' \in ServerShape /\ chan'.heard = (chan.heard \ {"LS"}) \cup {"HELD"} /\ chan'.joined = chan.joined
    BY <1>3, <1>4, <2>1, <2>3 DEF Words
  <2>5. "LS" \in chan.heard
    BY <1>6 DEF Lists
  <2>6. QED
    BY <1>1, <1>2, <2>2, <2>4, <2>5 DEF IrcInv, Talking
<1>7. CASE Answers
  <2>1. PICK cmd \in {"ACK", "NAK"} : Sends(<<Line(cmd, 0)>>, chan.heard \ {"REQ"})
    BY <1>7 DEF Answers
  <2>2. /\ lines' \in Seq(LineSet) /\ \A c : In(lines', c) <=> In(lines, c) \/ c = cmd
        /\ chan' \in ServerShape /\ chan'.heard = chan.heard \ {"REQ"} /\ chan'.joined = chan.joined
    <3>1. <<Line(cmd, 0)>> \in Seq(LineSet) /\ \A c : In(<<Line(cmd, 0)>>, c) <=> c = cmd
      BY OneLine DEF Commands
    <3>2. chan.heard \ {"REQ"} \in SUBSET Words
      BY <1>4
    <3>3. QED
      BY <1>3, <2>1, <3>1, <3>2
  <2>3. "REQ" \in chan.heard /\ ss.req \in BOOLEAN
    BY <1>7 DEF Answers, IrcInv, SessionShape
  <2>4. QED
    BY <1>1, <1>2, <2>2, <2>3 DEF IrcInv, Talking
<1>8. CASE Releases
  <2>1. Sends(<<>>, chan.heard \ {"END", "HELD"}) /\ <<>> \in Seq(LineSet) /\ \A c : ~In(<<>>, c)
    BY <1>8 DEF Releases, In
  <2>2. /\ lines' \in Seq(LineSet) /\ \A c : In(lines', c) <=> In(lines, c)
        /\ chan' \in ServerShape /\ chan'.heard = chan.heard \ {"END", "HELD"} /\ chan'.joined = chan.joined
    BY <1>3, <1>4, <2>1
  <2>3. QED
    BY <1>1, <1>2, <2>2 DEF IrcInv, Talking
<1>9. CASE TakesNick
  <2>1. CASE Sends(Welcome, chan.heard \ {"NICK"})
    <3>1. Welcome = <<Line("001", 0)>> \o <<Line("376", 0)>>
      BY DEF Welcome
    <3>2. Welcome \in Seq(LineSet) /\ \A c : In(Welcome, c) <=> c = "001" \/ c = "376"
      <4>1. <<Line("001", 0)>> \in Seq(LineSet) /\ \A c : In(<<Line("001", 0)>>, c) <=> c = "001"
        BY OneLine DEF Commands
      <4>2. <<Line("376", 0)>> \in Seq(LineSet) /\ \A c : In(<<Line("376", 0)>>, c) <=> c = "376"
        BY OneLine DEF Commands
      <4>3. QED
        BY <3>1, <4>1, <4>2, Arrive
    <3>3. /\ lines' \in Seq(LineSet) /\ \A c : In(lines', c) <=> In(lines, c) \/ c = "001" \/ c = "376"
          /\ chan' \in ServerShape /\ chan'.heard = chan.heard \ {"NICK"} /\ chan'.joined = chan.joined
      BY <1>3, <1>4, <2>1, <3>2
    <3>4. QED
      BY <1>1, <1>2, <3>3 DEF IrcInv, Talking
  <2>2. CASE lines' = Append(lines, Line("433", 0)) /\ chan' = [chan EXCEPT !.heard = @ \ {"NICK"}, !.refused = TRUE]
    <3>1. chan' \in ServerShape /\ chan'.heard = chan.heard \ {"NICK"} /\ chan'.joined = chan.joined
      BY <2>2 DEF IrcInv, ServerShape
    <3>2. lines' \in Seq(LineSet) /\ \A c : In(lines', c) <=> In(lines, c) \/ c = "433"
      BY <1>5, <2>2 DEF Commands
    <3>3. QED
      BY <1>1, <1>2, <3>1, <3>2 DEF IrcInv, Talking
  <2>3. QED
    BY <1>9, <2>1, <2>2 DEF TakesNick
<1>10. CASE Replays
  <2> DEFINE from == IF chan.said > Window THEN chan.said - Window ELSE 0
             old == [i \in 1 .. chan.said - from |-> Line("PRIVMSG", from + i)]
  <2>1. /\ lines' = lines \o old
        /\ chan' = [chan EXCEPT !.heard = @ \ {"JOIN"}, !.joined = TRUE, !.gap = from]
    BY <1>10 DEF Replays
  <2>2. from \in Nat /\ chan.said - from \in Nat
    BY SeenAssumption DEF IrcInv, ServerShape
  <2>3. \A i \in 1 .. chan.said - from : Line("PRIVMSG", from + i) \in LineSet /\ Line("PRIVMSG", from + i).cmd = "PRIVMSG"
    BY <2>2 DEF Line, LineSet, Commands
  <2>4. old \in Seq(LineSet) /\ \A c : In(old, c) => c = "PRIVMSG"
    BY <2>2, <2>3 DEF In
  <2>5. chan' \in ServerShape /\ chan'.heard = chan.heard \ {"JOIN"} /\ chan'.joined
    <3> DEFINE heard == chan.heard \ {"JOIN"}
    <3>1. heard \in SUBSET Words /\ from \in Int
      BY <1>4, <2>2
    <3>2. chan' = [chan EXCEPT !.heard = heard, !.joined = TRUE, !.gap = from]
      BY <2>1
    <3> HIDE DEF from, heard
    <3>3. chan' \in ServerShape /\ chan'.heard = heard /\ chan'.joined
      BY <3>1, <3>2 DEF IrcInv, ServerShape
    <3>4. QED
      BY <3>3 DEF heard
  <2> HIDE DEF from, old
  <2>6. lines' \in Seq(LineSet) /\ \A c : In(lines', c) <=> In(lines, c) \/ In(old, c)
    BY <1>4, <2>1, <2>4, Arrive
  <2>7. QED
    BY <1>1, <1>2, <2>4, <2>5, <2>6 DEF IrcInv, Talking
<1>11. CASE Pings
  <2>1. lines' = Append(lines, Line("PING", 0)) /\ chan' = [chan EXCEPT !.pinged = TRUE]
    BY <1>11 DEF Pings
  <2>2. chan' \in ServerShape /\ chan'.heard = chan.heard /\ chan'.joined = chan.joined
    BY <2>1 DEF IrcInv, ServerShape
  <2>3. lines' \in Seq(LineSet) /\ \A c : In(lines', c) <=> In(lines, c) \/ c = "PING"
    BY <1>5, <2>1 DEF Commands
  <2>4. QED
    BY <1>1, <1>2, <2>2, <2>3 DEF IrcInv, Talking
<1>12. CASE Talks
  <2> DEFINE said == chan.said + 1
  <2>1. /\ chan' = [chan EXCEPT !.said = said]
        /\ lines' = Append(lines, Line("PRIVMSG", said)) \/ lines' = lines
    BY <1>12 DEF Talks
  <2>2. said \in Nat
    BY DEF IrcInv, ServerShape
  <2> HIDE DEF said
  <2>3. chan' \in ServerShape /\ chan'.heard = chan.heard /\ chan'.joined = chan.joined
    BY <2>1, <2>2 DEF IrcInv, ServerShape
  <2>4. lines' \in Seq(LineSet) /\ \A c : c # "PRIVMSG" => (In(lines', c) <=> In(lines, c))
    <3>1. CASE lines' = Append(lines, Line("PRIVMSG", said))
      <4>1. lines' \in Seq(LineSet) /\ \A c : In(lines', c) <=> In(lines, c) \/ c = "PRIVMSG"
        BY <1>5, <2>2, <3>1 DEF Commands
      <4>2. QED
        BY <4>1
    <3>2. CASE lines' = lines
      BY <1>4, <3>2
    <3>3. QED
      BY <2>1, <3>1, <3>2
  <2>5. QED
    BY <1>1, <1>2, <2>3, <2>4 DEF IrcInv, Talking
<1>13. CASE Drops
  <2>1. lines' = lines /\ chan' = [chan EXCEPT !.up = FALSE]
    BY <1>13 DEF Drops
  <2>2. chan' \in ServerShape /\ chan'.heard = chan.heard /\ chan'.joined = chan.joined
    BY <2>1 DEF IrcInv, ServerShape
  <2>3. QED
    BY <1>1, <1>2, <2>1, <2>2 DEF IrcInv, Talking
<1>14. QED
  BY <1>6, <1>7, <1>8, <1>9, <1>10, <1>11, <1>12, <1>13 DEF Replies

-------------------------------------------------------------------------------
\* A session begins: the list is asked for and the nickname given.
LEMMA ConnectKeeps ==
    ASSUME IrcInv, ConnectSucceeds
    PROVE  IrcInv'
<1>1. /\ ss' = [NoSession EXCEPT !.banner = bannerDue, !.redial = ever]
      /\ chan' = [chan EXCEPT !.heard = {"LS", "NICK"}, !.up = TRUE, !.pinged = FALSE, !.refused = FALSE]
      /\ lines' = <<>> /\ ever' = ever /\ bannerDue' = bannerDue
  BY DEF ConnectSucceeds
<1>2. ss' \in SessionShape /\ ~ss'.req /\ ~ss'.fin
  BY <1>1 DEF IrcInv, IrcShapes, SessionShape, NoSession
<1>3. chan' \in ServerShape /\ chan'.heard = {"LS", "NICK"}
  <2> DEFINE heard == {"LS", "NICK"}
  <2>1. heard \in SUBSET Words
    BY DEF Words
  <2> HIDE DEF heard
  <2>2. [chan EXCEPT !.heard = heard, !.up = TRUE, !.pinged = FALSE, !.refused = FALSE] \in ServerShape
    BY <2>1 DEF IrcInv, IrcShapes, ServerShape
  <2>3. [chan EXCEPT !.heard = heard, !.up = TRUE, !.pinged = FALSE, !.refused = FALSE].heard = heard
    BY DEF IrcInv, IrcShapes, ServerShape
  <2>4. QED
    BY <1>1, <2>2, <2>3 DEF heard
<1>4. lines' \in Seq(LineSet) /\ \A c : ~In(lines', c)
  BY <1>1 DEF In
<1>5. IrcShapes'
  BY <1>1, <1>2, <1>3, <1>4 DEF IrcInv, IrcShapes
<1>6. QED
  BY <1>2, <1>3, <1>4, <1>5 DEF IrcInv, Talking, OneNegotiation, HeldIsReleased, NickIsAnswered

\* A session ends.
LEMMA EndKeeps ==
    ASSUME IrcInv, SessionEnds
    PROVE  IrcInv'
<1>1. /\ chan' = [chan EXCEPT !.up = FALSE, !.heard = {}, !.joined = FALSE] /\ lines' = <<>>
      /\ ss' = ss /\ ever' = ever /\ bannerDue' = bannerDue /\ irc' # "recv"
  BY DEF SessionEnds, Goes, sessVars
<1>2. chan' \in ServerShape
  BY <1>1 DEF IrcInv, IrcShapes, ServerShape
<1>3. lines' \in Seq(LineSet)
  BY <1>1
<1>4. QED
  BY <1>1, <1>2, <1>3 DEF IrcInv, IrcShapes, Talking

\* The tab's handlers leave the conversation alone, and so does a worker that is
\* not in a session.
LEMMA ElsewhereKeeps ==
    ASSUME IrcInv,
           \/ UNCHANGED <<irc, sessVars, srvVars>>
           \/ irc' # "recv" /\ UNCHANGED <<sessVars, srvVars>>
    PROVE  IrcInv'
BY DEF IrcInv, IrcShapes, Talking, OneNegotiation, HeldIsReleased, NickIsAnswered, sessVars, srvVars

LEMMA NewClientKeeps ==
    ASSUME IrcInv, OnConnect
    PROVE  IrcInv'
<1>1. ever' = FALSE /\ bannerDue' = TRUE /\ irc' = "dial" /\ ss' = NoSession /\ lines' = lines /\ chan' = chan
  BY DEF OnConnect, srvVars
<1>2. ss' \in SessionShape
  BY <1>1 DEF NoSession, SessionShape
<1>3. QED
  BY <1>1, <1>2 DEF IrcInv, IrcShapes, Talking

LEMMA IrcInvStep == IrcInv /\ [Next]_vars => IrcInv'
<1> SUFFICES ASSUME IrcInv, [Next]_vars PROVE IrcInv'
  OBVIOUS
<1>1. CASE OnConnect
  BY <1>1, NewClientKeeps
<1>2. CASE OnDisconnect \/ OnShutdown
  BY <1>2, ElsewhereKeeps DEF OnDisconnect, OnShutdown, IrcClose
<1>3. CASE JoinEnds
  <2>1. irc' # "recv" /\ UNCHANGED <<sessVars, srvVars>>
    BY <1>3 DEF JoinEnds, Unreached
  <2>2. QED
    BY <2>1, ElsewhereKeeps
<1>4. CASE OnMessage \/ OnSystem \/ OnRegistered \/ OnFailed
  BY <1>4, ElsewhereKeeps DEF OnMessage, OnSystem, OnRegistered, OnFailed, IrcClose
<1>5. CASE Dials \/ SeesQuit \/ Resolves \/ ConnectFails
  BY <1>5, ElsewhereKeeps DEF Dials, SeesQuit, Resolves, ConnectFails, Goes
<1>6. CASE LooksAtFailure \/ Reports \/ BackoffEnds
  BY <1>6, ElsewhereKeeps DEF LooksAtFailure, Reports, BackoffEnds, Goes
<1>7. CASE ConnectSucceeds
  BY <1>7, ConnectKeeps
<1>8. CASE SessionEnds
  BY <1>8, EndKeeps
<1>9. CASE HandlesPing \/ HandlesCap \/ HandlesWelcome \/ HandlesNickInUse \/ HandlesMotdEnd \/ HandlesMessage
  BY <1>9, HandlersKeep
<1>10. CASE Replies \/ Pings \/ Talks \/ Drops
  BY <1>10, ServerKeeps
<1>11. CASE UNCHANGED vars
  BY <1>11, ElsewhereKeeps DEF vars
<1>12. QED
  BY <1>1, <1>2, <1>3, <1>4, <1>5, <1>6, <1>7, <1>8, <1>9, <1>10, <1>11 DEF Next, Tab, Worker

(* The client and the server never both wait for the other, however the list  *)
(* is cut and whether the capabilities are granted (irc_client.c:445-486).    *)
THEOREM IrcNotBothWaiting == Spec => []NotBothWaiting
<1>1. ASSUME IrcInv PROVE NotBothWaiting
  <2> SUFFICES ASSUME irc = "recv", lines = <<>> PROVE ServerOwes \/ chan.joined
    BY DEF NotBothWaiting
  <2>1. \A c : ~In(lines, c)
    BY DEF In
  <2>2. QED
    BY <1>1, <2>1 DEF IrcInv, Talking, HeldIsReleased, NickIsAnswered, ServerOwes
<1>2. QED
  BY <1>1, IrcInvInit, IrcInvStep, PTL DEF Spec

-------------------------------------------------------------------------------
(* The pane: what is on its way to it, from the channel through the lines of  *)
(* the server and the messages posted to the tab.                             *)

Events == [kind : {"SYSTEM", "REGISTERED", "MESSAGE", "FAILED"}, n : Int, from : Nat, redial : BOOLEAN]
Queued == Events \cup LineSet
IrcMessages == {e \in Events : e.kind = "MESSAGE"}
Talk == {l \in LineSet : l.cmd = "PRIVMSG"}

\* The numbers of the messages of a queue that is on its way, up to a place.
Before(q, M, i) == {q[k].n : k \in {x \in DOMAIN q : x < i /\ q[x] \in M}}
Numbers(q, M) == {q[k].n : k \in {x \in DOMAIN q : q[x] \in M}}

\* A message that comes after those of S: told again it is no older than the
\* window, told for the first time it is the newest, and what the last replay
\* reached and the message follows came before it.
Follows(S, n, said, gap) ==
    /\ n \in 1 .. said
    /\ \A m \in S : m < n + Window
    /\ n \in S \/ \A m \in S : m < n
    /\ \A k \in gap + 1 .. n - 1 : k \in S
Flows(q, M, S, said, gap) ==
    \A i \in DOMAIN q : q[i] \in M => Follows(S \cup Before(q, M, i), q[i].n, said, gap)

\* What is on its way to a pane that shows S.
Way(S, q, l, said, gap, joined) ==
    /\ Flows(q, IrcMessages, S, said, gap)
    /\ Flows(l, Talk, S \cup Numbers(q, IrcMessages), said, gap)
    /\ joined => \A k \in gap + 1 .. said : k \in S \cup Numbers(q, IrcMessages) \cup Numbers(l, Talk)

Shown == {pane[i] : i \in DOMAIN pane}

\* Who is alive: without a client no worker talks, and a client that is being
\* closed has no socket.
Control ==
    /\ clients \in Nat /\ (connected <=> client # 0)
    /\ client = 0 => irc \in {"none", "lost"}
    /\ tab \in {"closing", "leaving"} => quit /\ conn # "open"
    /\ irc # "recv" => lines = <<>> /\ ~chan.joined /\ ~chan.up

\* The pane grows by newer messages, and the ring holds its end.
PaneGrows ==
    /\ pane \in Seq(Int) /\ Shown \subseteq 1 .. chan.said
    /\ \A i, j \in DOMAIN pane : i < j => pane[j] - pane[i] >= j - i
    /\ pane # <<>> => \A n \in chan.gap + 1 .. pane[Len(pane)] : n \in Shown
RingIsEnd ==
    /\ seen \in Seq(Int)
    /\ Len(seen) = IF Len(pane) > SeenMax THEN SeenMax ELSE Len(pane)
    /\ \A k \in DOMAIN seen : seen[k] = pane[Len(pane) - Len(seen) + k]

OnTheWay ==
    /\ posted \in Seq(Events)
    /\ Way(Shown, posted, lines, chan.said, chan.gap, chan.joined)
    /\ chan.gap \in Nat /\ (chan.gap = 0 \/ chan.gap + Window <= chan.said)

FlowInv == IrcInv /\ Control /\ PaneGrows /\ RingIsEnd /\ OnTheWay

-------------------------------------------------------------------------------
(* Queues: in two parts, by their head, and with nothing of the channel.      *)

\* A queue in two parts.
LEMMA BeforeFirst ==
    ASSUME NEW q \in Seq(Queued), NEW t \in Seq(Queued), NEW M, NEW i \in 1 .. Len(q)
    PROVE  Before(q \o t, M, i) = Before(q, M, i)
<1> DEFINE entire == q \o t
<1>1. /\ \A x \in DOMAIN entire : x < i => x \in DOMAIN q /\ entire[x] = q[x]
      /\ \A x \in DOMAIN q : x \in DOMAIN entire /\ entire[x] = q[x]
  OBVIOUS
<1> HIDE DEF entire
<1>2. Before(entire, M, i) = Before(q, M, i)
  BY <1>1 DEF Before
<1>3. QED
  BY <1>2 DEF entire

LEMMA BeforeSecond ==
    ASSUME NEW q \in Seq(Queued), NEW t \in Seq(Queued), NEW M, NEW i \in 1 .. Len(t)
    PROVE  Before(q \o t, M, Len(q) + i) = Numbers(q, M) \cup Before(t, M, i)
<1> DEFINE entire == q \o t
           top == Len(q)
<1>1. /\ \A x \in DOMAIN entire :
            \/ x \in DOMAIN q /\ entire[x] = q[x]
            \/ \E y \in DOMAIN t : x = top + y /\ entire[x] = t[y]
      /\ \A x \in DOMAIN q : x \in DOMAIN entire /\ entire[x] = q[x] /\ x < top + i
      /\ \A x \in DOMAIN t : top + x \in DOMAIN entire /\ entire[top + x] = t[x]
      /\ \A x \in DOMAIN t : (top + x < top + i <=> x < i)
  <2>1. /\ Len(q) \in Nat /\ Len(t) \in Nat /\ DOMAIN q = 1 .. Len(q) /\ DOMAIN t = 1 .. Len(t)
        /\ DOMAIN entire = 1 .. Len(q) + Len(t)
        /\ \A x \in 1 .. Len(q) : entire[x] = q[x]
        /\ \A x \in 1 .. Len(t) : entire[Len(q) + x] = t[x]
    OBVIOUS
  <2> HIDE DEF entire
  <2>2. ASSUME NEW x \in DOMAIN entire, x \notin DOMAIN q
        PROVE  \E y \in DOMAIN t : x = Len(q) + y /\ entire[x] = t[y]
    <3>1. x - Len(q) \in DOMAIN t /\ x = Len(q) + (x - Len(q))
      BY <2>1, <2>2
    <3>2. PICK y \in DOMAIN t : x = Len(q) + y
      BY <3>1
    <3>3. entire[x] = t[y]
      BY <2>1, <3>2
    <3>4. QED
      BY <3>2, <3>3
  <2>3. QED
    BY <2>1, <2>2
<1> HIDE DEF entire, top
<1>2. ASSUME NEW n \in Before(entire, M, top + i) PROVE n \in Numbers(q, M) \cup Before(t, M, i)
  <2>1. PICK x \in DOMAIN entire : x < top + i /\ entire[x] \in M /\ n = entire[x].n
    BY <1>2 DEF Before
  <2>2. CASE x \in DOMAIN q /\ entire[x] = q[x]
    BY <2>1, <2>2 DEF Numbers
  <2>3. CASE \E y \in DOMAIN t : x = top + y /\ entire[x] = t[y]
    BY <1>1, <2>1, <2>3 DEF Before
  <2>4. QED
    BY <1>1, <2>2, <2>3
<1>3. ASSUME NEW n \in Numbers(q, M) PROVE n \in Before(entire, M, top + i)
  BY <1>1, <1>3 DEF Numbers, Before
<1>4. ASSUME NEW n \in Before(t, M, i) PROVE n \in Before(entire, M, top + i)
  <2>1. PICK x \in DOMAIN t : x < i /\ t[x] \in M /\ n = t[x].n
    BY <1>4 DEF Before
  <2>2. QED
    BY <1>1, <2>1 DEF Before
<1>5. Before(entire, M, top + i) = Numbers(q, M) \cup Before(t, M, i)
  BY <1>2, <1>3, <1>4
<1>6. QED
  BY <1>5 DEF entire, top

LEMMA NumbersParts ==
    ASSUME NEW q \in Seq(Queued), NEW t \in Seq(Queued), NEW M
    PROVE  Numbers(q \o t, M) = Numbers(q, M) \cup Numbers(t, M)
<1> DEFINE entire == q \o t
<1>1. /\ \A x \in DOMAIN entire :
            \/ x \in DOMAIN q /\ entire[x] = q[x]
            \/ x - Len(q) \in DOMAIN t /\ entire[x] = t[x - Len(q)]
      /\ \A x \in DOMAIN q : x \in DOMAIN entire /\ entire[x] = q[x]
      /\ \A x \in DOMAIN t : Len(q) + x \in DOMAIN entire /\ entire[Len(q) + x] = t[x]
  OBVIOUS
<1> HIDE DEF entire
<1>2. ASSUME NEW n \in Numbers(entire, M) PROVE n \in Numbers(q, M) \cup Numbers(t, M)
  BY <1>1, <1>2 DEF Numbers
<1>3. ASSUME NEW n \in Numbers(q, M) PROVE n \in Numbers(entire, M)
  BY <1>1, <1>3 DEF Numbers
<1>4. ASSUME NEW n \in Numbers(t, M) PROVE n \in Numbers(entire, M)
  BY <1>1, <1>4 DEF Numbers
<1>5. QED
  BY <1>2, <1>3, <1>4 DEF entire

LEMMA FlowsParts ==
    ASSUME NEW q \in Seq(Queued), NEW t \in Seq(Queued), NEW M, NEW S, NEW said, NEW gap
    PROVE  Flows(q \o t, M, S, said, gap) <=>
               Flows(q, M, S, said, gap) /\ Flows(t, M, S \cup Numbers(q, M), said, gap)
<1>1. /\ Len(q) \in Nat /\ Len(t) \in Nat /\ DOMAIN q = 1 .. Len(q) /\ DOMAIN t = 1 .. Len(t)
      /\ DOMAIN (q \o t) = 1 .. Len(q) + Len(t)
      /\ \A i \in DOMAIN q : (q \o t)[i] = q[i]
      /\ \A i \in DOMAIN t : (q \o t)[Len(q) + i] = t[i]
  OBVIOUS
<1> DEFINE entire == q \o t
           F(X, n) == Follows(X, n, said, gap)
<1>2. \A x \in DOMAIN entire : x \in DOMAIN q \/ (x - Len(q) \in DOMAIN t /\ x = Len(q) + (x - Len(q)))
  BY <1>1
<1>3. /\ \A x \in DOMAIN q : x \in DOMAIN entire /\ entire[x] = q[x]
      /\ \A x \in DOMAIN t : Len(q) + x \in DOMAIN entire /\ entire[Len(q) + x] = t[x]
  BY <1>1
<1>4. /\ \A i \in DOMAIN q : Before(entire, M, i) = Before(q, M, i)
      /\ \A i \in DOMAIN t : Before(entire, M, Len(q) + i) = Numbers(q, M) \cup Before(t, M, i)
  <2>1. \A i \in 1 .. Len(q) : Before(q \o t, M, i) = Before(q, M, i)
    BY BeforeFirst
  <2>2. \A i \in 1 .. Len(t) : Before(q \o t, M, Len(q) + i) = Numbers(q, M) \cup Before(t, M, i)
    BY BeforeSecond
  <2>3. QED
    BY <1>1, <2>1, <2>2
<1>5. \A i \in DOMAIN t : S \cup (Numbers(q, M) \cup Before(t, M, i)) = (S \cup Numbers(q, M)) \cup Before(t, M, i)
  OBVIOUS
<1> HIDE DEF entire, F
<1>6. ASSUME \A i \in DOMAIN entire : entire[i] \in M => F(S \cup Before(entire, M, i), entire[i].n)
      PROVE  /\ \A i \in DOMAIN q : q[i] \in M => F(S \cup Before(q, M, i), q[i].n)
             /\ \A i \in DOMAIN t : t[i] \in M => F((S \cup Numbers(q, M)) \cup Before(t, M, i), t[i].n)
  <2>1. ASSUME NEW i \in DOMAIN q, q[i] \in M PROVE F(S \cup Before(q, M, i), q[i].n)
    BY <1>3, <1>4, <1>6, <2>1
  <2>2. ASSUME NEW i \in DOMAIN t, t[i] \in M PROVE F((S \cup Numbers(q, M)) \cup Before(t, M, i), t[i].n)
    <3>1. F(S \cup Before(entire, M, Len(q) + i), t[i].n)
      BY <1>3, <1>6, <2>2
    <3>2. S \cup Before(entire, M, Len(q) + i) = (S \cup Numbers(q, M)) \cup Before(t, M, i)
      BY <1>4, <1>5
    <3>3. QED
      BY <3>1, <3>2
  <2>3. QED
    BY <2>1, <2>2
<1>7. ASSUME /\ \A i \in DOMAIN q : q[i] \in M => F(S \cup Before(q, M, i), q[i].n)
             /\ \A i \in DOMAIN t : t[i] \in M => F((S \cup Numbers(q, M)) \cup Before(t, M, i), t[i].n),
             NEW i \in DOMAIN entire, entire[i] \in M
      PROVE  F(S \cup Before(entire, M, i), entire[i].n)
  <2>1. CASE i \in DOMAIN q
    BY <1>3, <1>4, <1>7, <2>1
  <2>2. CASE i - Len(q) \in DOMAIN t /\ i = Len(q) + (i - Len(q))
    <3>1. PICK j \in DOMAIN t : i = Len(q) + j
      BY <2>2
    <3>2. entire[i] = t[j] /\ S \cup Before(entire, M, i) = (S \cup Numbers(q, M)) \cup Before(t, M, j)
      BY <1>3, <1>4, <1>5, <3>1
    <3>3. QED
      BY <1>7, <3>2
  <2>3. QED
    BY <1>2, <2>1, <2>2
<1>8. QED
  BY <1>6, <1>7 DEF Flows, entire, F

LEMMA OneInQueue ==
    ASSUME NEW e, NEW M, NEW S, NEW said, NEW gap
    PROVE  /\ Numbers(<<e>>, M) = IF e \in M THEN {e.n} ELSE {}
           /\ Flows(<<e>>, M, S, said, gap) <=> (e \in M => Follows(S, e.n, said, gap))
<1>1. DOMAIN <<e>> = {1} /\ <<e>>[1] = e
  OBVIOUS
<1>2. Before(<<e>>, M, 1) = {}
  BY <1>1 DEF Before
<1>3. S \cup Before(<<e>>, M, 1) = S
  BY <1>2
<1>4. Flows(<<e>>, M, S, said, gap) <=> (e \in M => Follows(S, e.n, said, gap))
  BY <1>1, <1>3 DEF Flows
<1>5. Numbers(<<e>>, M) = IF e \in M THEN {e.n} ELSE {}
  BY <1>1 DEF Numbers
<1>6. QED
  BY <1>4, <1>5

\* What carries no message changes nothing.
LEMMA QuietQueue ==
    ASSUME NEW t \in Seq(Queued), NEW M, \A i \in DOMAIN t : t[i] \notin M, NEW S, NEW said, NEW gap
    PROVE  Numbers(t, M) = {} /\ Flows(t, M, S, said, gap)
BY DEF Numbers, Flows

LEMMA HeadTaken ==
    ASSUME NEW q \in Seq(Queued), q # <<>>, NEW M, NEW S, NEW said, NEW gap
    PROVE  /\ Tail(q) \in Seq(Queued) /\ Head(q) \in Queued
           /\ Numbers(q, M) = (IF Head(q) \in M THEN {Head(q).n} ELSE {}) \cup Numbers(Tail(q), M)
           /\ Flows(q, M, S, said, gap) <=>
                 /\ Head(q) \in M => Follows(S, Head(q).n, said, gap)
                 /\ Flows(Tail(q), M, S \cup (IF Head(q) \in M THEN {Head(q).n} ELSE {}), said, gap)
<1>1. Tail(q) \in Seq(Queued) /\ Head(q) \in Queued /\ <<Head(q)>> \in Seq(Queued)
  OBVIOUS
<1>2. q = <<Head(q)>> \o Tail(q)
  OBVIOUS
<1> DEFINE h == Head(q)
           t == Tail(q)
           one == <<h>>
<1> HIDE DEF h, t, one
<1>3. /\ Numbers(one \o t, M) = Numbers(one, M) \cup Numbers(t, M)
      /\ Flows(one \o t, M, S, said, gap) <=>
            Flows(one, M, S, said, gap) /\ Flows(t, M, S \cup Numbers(one, M), said, gap)
  <2>1. one \in Seq(Queued) /\ t \in Seq(Queued)
    BY <1>1 DEF h, t, one
  <2>2. Numbers(one \o t, M) = Numbers(one, M) \cup Numbers(t, M)
    BY <2>1, NumbersParts
  <2>3. QED
    BY <2>1, <2>2, FlowsParts
<1>4. q = one \o t
  BY <1>2 DEF h, t, one
<1>5. /\ Numbers(one, M) = IF h \in M THEN {h.n} ELSE {}
      /\ Flows(one, M, S, said, gap) <=> (h \in M => Follows(S, h.n, said, gap))
  BY OneInQueue DEF one
<1>6. QED
  BY <1>1, <1>3, <1>4, <1>5 DEF h, t

\* More said, and a later replay, only make it easier to follow.
LEMMA FlowsOn ==
    ASSUME NEW q, NEW M, NEW S, NEW said \in Int, NEW gap \in Int, NEW said2 \in Int, NEW gap2 \in Int,
           said <= said2, gap <= gap2, Flows(q, M, S, said, gap)
    PROVE  Flows(q, M, S, said2, gap2)
<1>1. ASSUME NEW X, NEW n, Follows(X, n, said, gap) PROVE Follows(X, n, said2, gap2)
  BY <1>1 DEF Follows
<1>2. QED
  BY <1>1 DEF Flows

-------------------------------------------------------------------------------
LEMMA ControlInit == Init => Control
BY DEF Init, Control

LEMMA ControlStep ==
    ASSUME IrcInv, Control, [Next]_vars
    PROVE  Control'
<1>0. chan \in ServerShape
  BY DEF IrcInv, IrcShapes
<1>1. CASE OnConnect
  BY <1>1 DEF OnConnect, UserTurn, Control, srvVars
<1>2. CASE OnDisconnect
  BY <1>2 DEF OnDisconnect, UserTurn, IrcClose, CloseSignals, Control, srvVars, sockVars
<1>3. CASE OnShutdown
  <2>1. CASE client # 0
    BY <1>3, <2>1 DEF OnShutdown, UserTurn, IrcClose, CloseSignals, Control, srvVars, sockVars
  <2>2. CASE client = 0
    BY <1>3, <2>2 DEF OnShutdown, UserTurn, Control, srvVars, sockVars
  <2>3. QED
    BY <2>1, <2>2
<1>4. CASE JoinEnds
  <2>1. irc \in {"ended", "resolve"} /\ irc' \in {"none", "lost"}
    BY <1>4 DEF JoinEnds, Unreached, Control
  <2>2. QED
    BY <1>4, <2>1 DEF JoinEnds, Control, srvVars, sockVars
<1>5. CASE OnMessage \/ OnSystem \/ OnRegistered
  BY <1>5 DEF OnMessage, OnSystem, OnRegistered, Take, Control, tabVars, srvVars, sockVars
<1>6. CASE OnFailed
  <2>1. CASE client # 0
    BY <1>6, <2>1 DEF OnFailed, Take, IrcClose, CloseSignals, Control, srvVars, sockVars
  <2>2. CASE client = 0
    BY <1>6, <2>2 DEF OnFailed, Take, Control, srvVars, sockVars
  <2>3. QED
    BY <2>1, <2>2
<1>7. CASE Dials
  BY <1>7 DEF Dials, Works, Goes, Control, tabVars, srvVars
<1>8. CASE SeesQuit \/ LooksAtFailure \/ Reports \/ BackoffEnds
  BY <1>8 DEF SeesQuit, LooksAtFailure, Reports, BackoffEnds, Works, Goes, Control, tabVars, srvVars, sockVars
<1>9. CASE Resolves
  BY <1>9 DEF Resolves, Works, Goes, Control, tabVars, srvVars, sockVars
<1>10. CASE ConnectFails
  BY <1>10 DEF ConnectFails, Works, Goes, Control, tabVars, srvVars, sockVars
<1>11. CASE ConnectSucceeds
  BY <1>11 DEF ConnectSucceeds, Works, Goes, Control, tabVars, sockVars
<1>12. CASE SessionEnds
  <2>1. irc = "recv" /\ irc' # "none" /\ lines' = <<>> /\ ~chan'.joined /\ ~chan'.up
    BY <1>0, <1>12 DEF SessionEnds, Works, Goes, ServerShape
  <2>2. UNCHANGED <<clients, connected, client, tab, quit>> /\ conn' # "open"
    BY <1>12 DEF SessionEnds, tabVars, sockVars
  <2>3. QED
    BY <2>1, <2>2 DEF Control
<1>13. CASE HandlesPing \/ HandlesCap \/ HandlesWelcome \/ HandlesNickInUse \/ HandlesMotdEnd \/ HandlesMessage
  <2>1. irc = "recv" /\ UNCHANGED <<irc, clients, connected, client, tab, quit, conn>>
    BY <1>13 DEF HandlesPing, HandlesCap, HandlesWelcome, HandlesNickInUse, HandlesMotdEnd, HandlesMessage,
                 Handles, Works, handled, tabVars, sockVars
  <2>2. QED
    BY <2>1 DEF Control
<1>14. CASE Replies \/ Pings
  <2>1. chan.up /\ UNCHANGED <<irc, clients, connected, client, tab, quit, conn>>
    BY <1>14 DEF Replies, Pings, srvKept, tabVars, sockVars
  <2>2. QED
    BY <2>1 DEF Control
<1>15. CASE Talks
  <2>1. /\ UNCHANGED <<irc, clients, connected, client, tab, quit, conn>>
        /\ chan'.joined = chan.joined /\ chan'.up = chan.up /\ (~chan.joined => lines' = lines)
    BY <1>0, <1>15 DEF Talks, srvKept, tabVars, sockVars, ServerShape
  <2>2. QED
    BY <2>1 DEF Control
<1>16. CASE Drops
  <2>1. chan.up /\ UNCHANGED <<irc, clients, connected, client, tab, quit, conn>>
    BY <1>16 DEF Drops, srvKept, tabVars, sockVars
  <2>2. QED
    BY <2>1 DEF Control
<1>17. CASE UNCHANGED vars
  BY <1>17 DEF vars, tabVars, srvVars, sockVars, Control
<1>18. QED
  BY <1>1, <1>2, <1>3, <1>4, <1>5, <1>6, <1>7, <1>8, <1>9, <1>10, <1>11, <1>12, <1>13, <1>14, <1>15, <1>16, <1>17
  DEF Next, Tab, Worker

-------------------------------------------------------------------------------
(* What is on its way, step by step.                                          *)

\* IrcMessages posted that are not of the channel.
LEMMA WayPosts ==
    ASSUME NEW S, NEW q \in Seq(Queued), NEW t \in Seq(Queued), NEW l, NEW said, NEW gap, NEW joined,
           \A i \in DOMAIN t : t[i] \notin IrcMessages, Way(S, q, l, said, gap, joined)
    PROVE  Way(S, q \o t, l, said, gap, joined)
<1>1. /\ Numbers(t, IrcMessages) = {}
      /\ Flows(t, IrcMessages, S \cup Numbers(q, IrcMessages), said, gap)
  BY QuietQueue
<1>2. Numbers(q \o t, IrcMessages) = Numbers(q, IrcMessages)
  <2>1. Numbers(q \o t, IrcMessages) = Numbers(q, IrcMessages) \cup Numbers(t, IrcMessages)
    BY NumbersParts
  <2>2. QED
    BY <1>1, <2>1
<1>3. Flows(q \o t, IrcMessages, S, said, gap)
  BY <1>1, FlowsParts DEF Way
<1>4. QED
  BY <1>2, <1>3 DEF Way

\* Lines of the server that are not of the channel: sent, and handled.
LEMMA WaySends ==
    ASSUME NEW S, NEW q, NEW l \in Seq(Queued), NEW t \in Seq(Queued), NEW said, NEW gap, NEW joined,
           \A i \in DOMAIN t : t[i] \notin Talk, Way(S, q, l, said, gap, joined)
    PROVE  Way(S, q, l \o t, said, gap, joined)
<1> DEFINE told == S \cup Numbers(q, IrcMessages)
<1> HIDE DEF told
<1>1. Numbers(t, Talk) = {} /\ Flows(t, Talk, told \cup Numbers(l, Talk), said, gap)
  BY QuietQueue
<1>2. Numbers(l \o t, Talk) = Numbers(l, Talk)
  <2>1. Numbers(l \o t, Talk) = Numbers(l, Talk) \cup Numbers(t, Talk)
    BY NumbersParts
  <2>2. QED
    BY <1>1, <2>1
<1>3. Flows(l \o t, Talk, told, said, gap)
  BY <1>1, FlowsParts DEF Way, told
<1>4. QED
  BY <1>2, <1>3 DEF Way, told

LEMMA WayHandles ==
    ASSUME NEW S, NEW q, NEW l \in Seq(Queued), l # <<>>, Head(l) \notin Talk, NEW said, NEW gap, NEW joined,
           Way(S, q, l, said, gap, joined)
    PROVE  Way(S, q, Tail(l), said, gap, joined)
<1> DEFINE told == S \cup Numbers(q, IrcMessages)
<1> HIDE DEF told
<1>1. Numbers(l, Talk) = Numbers(Tail(l), Talk)
  <2>1. Numbers(l, Talk) = {} \cup Numbers(Tail(l), Talk)
    BY HeadTaken
  <2>2. QED
    BY <2>1
<1>2. Flows(l, Talk, told, said, gap)
  BY DEF Way, told
<1>3. Flows(Tail(l), Talk, told \cup {}, said, gap)
  BY <1>2, HeadTaken
<1>4. told \cup {} = told
  OBVIOUS
<1>5. QED
  BY <1>1, <1>3, <1>4 DEF Way, told

\* A message of the channel is forwarded.
LEMMA WayForwards ==
    ASSUME NEW S, NEW q \in Seq(Queued), NEW l \in Seq(Queued), l # <<>>, Head(l) \in Talk,
           NEW e \in IrcMessages, e \in Queued, e.n = Head(l).n, NEW said, NEW gap, NEW joined,
           Way(S, q, l, said, gap, joined)
    PROVE  Way(S, Append(q, e), Tail(l), said, gap, joined)
<1> DEFINE told == S \cup Numbers(q, IrcMessages)
           one == <<e>>
           n == Head(l).n
<1> HIDE DEF told, one, n
<1>1. Append(q, e) = q \o one /\ one \in Seq(Queued)
  BY DEF one
<1>2. Numbers(one, IrcMessages) = {n}
  BY OneInQueue DEF one, n
<1>3. Numbers(q \o one, IrcMessages) = Numbers(q, IrcMessages) \cup {n}
  BY <1>1, <1>2, NumbersParts
<1>4. Numbers(l, Talk) = {n} \cup Numbers(Tail(l), Talk)
  BY HeadTaken DEF n
<1>5. Flows(l, Talk, told, said, gap)
  BY DEF Way, told
<1>6. Follows(told, n, said, gap) /\ Flows(Tail(l), Talk, told \cup {n}, said, gap)
  BY <1>5, HeadTaken DEF n
<1>7. Flows(one, IrcMessages, told, said, gap)
  BY <1>6, OneInQueue DEF one, n
<1>8. Flows(q \o one, IrcMessages, S, said, gap)
  BY <1>1, <1>7, FlowsParts DEF Way, told
<1>9. S \cup Numbers(q \o one, IrcMessages) = told \cup {n}
  BY <1>3 DEF told
<1>10. S \cup Numbers(q \o one, IrcMessages) \cup Numbers(Tail(l), Talk) = S \cup Numbers(q, IrcMessages) \cup Numbers(l, Talk)
  BY <1>3, <1>4
<1>11. joined => \A k \in gap + 1 .. said : k \in S \cup Numbers(q \o one, IrcMessages) \cup Numbers(Tail(l), Talk)
  BY <1>10 DEF Way
<1>12. QED
  BY <1>1, <1>6, <1>8, <1>9, <1>11 DEF Way

\* The tab takes what was posted.
LEMMA WayTakes ==
    ASSUME NEW S, NEW q \in Seq(Queued), q # <<>>, Head(q) \notin IrcMessages, NEW l, NEW said, NEW gap, NEW joined,
           Way(S, q, l, said, gap, joined)
    PROVE  Way(S, Tail(q), l, said, gap, joined)
<1>1. Numbers(q, IrcMessages) = Numbers(Tail(q), IrcMessages)
  <2>1. Numbers(q, IrcMessages) = {} \cup Numbers(Tail(q), IrcMessages)
    BY HeadTaken
  <2>2. QED
    BY <2>1
<1>2. Flows(Tail(q), IrcMessages, S \cup {}, said, gap)
  BY HeadTaken DEF Way
<1>3. S \cup {} = S
  OBVIOUS
<1>4. QED
  BY <1>1, <1>2, <1>3 DEF Way

LEMMA WayShows ==
    ASSUME NEW S, NEW q \in Seq(Queued), q # <<>>, Head(q) \in IrcMessages, NEW l, NEW said, NEW gap, NEW joined,
           Way(S, q, l, said, gap, joined)
    PROVE  /\ Follows(S, Head(q).n, said, gap)
           /\ Way(S \cup {Head(q).n}, Tail(q), l, said, gap, joined)
<1> DEFINE n == Head(q).n
           new == S \cup {n}
<1> HIDE DEF n, new
<1>1. Numbers(q, IrcMessages) = {n} \cup Numbers(Tail(q), IrcMessages)
  BY HeadTaken DEF n
<1>2. Follows(S, n, said, gap) /\ Flows(Tail(q), IrcMessages, new, said, gap)
  BY HeadTaken DEF Way, n, new
<1>3. S \cup Numbers(q, IrcMessages) = new \cup Numbers(Tail(q), IrcMessages)
  BY <1>1 DEF new
<1>4. QED
  BY <1>2, <1>3 DEF Way, n, new

\* The connection is gone, with the lines that were on it.
LEMMA WayEnds ==
    ASSUME NEW S, NEW q, NEW l, NEW said, NEW gap, NEW joined, Way(S, q, l, said, gap, joined)
    PROVE  Way(S, q, <<>>, said, gap, FALSE)
BY DEF Way, Flows

\* What follows S is of the channel, and what it follows came before.
LEMMA FlowsReach ==
    ASSUME NEW q, NEW M, NEW S, NEW said, NEW gap, Flows(q, M, S, said, gap)
    PROVE  \A m \in Numbers(q, M) : m \in 1 .. said /\ \A k \in gap + 1 .. m - 1 : k \in S \cup Numbers(q, M)
<1> SUFFICES ASSUME NEW m \in Numbers(q, M)
             PROVE  m \in 1 .. said /\ \A k \in gap + 1 .. m - 1 : k \in S \cup Numbers(q, M)
  OBVIOUS
<1>1. PICK i \in DOMAIN q : q[i] \in M /\ m = q[i].n
  BY DEF Numbers
<1>2. Follows(S \cup Before(q, M, i), m, said, gap)
  BY <1>1 DEF Flows
<1>3. \A k \in Before(q, M, i) : k \in Numbers(q, M)
  BY DEF Before, Numbers
<1>4. QED
  BY <1>2, <1>3 DEF Follows

\* Where everything heard is of the channel and leaves out nothing after the gap.
LEMMA WayReach ==
    ASSUME NEW S, NEW q, NEW l, NEW said, NEW gap, NEW joined, Way(S, q, l, said, gap, joined),
           S \subseteq 1 .. said, \A m \in S : \A k \in gap + 1 .. m - 1 : k \in S
    PROVE  \A m \in S \cup Numbers(q, IrcMessages) \cup Numbers(l, Talk) :
              /\ m \in 1 .. said
              /\ \A k \in gap + 1 .. m - 1 : k \in S \cup Numbers(q, IrcMessages) \cup Numbers(l, Talk)
<1> DEFINE told == S \cup Numbers(q, IrcMessages)
           heard == told \cup Numbers(l, Talk)
<1>1. \A m \in Numbers(q, IrcMessages) : m \in 1 .. said /\ \A k \in gap + 1 .. m - 1 : k \in told
  BY FlowsReach DEF Way
<1>2. \A m \in told : m \in 1 .. said /\ \A k \in gap + 1 .. m - 1 : k \in told
  BY <1>1
<1>3. Flows(l, Talk, told, said, gap)
  BY DEF Way
<1> HIDE DEF told
<1>4. \A m \in Numbers(l, Talk) : m \in 1 .. said /\ \A k \in gap + 1 .. m - 1 : k \in told \cup Numbers(l, Talk)
  BY <1>3, FlowsReach
<1>5. \A m \in heard : m \in 1 .. said /\ \A k \in gap + 1 .. m - 1 : k \in heard
  BY <1>2, <1>4
<1>6. QED
  BY <1>5 DEF told

\* Something is said: whoever is joined is sent it.
LEMMA WayTalks ==
    ASSUME NEW S, NEW q, NEW l \in Seq(Queued), NEW said \in Nat, NEW gap \in Nat,
           NEW joined, joined, Way(S, q, l, said, gap, joined),
           NEW e \in Talk, e \in Queued, e.n = said + 1,
           S \subseteq 1 .. said, \A m \in S : \A k \in gap + 1 .. m - 1 : k \in S
    PROVE  Way(S, q, Append(l, e), said + 1, gap, joined)
<1> DEFINE told == S \cup Numbers(q, IrcMessages)
           heard == told \cup Numbers(l, Talk)
           one == <<e>>
           n == said + 1
<1>1. \A m \in heard : m \in 1 .. said
  <2>1. \A m \in S \cup Numbers(q, IrcMessages) \cup Numbers(l, Talk) :
           /\ m \in 1 .. said
           /\ \A k \in gap + 1 .. m - 1 : k \in S \cup Numbers(q, IrcMessages) \cup Numbers(l, Talk)
    BY WayReach
  <2>2. QED
    BY <2>1
<1>2. \A k \in gap + 1 .. said : k \in heard
  BY DEF Way
<1>3. Flows(q, IrcMessages, S, said, gap) /\ Flows(l, Talk, told, said, gap)
  BY DEF Way
<1> HIDE DEF told, heard, one
<1>4. Flows(q, IrcMessages, S, n, gap) /\ Flows(l, Talk, told, n, gap)
  BY <1>3, FlowsOn
<1>5. Follows(heard, n, n, gap)
  BY <1>1, <1>2, SeenAssumption DEF Follows
<1>6. Append(l, e) = l \o one /\ one \in Seq(Queued)
  BY DEF one
<1>7. Flows(one, Talk, heard, n, gap) /\ Numbers(one, Talk) = {n}
  <2>1. Flows(one, Talk, heard, n, gap)
    <3>1. Follows(heard, e.n, n, gap)
      BY <1>5
    <3>2. QED
      BY <3>1, OneInQueue DEF one
  <2>2. Numbers(one, Talk) = {n}
    BY OneInQueue DEF one
  <2>3. QED
    BY <2>1, <2>2
<1>8. Flows(l \o one, Talk, told, n, gap)
  BY <1>4, <1>6, <1>7, FlowsParts DEF heard
<1>9. Numbers(l \o one, Talk) = Numbers(l, Talk) \cup {n}
  BY <1>6, <1>7, NumbersParts
<1>10. \A k \in gap + 1 .. n : k \in told \cup Numbers(l \o one, Talk)
  <2>1. \A k \in gap + 1 .. n : k = n \/ k \in gap + 1 .. said
    OBVIOUS
  <2>2. QED
    BY <1>2, <1>9, <2>1 DEF heard
<1>11. QED
  BY <1>4, <1>6, <1>8, <1>10 DEF Way, told

\* The replay.
LEMMA WayReplays ==
    ASSUME NEW S, NEW q, NEW l \in Seq(Queued), NEW said \in Nat, NEW gap \in Nat, NEW joined,
           Way(S, q, l, said, gap, joined),
           S \subseteq 1 .. said, \A m \in S : \A k \in gap + 1 .. m - 1 : k \in S,
           NEW from \in Nat, gap <= from, from <= said, said <= from + Window,
           NEW old \in Seq(Queued), Len(old) = said - from,
           \A i \in 1 .. said - from : old[i] \in Talk /\ old[i].n = from + i
    PROVE  Way(S, q, l \o old, said, from, TRUE)
<1> DEFINE told == S \cup Numbers(q, IrcMessages)
           heard == told \cup Numbers(l, Talk)
<1>1. (\A m \in heard : m \in 1 .. said) /\ \A m \in heard : \A k \in gap + 1 .. m - 1 : k \in heard
  <2>1. \A m \in S \cup Numbers(q, IrcMessages) \cup Numbers(l, Talk) :
           /\ m \in 1 .. said
           /\ \A k \in gap + 1 .. m - 1 : k \in S \cup Numbers(q, IrcMessages) \cup Numbers(l, Talk)
    BY WayReach
  <2>2. QED
    BY <2>1
<1>2. Flows(q, IrcMessages, S, said, gap) /\ Flows(l, Talk, told, said, gap)
  BY DEF Way
<1> HIDE DEF told, heard
<1>3. Flows(q, IrcMessages, S, said, from) /\ Flows(l, Talk, told, said, from)
  BY <1>2, FlowsOn
<1>4. DOMAIN old = 1 .. said - from
  OBVIOUS
<1>5. Numbers(old, Talk) = from + 1 .. said
  <2>1. ASSUME NEW k \in from + 1 .. said PROVE k \in Numbers(old, Talk)
    <3>1. k - from \in DOMAIN old /\ old[k - from] \in Talk /\ old[k - from].n = k
      BY <1>4
    <3>2. QED
      BY <3>1 DEF Numbers
  <2>2. ASSUME NEW k \in Numbers(old, Talk) PROVE k \in from + 1 .. said
    BY <1>4, <2>2 DEF Numbers
  <2>3. QED
    BY <2>1, <2>2
<1>6. ASSUME NEW i \in DOMAIN old PROVE Follows(heard \cup Before(old, Talk, i), old[i].n, said, from)
  <2>1. i \in 1 .. said - from /\ old[i].n = from + i
    BY <1>4
  <2>2. ASSUME NEW k \in from + 1 .. from + i - 1 PROVE k \in Before(old, Talk, i)
    <3>1. k - from \in DOMAIN old /\ k - from < i /\ old[k - from] \in Talk /\ old[k - from].n = k
      BY <1>4, <2>1
    <3>2. QED
      BY <3>1 DEF Before
  <2>3. ASSUME NEW k \in Before(old, Talk, i) PROVE k \in from + 1 .. from + i - 1
    <3>1. PICK x \in DOMAIN old : x < i /\ k = old[x].n
      BY <2>3 DEF Before
    <3>2. QED
      BY <1>4, <2>1, <3>1
  <2> DEFINE n == from + i
             X == heard \cup Before(old, Talk, i)
  <2>4. n \in 1 .. said
    BY <2>1
  <2>5. \A m \in X : m \in Int /\ m <= said
    BY <1>1, <2>1, <2>3
  <2>6. \A m \in X : m < n + Window
    BY <2>1, <2>5, SeenAssumption
  <2>7. n \in X \/ \A m \in X : m < n
    <3>1. ASSUME NEW m \in X, ~(m < n) PROVE n \in X
      <4>1. m \in heard
        BY <2>1, <2>3, <3>1
      <4>2. m = n \/ n \in gap + 1 .. m - 1
        <5>1. m \in 1 .. said
          BY <1>1, <4>1
        <5>2. n \in Int /\ gap + 1 <= n
          BY <2>1
        <5> HIDE DEF n
        <5>3. QED
          BY <3>1, <5>1, <5>2
      <4>3. QED
        BY <1>1, <4>1, <4>2
    <3>2. QED
      BY <3>1
  <2>8. QED
    BY <2>1, <2>2, <2>4, <2>6, <2>7 DEF Follows
<1>7. Flows(old, Talk, heard, said, from)
  BY <1>6 DEF Flows
<1>8. Flows(l \o old, Talk, told, said, from)
  BY <1>3, <1>7, FlowsParts DEF heard
<1>9. Numbers(l \o old, Talk) = Numbers(l, Talk) \cup (from + 1 .. said)
  <2>1. Numbers(l \o old, Talk) = Numbers(l, Talk) \cup Numbers(old, Talk)
    BY NumbersParts
  <2>2. QED
    BY <1>5, <2>1
<1>10. QED
  BY <1>3, <1>8, <1>9 DEF Way, told

-------------------------------------------------------------------------------
(* The pane and its ring.                                                     *)

\* The pane leaves out nothing after the gap.
LEMMA PaneClosed ==
    ASSUME PaneGrows
    PROVE  Shown \subseteq 1 .. chan.said /\ \A m \in Shown : \A k \in chan.gap + 1 .. m - 1 : k \in Shown
<1>1. SUFFICES ASSUME NEW m \in Shown, NEW k \in chan.gap + 1 .. m - 1 PROVE k \in Shown
  BY DEF PaneGrows
<1>2. PICK i \in DOMAIN pane : m = pane[i]
  BY <1>1 DEF Shown
<1>3. /\ pane \in Seq(Int) /\ Len(pane) \in Nat /\ DOMAIN pane = 1 .. Len(pane)
      /\ pane[Len(pane)] \in Int /\ m \in Int /\ Len(pane) \in DOMAIN pane
  BY <1>2 DEF PaneGrows
<1>4. m <= pane[Len(pane)]
  <2>1. CASE i = Len(pane)
    BY <1>2, <1>3, <2>1
  <2>2. CASE i < Len(pane)
    BY <1>2, <1>3, <2>2 DEF PaneGrows
  <2>3. QED
    BY <1>3, <2>1, <2>2
<1>5. k \in chan.gap + 1 .. pane[Len(pane)]
  BY <1>1, <1>3, <1>4
<1>6. pane # <<>>
  BY <1>2
<1>7. QED
  BY <1>5, <1>6 DEF PaneGrows

\* What the ring holds is shown; what is shown and has left the ring is older than the window.
LEMMA RingShown ==
    ASSUME PaneGrows, RingIsEnd, NEW n, IsSeen(n)
    PROVE  n \in Shown
<1>1. PICK k \in 1 .. Len(seen) : seen[k] = n
  BY DEF IsSeen, Contains
<1>2. k \in DOMAIN seen /\ Len(seen) <= Len(pane) /\ Len(seen) \in Nat /\ Len(pane) \in Nat /\ DOMAIN pane = 1 .. Len(pane)
  BY <1>1, SeenAssumption DEF RingIsEnd, PaneGrows
<1>3. Len(pane) - Len(seen) + k \in DOMAIN pane
  BY <1>1, <1>2
<1>4. n = pane[Len(pane) - Len(seen) + k]
  BY <1>1, <1>2 DEF RingIsEnd
<1>5. QED
  BY <1>3, <1>4 DEF Shown

LEMMA NotSeenIsNew ==
    ASSUME PaneGrows, RingIsEnd, NEW n, Follows(Shown, n, chan.said, chan.gap), ~IsSeen(n)
    PROVE  \A m \in Shown : m < n
<1>1. /\ pane \in Seq(Int) /\ Len(pane) \in Nat /\ DOMAIN pane = 1 .. Len(pane)
      /\ seen \in Seq(Int) /\ Len(seen) \in Nat /\ DOMAIN seen = 1 .. Len(seen)
  BY DEF PaneGrows, RingIsEnd
<1>2. SUFFICES ASSUME n \in Shown PROVE FALSE
  BY DEF Follows
<1>3. PICK i \in DOMAIN pane : n = pane[i]
  BY <1>2 DEF Shown
<1>4. CASE i > Len(pane) - Len(seen)
  <2> DEFINE k == i - (Len(pane) - Len(seen))
  <2>1. k \in 1 .. Len(seen) /\ Len(pane) - Len(seen) + k = i
    BY <1>1, <1>3, <1>4
  <2>2. seen[k] = pane[i]
    BY <1>1, <2>1 DEF RingIsEnd
  <2>3. QED
    BY <1>3, <2>1, <2>2 DEF IsSeen, Contains
<1>5. CASE i <= Len(pane) - Len(seen)
  <2>1. Len(seen) = SeenMax /\ Len(seen) >= 1 /\ Window <= Len(seen)
    <3>1. Len(seen) = IF Len(pane) > SeenMax THEN SeenMax ELSE Len(pane)
      BY DEF RingIsEnd
    <3>2. Len(pane) \in Nat /\ Len(seen) \in Nat /\ i \in 1 .. Len(pane)
      BY <1>1, <1>3
    <3>3. SeenMax \in Nat /\ SeenMax >= 1 /\ Window <= SeenMax /\ Window \in Nat
      BY SeenAssumption
    <3>4. Len(seen) # Len(pane)
      BY <1>5, <3>2
    <3>5. Len(seen) = SeenMax
      BY <3>1, <3>4
    <3>6. QED
      BY <3>3, <3>5
  <2>2. Len(pane) \in DOMAIN pane /\ i < Len(pane) /\ pane[Len(pane)] \in Int /\ pane[i] \in Int
    BY <1>1, <1>3, <1>5, <2>1
  <2>3. pane[Len(pane)] - pane[i] >= Len(pane) - i
    BY <1>3, <2>2 DEF PaneGrows
  <2>4. pane[Len(pane)] \in Shown
    BY <2>2 DEF Shown
  <2>5. pane[Len(pane)] < n + Window
    BY <2>4 DEF Follows
  <2>6. QED
    BY <1>1, <1>3, <1>5, <2>1, <2>2, <2>3, <2>5, SeenAssumption
<1>6. QED
  BY <1>1, <1>3, <1>4, <1>5

\* A message that is not in the ring goes to the end of the pane.
LEMMA PaneTakes ==
    ASSUME PaneGrows, RingIsEnd, NEW n, Follows(Shown, n, chan.said, chan.gap), ~IsSeen(n),
           pane' = Append(pane, n), seen' = Remembered(Append(seen, n)), chan' = chan
    PROVE  PaneGrows' /\ RingIsEnd' /\ Shown' = Shown \cup {n}
<1>1. /\ pane \in Seq(Int) /\ Len(pane) \in Nat /\ DOMAIN pane = 1 .. Len(pane)
      /\ seen \in Seq(Int) /\ Len(seen) \in Nat /\ DOMAIN seen = 1 .. Len(seen)
  BY DEF PaneGrows, RingIsEnd
<1>2. \A m \in Shown : m < n
  BY NotSeenIsNew
<1>3. n \in 1 .. chan.said /\ (\A k \in chan.gap + 1 .. n - 1 : k \in Shown) /\ n \in Int
  BY DEF Follows
<1>4. /\ pane' \in Seq(Int) /\ Len(pane') = Len(pane) + 1 /\ DOMAIN pane' = 1 .. Len(pane) + 1
      /\ \A i \in 1 .. Len(pane) : pane'[i] = pane[i]
      /\ pane'[Len(pane) + 1] = n
  BY <1>1, <1>3
<1>5. Shown' = Shown \cup {n}
  <2>1. \A i \in 1 .. Len(pane) + 1 : i \in 1 .. Len(pane) \/ i = Len(pane) + 1
    BY <1>1
  <2>2. \A i \in 1 .. Len(pane) : i \in 1 .. Len(pane) + 1
    BY <1>1
  <2>3. Len(pane) + 1 \in 1 .. Len(pane) + 1
    BY <1>1
  <2>4. Shown' = {pane'[i] : i \in 1 .. Len(pane) + 1}
    BY <1>4 DEF Shown
  <2>5. Shown = {pane[i] : i \in 1 .. Len(pane)}
    BY <1>1 DEF Shown
  <2>6. QED
    BY <1>4, <2>1, <2>2, <2>3, <2>4, <2>5
<1>6. ASSUME NEW i \in DOMAIN pane', NEW j \in DOMAIN pane', i < j PROVE pane'[j] - pane'[i] >= j - i
  <2>1. i \in 1 .. Len(pane) /\ pane'[i] = pane[i] /\ pane[i] \in Int /\ pane[i] \in Shown
    BY <1>1, <1>4, <1>6 DEF Shown
  <2>2. CASE j <= Len(pane)
    <3>1. j \in DOMAIN pane /\ i \in DOMAIN pane /\ pane'[j] = pane[j]
      BY <1>1, <1>4, <1>6, <2>1, <2>2
    <3>2. QED
      BY <1>6, <2>1, <3>1 DEF PaneGrows
  <2>3. CASE j = Len(pane) + 1
    <3>1. pane[i] < n
      BY <1>2, <2>1
    <3>2. CASE i = Len(pane)
      BY <1>1, <1>3, <1>4, <2>1, <2>3, <3>1, <3>2
    <3>3. CASE i < Len(pane)
      <4>1. /\ Len(pane) \in DOMAIN pane /\ i \in DOMAIN pane
            /\ pane[Len(pane)] \in Int /\ pane[Len(pane)] \in Shown
        <5>1. Len(pane) \in DOMAIN pane /\ i \in DOMAIN pane
          BY <1>1, <2>1, <3>3
        <5>2. pane[Len(pane)] \in Shown
          BY <5>1 DEF Shown
        <5>3. pane[Len(pane)] \in Int
          BY <1>1, <5>1
        <5>4. QED
          BY <5>1, <5>2, <5>3
      <4>2. pane[Len(pane)] - pane[i] >= Len(pane) - i
        BY <3>3, <4>1 DEF PaneGrows
      <4>3. pane[Len(pane)] < n
        BY <1>2, <4>1
      <4>4. QED
        BY <1>1, <1>3, <1>4, <2>1, <2>3, <4>1, <4>2, <4>3
    <3>4. QED
      BY <1>1, <2>1, <3>2, <3>3
  <2>4. QED
    BY <1>1, <1>4, <1>6, <2>2, <2>3
<1>7. PaneGrows'
  <2>1. Shown' \subseteq 1 .. chan'.said
    BY <1>3, <1>5 DEF PaneGrows
  <2>2. ASSUME NEW k \in chan'.gap + 1 .. pane'[Len(pane')] PROVE k \in Shown'
    <3>1. k \in chan.gap + 1 .. n
      BY <1>4, <2>2
    <3>2. k = n \/ k \in chan.gap + 1 .. n - 1
      BY <1>3, <3>1
    <3>3. QED
      BY <1>3, <1>5, <3>2
  <2>3. QED
    BY <1>4, <1>6, <2>1, <2>2 DEF PaneGrows
<1>8. RingIsEnd'
  <2> DEFINE ids == Append(seen, n)
  <2>1. /\ ids \in Seq(Int) /\ Len(ids) = Len(seen) + 1
        /\ \A k \in 1 .. Len(seen) : ids[k] = seen[k]
        /\ ids[Len(seen) + 1] = n
    BY <1>1, <1>3
  <2> HIDE DEF ids
  <2>2. \A k \in 1 .. Len(ids) : ids[k] = pane'[Len(pane') - Len(ids) + k]
    <3> SUFFICES ASSUME NEW k \in 1 .. Len(ids) PROVE ids[k] = pane'[Len(pane') - Len(ids) + k]
      OBVIOUS
    <3>0. Len(seen) <= Len(pane)
      BY <1>1, SeenAssumption DEF RingIsEnd
    <3>1. CASE k = Len(seen) + 1
      <4>1. Len(pane') - Len(ids) + k = Len(pane) + 1
        BY <1>1, <1>4, <2>1, <3>1
      <4>2. ids[k] = n
        BY <2>1, <3>1
      <4>3. QED
        BY <1>4, <4>1, <4>2
    <3>2. CASE k \in 1 .. Len(seen)
      <4>1. ids[k] = pane[Len(pane) - Len(seen) + k]
        BY <1>1, <2>1, <3>2 DEF RingIsEnd
      <4>2. Len(pane) - Len(seen) + k \in 1 .. Len(pane) /\ Len(pane') - Len(ids) + k = Len(pane) - Len(seen) + k
        BY <1>1, <1>4, <2>1, <3>0, <3>2
      <4>3. QED
        BY <1>4, <4>1, <4>2
    <3>3. k \in 1 .. Len(seen) \/ k = Len(seen) + 1
      <4>1. Len(ids) = Len(seen) + 1 /\ Len(seen) \in Nat
        BY <1>1, <2>1
      <4>2. QED
        BY <4>1
    <3>4. QED
      BY <3>1, <3>2, <3>3
  <2>3. seen' = IF Len(ids) > SeenMax THEN Tail(ids) ELSE ids
    BY DEF Remembered, ids
  <2>4. Len(seen) = IF Len(pane) > SeenMax THEN SeenMax ELSE Len(pane)
    BY DEF RingIsEnd
  <2>0. /\ Len(pane) \in Nat /\ Len(seen) \in Nat /\ SeenMax \in Nat /\ SeenMax >= 1
        /\ Len(ids) = Len(seen) + 1 /\ Len(pane') = Len(pane) + 1
    BY <1>1, <1>4, <2>1, SeenAssumption
  <2>5. CASE Len(ids) > SeenMax
    <3>1. /\ seen' \in Seq(Int) /\ Len(seen') = Len(seen) /\ DOMAIN seen' = 1 .. Len(seen)
          /\ \A k \in 1 .. Len(seen) : seen'[k] = ids[k + 1]
      BY <1>1, <2>1, <2>3, <2>5, SeenAssumption
    <3>2. Len(seen) = SeenMax /\ Len(pane') > SeenMax
      <4>1. Len(seen) >= SeenMax
        BY <2>0, <2>5
      <4>2. Len(seen) = SeenMax
        BY <2>0, <2>4, <4>1
      <4>3. Len(pane) >= SeenMax
        BY <2>0, <2>4, <4>2
      <4>4. QED
        BY <2>0, <4>2, <4>3
    <3>3. ASSUME NEW k \in 1 .. Len(seen) PROVE seen'[k] = pane'[Len(pane') - Len(seen') + k]
      <4>1. k + 1 \in 1 .. Len(ids) /\ Len(pane') - Len(ids) + (k + 1) = Len(pane') - Len(seen') + k
        BY <1>1, <1>4, <2>1, <3>1
      <4>2. QED
        BY <2>2, <3>1, <4>1
    <3>4. QED
      BY <3>1, <3>2, <3>3 DEF RingIsEnd
  <2>6. CASE ~(Len(ids) > SeenMax)
    <3>1. seen' = ids /\ Len(pane) = Len(seen) /\ Len(pane') = Len(ids)
      <4>1. seen' = ids
        BY <2>3, <2>6
      <4>2. Len(seen) < SeenMax
        BY <2>0, <2>6
      <4>3. Len(pane) = Len(seen)
        BY <2>4, <4>2
      <4>4. QED
        BY <2>0, <4>1, <4>3
    <3>2. DOMAIN seen' = 1 .. Len(ids)
      BY <2>1, <3>1
    <3>3. QED
      BY <2>1, <2>2, <2>6, <3>1, <3>2, SeenAssumption DEF RingIsEnd
  <2>7. QED
    BY <2>5, <2>6
<1>9. QED
  BY <1>5, <1>7, <1>8

-------------------------------------------------------------------------------
(* The actions.                                                               *)

LEMMA AreQueued == (\A q \in Seq(Events) : q \in Seq(Queued)) /\ (\A l \in Seq(LineSet) : l \in Seq(Queued))
BY DEF Queued

\* What the worker posts.
LEMMA Posts ==
    ASSUME IrcInv, Control, NEW kind \in {"SYSTEM", "REGISTERED", "MESSAGE", "FAILED"}, NEW n \in Int
    PROVE  Event(kind, n) \in Events /\ Event(kind, n).kind = kind /\ Event(kind, n).n = n
<1>1. clients \in Nat /\ ss.redial \in BOOLEAN
  BY DEF IrcInv, IrcShapes, SessionShape, Control
<1>2. QED
  BY <1>1 DEF Event, Events

\* The pane and the ring stay, whatever more is said.
LEMMA PaneStays ==
    ASSUME IrcInv, PaneGrows, RingIsEnd, pane' = pane, seen' = seen,
           chan'.said \in Int, chan'.gap \in Int, chan.said <= chan'.said, chan.gap <= chan'.gap
    PROVE  PaneGrows' /\ RingIsEnd' /\ Shown' = Shown
<1>1. chan.said \in Int /\ chan.gap \in Int
  BY DEF IrcInv, IrcShapes, ServerShape
<1>2. Shown' = Shown
  BY DEF Shown
<1>3. Shown' \subseteq 1 .. chan'.said
  BY <1>1, <1>2 DEF PaneGrows
<1>4. ASSUME pane # <<>>, NEW k \in chan'.gap + 1 .. pane[Len(pane)] PROVE k \in Shown
  <2>1. pane[Len(pane)] \in Int
    BY <1>4 DEF PaneGrows
  <2>2. k \in chan.gap + 1 .. pane[Len(pane)]
    BY <1>1, <1>4, <2>1
  <2>3. QED
    BY <1>4, <2>2 DEF PaneGrows
<1>5. PaneGrows'
  BY <1>2, <1>3, <1>4 DEF PaneGrows
<1>6. RingIsEnd'
  BY DEF RingIsEnd
<1>7. QED
  BY <1>2, <1>5, <1>6

NoMessage(t) == \A i \in DOMAIN t : t[i].kind # "MESSAGE"

\* A step that brings no message of the channel nearer to the pane.
LEMMA QuietStep ==
    ASSUME FlowInv, UNCHANGED <<pane, seen>>, chan'.said = chan.said, chan'.gap = chan.gap,
           NEW t \in Seq(Events), NoMessage(t), posted' = posted \o t,
           \/ lines' = lines /\ chan'.joined = chan.joined
           \/ lines # <<>> /\ Head(lines).cmd # "PRIVMSG" /\ lines' = Tail(lines) /\ chan'.joined = chan.joined
           \/ /\ \E u \in Seq(LineSet) : lines' = lines \o u /\ ~In(u, "PRIVMSG")
              /\ chan'.joined = chan.joined
           \/ lines' = <<>> /\ chan'.joined = FALSE
    PROVE  PaneGrows' /\ RingIsEnd' /\ OnTheWay'
<1>1. /\ posted \in Seq(Events) /\ posted' \in Seq(Events)
      /\ posted \in Seq(Queued) /\ t \in Seq(Queued) /\ lines \in Seq(Queued)
  <2>1. posted \in Seq(Events) /\ lines \in Seq(LineSet)
    BY DEF FlowInv, OnTheWay, IrcInv, IrcShapes
  <2>2. posted' \in Seq(Events)
    BY <2>1
  <2>3. QED
    BY <2>1, <2>2, AreQueued
<1>2. PaneGrows' /\ RingIsEnd' /\ Shown' = Shown
  <2>1. chan.said \in Int /\ chan.gap \in Int
    BY DEF FlowInv, IrcInv, IrcShapes, ServerShape
  <2>2. QED
    BY <2>1, PaneStays DEF FlowInv
<1> DEFINE q == posted \o t
           W(l, j) == Way(Shown, q, l, chan.said, chan.gap, j)
<1>3. W(lines, chan.joined)
  <2>1. \A i \in DOMAIN t : t[i] \notin IrcMessages
    BY DEF NoMessage, IrcMessages
  <2>2. Way(Shown, posted, lines, chan.said, chan.gap, chan.joined)
    BY DEF FlowInv, OnTheWay
  <2>3. QED
    BY <1>1, <2>1, <2>2, WayPosts
<1> HIDE DEF q
<1>4. W(lines', chan'.joined)
  <2>1. CASE lines' = lines /\ chan'.joined = chan.joined
    BY <1>3, <2>1
  <2>2. CASE lines # <<>> /\ Head(lines).cmd # "PRIVMSG" /\ lines' = Tail(lines) /\ chan'.joined = chan.joined
    <3>1. Head(lines) \notin Talk
      BY <2>2 DEF Talk
    <3>2. W(Tail(lines), chan.joined)
      BY <1>1, <1>3, <2>2, <3>1, WayHandles
    <3>3. QED
      BY <2>2, <3>2
  <2>3. CASE /\ \E u \in Seq(LineSet) : lines' = lines \o u /\ ~In(u, "PRIVMSG")
             /\ chan'.joined = chan.joined
    <3>1. PICK u \in Seq(LineSet) : lines' = lines \o u /\ ~In(u, "PRIVMSG")
      BY <2>3
    <3>2. \A i \in DOMAIN u : u[i] \notin Talk
      BY <3>1 DEF In, Talk
    <3>3. u \in Seq(Queued)
      BY AreQueued
    <3>4. W(lines \o u, chan.joined)
      BY <1>1, <1>3, <3>2, <3>3, WaySends
    <3>5. QED
      BY <2>3, <3>1, <3>4
  <2>4. CASE lines' = <<>> /\ chan'.joined = FALSE
    <3>1. W(<<>>, FALSE)
      BY <1>3, WayEnds
    <3>2. QED
      BY <2>4, <3>1
  <2>5. QED
    BY <2>1, <2>2, <2>3, <2>4
<1>5. Way(Shown', posted', lines', chan'.said, chan'.gap, chan'.joined)
  BY <1>2, <1>4 DEF q
<1>6. OnTheWay'
  BY <1>1, <1>5 DEF OnTheWay, FlowInv
<1>7. QED
  BY <1>2, <1>6

\* Nothing posted.
LEMMA NothingPosted ==
    ASSUME NEW q \in Seq(Events)
    PROVE  <<>> \in Seq(Events) /\ NoMessage(<<>>) /\ q \o <<>> = q
BY DEF NoMessage

\* One thing posted that is not a message.
LEMMA OnePosted ==
    ASSUME FlowInv, NEW kind \in {"SYSTEM", "REGISTERED", "FAILED"}
    PROVE  /\ <<Event(kind, 0)>> \in Seq(Events) /\ NoMessage(<<Event(kind, 0)>>)
           /\ Append(posted, Event(kind, 0)) = posted \o <<Event(kind, 0)>>
<1> DEFINE e == Event(kind, 0)
<1>1. e \in Events /\ e.kind # "MESSAGE"
  <2>1. Event(kind, 0) \in Events /\ Event(kind, 0).kind = kind
    BY Posts DEF FlowInv
  <2>2. QED
    BY <2>1
<1>2. posted \in Seq(Events)
  BY DEF FlowInv, OnTheWay
<1> HIDE DEF e
<1>3. <<e>> \in Seq(Events) /\ NoMessage(<<e>>) /\ Append(posted, e) = posted \o <<e>>
  BY <1>1, <1>2 DEF NoMessage
<1>4. QED
  BY <1>3 DEF e

\* The pane is wiped: nothing is on its way.
LEMMA PaneWiped ==
    ASSUME FlowInv, OnConnect
    PROVE  PaneGrows' /\ RingIsEnd' /\ OnTheWay'
<1>1. /\ pane' = <<>> /\ seen' = <<>> /\ posted' = posted /\ posted = <<>> /\ lines' = lines /\ chan' = chan
      /\ ~connected
  BY DEF OnConnect, UserTurn, srvVars
<1>2. lines = <<>> /\ chan.joined = FALSE
  <2>1. irc # "recv"
    BY <1>1 DEF FlowInv, Control
  <2>2. chan.joined \in BOOLEAN
    BY DEF FlowInv, IrcInv, IrcShapes, ServerShape
  <2>3. lines = <<>> /\ ~chan.joined
    BY <2>1 DEF FlowInv, Control
  <2>4. QED
    BY <2>2, <2>3
<1>3. Shown' = {}
  BY <1>1 DEF Shown
<1>4. PaneGrows'
  BY <1>1, <1>3 DEF PaneGrows
<1>5. RingIsEnd'
  BY <1>1, SeenAssumption DEF RingIsEnd
<1>6. Way(Shown', posted', lines', chan'.said, chan'.gap, chan'.joined)
  <2>1. Way({}, <<>>, <<>>, chan.said, chan.gap, FALSE)
    BY DEF Way, Flows
  <2>2. QED
    BY <1>1, <1>2, <1>3, <2>1
<1>7. OnTheWay'
  BY <1>1, <1>6 DEF FlowInv, OnTheWay
<1>8. QED
  BY <1>4, <1>5, <1>7

\* The tab takes what was posted; a message is shown, unless the ring holds it.
LEMMA TabTakes ==
    ASSUME FlowInv, OnMessage \/ OnSystem \/ OnRegistered \/ OnFailed
    PROVE  PaneGrows' /\ RingIsEnd' /\ OnTheWay'
<1>1. /\ posted \in Seq(Events) /\ posted # <<>> /\ posted' = Tail(posted) /\ lines' = lines /\ chan' = chan
  <2>1. posted \in Seq(Events)
    BY DEF FlowInv, OnTheWay
  <2>2. CASE OnMessage \/ OnSystem \/ OnRegistered
    BY <2>1, <2>2 DEF OnMessage, OnSystem, OnRegistered, Take, srvVars
  <2>3. CASE OnFailed
    BY <2>1, <2>3 DEF OnFailed, Take, IrcClose, srvVars
  <2>4. QED
    BY <2>2, <2>3
<1>2. /\ Tail(posted) \in Seq(Events) /\ Head(posted) \in Events /\ posted \in Seq(Queued)
      /\ Way(Shown, posted, lines, chan.said, chan.gap, chan.joined)
  <2>1. Way(Shown, posted, lines, chan.said, chan.gap, chan.joined)
    BY DEF FlowInv, OnTheWay
  <2>2. Tail(posted) \in Seq(Events) /\ Head(posted) \in Events
    BY <1>1
  <2>3. QED
    BY <1>1, <2>1, <2>2, AreQueued
<1>3. ASSUME PaneGrows', RingIsEnd', Way(Shown', Tail(posted), lines, chan.said, chan.gap, chan.joined)
      PROVE  PaneGrows' /\ RingIsEnd' /\ OnTheWay'
  BY <1>1, <1>2, <1>3 DEF FlowInv, OnTheWay
<1>4. ASSUME pane' = pane, seen' = seen PROVE PaneGrows' /\ RingIsEnd' /\ Shown' = Shown
  BY <1>1, <1>4 DEF FlowInv, PaneGrows, RingIsEnd, Shown
<1>5. CASE OnMessage
  <2> DEFINE n == Head(posted).n
  <2>1. Head(posted) \in IrcMessages
    BY <1>2, <1>5 DEF OnMessage, Take, IrcMessages
  <2>2. Follows(Shown, n, chan.said, chan.gap) /\ Way(Shown \cup {n}, Tail(posted), lines, chan.said, chan.gap, chan.joined)
    BY <1>1, <1>2, <2>1, WayShows
  <2>3. CASE IsSeen(n)
    <3>1. pane' = pane /\ seen' = seen
      BY <1>5, <2>3 DEF OnMessage
    <3>2. n \in Shown
      BY <2>3, RingShown DEF FlowInv
    <3>3. Shown' = Shown \cup {n}
      BY <1>4, <3>1, <3>2
    <3>4. QED
      BY <1>3, <1>4, <2>2, <3>1, <3>3
  <2>4. CASE ~IsSeen(n)
    <3>1. pane' = Append(pane, n) /\ seen' = Remembered(Append(seen, n))
      BY <1>5, <2>4 DEF OnMessage
    <3>2. PaneGrows' /\ RingIsEnd' /\ Shown' = Shown \cup {n}
      BY <1>1, <2>2, <2>4, <3>1, PaneTakes DEF FlowInv
    <3>3. QED
      BY <1>3, <2>2, <3>2
  <2>5. QED
    BY <2>3, <2>4
<1>6. CASE OnSystem \/ OnRegistered \/ OnFailed
  <2>1. pane' = pane /\ seen' = seen
    BY <1>6 DEF OnSystem, OnRegistered, OnFailed, IrcClose, tabVars
  <2>2. Head(posted) \notin IrcMessages
    BY <1>6 DEF OnSystem, OnRegistered, OnFailed, Take, IrcMessages
  <2>3. Way(Shown, Tail(posted), lines, chan.said, chan.gap, chan.joined)
    BY <1>1, <1>2, <2>2, WayTakes
  <2>4. QED
    BY <1>3, <1>4, <2>1, <2>3
<1>7. QED
  BY <1>5, <1>6

LEMMA WorkerPosts ==
    ASSUME FlowInv, Dials \/ Reports \/ ConnectSucceeds \/ SessionEnds
    PROVE  PaneGrows' /\ RingIsEnd' /\ OnTheWay'
<1>1. UNCHANGED <<pane, seen>>
  BY DEF Dials, Reports, ConnectSucceeds, SessionEnds, tabVars
<1>2. PICK t \in Seq(Events) : NoMessage(t) /\ posted' = posted \o t
  <2>1. posted \in Seq(Events)
    BY DEF FlowInv, OnTheWay
  <2>2. CASE posted' = posted
    BY <2>1, <2>2, NothingPosted
  <2>3. CASE Post("SYSTEM", 0)
    BY <2>3, OnePosted DEF Post
  <2>4. CASE Post("FAILED", 0)
    BY <2>4, OnePosted DEF Post
  <2>5. QED
    BY <2>2, <2>3, <2>4 DEF Dials, Reports, ConnectSucceeds, SessionEnds, Farewell
<1>3. chan \in ServerShape
  BY DEF FlowInv, IrcInv, IrcShapes
<1>4. CASE Dials \/ Reports
  <2>1. lines' = lines /\ chan' = chan
    BY <1>4 DEF Dials, Reports, srvVars
  <2>2. QED
    BY <1>1, <1>2, <2>1, QuietStep
<1>5. CASE ConnectSucceeds
  <2>1. /\ lines' = <<>> /\ chan'.said = chan.said /\ chan'.gap = chan.gap /\ chan'.joined = chan.joined
        /\ irc # "recv"
    BY <1>3, <1>5 DEF ConnectSucceeds, ServerShape, Works
  <2>2. chan.joined = FALSE
    <3>1. ~chan.joined
      BY <2>1 DEF FlowInv, Control
    <3>2. chan.joined \in BOOLEAN
      BY <1>3 DEF ServerShape
    <3>3. QED
      BY <3>1, <3>2
  <2>3. QED
    BY <1>1, <1>2, <2>1, <2>2, QuietStep
<1>6. CASE SessionEnds
  <2>1. lines' = <<>> /\ chan'.said = chan.said /\ chan'.gap = chan.gap /\ chan'.joined = FALSE
    BY <1>3, <1>6 DEF SessionEnds, ServerShape
  <2>2. QED
    BY <1>1, <1>2, <2>1, QuietStep
<1>7. QED
  BY <1>4, <1>5, <1>6

\* A line that is not a message is handled.
LEMMA WorkerHandles ==
    ASSUME FlowInv,
           HandlesPing \/ HandlesCap \/ HandlesWelcome \/ HandlesNickInUse \/ HandlesMotdEnd
    PROVE  PaneGrows' /\ RingIsEnd' /\ OnTheWay'
<1>1. UNCHANGED <<pane, seen>>
  BY DEF HandlesPing, HandlesCap, HandlesWelcome, HandlesNickInUse, HandlesMotdEnd, handled, tabVars
<1>2. lines # <<>> /\ Head(lines).cmd # "PRIVMSG" /\ lines' = Tail(lines)
  BY DEF HandlesPing, HandlesCap, HandlesWelcome, HandlesNickInUse, HandlesMotdEnd, Handles
<1>3. chan'.said = chan.said /\ chan'.gap = chan.gap /\ chan'.joined = chan.joined
  <2>1. chan \in ServerShape
    BY DEF FlowInv, IrcInv, IrcShapes
  <2>2. ASSUME NEW what, Hears(what) PROVE chan'.said = chan.said /\ chan'.gap = chan.gap /\ chan'.joined = chan.joined
    BY <2>1, <2>2 DEF Hears, ServerShape
  <2>3. CASE HandlesPing
    BY <2>2, <2>3 DEF HandlesPing
  <2>4. CASE HandlesCap
    <3>1. Hears({"REQ"}) \/ Hears({"END"}) \/ chan' = chan
      <4>1. PICK cmd \in {"LS*", "LS", "ACK", "NAK"} :
              CASE Asks(cmd)      -> ss' = [ss EXCEPT !.req = TRUE] /\ Hears({"REQ"})
                [] Concludes(cmd) -> ss' = [ss EXCEPT !.fin = TRUE] /\ Hears({"END"})
                [] OTHER          -> UNCHANGED <<ss, chan>>
        BY <2>4 DEF HandlesCap
      <4>2. CASE Asks(cmd)
        <5>1. ~Concludes(cmd)
          BY <4>2 DEF Asks, Concludes
        <5>2. QED
          BY <4>1, <4>2, <5>1
      <4>3. CASE Concludes(cmd)
        <5>1. ~Asks(cmd)
          BY <4>3 DEF Asks, Concludes
        <5>2. QED
          BY <4>1, <4>3, <5>1
      <4>4. CASE ~Asks(cmd) /\ ~Concludes(cmd)
        BY <4>1, <4>4
      <4>5. QED
        BY <4>2, <4>3, <4>4
    <3>2. QED
      BY <2>2, <3>1
  <2>5. CASE HandlesWelcome \/ HandlesNickInUse
    BY <2>2, <2>5 DEF HandlesWelcome, HandlesNickInUse
  <2>6. CASE HandlesMotdEnd
    BY <2>6 DEF HandlesMotdEnd
  <2>7. QED
    BY <2>3, <2>4, <2>5, <2>6
<1>4. \E t \in Seq(Events) : NoMessage(t) /\ posted' = posted \o t
  <2>1. posted \in Seq(Events)
    BY DEF FlowInv, OnTheWay
  <2>2. CASE posted' = posted
    BY <2>1, <2>2, NothingPosted
  <2>3. CASE Post("SYSTEM", 0)
    BY <2>3, OnePosted DEF Post
  <2>4. CASE HandlesWelcome
    <3> DEFINE reg == <<Event("REGISTERED", 0)>>
               sys == <<Event("SYSTEM", 0)>>
    <3>1. reg \in Seq(Events) /\ NoMessage(reg)
      BY OnePosted
    <3>2. sys \in Seq(Events) /\ NoMessage(sys)
      BY OnePosted
    <3>3. posted' = posted \o (reg \o IF ss.banner THEN sys ELSE <<>>)
      BY <2>4 DEF HandlesWelcome
    <3> HIDE DEF reg, sys
    <3>4. reg \o sys \in Seq(Events) /\ NoMessage(reg \o sys)
      BY <3>1, <3>2 DEF NoMessage
    <3>5. reg \o <<>> = reg
      BY <3>1
    <3>6. CASE ss.banner
      BY <3>3, <3>4, <3>6
    <3>7. CASE ~ss.banner
      BY <3>1, <3>3, <3>5, <3>7
    <3>8. QED
      BY <3>6, <3>7
  <2>5. QED
    BY <2>2, <2>3, <2>4 DEF HandlesPing, HandlesCap, HandlesNickInUse, HandlesMotdEnd
<1>5. QED
  BY <1>1, <1>2, <1>3, <1>4, QuietStep

\* A message is forwarded to the tab.
LEMMA WorkerForwards ==
    ASSUME FlowInv, HandlesMessage
    PROVE  PaneGrows' /\ RingIsEnd' /\ OnTheWay'
<1> DEFINE e == Event("MESSAGE", Head(lines).n)
<1>1. /\ UNCHANGED <<pane, seen, chan>> /\ lines # <<>> /\ Head(lines).cmd = "PRIVMSG" /\ lines' = Tail(lines)
      /\ posted' = Append(posted, e)
  BY DEF HandlesMessage, Handles, handled, tabVars, Post
<1>2. posted \in Seq(Events) /\ lines \in Seq(LineSet) /\ Way(Shown, posted, lines, chan.said, chan.gap, chan.joined)
  BY DEF FlowInv, OnTheWay, IrcInv, IrcShapes
<1>3. Head(lines) \in LineSet
  BY <1>1, <1>2
<1>4. Head(lines) \in Talk /\ Head(lines).n \in Int
  BY <1>1, <1>3 DEF Talk, LineSet
<1>5. e \in Events /\ e.kind = "MESSAGE" /\ e.n = Head(lines).n
  BY <1>4, Posts DEF FlowInv
<1> HIDE DEF e
<1>6. e \in IrcMessages /\ e \in Queued /\ Append(posted, e) \in Seq(Events)
  BY <1>2, <1>5 DEF IrcMessages, Queued
<1>7. posted \in Seq(Queued) /\ lines \in Seq(Queued)
  BY <1>2, AreQueued
<1>8. Way(Shown, Append(posted, e), Tail(lines), chan.said, chan.gap, chan.joined)
  BY <1>1, <1>2, <1>4, <1>5, <1>6, <1>7, WayForwards
<1>9. Shown' = Shown /\ PaneGrows' /\ RingIsEnd'
  BY <1>1 DEF FlowInv, PaneGrows, RingIsEnd, Shown
<1>10. OnTheWay'
  BY <1>1, <1>6, <1>8, <1>9 DEF FlowInv, OnTheWay
<1>11. QED
  BY <1>9, <1>10

\* The server answers.
LEMMA ServerAnswers ==
    ASSUME FlowInv, Lists \/ Answers \/ Releases \/ TakesNick \/ Pings \/ Drops,
           UNCHANGED <<pane, seen, posted>>
    PROVE  PaneGrows' /\ RingIsEnd' /\ OnTheWay'
<1>1. posted \in Seq(Events) /\ lines \in Seq(LineSet) /\ chan \in ServerShape
  BY DEF FlowInv, OnTheWay, IrcInv, IrcShapes
<1>2. <<>> \in Seq(Events) /\ NoMessage(<<>>) /\ posted' = posted \o <<>>
  BY <1>1, NothingPosted
<1>3. ASSUME NEW cmd \in Commands PROVE <<Line(cmd, 0)>> \in Seq(LineSet) /\ \A c : In(<<Line(cmd, 0)>>, c) <=> c = cmd
  BY OneLine
<1>4. ASSUME NEW u \in Seq(LineSet), NEW heard, Sends(u, heard), ~In(u, "PRIVMSG")
      PROVE  PaneGrows' /\ RingIsEnd' /\ OnTheWay'
  <2>1. /\ lines' = lines \o u /\ chan'.said = chan.said /\ chan'.gap = chan.gap /\ chan'.joined = chan.joined
    BY <1>1, <1>4 DEF Sends, ServerShape
  <2>2. QED
    BY <1>2, <1>4, <2>1, QuietStep
<1>5. ASSUME NEW cmd \in Commands, cmd # "PRIVMSG", lines' = Append(lines, Line(cmd, 0)),
             chan'.said = chan.said, chan'.gap = chan.gap, chan'.joined = chan.joined
      PROVE  PaneGrows' /\ RingIsEnd' /\ OnTheWay'
  <2>1. lines' = lines \o <<Line(cmd, 0)>>
    BY <1>1, <1>5
  <2>2. <<Line(cmd, 0)>> \in Seq(LineSet) /\ ~In(<<Line(cmd, 0)>>, "PRIVMSG")
    BY <1>3, <1>5
  <2>3. QED
    BY <1>2, <1>5, <2>1, <2>2, QuietStep
<1>6. CASE Lists
  <2>1. PICK more \in {<<>>, <<Line("LS*", 0)>>} :
          Sends(more \o <<Line("LS", 0)>>, (chan.heard \ {"LS"}) \cup {"HELD"})
    BY <1>6 DEF Lists
  <2>2. more \in Seq(LineSet) /\ ~In(more, "PRIVMSG")
    <3>1. <<Line("LS*", 0)>> \in Seq(LineSet) /\ ~In(<<Line("LS*", 0)>>, "PRIVMSG")
      BY <1>3 DEF Commands
    <3>2. <<>> \in Seq(LineSet) /\ ~In(<<>>, "PRIVMSG")
      BY DEF In
    <3>3. QED
      BY <2>1, <3>1, <3>2
  <2>3. <<Line("LS", 0)>> \in Seq(LineSet) /\ ~In(<<Line("LS", 0)>>, "PRIVMSG")
    BY <1>3 DEF Commands
  <2>4. more \o <<Line("LS", 0)>> \in Seq(LineSet) /\ ~In(more \o <<Line("LS", 0)>>, "PRIVMSG")
    BY <2>2, <2>3, Arrive
  <2>5. QED
    BY <1>4, <2>1, <2>4
<1>7. CASE Answers
  <2>1. PICK cmd \in {"ACK", "NAK"} : Sends(<<Line(cmd, 0)>>, chan.heard \ {"REQ"})
    BY <1>7 DEF Answers
  <2>2. <<Line(cmd, 0)>> \in Seq(LineSet) /\ ~In(<<Line(cmd, 0)>>, "PRIVMSG")
    BY <1>3, <2>1 DEF Commands
  <2>3. QED
    BY <1>4, <2>1, <2>2
<1>8. CASE Releases
  <2>1. Sends(<<>>, chan.heard \ {"END", "HELD"}) /\ <<>> \in Seq(LineSet) /\ ~In(<<>>, "PRIVMSG")
    BY <1>8 DEF Releases, In
  <2>2. QED
    BY <1>4, <2>1
<1>9. CASE TakesNick
  <2>1. CASE Sends(Welcome, chan.heard \ {"NICK"})
    <3>1. Welcome = <<Line("001", 0)>> \o <<Line("376", 0)>>
      BY DEF Welcome
    <3>2. <<Line("001", 0)>> \in Seq(LineSet) /\ ~In(<<Line("001", 0)>>, "PRIVMSG")
      BY <1>3 DEF Commands
    <3>3. <<Line("376", 0)>> \in Seq(LineSet) /\ ~In(<<Line("376", 0)>>, "PRIVMSG")
      BY <1>3 DEF Commands
    <3>4. Welcome \in Seq(LineSet) /\ ~In(Welcome, "PRIVMSG")
      BY <3>1, <3>2, <3>3, Arrive
    <3>5. QED
      BY <1>4, <2>1, <3>4
  <2>2. CASE lines' = Append(lines, Line("433", 0)) /\ chan' = [chan EXCEPT !.heard = @ \ {"NICK"}, !.refused = TRUE]
    <3>1. chan'.said = chan.said /\ chan'.gap = chan.gap /\ chan'.joined = chan.joined
      BY <1>1, <2>2 DEF ServerShape
    <3>2. QED
      BY <1>5, <2>2, <3>1 DEF Commands
  <2>3. QED
    BY <1>9, <2>1, <2>2 DEF TakesNick
<1>10. CASE Pings
  <2>1. /\ lines' = Append(lines, Line("PING", 0))
        /\ chan'.said = chan.said /\ chan'.gap = chan.gap /\ chan'.joined = chan.joined
    BY <1>1, <1>10 DEF Pings, ServerShape
  <2>2. QED
    BY <1>5, <2>1 DEF Commands
<1>11. CASE Drops
  <2>1. lines' = lines /\ chan'.said = chan.said /\ chan'.gap = chan.gap /\ chan'.joined = chan.joined
    BY <1>1, <1>11 DEF Drops, ServerShape
  <2>2. QED
    BY <1>2, <2>1, QuietStep
<1>12. QED
  BY <1>6, <1>7, <1>8, <1>9, <1>10, <1>11

\* Something is said in the channel.
LEMMA ChannelTalks ==
    ASSUME FlowInv, Talks
    PROVE  PaneGrows' /\ RingIsEnd' /\ OnTheWay'
<1> DEFINE said == chan.said
           gap == chan.gap
           e == Line("PRIVMSG", said + 1)
<1>1. /\ posted \in Seq(Events) /\ lines \in Seq(LineSet) /\ chan \in ServerShape
      /\ Way(Shown, posted, lines, said, gap, chan.joined)
      /\ gap \in Nat /\ (gap = 0 \/ gap + Window <= said)
  BY DEF FlowInv, OnTheWay, IrcInv, IrcShapes
<1>2. /\ UNCHANGED <<pane, seen, posted>>
      /\ lines' = IF chan.joined THEN Append(lines, e) ELSE lines
      /\ chan' = [chan EXCEPT !.said = @ + 1]
  BY DEF Talks, srvKept, tabVars
<1>3. /\ said \in Nat /\ chan.joined \in BOOLEAN
      /\ chan'.said = said + 1 /\ chan'.gap = gap /\ chan'.joined = chan.joined
  BY <1>1, <1>2 DEF ServerShape
<1>4. PaneGrows' /\ RingIsEnd' /\ Shown' = Shown
  BY <1>1, <1>2, <1>3, PaneStays DEF FlowInv
<1>5. e \in Talk /\ e \in Queued /\ e.n = said + 1
  BY <1>3 DEF Line, Talk, LineSet, Commands, Queued
<1>6. lines \in Seq(Queued)
  BY <1>1, AreQueued
<1>7. Shown \subseteq 1 .. said /\ \A m \in Shown : \A k \in gap + 1 .. m - 1 : k \in Shown
  BY PaneClosed DEF FlowInv
<1> HIDE DEF e, said, gap
<1>8. Way(Shown, posted, lines', said + 1, gap, chan.joined)
  <2>1. CASE chan.joined
    <3>1. Way(Shown, posted, Append(lines, e), said + 1, gap, chan.joined)
      BY <1>1, <1>3, <1>5, <1>6, <1>7, <2>1, WayTalks
    <3>2. QED
      BY <1>2, <2>1, <3>1
  <2>2. CASE ~chan.joined
    <3>1. Flows(posted, IrcMessages, Shown, said, gap) /\ Flows(lines, Talk, Shown \cup Numbers(posted, IrcMessages), said, gap)
      BY <1>1 DEF Way
    <3>2. said \in Int /\ gap \in Int /\ said + 1 \in Int /\ said <= said + 1 /\ gap <= gap
      BY <1>1, <1>3
    <3>3. Flows(posted, IrcMessages, Shown, said + 1, gap)
      BY <3>1, <3>2, FlowsOn
    <3>4. Flows(lines, Talk, Shown \cup Numbers(posted, IrcMessages), said + 1, gap)
      BY <3>1, <3>2, FlowsOn
    <3>5. QED
      BY <1>2, <2>2, <3>3, <3>4 DEF Way
  <2>3. QED
    BY <2>1, <2>2
<1>9. gap = 0 \/ gap + Window <= said + 1
  BY <1>1, <1>3, SeenAssumption
<1>10. OnTheWay'
  <2>1. Way(Shown', posted', lines', chan'.said, chan'.gap, chan'.joined)
    BY <1>2, <1>3, <1>4, <1>8
  <2>2. QED
    BY <1>1, <1>2, <1>3, <1>9, <2>1 DEF OnTheWay
<1>11. QED
  BY <1>4, <1>10

\* The channel is joined: its last messages are sent again.
LEMMA ChannelReplays ==
    ASSUME FlowInv, Replays, UNCHANGED <<pane, seen, posted>>
    PROVE  PaneGrows' /\ RingIsEnd' /\ OnTheWay'
<1> DEFINE said == chan.said
           gap == chan.gap
           from == IF chan.said > Window THEN chan.said - Window ELSE 0
           old == [i \in 1 .. said - from |-> Line("PRIVMSG", from + i)]
<1>1. /\ posted \in Seq(Events) /\ lines \in Seq(LineSet) /\ chan \in ServerShape
      /\ Way(Shown, posted, lines, said, gap, chan.joined)
      /\ gap \in Nat /\ (gap = 0 \/ gap + Window <= said)
  BY DEF FlowInv, OnTheWay, IrcInv, IrcShapes
<1>2. /\ lines' = lines \o old
      /\ chan' = [chan EXCEPT !.heard = @ \ {"JOIN"}, !.joined = TRUE, !.gap = from]
  BY DEF Replays
<1>3. said \in Nat
  BY <1>1 DEF ServerShape
<1>4. /\ from \in Nat /\ gap <= from /\ from <= said /\ said <= from + Window
      /\ (from = 0 \/ from + Window <= said)
  BY <1>1, <1>3, SeenAssumption
<1> HIDE DEF from
<1>5. chan'.said = said /\ chan'.gap = from /\ chan'.joined = TRUE
  BY <1>1, <1>2 DEF ServerShape
<1>6. \A i \in 1 .. said - from :
         /\ Line("PRIVMSG", from + i) \in Talk /\ Line("PRIVMSG", from + i) \in Queued
         /\ Line("PRIVMSG", from + i).n = from + i
  BY <1>3, <1>4 DEF Line, Talk, LineSet, Commands, Queued
<1>7. /\ old \in Seq(Queued) /\ Len(old) = said - from
      /\ \A i \in 1 .. said - from : old[i] \in Talk /\ old[i].n = from + i
  BY <1>3, <1>4, <1>6
<1>8. PaneGrows' /\ RingIsEnd' /\ Shown' = Shown
  BY <1>1, <1>3, <1>4, <1>5, PaneStays DEF FlowInv
<1>9. lines \in Seq(Queued)
  BY <1>1, AreQueued
<1>10. Shown \subseteq 1 .. said /\ \A m \in Shown : \A k \in gap + 1 .. m - 1 : k \in Shown
  BY PaneClosed DEF FlowInv
<1> HIDE DEF old, said, gap
<1>11. Way(Shown, posted, lines \o old, said, from, TRUE)
  BY <1>1, <1>3, <1>4, <1>7, <1>9, <1>10, WayReplays
<1>12. OnTheWay'
  <2>1. Way(Shown', posted', lines', chan'.said, chan'.gap, chan'.joined)
    BY <1>2, <1>5, <1>8, <1>11
  <2>2. QED
    BY <1>1, <1>4, <1>5, <2>1 DEF OnTheWay
<1>13. QED
  BY <1>8, <1>12

LEMMA FlowInvInit == Init => FlowInv
<1> SUFFICES ASSUME Init PROVE FlowInv
  OBVIOUS
<1>1. IrcInv /\ Control
  BY IrcInvInit, ControlInit
<1>2. pane = <<>> /\ seen = <<>> /\ posted = <<>> /\ lines = <<>> /\ chan.said = 0 /\ chan.gap = 0 /\ chan.joined = FALSE
  BY DEF Init
<1>3. Shown = {}
  BY <1>2 DEF Shown
<1>4. PaneGrows /\ RingIsEnd
  BY <1>2, <1>3, SeenAssumption DEF PaneGrows, RingIsEnd
<1>5. OnTheWay
  BY <1>2, <1>3 DEF OnTheWay, Way, Flows
<1>6. QED
  BY <1>1, <1>4, <1>5 DEF FlowInv

LEMMA FlowInvStep == FlowInv /\ [Next]_vars => FlowInv'
<1> SUFFICES ASSUME FlowInv, [Next]_vars PROVE FlowInv'
  OBVIOUS
<1>1. IrcInv' /\ Control'
  BY IrcInvStep, ControlStep DEF FlowInv
<1>2. PaneGrows' /\ RingIsEnd' /\ OnTheWay'
  <2>1. ASSUME UNCHANGED <<pane, seen, posted, lines, chan>> PROVE PaneGrows' /\ RingIsEnd' /\ OnTheWay'
    BY <2>1 DEF FlowInv, PaneGrows, RingIsEnd, OnTheWay, Shown
  <2>2. CASE OnConnect
    BY <2>2, PaneWiped
  <2>3. CASE OnDisconnect \/ OnShutdown \/ JoinEnds
    BY <2>1, <2>3 DEF OnDisconnect, OnShutdown, JoinEnds, IrcClose, srvVars
  <2>4. CASE OnMessage \/ OnSystem \/ OnRegistered \/ OnFailed
    BY <2>4, TabTakes
  <2>5. CASE SeesQuit \/ Resolves \/ ConnectFails \/ LooksAtFailure \/ BackoffEnds
    BY <2>1, <2>5 DEF SeesQuit, Resolves, ConnectFails, LooksAtFailure, BackoffEnds, tabVars, srvVars
  <2>6. CASE Dials \/ Reports \/ ConnectSucceeds \/ SessionEnds
    BY <2>6, WorkerPosts
  <2>7. CASE HandlesPing \/ HandlesCap \/ HandlesWelcome \/ HandlesNickInUse \/ HandlesMotdEnd
    BY <2>7, WorkerHandles
  <2>8. CASE HandlesMessage
    BY <2>8, WorkerForwards
  <2>9. CASE Replies \/ Pings \/ Drops
    <3>1. UNCHANGED <<pane, seen, posted>>
      BY <2>9 DEF Replies, Pings, Drops, srvKept, tabVars
    <3>2. QED
      BY <2>9, <3>1, ServerAnswers, ChannelReplays DEF Replies
  <2>10. CASE Talks
    BY <2>10, ChannelTalks
  <2>11. CASE UNCHANGED vars
    BY <2>1, <2>11 DEF vars, tabVars, srvVars
  <2>12. QED
    BY <2>2, <2>3, <2>4, <2>5, <2>6, <2>7, <2>8, <2>9, <2>10, <2>11 DEF Next, Tab, Worker
<1>3. QED
  BY <1>1, <1>2 DEF FlowInv

(* What the replay sends again is shown once, the pane keeps the order of the *)
(* channel, and a message is missing only when more than the replay holds was *)
(* said while the connection was down (irc_module.c:242-272).                 *)
THEOREM IrcPaneIsChannel == Spec => []PaneIsChannel
<1>1. ASSUME FlowInv PROVE PaneIsChannel
  <2>1. pane \in Seq(Int) /\ DOMAIN pane = 1 .. Len(pane)
    BY <1>1 DEF FlowInv, PaneGrows
  <2>2. ASSUME NEW i \in DOMAIN pane, NEW j \in DOMAIN pane, i < j PROVE pane[i] < pane[j]
    <3>1. pane[j] - pane[i] >= j - i
      BY <1>1, <2>2 DEF FlowInv, PaneGrows
    <3>2. pane[i] \in Int /\ pane[j] \in Int /\ i \in Int /\ j \in Int
      BY <2>1, <2>2
    <3>3. QED
      BY <2>2, <3>1, <3>2
  <2>3. ASSUME pane # <<>>, NEW n \in chan.gap + 1 .. Last(pane) PROVE Contains(pane, n)
    <3>1. n \in Shown
      BY <1>1, <2>3 DEF FlowInv, PaneGrows, Last
    <3>2. QED
      BY <2>1, <3>1 DEF Shown, Contains
  <2>4. QED
    BY <2>2, <2>3 DEF PaneIsChannel
<1>2. QED
  BY <1>1, FlowInvInit, FlowInvStep, PTL DEF Spec
===============================================================================
