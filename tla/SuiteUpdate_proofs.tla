-------------------------- MODULE SuiteUpdate_proofs --------------------------
(* Machine-checked theorems about SuiteUpdate, for any releases, any          *)
(* throttle, any number of launches and any time.                             *)
EXTENDS SuiteUpdate, TLAPS

-------------------------------------------------------------------------------
(* g_busy.  Behind BusyIsOneThing: the shapes of what is handed over, no      *)
(* worker outlives its process, and only a running Suite has a box open.      *)

WorkerShape ==
    /\ worker = [at |-> worker.at, r |-> worker.r]
    /\ worker.at \in {"none", "fetch", "post", "download", "verify", "done"}
UiShape == ui = [at |-> ui.at, r |-> ui.r]
MsgShape == msg = <<>> \/ msg = <<Head(msg)>>

(* A message queue of this shape is empty or holds one message.               *)
LEMMA MsgLen ==
    ASSUME MsgShape
    PROVE  /\ Len(msg) \in {0, 1}
           /\ Len(msg) = 0 <=> msg = <<>>
  BY DEF MsgShape

(* What is in hand, counted.                                                  *)
LEMMA HandCount ==
    ASSUME MsgShape
    PROVE  /\ InHand = 0 <=> worker.at = "none" /\ msg = <<>> /\ ui.at = "loop"
           /\ InHand = 1 <=> \/ worker.at # "none" /\ msg = <<>> /\ ui.at = "loop"
                             \/ worker.at = "none" /\ msg # <<>> /\ ui.at = "loop"
                             \/ worker.at = "none" /\ msg = <<>> /\ ui.at # "loop"
  <1> DEFINE w == IF worker.at = "none" THEN 0 ELSE 1
             u == IF ui.at = "loop" THEN 0 ELSE 1
             n == Len(msg)
  <1>1. /\ w \in {0, 1} /\ u \in {0, 1} /\ n \in {0, 1}
        /\ w = 0 <=> worker.at = "none"
        /\ u = 0 <=> ui.at = "loop"
        /\ n = 0 <=> msg = <<>>
    BY MsgLen
  <1>2. InHand = w + n + u
    BY DEF InHand
  <1> HIDE DEF w, u, n
  <1>3. /\ InHand = 0 <=> w = 0 /\ n = 0 /\ u = 0
        /\ InHand = 1 <=> \/ w # 0 /\ n = 0 /\ u = 0
                          \/ w = 0 /\ n # 0 /\ u = 0
                          \/ w = 0 /\ n = 0 /\ u # 0
    BY <1>1, <1>2
  <1> QED
    BY <1>1, <1>3

(* What BusyIsOneThing says of each of the three places.                      *)
Alone ==
    /\ worker.at # "none" => busy /\ msg = <<>> /\ ui.at = "loop"
    /\ msg # <<>> => busy /\ worker.at = "none" /\ ui.at = "loop"
    /\ ui.at # "loop" => busy /\ worker.at = "none" /\ msg = <<>>
    /\ busy => worker.at # "none" \/ msg # <<>> \/ ui.at # "loop"

LEMMA AloneFact ==
    ASSUME MsgShape, busy \in BOOLEAN
    PROVE  BusyIsOneThing <=> (proc = "up" => Alone)
  <1>1. CASE busy
    BY <1>1, HandCount DEF BusyIsOneThing, Alone
  <1>2. CASE ~busy
    BY <1>2, HandCount DEF BusyIsOneThing, Alone
  <1> QED
    BY <1>1, <1>2

OneThing ==
    /\ WorkerShape /\ UiShape /\ MsgShape
    /\ proc \in {"off", "up", "closing"}
    /\ busy \in BOOLEAN
    /\ proc = "off" => worker.at = "none"
    /\ ui.at # "loop" => proc = "up"
    /\ proc = "up" => Alone

LEMMA OneThingInit == Init => OneThing
  <1> SUFFICES ASSUME Init PROVE OneThing
    OBVIOUS
  <1>1. worker.at = "none" /\ ui.at = "loop" /\ msg = <<>> /\ busy = FALSE /\ proc = "off"
    BY DEF Init, Idle, Loop
  <1>2. WorkerShape /\ UiShape /\ MsgShape
    BY DEF Init, Idle, Loop, WorkerShape, UiShape, MsgShape
  <1> QED
    BY <1>1, <1>2 DEF OneThing

LEMMA OneThingStep == OneThing /\ [Next]_vars => OneThing'
  <1> SUFFICES ASSUME OneThing, [Next]_vars PROVE OneThing'
    OBVIOUS
  <1> USE DEF OneThing, WorkerShape, UiShape, MsgShape, Alone, settingVars, worldVars, histVars
  <1>1. CASE Launch
    BY <1>1 DEF Launch, Loop
  <1>a. ASSUME NEW m, StartCheck(m), proc = "up", proc' = "up", ui' = ui, msg' = msg
        PROVE  OneThing'
    <2>1. CASE busy
      BY <1>a, <2>1 DEF StartCheck
    <2>2. CASE ~busy
      <3>1. worker'.at = "fetch" /\ WorkerShape' /\ busy' = TRUE
        BY <1>a, <2>2 DEF StartCheck
      <3>2. msg' = <<>> /\ ui'.at = "loop"
        BY <1>a, <2>2
      <3> QED
        BY <1>a, <3>1, <3>2
    <2> QED
      BY <2>1, <2>2
  <1>2. CASE ManualCheck
    BY <1>2, <1>a DEF ManualCheck
  <1>3. CASE StartupCheck
    <2>1. CASE StartCheck("startup")
      BY <1>3, <1>a, <2>1 DEF StartupCheck
    <2>2. CASE UNCHANGED <<busy, mode, worker>>
      BY <1>3, <2>2 DEF StartupCheck
    <2> QED
      BY <1>3, <2>1, <2>2 DEF StartupCheck
  <1>4. CASE FetchReturns
    BY <1>4 DEF FetchReturns
  <1>b. ASSUME NEW m, Deliver(m), worker.at # "none", worker' = Idle, proc' = proc, ui' = ui
        PROVE  OneThing'
    <2>1. WorkerShape' /\ worker'.at = "none"
      BY <1>b DEF Idle
    <2>2. CASE proc = "up"
      <3>1. msg = <<>> /\ ui.at = "loop" /\ busy
        BY <1>b, <2>2
      <3>2. msg' = <<m>> /\ busy' = busy
        BY <1>b, <2>2, <3>1 DEF Deliver
      <3> QED
        BY <1>b, <2>1, <2>2, <3>1, <3>2
    <2>3. CASE proc # "up"
      BY <1>b, <2>1, <2>3 DEF Deliver
    <2> QED
      BY <2>2, <2>3
  <1>5. CASE CheckPosts
    BY <1>5, <1>b DEF CheckPosts
  <1>6. CASE DownloadReturns
    BY <1>6 DEF DownloadReturns
  <1>7. CASE Verify
    BY <1>7 DEF Verify
  <1>8. CASE DownloadPosts
    BY <1>8, <1>b DEF DownloadPosts
  <1>9. CASE OnResult
    <2>1. /\ proc = "up" /\ proc' = "up" /\ worker' = worker
          /\ ui.at = "loop" /\ worker.at = "none" /\ busy /\ msg' = <<>>
      BY <1>9 DEF OnResult
    <2>2. \/ busy' = FALSE /\ ui' = ui
          \/ busy' = busy /\ \E at \in {"notice", "offer"} : ui' = [at |-> at, r |-> Head(msg).r]
      BY <1>9 DEF OnResult, Say, Offer, Release
    <2>3. UiShape' /\ MsgShape' /\ WorkerShape'
      BY <2>1, <2>2
    <2>4. CASE busy' = FALSE /\ ui' = ui
      BY <2>1, <2>3, <2>4
    <2>5. CASE busy' = busy /\ \E at \in {"notice", "offer"} : ui' = [at |-> at, r |-> Head(msg).r]
      BY <2>1, <2>3, <2>5
    <2> QED
      BY <2>2, <2>4, <2>5
  <1>10. CASE OnDownloadDone
    BY <1>10 DEF OnDownloadDone
  <1>11. CASE Dismiss
    BY <1>11 DEF Dismiss, Release, Loop
  <1>12. CASE Answer
    <2>1. /\ proc = "up" /\ proc' = "up" /\ ui' = Loop /\ ui'.at = "loop"
          /\ worker.at = "none" /\ busy /\ msg' = <<>>
      BY <1>12 DEF Answer, Loop
    <2>2. UiShape' /\ MsgShape'
      BY <2>1 DEF Loop
    <2>3. CASE worker' = [at |-> "download", r |-> [v |-> ui.r.v]] /\ busy' = busy
      BY <2>1, <2>2, <2>3
    <2>4. CASE worker' = worker /\ busy' = FALSE
      BY <2>1, <2>2, <2>4
    <2> QED
      BY <1>12, <2>3, <2>4 DEF Answer, Release
  <1>13. CASE Confirm
    <2>1. proc = "up" /\ worker' = worker /\ worker.at = "none" /\ busy /\ msg' = <<>>
      BY <1>13 DEF Confirm
    <2>2. CASE proc' = "closing" /\ busy' = FALSE /\ ui' = Loop
      BY <2>1, <2>2 DEF Loop
    <2>3. CASE ui' = [ui EXCEPT !.at = "sorry"] /\ proc' = proc /\ busy' = busy
      <3>1. ui' = [at |-> "sorry", r |-> ui.r]
        BY <2>3
      <3> QED
        BY <2>1, <2>3, <3>1
    <2> QED
      BY <1>13, <2>2, <2>3 DEF Confirm, Release
  <1>14. CASE Close
    BY <1>14 DEF Close
  <1>15. CASE ProcessEnds
    BY <1>15 DEF ProcessEnds, Idle
  <1>16. CASE Publish
    BY <1>16 DEF Publish
  <1>17. CASE Tick
    BY <1>17 DEF Tick
  <1>18. CASE UNCHANGED vars
    BY <1>18 DEF vars
  <1> QED
    BY <1>1, <1>2, <1>3, <1>4, <1>5, <1>6, <1>7, <1>8, <1>9, <1>10, <1>11, <1>12,
       <1>13, <1>14, <1>15, <1>16, <1>17, <1>18 DEF Next, Worker, Window, User

(* g_busy of suite_update.c: while the Suite is up it is held exactly when    *)
(* one check, one download or one open box is under way, and never two are.   *)
THEOREM UpdateBusyIsOneThing == Spec => []BusyIsOneThing
  <1>1. OneThing => BusyIsOneThing
    BY AloneFact DEF OneThing
  <1> QED
    BY <1>1, OneThingInit, OneThingStep, PTL DEF Spec

-------------------------------------------------------------------------------
(* The installer.  A release is named by its place in Releases; the code only *)
(* compares versions, so the theorem is about publishers whose order the      *)
(* comparison of suite_update.c agrees with.                                  *)

PublishedInOrder ==
    /\ Len(Releases) \in Nat \ {0}
    /\ \A i, j \in 1 .. Len(Releases) : Older(i, j) <=> i < j

Published(v) == v \in 0 .. Len(Releases)
Newer(v) == v \in 1 .. Len(Releases) /\ app < v

(* What the offer found to be newer is what is downloaded, verified, posted   *)
(* and confirmed, while the installed release stays what it was.              *)
Chain ==
    /\ app \in 1 .. Len(Releases) /\ Published(manifest.v)
    /\ worker.at = "post" =>
          /\ worker.r = [ok |-> worker.r.ok, v |-> worker.r.v, floor |-> worker.r.floor, mode |-> worker.r.mode]
          /\ Published(worker.r.v)
    /\ worker.at \in {"download", "verify", "done"} => Newer(worker.r.v)
    /\ worker.at = "done" /\ worker.r.ok => file = worker.r.v
    /\ proc = "up" /\ msg # <<>> =>
          /\ Head(msg).what = "RESULT" => Published(Head(msg).r.v)
          /\ Head(msg).what = "DLDONE" => /\ Newer(Head(msg).r.v)
                                          /\ Head(msg).r.ok => file = Head(msg).r.v
    /\ ui.at \in {"offer", "confirm"} => Newer(ui.r.v)
    /\ ui.at = "confirm" => file = ui.r.v

LEMMA ChainInit == ASSUME PublishedInOrder PROVE Init => Chain
  BY DEF PublishedInOrder, Init, Idle, Loop, Chain, Published

(* One step keeps the chain.                                                  *)
LEMMA ChainStep ==
    ASSUME PublishedInOrder
    PROVE  OneThing /\ Chain /\ [Next]_vars => Chain'
  <1> SUFFICES ASSUME OneThing, Chain, [Next]_vars PROVE Chain'
    OBVIOUS
  <1> USE DEF Published, Newer
  <1>0. /\ MsgShape /\ WorkerShape /\ UiShape
        /\ proc = "up" => Alone
        /\ proc = "off" => worker.at = "none"
        /\ ui.at # "loop" => proc = "up"
    BY DEF OneThing
  <1>1. CASE Launch
    BY <1>0, <1>1 DEF Launch, Loop, Chain, settingVars
  <1>a. ASSUME NEW m, StartCheck(m), UNCHANGED <<worldVars, proc, msg, ui, file>>
        PROVE  Chain'
    BY <1>a DEF StartCheck, Chain, worldVars
  <1>2. CASE ManualCheck
    BY <1>2, <1>a DEF ManualCheck
  <1>3. CASE StartupCheck
    <2>1. CASE StartCheck("startup")
      BY <1>3, <1>a, <2>1 DEF StartupCheck
    <2>2. CASE UNCHANGED <<busy, mode, worker>>
      BY <1>3, <2>2 DEF StartupCheck, Chain, worldVars
    <2> QED
      BY <1>3, <2>1, <2>2 DEF StartupCheck
  <1>4. CASE FetchReturns
    BY <1>4 DEF FetchReturns, Chain, worldVars
  <1>5. CASE CheckPosts
    <2>1. /\ worker.at = "post" /\ worker' = Idle
          /\ UNCHANGED <<app, manifest, proc, ui, file>>
      BY <1>5 DEF CheckPosts, worldVars
    <2>2. CASE proc = "up"
      <3>1. msg' = <<[what |-> "RESULT", r |-> [worker.r EXCEPT !.mode = mode]]>>
        BY <1>5, <1>0, <2>1, <2>2 DEF CheckPosts, Deliver, Alone
      <3>2. [worker.r EXCEPT !.mode = mode].v = worker.r.v
        BY <2>1 DEF Chain
      <3> QED
        BY <2>1, <3>1, <3>2 DEF Chain, Idle
    <2>3. CASE proc # "up"
      BY <2>1, <2>3 DEF Chain, Idle
    <2> QED
      BY <2>2, <2>3
  <1>6. CASE DownloadReturns
    <2>1. /\ worker.at = "download" /\ msg' = msg /\ ui' = ui /\ proc' = proc
          /\ UNCHANGED <<app, manifest>>
          /\ worker'.at \in {"verify", "done"} /\ worker'.r.v = worker.r.v
          /\ worker'.at = "done" => ~worker'.r.ok
      BY <1>6, <1>0 DEF DownloadReturns, worldVars, WorkerShape
    <2>2. ui.at = "loop" /\ (proc = "up" => msg = <<>>)
      BY <1>0, <2>1 DEF Alone
    <2> QED
      BY <2>1, <2>2 DEF Chain
  <1>7. CASE Verify
    <2>1. /\ worker.at = "verify" /\ msg' = msg /\ ui' = ui /\ proc' = proc
          /\ UNCHANGED <<app, manifest>>
          /\ worker' = [at |-> "done", r |-> [v |-> worker.r.v, ok |-> Matches(file, worker.r.v)]]
          /\ Matches(file, worker.r.v) => file' = worker.r.v
      BY <1>7 DEF Verify, Matches, worldVars
    <2>2. ui.at = "loop" /\ (proc = "up" => msg = <<>>)
      BY <1>0, <2>1 DEF Alone
    <2> QED
      BY <2>1, <2>2 DEF Chain
  <1>8. CASE DownloadPosts
    <2>1. /\ worker.at = "done" /\ worker' = Idle
          /\ UNCHANGED <<app, manifest, proc, ui, file>>
      BY <1>8 DEF DownloadPosts, worldVars
    <2>2. CASE proc = "up"
      <3>1. msg' = <<[what |-> "DLDONE", r |-> worker.r]>>
        BY <1>8, <1>0, <2>1, <2>2 DEF DownloadPosts, Deliver, Alone
      <3> QED
        BY <2>1, <3>1 DEF Chain, Idle
    <2>3. CASE proc # "up"
      BY <2>1, <2>3 DEF Chain, Idle
    <2> QED
      BY <2>2, <2>3
  <1>9. CASE OnResult
    <2>1. /\ proc = "up" /\ msg # <<>> /\ Head(msg).what = "RESULT"
          /\ UNCHANGED <<app, manifest, proc, worker, file>>
      BY <1>9 DEF OnResult, worldVars
    <2>2. worker.at = "none" /\ ui.at = "loop" /\ msg' = <<>>
      BY <1>9, <1>0, <2>1 DEF OnResult, Alone, MsgShape
    <2> DEFINE r == Head(msg).r
    <2>3. \/ ui' = ui
          \/ ui' = [at |-> "notice", r |-> r]
          \/ ui' = [at |-> "offer", r |-> r] /\ r.v # 0 /\ Older(app, r.v)
      BY <1>9 DEF OnResult, Say, Offer, Placeholder
    <2>4. CASE ui' = [at |-> "offer", r |-> r] /\ r.v # 0 /\ Older(app, r.v)
      <3>1. app \in 1 .. Len(Releases) /\ r.v \in 1 .. Len(Releases)
        BY <2>1, <2>4 DEF Chain, PublishedInOrder
      <3>2. app < r.v
        BY <2>4, <3>1 DEF PublishedInOrder
      <3> QED
        BY <2>1, <2>2, <2>4, <3>1, <3>2 DEF Chain
    <2>5. CASE ui' = ui \/ ui' = [at |-> "notice", r |-> r]
      BY <2>1, <2>2, <2>5 DEF Chain
    <2> QED
      BY <2>3, <2>4, <2>5
  <1>10. CASE OnDownloadDone
    <2>1. /\ proc = "up" /\ msg # <<>> /\ Head(msg).what = "DLDONE"
          /\ UNCHANGED <<app, manifest, proc, worker, file>>
          /\ ui' = [at |-> IF Head(msg).r.ok THEN "confirm" ELSE "sorry", r |-> Head(msg).r]
      BY <1>10 DEF OnDownloadDone, worldVars
    <2>2. worker.at = "none" /\ msg' = <<>>
      <3>1. msg = <<Head(msg)>> /\ msg' = Tail(msg)
        BY <1>10, <1>0, <2>1 DEF OnDownloadDone, MsgShape
      <3> QED
        BY <1>0, <2>1, <3>1 DEF Alone
    <2> DEFINE d == Head(msg).r
    <2>3. Newer(d.v) /\ (d.ok => file = d.v)
      BY <2>1 DEF Chain
    <2>4. CASE d.ok
      <3>1. ui' = [at |-> "confirm", r |-> d] /\ file = d.v
        BY <2>1, <2>3, <2>4
      <3> QED
        BY <2>1, <2>2, <2>3, <3>1 DEF Chain
    <2>5. CASE ~d.ok
      <3>1. ui' = [at |-> "sorry", r |-> d]
        BY <2>1, <2>5
      <3> QED
        BY <2>1, <2>2, <3>1 DEF Chain
    <2> QED
      BY <2>4, <2>5
  <1>11. CASE Dismiss
    BY <1>11 DEF Dismiss, Loop, Chain, worldVars
  <1>12. CASE Answer
    <2>1. /\ ui.at = "offer" /\ ui' = Loop
          /\ UNCHANGED <<app, manifest, proc, msg, file>>
          /\ worker' = worker \/ worker' = [at |-> "download", r |-> [v |-> ui.r.v]]
      BY <1>12 DEF Answer, worldVars
    <2> QED
      BY <2>1 DEF Chain, Loop
  <1>13. CASE Confirm
    <2>1. /\ ui.at = "confirm" /\ proc = "up"
          /\ UNCHANGED <<manifest, worker, msg, file>>
      BY <1>13, <1>0 DEF Confirm
    <2>2. worker.at = "none" /\ msg = <<>>
      BY <1>0, <2>1 DEF Alone
    <2>3. CASE app' = file /\ ui' = Loop
      BY <2>1, <2>2, <2>3 DEF Chain, Loop
    <2>4. CASE app' = app /\ ui' = [ui EXCEPT !.at = "sorry"]
      <3>1. ui' = [at |-> "sorry", r |-> ui.r]
        BY <1>0, <2>4 DEF UiShape
      <3> QED
        BY <2>1, <2>2, <2>4, <3>1 DEF Chain
    <2> QED
      BY <1>13, <2>3, <2>4 DEF Confirm
  <1>14. CASE Close
    BY <1>14 DEF Close, Chain, worldVars
  <1>15. CASE ProcessEnds
    BY <1>15 DEF ProcessEnds, Idle, Chain, worldVars
  <1>16. CASE Publish
    <2>1. Published(manifest'.v)
      BY <1>16 DEF Publish, Chain, PublishedInOrder
    <2> QED
      BY <1>16, <2>1 DEF Publish, Chain
  <1>17. CASE Tick
    BY <1>17 DEF Tick, Chain
  <1>18. CASE UNCHANGED vars
    BY <1>18 DEF vars, worldVars, Chain
  <1> QED
    BY <1>1, <1>2, <1>3, <1>4, <1>5, <1>6, <1>7, <1>8, <1>9, <1>10, <1>11, <1>12,
       <1>13, <1>14, <1>15, <1>16, <1>17, <1>18 DEF Next, Worker, Window, User

(* The step on which the installed release changes is the confirmation.       *)
LEMMA ChainInstalls ==
    ASSUME PublishedInOrder
    PROVE  Chain /\ [Next]_vars => (app' # app => app' = ui.r.v /\ app' > app)
  <1> SUFFICES ASSUME Chain, [Next]_vars, app' # app
               PROVE  app' = ui.r.v /\ app' > app
    OBVIOUS
  <1>1. Confirm
    BY DEF Next, vars, worldVars, Worker, Window, User, Launch, ManualCheck, StartupCheck,
       FetchReturns, CheckPosts, DownloadReturns, Verify, DownloadPosts, OnResult,
       OnDownloadDone, Dismiss, Answer, Close, ProcessEnds, Publish, Tick
  <1>2. ui.at = "confirm" /\ app' = file
    BY <1>1 DEF Confirm
  <1> QED
    BY <1>2 DEF Chain, Newer, PublishedInOrder

(* suite_update.h:32-34: where the comparison agrees with the order of        *)
(* publication, what the installer is started on is the release the user was  *)
(* offered, verified against its own hash, and newer than the installed one,  *)
(* whatever the publisher does between the offer and the download.            *)
THEOREM UpdateInstallsWhatWasOffered ==
    ASSUME PublishedInOrder
    PROVE  Spec => InstallsWhatWasOffered
  <1>1. Init => OneThing /\ Chain
    BY OneThingInit, ChainInit
  <1>2. OneThing /\ Chain /\ [Next]_vars => (OneThing /\ Chain)'
    BY OneThingStep, ChainStep
  <1>3. OneThing /\ Chain /\ [Next]_vars => [app' # app => app' = ui.r.v /\ app' > app]_vars
    BY ChainInstalls
  <1> QED
    BY <1>1, <1>2, <1>3, PTL DEF Spec, InstallsWhatWasOffered

-------------------------------------------------------------------------------
(* The boxes.  A check that answers in manual mode is one the user asked for  *)
(* in this launch, from the thread over the message to the box; what an open  *)
(* box says stays true because neither the installed release nor the skipped  *)
(* one changes while it is open.                                              *)

ManualWasAsked ==
    /\ worker.at \in {"fetch", "post"} /\ mode = "manual" => asked
    /\ proc = "up" /\ msg # <<>> /\ Head(msg).what = "RESULT" /\ Head(msg).r.mode = "manual" => asked

Due ==
    /\ Published(skipped)
    /\ ManualWasAsked
    /\ BoxIsDue

LEMMA DueInit == ASSUME PublishedInOrder PROVE Init => Due
  BY DEF PublishedInOrder, Published, Init, Idle, Loop, Due, ManualWasAsked, BoxIsDue

(* The box on_result opens, or none, is due.                                  *)
LEMMA ResultIsDue ==
    ASSUME PublishedInOrder, OneThing, Chain, Due, OnResult
    PROVE  BoxIsDue'
  <1> DEFINE r == Head(msg).r
  <1>1. /\ proc = "up" /\ msg # <<>> /\ Head(msg).what = "RESULT" /\ ui.at = "loop"
        /\ UNCHANGED <<app, skipped, asked>>
    BY DEF OnResult, worldVars, settingVars
  <1>2. /\ Published(r.v) /\ Published(skipped) /\ app \in 1 .. Len(Releases) /\ Len(Releases) \in Nat
        /\ r.mode = "manual" => asked
    BY <1>1 DEF Chain, Due, ManualWasAsked, PublishedInOrder
  <1>3. CASE ui' = ui
    BY <1>1, <1>3 DEF Due, BoxIsDue
  <1>4. CASE /\ ui' = [at |-> "notice", r |-> r] /\ r.mode = "manual"
             /\ ~r.ok \/ Placeholder(r) \/ ~Older(app, r.v)
    <2>1. r.ok => r.v <= app
      <3>1. CASE r.v = 0
        BY <1>2, <3>1
      <3>2. CASE r.v # 0
        <4>1. r.v \in 1 .. Len(Releases)
          BY <1>2, <3>2 DEF Published
        <4>2. Older(app, r.v) <=> app < r.v
          BY <1>2, <4>1 DEF PublishedInOrder
        <4> QED
          BY <1>2, <1>4, <3>2, <4>1, <4>2 DEF Placeholder
      <3> QED
        BY <3>1, <3>2
    <2> QED
      BY <1>1, <1>2, <1>4, <2>1 DEF BoxIsDue
  <1>5. CASE /\ ui' = [at |-> "offer", r |-> r] /\ r.v # 0
             /\ ~WasSkipped(r)
    <2>1. r.mode = "startup" => r.v > skipped
      <3>1. r.v \in 1 .. Len(Releases)
        BY <1>2, <1>5 DEF Published
      <3>2. skipped \in 1 .. Len(Releases) => (Older(skipped, r.v) <=> skipped < r.v)
        BY <3>1 DEF PublishedInOrder
      <3> QED
        BY <1>2, <1>5, <3>1, <3>2 DEF WasSkipped, Published
    <2> QED
      BY <1>1, <1>5, <2>1 DEF BoxIsDue
  <1> QED
    BY <1>3, <1>4, <1>5 DEF OnResult, Say, Offer, Placeholder

LEMMA DueStep ==
    ASSUME PublishedInOrder
    PROVE  OneThing /\ Chain /\ Due /\ [Next]_vars => Due'
  <1> SUFFICES ASSUME OneThing, Chain, Due, [Next]_vars PROVE Due'
    OBVIOUS
  <1> USE DEF Published, Due, ManualWasAsked, settingVars, worldVars, histVars
  <1>0. /\ MsgShape /\ WorkerShape
        /\ proc = "up" => Alone
        /\ proc = "off" => worker.at = "none"
    BY DEF OneThing
  <1>1. CASE Launch
    BY <1>0, <1>1 DEF Launch, Loop, BoxIsDue
  <1>2. CASE ManualCheck
    BY <1>2 DEF ManualCheck, BoxIsDue
  <1>3. CASE StartupCheck
    BY <1>3 DEF StartupCheck, StartCheck, BoxIsDue
  <1>4. CASE FetchReturns
    <2>1. worker.at = "fetch" /\ mode' = mode /\ msg' = msg /\ proc' = proc /\ asked' = asked
      BY <1>4 DEF FetchReturns
    <2>2. ManualWasAsked'
      BY <2>1
    <2> QED
      BY <1>4, <2>2 DEF FetchReturns, BoxIsDue
  <1>5. CASE CheckPosts
    <2>1. /\ worker.at = "post" /\ worker'.at = "none"
          /\ UNCHANGED <<app, skipped, proc, mode, ui, asked>>
      BY <1>5 DEF CheckPosts, Idle
    <2>2. CASE proc = "up"
      <3> DEFINE r == [worker.r EXCEPT !.mode = mode]
      <3>1. msg' = <<[what |-> "RESULT", r |-> r]>>
        BY <1>5, <1>0, <2>1, <2>2 DEF CheckPosts, Deliver, Alone
      <3>2. r.mode = mode
        BY <2>1 DEF Chain
      <3> HIDE DEF r
      <3>3. Head(msg').r.mode = mode
        BY <3>1, <3>2
      <3>4. ManualWasAsked'
        BY <2>1, <3>3
      <3> QED
        BY <2>1, <3>4 DEF BoxIsDue
    <2>3. CASE proc # "up"
      BY <2>1, <2>3 DEF BoxIsDue
    <2> QED
      BY <2>2, <2>3
  <1>6. CASE DownloadReturns
    <2>1. worker'.at \in {"verify", "done"}
      BY <1>6, <1>0 DEF DownloadReturns, WorkerShape
    <2> QED
      BY <1>6, <2>1 DEF DownloadReturns, BoxIsDue
  <1>7. CASE Verify
    <2>1. worker'.at = "done"
      BY <1>7 DEF Verify
    <2> QED
      BY <1>7, <2>1 DEF Verify, BoxIsDue
  <1>8. CASE DownloadPosts
    <2>1. /\ worker.at = "done" /\ worker'.at = "none"
          /\ UNCHANGED <<app, skipped, proc, mode, ui, asked>>
      BY <1>8 DEF DownloadPosts, Idle
    <2>2. CASE proc = "up"
      <3>1. msg' = <<[what |-> "DLDONE", r |-> worker.r]>>
        BY <1>8, <1>0, <2>1, <2>2 DEF DownloadPosts, Deliver, Alone
      <3> QED
        BY <2>1, <3>1 DEF BoxIsDue
    <2>3. CASE proc # "up"
      BY <2>1, <2>3 DEF BoxIsDue
    <2> QED
      BY <2>2, <2>3
  <1>9. CASE OnResult
    <2>1. BoxIsDue'
      BY <1>9, ResultIsDue
    <2>2. worker' = worker /\ worker.at = "none" /\ msg' = <<>> /\ skipped' = skipped
      <3>1. proc = "up" /\ msg = <<Head(msg)>> /\ msg' = Tail(msg)
        BY <1>9, <1>0 DEF OnResult, MsgShape
      <3>2. worker' = worker /\ skipped' = skipped
        BY <1>9 DEF OnResult
      <3>3. worker.at = "none"
        BY <1>0, <3>1 DEF Alone
      <3>4. msg' = <<>>
        <4>1. PICK m : msg = <<m>> /\ msg' = Tail(msg)
          BY <3>1
        <4> QED
          BY <4>1
      <3> QED
        BY <3>2, <3>3, <3>4
    <2> QED
      BY <2>1, <2>2
  <1>10. CASE OnDownloadDone
    <2>1. worker' = worker /\ worker.at = "none" /\ msg' = <<>> /\ skipped' = skipped
      <3>1. proc = "up" /\ msg = <<Head(msg)>> /\ msg' = Tail(msg)
        BY <1>10, <1>0 DEF OnDownloadDone, MsgShape
      <3>2. worker' = worker /\ skipped' = skipped
        BY <1>10 DEF OnDownloadDone
      <3>3. worker.at = "none"
        BY <1>0, <3>1 DEF Alone
      <3>4. msg' = <<>>
        <4>1. PICK m : msg = <<m>> /\ msg' = Tail(msg)
          BY <3>1
        <4> QED
          BY <4>1
      <3> QED
        BY <3>2, <3>3, <3>4
    <2>2. ui'.at \in {"confirm", "sorry"}
      BY <1>10 DEF OnDownloadDone
    <2> QED
      BY <2>1, <2>2 DEF BoxIsDue
  <1>11. CASE Dismiss
    BY <1>11 DEF Dismiss, Loop, BoxIsDue
  <1>12. CASE Answer
    <2>1. /\ ui.at = "offer" /\ ui'.at = "loop"
          /\ UNCHANGED <<app, proc, mode, msg, asked>>
          /\ skipped' \in {skipped, ui.r.v}
          /\ worker' = worker \/ worker'.at = "download"
      BY <1>12 DEF Answer, Loop
    <2>2. Published(skipped')
      BY <2>1 DEF Chain, Newer
    <2> QED
      BY <2>1, <2>2 DEF BoxIsDue
  <1>13. CASE Confirm
    <2>1. ui'.at \in {"loop", "sorry"}
      BY <1>13 DEF Confirm, Loop, OneThing, UiShape
    <2>2. /\ proc' = proc \/ proc' = "closing"
          /\ UNCHANGED <<skipped, mode, worker, msg, asked>>
      BY <1>13 DEF Confirm
    <2> QED
      BY <2>1, <2>2 DEF BoxIsDue
  <1>14. CASE Close
    BY <1>14 DEF Close, BoxIsDue
  <1>15. CASE ProcessEnds
    BY <1>15 DEF ProcessEnds, Idle, BoxIsDue
  <1>16. CASE Publish \/ Tick \/ UNCHANGED vars
    BY <1>16 DEF Publish, Tick, vars, BoxIsDue
  <1> QED
    BY <1>1, <1>2, <1>3, <1>4, <1>5, <1>6, <1>7, <1>8, <1>9, <1>10, <1>11, <1>12,
       <1>13, <1>14, <1>15, <1>16 DEF Next, Worker, Window, User

(* suite_update.h:98-100 and 131: where the comparison agrees with the order  *)
(* of publication, no startup check offers a release the user skipped or one  *)
(* before it, and no box says there is nothing, or that the check failed, to  *)
(* a user who never asked in this launch (on_result, start_check).            *)
THEOREM UpdateBoxIsDue ==
    ASSUME PublishedInOrder
    PROVE  Spec => []BoxIsDue
  <1>1. Init => OneThing /\ Chain /\ Due
    BY OneThingInit, ChainInit, DueInit
  <1>2. OneThing /\ Chain /\ Due /\ [Next]_vars => (OneThing /\ Chain /\ Due)'
    BY OneThingStep, ChainStep, DueStep
  <1>3. Due => BoxIsDue
    BY DEF Due
  <1> QED
    BY <1>1, <1>2, <1>3, PTL DEF Spec

===============================================================================
