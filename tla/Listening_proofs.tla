--------------------------- MODULE Listening_proofs ---------------------------
(* Machine-checked theorems about what the Suite plays: the radio            *)
(* (RadioEngine), the playback of a sound (AudioService) and the television  *)
(* (LiveTv), for any sizes of ring, reads and frames and any number of       *)
(* starts, requests and attempts.                                            *)
EXTENDS RadioEngine, AudioService, LiveTv, WellFoundedInduction, TLAPS

-------------------------------------------------------------------------------
(* The radio: when its engine may be freed under its worker.                 *)

UiShape == ui \in [st : {"SPLASH", "LOADING", "PLAYING", "ERROR", "gone"}, at : {"loop", "join"}]

\* The UI thread joins only what it has told to stop.
JoinFollowsStop == ui.at = "join" => stop

\* A request that is open although the stop was signalled was opened after it;
\* its worker never reads.
OpenedLate == stop /\ request = "open" => wk \in {"send", "read", "teardown", "joinrender"}

RadioInv == UiShape /\ JoinFollowsStop /\ OpenedLate /\ ReaderIsJoined

LEMMA RadioInvInit == Init => RadioInv
BY DEF Init, RadioInv, UiShape, JoinFollowsStop, OpenedLate, ReaderIsJoined

LEMMA RadioInvStep == RadioInv /\ [Next]_vars => RadioInv'
<1> SUFFICES ASSUME RadioInv, [Next]_vars PROVE RadioInv'
  OBVIOUS
<1> USE DEF RadioInv, UiShape, JoinFollowsStop, OpenedLate, ReaderIsJoined,
            uiVars, netVars, wkKept, Works
<1>1. CASE EnterLoading
  BY <1>1 DEF EnterLoading, NoEngine
<1>2. CASE EnterStopped \/ Destroy
  BY <1>2 DEF EnterStopped, Destroy, ReStop, StopSignals
<1>3. CASE JoinEnds
  BY <1>3 DEF JoinEnds, Uncancelled
<1>4. CASE OnEngineState
  BY <1>4 DEF OnEngineState
<1>5. CASE WorkerStarts \/ OpensRequest \/ ResponseArrives \/ OpenFails
  BY <1>5 DEF WorkerStarts, OpensRequest, ResponseArrives, OpenFails
<1>6. CASE LooksAtStop \/ LoopEnds \/ Reads
  BY <1>6 DEF LooksAtStop, LoopEnds, Reads
<1>7. CASE ConsumesAudio \/ ConsumesLength \/ ConsumesMeta \/ ChunkDone
  BY <1>7 DEF ConsumesAudio, ConsumesLength, ConsumesMeta, ChunkDone
<1>8. CASE NoFrame \/ DecoderMade \/ Decodes \/ WasapiStarts \/ WritesPcm
  BY <1>8 DEF NoFrame, DecoderMade, Decodes, WasapiStarts, WritesPcm
<1>9. CASE Teardown \/ WorkerEnds
  BY <1>9 DEF Teardown, TeardownSignals, WorkerEnds
<1>10. CASE Render \/ ServerSends
  BY <1>10 DEF Render, RenderWakes, RenderFills, ServerSends
<1>11. CASE UNCHANGED vars
  BY <1>11 DEF vars
<1>12. QED
  BY <1>1, <1>2, <1>3, <1>4, <1>5, <1>6, <1>7, <1>8, <1>9, <1>10, <1>11 DEF Next, Ui, Worker

(* Closing the request handle ends a worker in its read loop within the join: *)
(* only one that was still to open it, or waits for the response, can lose    *)
(* its engine (radio_engine.c:1157-1162, 1020-1040).                          *)
THEOREM RadioReaderIsJoined == Spec => []ReaderIsJoined
<1>1. RadioInv => ReaderIsJoined
  BY DEF RadioInv
<1>2. QED
  BY <1>1, RadioInvInit, RadioInvStep, PTL DEF Spec

-------------------------------------------------------------------------------
(* What the tab shows of the engine.                                         *)

RunStates == {"IDLE", "CONNECTING", "PLAYING", "ERROR", "STOPPED"}
EnginePlaces == {"start", "open", "send", "read", "recv", "consume", "frame", "write",
                 "teardown", "joinrender", "ended"}

Tells == {"PLAYING", "ERROR"}
Announced(state) == \E i \in DOMAIN msgs : msgs[i] = state
OneTell(box) == \A i, j \in DOMAIN box : box[i] \in Tells /\ box[j] \in Tells => i = j

TabShape == msgs \in Seq(RunStates) /\ run \in RunStates /\ (ui.st # "gone" => OneTell(msgs))

\* What the engine has said of itself, by where its worker is.
EngineSays ==
  engine = "live" =>
    /\ wk \in EnginePlaces
    /\ wk = "start" => run = "IDLE" /\ ~wasapi
    /\ wk \in {"open", "send"} => run = "CONNECTING" /\ ~wasapi
    /\ wk \in {"read", "recv", "consume", "frame", "write"} =>
         (wasapi /\ run = "PLAYING") \/ (~wasapi /\ run = "CONNECTING")
    /\ wk \in {"teardown", "joinrender"} =>
         run \in {"ERROR", "PLAYING"} \/ (run = "CONNECTING" /\ ui.at = "join")
    /\ wk = "ended" => run \in {"ERROR", "STOPPED"}
    /\ stop /\ ui.at = "loop" => wk \in {"joinrender", "ended"}

\* What the tab shows it has been told by the engine it has, and what it has not
\* been told yet is on its way.
TabIsTold ==
  /\ ui.st # "gone" /\ engine # "live" => ui.st = "SPLASH" /\ ~Announced("PLAYING") /\ ~Announced("ERROR")
  /\ engine = "live" /\ ui.st = "gone" => ui.at = "join"
  /\ engine = "live" /\ ui.st = "LOADING" =>
       /\ ui.at = "loop"
       /\ Announced("ERROR") <=> run = "ERROR"
       /\ Announced("PLAYING") <=> run \in {"PLAYING", "STOPPED"}
  /\ engine = "live" /\ ui.st \in {"SPLASH", "PLAYING", "ERROR"} =>
       /\ ~Announced("PLAYING") /\ ~Announced("ERROR")
       /\ run \in IF ui.st = "ERROR" THEN {"ERROR"} ELSE {"PLAYING", "STOPPED"}
       /\ ui.at = IF ui.st = "SPLASH" THEN "join" ELSE "loop"

TabInv == UiShape /\ TabShape /\ EngineSays /\ TabIsTold

LEMMA Posted ==
  ASSUME msgs \in Seq(RunStates), NEW state \in RunStates, msgs' = Append(msgs, state)
  PROVE  /\ msgs' \in Seq(RunStates)
         /\ \A s : Announced(s)' <=> Announced(s) \/ s = state
         /\ OneTell(msgs) /\ (state \notin Tells \/ (~Announced("PLAYING") /\ ~Announced("ERROR"))) => OneTell(msgs)'
<1>1. /\ msgs' \in Seq(RunStates) /\ Len(msgs) \in Nat /\ DOMAIN msgs = 1 .. Len(msgs)
      /\ DOMAIN msgs' = 1 .. Len(msgs) + 1 /\ msgs'[Len(msgs) + 1] = state
      /\ \A i \in DOMAIN msgs : i \in DOMAIN msgs' /\ msgs'[i] = msgs[i]
      /\ \A i \in DOMAIN msgs' : i = Len(msgs) + 1 \/ i \in DOMAIN msgs
  OBVIOUS
<1>2. Len(msgs) + 1 \in DOMAIN msgs'
  BY <1>1
<1>3. \A s : Announced(s)' <=> Announced(s) \/ s = state
  BY <1>1, <1>2 DEF Announced
<1>4. ASSUME OneTell(msgs), state \notin Tells \/ (~Announced("PLAYING") /\ ~Announced("ERROR"))
      PROVE  OneTell(msgs)'
  BY <1>1, <1>4 DEF OneTell, Announced, Tells
<1>5. QED
  BY <1>1, <1>3, <1>4

LEMMA Taken ==
  ASSUME msgs \in Seq(RunStates), msgs # <<>>, msgs' = Tail(msgs)
  PROVE  /\ msgs' \in Seq(RunStates) /\ Head(msgs) \in RunStates
         /\ \A s : Announced(s) <=> Announced(s)' \/ s = Head(msgs)
         /\ OneTell(msgs) => /\ OneTell(msgs)'
                             /\ Head(msgs) \in Tells => ~Announced("PLAYING")' /\ ~Announced("ERROR")'
<1>1. /\ msgs' \in Seq(RunStates) /\ Head(msgs) \in RunStates /\ Head(msgs) = msgs[1] /\ Len(msgs) \in Nat /\ Len(msgs) > 0
      /\ DOMAIN msgs = 1 .. Len(msgs) /\ DOMAIN msgs' = 1 .. Len(msgs) - 1
  OBVIOUS
<1>2. /\ 1 \in DOMAIN msgs
      /\ \A i \in DOMAIN msgs' : i + 1 \in DOMAIN msgs /\ i + 1 # 1 /\ msgs'[i] = msgs[i + 1]
      /\ \A i \in DOMAIN msgs : i = 1 \/ (i - 1 \in DOMAIN msgs' /\ msgs'[i - 1] = msgs[i])
  <2>1. 1 \in DOMAIN msgs
    BY <1>1
  <2>2. ASSUME NEW i \in DOMAIN msgs' PROVE i + 1 \in DOMAIN msgs /\ i + 1 # 1 /\ msgs'[i] = msgs[i + 1]
    BY <1>1
  <2>3. ASSUME NEW i \in DOMAIN msgs, i # 1 PROVE i - 1 \in DOMAIN msgs' /\ msgs'[i - 1] = msgs[i]
    <3>1. i - 1 \in DOMAIN msgs' /\ (i - 1) + 1 = i
      BY <1>1, <2>3
    <3>2. QED
      BY <2>2, <3>1
  <2>4. QED
    BY <2>1, <2>2, <2>3
<1>3. \A s : Announced(s) <=> Announced(s)' \/ s = Head(msgs)
  <2>1. Head(msgs) = msgs[1]
    BY <1>1
  <2>2. ASSUME NEW s, Announced(s) PROVE Announced(s)' \/ s = Head(msgs)
    <3>1. PICK i \in DOMAIN msgs : msgs[i] = s
      BY <2>2 DEF Announced
    <3>2. QED
      BY <1>2, <2>1, <3>1 DEF Announced
  <2>3. ASSUME NEW s, Announced(s)' \/ s = Head(msgs) PROVE Announced(s)
    BY <1>2, <2>1, <2>3 DEF Announced
  <2>4. QED
    BY <2>2, <2>3
<1>4. ASSUME OneTell(msgs)
      PROVE  OneTell(msgs)' /\ (Head(msgs) \in Tells => ~Announced("PLAYING")' /\ ~Announced("ERROR")')
  <2>1. \A i, j \in DOMAIN msgs' : i + 1 = j + 1 => i = j
    BY <1>1
  <2>2. OneTell(msgs)'
    BY <1>2, <1>4, <2>1 DEF OneTell
  <2>3. Head(msgs) \in Tells => ~Announced("PLAYING")' /\ ~Announced("ERROR")'
    BY <1>1, <1>2, <1>4 DEF OneTell, Announced, Tells
  <2>4. QED
    BY <2>2, <2>3
<1>5. QED
  BY <1>1, <1>3, <1>4

LEMMA TabInvInit == Init => TabInv
<1> SUFFICES ASSUME Init PROVE TabInv
  OBVIOUS
<1>1. msgs = <<>> /\ <<>> \in Seq(RunStates) /\ DOMAIN msgs = {}
  BY DEF Init
<1>2. ~Announced("PLAYING") /\ ~Announced("ERROR") /\ OneTell(msgs)
  BY <1>1 DEF Announced, OneTell
<1>3. QED
  BY <1>1, <1>2 DEF Init, TabInv, UiShape, TabShape, RunStates, EngineSays, TabIsTold

\* The worker's steps that publish nothing.
LEMMA SilentWorker ==
  ASSUME TabInv, engine = "live", UNCHANGED <<ui, engine, msgs, run, stop>>,
         \/ wk' = wk /\ wasapi' = wasapi
         \/ wk = "open" /\ wk' = "send" /\ wasapi' = wasapi
         \/ wk = "send" /\ wk' = "read" /\ wasapi' = wasapi
         \/ /\ wk \in {"read", "recv", "consume", "frame", "write"} /\ wasapi' = wasapi
            /\ wk' \in {"read", "recv", "consume", "frame", "write"}
         \/ wk \in {"read", "recv"} /\ wk' = "teardown" /\ (wasapi \/ stop)
  PROVE  TabInv'
BY DEF TabInv, UiShape, TabShape, EngineSays, TabIsTold, Announced, OneTell, EnginePlaces

LEMMA TabInvStep == TabInv /\ [Next]_vars => TabInv'
<1> SUFFICES ASSUME TabInv, [Next]_vars PROVE TabInv'
  OBVIOUS
<1>1. CASE EnterLoading
  <2>1. /\ ui.at = "loop" /\ ui.st \in {"SPLASH", "ERROR"} /\ engine' = "live" /\ wk' = "start" /\ msgs' = msgs
        /\ run' = "IDLE" /\ stop' = FALSE /\ wasapi' = FALSE /\ ui' = [ui EXCEPT !.st = "LOADING"]
    BY <1>1 DEF EnterLoading, NoEngine
  <2>2. QED
    BY <2>1 DEF TabInv, UiShape, TabShape, RunStates, OneTell, EngineSays, TabIsTold, Announced, EnginePlaces
<1>2. CASE EnterStopped \/ Destroy
  <2>1. /\ ui.at = "loop" /\ UNCHANGED <<engine, msgs, run, wk, wasapi>>
        /\ \/ ui.st = "PLAYING" /\ ui' = [st |-> "SPLASH", at |-> "join"]
           \/ engine = "live" /\ ui' = [st |-> "gone", at |-> "join"]
           \/ engine # "live" /\ ui' = [st |-> "gone", at |-> "loop"]
    BY <1>2 DEF EnterStopped, Destroy, ReStop, decVars
  <2>2. QED
    BY <2>1 DEF TabInv, UiShape, TabShape, RunStates, OneTell, EngineSays, TabIsTold, Announced, EnginePlaces
<1>3. CASE JoinEnds
  <2>1. ui.at = "join" /\ engine' # "live" /\ ui' = [ui EXCEPT !.at = "loop"] /\ UNCHANGED <<msgs, run>>
    BY <1>3 DEF JoinEnds
  <2>2. QED
    BY <2>1 DEF TabInv, UiShape, TabShape, RunStates, OneTell, EngineSays, TabIsTold, Announced
<1>4. CASE OnEngineState
  <2>1. /\ ui.at = "loop" /\ msgs # <<>> /\ msgs' = Tail(msgs)
        /\ ui' = IF ui.st # "gone" /\ Head(msgs) \in {"PLAYING", "ERROR"}
                 THEN [ui EXCEPT !.st = Head(msgs)] ELSE ui
        /\ UNCHANGED <<engine, run, stop, wk, wasapi>>
    BY <1>4 DEF OnEngineState, decVars
  <2>2. /\ msgs' \in Seq(RunStates)
        /\ \A s : Announced(s) <=> Announced(s)' \/ s = Head(msgs)
        /\ OneTell(msgs) => /\ OneTell(msgs)'
                            /\ Head(msgs) \in Tells => ~Announced("PLAYING")' /\ ~Announced("ERROR")'
    BY <2>1, Taken DEF TabInv, TabShape
  <2>3. CASE ui.st # "gone" /\ Head(msgs) \in {"PLAYING", "ERROR"}
    <3>1. engine = "live" /\ ui.st = "LOADING" /\ Announced(Head(msgs)) /\ ui' = [ui EXCEPT !.st = Head(msgs)]
      BY <2>1, <2>2, <2>3 DEF TabInv, UiShape, TabIsTold
    <3>2. ~Announced("PLAYING")' /\ ~Announced("ERROR")'
      BY <2>2, <2>3 DEF TabInv, TabShape, Tells
    <3>3. QED
      BY <2>1, <2>2, <2>3, <3>1, <3>2 DEF TabInv, UiShape, TabShape, EngineSays, TabIsTold
  <2>4. CASE ~(ui.st # "gone" /\ Head(msgs) \in {"PLAYING", "ERROR"})
    <3>1. ui' = ui
      BY <2>1, <2>4
    <3>2. ui.st # "gone" => (Announced("PLAYING")' <=> Announced("PLAYING")) /\ (Announced("ERROR")' <=> Announced("ERROR"))
      BY <2>2, <2>4
    <3>3. QED
      BY <2>1, <2>2, <3>1, <3>2 DEF TabInv, UiShape, TabShape, EngineSays, TabIsTold
  <2>5. QED
    BY <2>3, <2>4
<1>5. ASSUME NEW state \in RunStates, Publish(state), engine = "live", UNCHANGED <<ui, engine, stop>>,
             \/ wk = "start" /\ state = "CONNECTING" /\ wk' = "open" /\ wasapi' = wasapi
             \/ wk \in {"open", "send"} /\ state = "ERROR" /\ wk' = "teardown" /\ wasapi' = wasapi
             \/ /\ wk \in {"read", "recv"} /\ ~wasapi /\ ~stop /\ run # "ERROR"
                /\ state = "ERROR" /\ wk' = "teardown" /\ wasapi' = wasapi
             \/ wk = "write" /\ ~wasapi /\ state = "PLAYING" /\ wk' = wk /\ wasapi' = TRUE
             \/ wk = "joinrender" /\ run # "ERROR" /\ state = "STOPPED" /\ wk' = "ended"
      PROVE  TabInv'
  <2>1. /\ msgs' \in Seq(RunStates) /\ run' = state
        /\ \A s : Announced(s)' <=> Announced(s) \/ s = state
        /\ OneTell(msgs) /\ (state \notin Tells \/ (~Announced("PLAYING") /\ ~Announced("ERROR"))) => OneTell(msgs)'
    BY <1>5, Posted DEF TabInv, TabShape, Publish
  <2>2. ui.st # "gone" /\ state \in Tells => ui.st = "LOADING" /\ run = "CONNECTING" /\ ~Announced("PLAYING") /\ ~Announced("ERROR")
    BY <1>5 DEF TabInv, UiShape, EngineSays, TabIsTold, Tells
  <2>3. UiShape' /\ TabShape'
    BY <1>5, <2>1, <2>2 DEF TabInv, UiShape, TabShape
  <2>4. EngineSays'
    BY <1>5, <2>1 DEF TabInv, UiShape, EngineSays, TabIsTold, EnginePlaces
  <2>5. TabIsTold'
    BY <1>5, <2>1, <2>2 DEF TabInv, UiShape, EngineSays, TabIsTold, Tells
  <2>6. QED
    BY <2>3, <2>4, <2>5 DEF TabInv
<1>6. CASE WorkerStarts \/ OpenFails
  BY <1>5, <1>6 DEF WorkerStarts, OpenFails, Works, wkKept, uiVars, decVars, RunStates
<1>7. CASE LoopEnds
  <2>1. /\ engine = "live" /\ wk \in {"read", "recv"} /\ wk' = "teardown" /\ UNCHANGED <<ui, engine, stop, wasapi>>
        /\ IF ~wasapi /\ ~stop /\ run # "ERROR" THEN Publish("ERROR") ELSE UNCHANGED <<run, msgs>>
    BY <1>7 DEF LoopEnds, GaveUp, Works, wkKept, uiVars, decVars
  <2>2. CASE ~wasapi /\ ~stop /\ run # "ERROR"
    BY <2>1, <2>2, <1>5 DEF RunStates
  <2>3. CASE ~(~wasapi /\ ~stop /\ run # "ERROR")
    <3>1. wasapi \/ stop
      BY <2>1, <2>3 DEF TabInv, EngineSays
    <3>2. QED
      BY <2>1, <2>3, <3>1, SilentWorker
  <2>4. QED
    BY <2>2, <2>3
<1>8. CASE WasapiStarts
  <2>1. /\ engine = "live" /\ wk = "write" /\ ~wasapi /\ UNCHANGED <<ui, engine, stop>>
        /\ \/ wasapi' = TRUE /\ Publish("PLAYING") /\ wk' = wk
           \/ wk' = "frame" /\ UNCHANGED <<wasapi, run, msgs>>
    BY <1>8 DEF WasapiStarts, Works, wkKept, uiVars
  <2>2. QED
    BY <2>1, <1>5, SilentWorker DEF RunStates
<1>9. CASE WorkerEnds
  <2>1. /\ engine = "live" /\ wk = "joinrender" /\ wk' = "ended" /\ wasapi' = FALSE
        /\ UNCHANGED <<ui, engine, stop>>
        /\ IF run # "ERROR" THEN Publish("STOPPED") ELSE UNCHANGED <<run, msgs>>
    BY <1>9 DEF WorkerEnds, Works, Farewell, wkKept, uiVars
  <2>2. CASE run # "ERROR"
    BY <2>1, <2>2, <1>5 DEF RunStates
  <2>3. CASE run = "ERROR"
    BY <2>1, <2>3 DEF TabInv, UiShape, TabShape, EngineSays, TabIsTold, Announced, OneTell, EnginePlaces
  <2>4. QED
    BY <2>2, <2>3
<1>10. CASE Teardown
  <2>1. /\ engine = "live" /\ wk = "teardown" /\ wk' = "joinrender"
        /\ UNCHANGED <<ui, engine, msgs, run, wasapi>>
    BY <1>10 DEF Teardown, Works, wkKept, uiVars, decVars
  <2>2. QED
    BY <2>1 DEF TabInv, UiShape, TabShape, EngineSays, TabIsTold, Announced, OneTell, EnginePlaces
<1>11. CASE OpensRequest \/ ResponseArrives \/ LooksAtStop \/ Reads
  BY <1>11, SilentWorker DEF OpensRequest, ResponseArrives, LooksAtStop, Reads, Works, wkKept, uiVars, decVars
<1>12. CASE ConsumesAudio \/ ConsumesLength \/ ConsumesMeta \/ ChunkDone
  BY <1>12, SilentWorker DEF ConsumesAudio, ConsumesLength, ConsumesMeta, ChunkDone, Works, wkKept, uiVars, decVars
<1>13. CASE NoFrame \/ DecoderMade \/ Decodes \/ WritesPcm
  BY <1>13, SilentWorker DEF NoFrame, DecoderMade, Decodes, WritesPcm, Works, wkKept, uiVars, decVars
<1>14. CASE Render \/ ServerSends
  BY <1>14, SilentWorker DEF Render, RenderWakes, RenderFills, ServerSends, Connected, uiVars, decVars
<1>15. CASE UNCHANGED vars
  BY <1>15 DEF vars, uiVars, decVars, TabInv, UiShape, TabShape, EngineSays, TabIsTold, Announced, OneTell
<1>16. QED
  BY <1>1, <1>2, <1>3, <1>4, <1>6, <1>7, <1>8, <1>9, <1>10, <1>11, <1>12, <1>13, <1>14, <1>15 DEF Next, Ui, Worker

(* When no message is under way the tab shows an error exactly when its      *)
(* engine has met one, and connecting or playing only for an engine that has *)
(* said no more (WM_LR_ENGINE_STATE, re_publish_state).            *)
THEOREM RadioTabFollowsEngine == Spec => []TabFollowsEngine
<1>1. TabInv => TabFollowsEngine
  BY DEF TabInv, UiShape, TabShape, EngineSays, TabIsTold, Announced, TabFollowsEngine, RunStates
<1>2. QED
  BY <1>1, TabInvInit, TabInvStep, PTL DEF Spec

-------------------------------------------------------------------------------
(* What is played is what was sent.  The stream between the splitter and the *)
(* server is read by a run of states: where the splitter is, after each      *)
(* symbol, up to where the server is.                                        *)

Symbols == [is : {"head", "data", "len", "meta"}, n : Int]

\* The k-th audio symbol of a listener who joined skip symbols before a frame.
Sound(k, skip) ==
  IF k <= skip THEN [is |-> "data", n |-> 0]
  ELSE [is |-> IF (k - skip) % FrameLen = 1 THEN "head" ELSE "data", n |-> ((k - skip - 1) \div FrameLen) + 1]

\* The splitter: the phase, what is left of it, the metadata it has, the audio
\* it has taken.
SplitterPlaces == [phase : {"audio", "len", "meta"}, left : Nat, got : Nat, audio : Nat]
SoundAt(left, audio) == [phase |-> "audio", left |-> left, got |-> 0, audio |-> audio]
LengthAt(audio) == [phase |-> "len", left |-> 0, got |-> 0, audio |-> audio]
AfterSound(m, left, audio) ==
  IF m # 0 /\ left = 0 THEN LengthAt(audio) ELSE SoundAt(left, audio)

\* s becomes t with the symbol x, when metadata comes after every m symbols.
OnSound(s, x, t, m, skip) ==
  /\ s.phase = "audio" /\ s.got = 0 /\ x = Sound(s.audio + 1, skip)
  /\ IF m = 0 THEN s.left = 0 /\ t = SoundAt(0, s.audio + 1)
     ELSE s.left > 0 /\ t = AfterSound(m, s.left - 1, s.audio + 1)
OnLength(s, x, t, m) ==
  /\ m # 0 /\ s = LengthAt(s.audio) /\ x.is = "len"
  /\ \/ x.n = 0 /\ t = SoundAt(m, s.audio)
     \/ x.n = 2 /\ t = [phase |-> "meta", left |-> 2, got |-> 0, audio |-> s.audio]
OnMeta(s, x, t, m) ==
  /\ m # 0 /\ s.phase = "meta" /\ s.left > 0 /\ s.left + s.got = 2 /\ x = [is |-> "meta", n |-> s.got + 1]
  /\ t = IF s.left = 1 THEN SoundAt(m, s.audio)
         ELSE [phase |-> "meta", left |-> s.left - 1, got |-> s.got + 1, audio |-> s.audio]
Fits(s, x, t, m, skip) == OnSound(s, x, t, m, skip) \/ OnLength(s, x, t, m) \/ OnMeta(s, x, t, m)

\* The states st read the stream q.
Track(st, q, m, skip) ==
  /\ st \in [0 .. Len(q) -> SplitterPlaces]
  /\ \A i \in 1 .. Len(q) : Fits(st[i - 1], q[i], st[i], m, skip)

-------------------------------------------------------------------------------
\* The server's audio is these sounds.
LEMMA SoundIsAudio == srv.skip \in Int => \A k \in Int : AudioSymbol(k) = Sound(k, srv.skip)
BY DEF AudioSymbol, Sound

\* Each is a symbol of the stream.
LEMMA SoundIsSymbol == ASSUME NEW k \in Nat, NEW skip \in Nat PROVE Sound(k, skip) \in Symbols
<1> DEFINE i == (k - skip - 1) \div FrameLen
           h == (k - skip) % FrameLen = 1
<1>1. i \in Int
  BY RadioAssumption
<1>2. Sound(k, skip) = IF k <= skip THEN [is |-> "data", n |-> 0] ELSE [is |-> IF h THEN "head" ELSE "data", n |-> i + 1]
  BY DEF Sound
<1> HIDE DEF i, h
<1>3. [is |-> "data", n |-> 0] \in Symbols
  BY DEF Symbols
<1>4. (IF h THEN "head" ELSE "data") \in {"head", "data", "len", "meta"} /\ i + 1 \in Int
  BY <1>1
<1>5. [is |-> IF h THEN "head" ELSE "data", n |-> i + 1] \in Symbols
  BY <1>4 DEF Symbols
<1>6. QED
  BY <1>2, <1>3, <1>5

\* The server adds a symbol to the end of the run.
LEMMA RunGrows ==
  ASSUME NEW q \in Seq(Symbols), NEW st, NEW m, NEW skip, Track(st, q, m, skip),
         NEW x \in Symbols, NEW t \in SplitterPlaces, Fits(st[Len(q)], x, t, m, skip)
  PROVE  \E r : Track(r, Append(q, x), m, skip) /\ r[0] = st[0] /\ r[Len(q) + 1] = t
<1> DEFINE n == Len(q)
           p == Append(q, x)
           r == [i \in 0 .. n + 1 |-> IF i = n + 1 THEN t ELSE st[i]]
<1>1. n \in Nat /\ Len(p) = n + 1 /\ p[n + 1] = x /\ \A i \in 1 .. n : p[i] = q[i]
  OBVIOUS
<1>2. st \in [0 .. n -> SplitterPlaces] /\ \A i \in 1 .. n : Fits(st[i - 1], q[i], st[i], m, skip)
  BY DEF Track
<1>3. r \in [0 .. n + 1 -> SplitterPlaces] /\ r[n + 1] = t /\ \A i \in 0 .. n : r[i] = st[i]
  BY <1>1, <1>2
<1>4. Fits(st[n], x, t, m, skip)
  OBVIOUS
<1> HIDE DEF n, p, r
<1>5. ASSUME NEW i \in 1 .. n + 1 PROVE Fits(r[i - 1], p[i], r[i], m, skip)
  <2>1. CASE i = n + 1
    <3>1. i - 1 = n /\ n \in 0 .. n
      BY <1>1, <2>1
    <3>2. r[i - 1] = st[n] /\ p[i] = x /\ r[i] = t
      BY <1>1, <1>3, <2>1, <3>1
    <3>3. QED
      BY <1>4, <3>2
  <2>2. CASE i # n + 1
    <3>1. i \in 1 .. n /\ i \in 0 .. n /\ i - 1 \in 0 .. n
      BY <1>1, <2>2
    <3>2. r[i - 1] = st[i - 1] /\ p[i] = q[i] /\ r[i] = st[i]
      BY <1>1, <1>3, <3>1
    <3>3. QED
      BY <1>2, <3>1, <3>2
  <2>3. QED
    BY <2>1, <2>2
<1>6. Track(r, p, m, skip) /\ r[0] = st[0]
  BY <1>1, <1>3, <1>5 DEF Track
<1>7. QED
  BY <1>3, <1>6 DEF n, p

\* The splitter takes k symbols from its front.
LEMMA RunMovesOn ==
  ASSUME NEW q \in Seq(Symbols), NEW st, NEW m, NEW skip, Track(st, q, m, skip),
         NEW k \in 0 .. Len(q)
  PROVE  \E r : Track(r, From(q, k), m, skip) /\ r[0] = st[k] /\ r[Len(q) - k] = st[Len(q)]
<1> DEFINE n == Len(q)
           p == From(q, k)
           r == [i \in 0 .. n - k |-> st[i + k]]
<1>1. n \in Nat /\ k \in Nat /\ k <= n /\ n - k \in Nat
  OBVIOUS
<1>2. Len(p) = n - k /\ \A i \in 1 .. n - k : p[i] = q[i + k]
  BY <1>1 DEF From
<1>3. st \in [0 .. n -> SplitterPlaces] /\ \A i \in 1 .. n : Fits(st[i - 1], q[i], st[i], m, skip)
  BY DEF Track
<1>4. r \in [0 .. n - k -> SplitterPlaces] /\ \A i \in 0 .. n - k : r[i] = st[i + k]
  BY <1>1, <1>3
<1> HIDE DEF n, p, r
<1>5. ASSUME NEW i \in 1 .. n - k PROVE Fits(r[i - 1], p[i], r[i], m, skip)
  <2>1. i + k \in 1 .. n /\ i - 1 \in 0 .. n - k /\ i \in 0 .. n - k /\ (i - 1) + k = (i + k) - 1
    BY <1>1
  <2>2. r[i - 1] = st[(i + k) - 1] /\ r[i] = st[i + k] /\ p[i] = q[i + k]
    BY <1>2, <1>4, <2>1
  <2>3. QED
    BY <1>3, <2>1, <2>2
<1>6. 0 \in 0 .. n - k /\ n - k \in 0 .. n - k /\ 0 + k = k /\ (n - k) + k = n
  BY <1>1
<1>7. Track(r, p, m, skip) /\ r[0] = st[k] /\ r[n - k] = st[n]
  BY <1>2, <1>4, <1>5, <1>6 DEF Track
<1>8. QED
  BY <1>7 DEF n, p

\* A set of numbers has a least.
LEMMA LeastNumber ==
    ASSUME NEW T \in SUBSET Nat, T # {}
    PROVE  \E s \in T : \A t \in T : s <= t
<1> DEFINE R == {ss \in Nat \X Nat : ss[1] < ss[2]}
<1>1. IsWellFoundedOn(R, Nat)
  BY NatLessThanWellFounded, Zenon DEF OpToRel
<1> HIDE DEF R
<1>2. PICK s \in T : \A t \in T : ~ (<<t, s>> \in R)
  BY <1>1, WFMin
<1>3. \A t \in T : t \in Nat /\ s \in Nat /\ ~ (t < s)
  BY <1>2 DEF R
<1>4. QED
  BY <1>2, <1>3

\* In the audio the splitter takes k symbols at once: they are k sounds.
LEMMA RunOfSound ==
  ASSUME NEW q \in Seq(Symbols), NEW st, NEW m \in Nat, NEW skip \in Nat, Track(st, q, m, skip),
         NEW left \in Nat, NEW audio \in Nat, st[0] = SoundAt(left, audio),
         NEW k \in 1 .. Len(q), m = 0 => left = 0, m # 0 => k <= left
  PROVE  /\ st[k] = IF m = 0 THEN SoundAt(0, audio + k) ELSE AfterSound(m, left - k, audio + k)
         /\ \A i \in 1 .. k : q[i] = Sound(audio + i, skip)
<1> DEFINE Then(i) == IF m = 0 THEN SoundAt(0, audio + i) ELSE AfterSound(m, left - i, audio + i)
<1>1. st \in [0 .. Len(q) -> SplitterPlaces] /\ \A i \in 1 .. Len(q) : Fits(st[i - 1], q[i], st[i], m, skip)
  BY DEF Track
<1>2. Len(q) \in Nat /\ k \in Nat /\ k <= Len(q)
  OBVIOUS
<1>3. ASSUME NEW i \in 1 .. k, st[i - 1] = SoundAt(IF m = 0 THEN 0 ELSE left - (i - 1), audio + (i - 1))
      PROVE  st[i] = Then(i) /\ q[i] = Sound(audio + i, skip)
  <2>1. Fits(st[i - 1], q[i], st[i], m, skip)
    BY <1>1, <1>2
  <2>2. st[i - 1].phase = "audio" /\ st[i - 1].audio = audio + (i - 1)
        /\ st[i - 1].left = IF m = 0 THEN 0 ELSE left - (i - 1)
    BY <1>3 DEF SoundAt
  <2>3. OnSound(st[i - 1], q[i], st[i], m, skip)
    BY <2>1, <2>2 DEF Fits, OnLength, OnMeta, LengthAt
  <2>4. (audio + (i - 1)) + 1 = audio + i /\ (left - (i - 1)) - 1 = left - i
    OBVIOUS
  <2>5. QED
    BY <2>2, <2>3, <2>4 DEF OnSound
<1>4. ASSUME NEW i \in 1 .. k PROVE st[i - 1] = SoundAt(IF m = 0 THEN 0 ELSE left - (i - 1), audio + (i - 1))
  <2> DEFINE T == {j \in 0 .. k - 1 : st[j] # SoundAt(IF m = 0 THEN 0 ELSE left - j, audio + j)}
  <2>1. SUFFICES ASSUME T # {} PROVE FALSE
    <3>1. i - 1 \in 0 .. k - 1
      OBVIOUS
    <3>2. QED
      BY <2>1, <3>1
  <2>2. PICK j \in T : \A t \in T : j <= t
    <3>1. T \in SUBSET Nat
      OBVIOUS
    <3> HIDE DEF T
    <3>2. QED
      BY <2>1, <3>1, LeastNumber
  <2>3. j \in 0 .. k - 1 /\ st[j] # SoundAt(IF m = 0 THEN 0 ELSE left - j, audio + j)
    OBVIOUS
  <2>4. j # 0
    <3>1. CASE j = 0
      <4>1. (IF m = 0 THEN 0 ELSE left - j) = left /\ audio + j = audio
        BY <3>1
      <4>2. QED
        BY <2>3, <3>1, <4>1
    <3>2. QED
      BY <3>1
  <2>5. j - 1 \in 0 .. k - 1 /\ ~(j <= j - 1) /\ j \in 1 .. k
    BY <2>3, <2>4
  <2>6. j - 1 \notin T
    BY <2>2, <2>5
  <2>7. st[j - 1] = SoundAt(IF m = 0 THEN 0 ELSE left - (j - 1), audio + (j - 1))
    BY <2>5, <2>6
  <2>8. st[j] = Then(j)
    BY <1>3, <2>5, <2>7
  <2>9. Then(j) = SoundAt(IF m = 0 THEN 0 ELSE left - j, audio + j)
    <3>1. m # 0 => left - j # 0
      BY <1>2, <2>3
    <3>2. QED
      BY <3>1 DEF AfterSound
  <2>10. QED
    BY <2>3, <2>8, <2>9
<1>5. \A i \in 1 .. k : st[i] = Then(i) /\ q[i] = Sound(audio + i, skip)
  BY <1>3, <1>4
<1>6. k \in 1 .. k
  BY <1>2
<1>7. QED
  BY <1>5, <1>6

\* So with metadata, which is two symbols.
LEMMA RunOfMeta ==
  ASSUME NEW q \in Seq(Symbols), NEW st, NEW m, NEW skip, Track(st, q, m, skip),
         NEW left \in Nat, NEW got \in Nat, NEW audio \in Nat,
         st[0] = [phase |-> "meta", left |-> left, got |-> got, audio |-> audio],
         NEW k \in 1 .. Len(q), k <= left
  PROVE  /\ left + got = 2
         /\ st[k] = IF k = left THEN SoundAt(m, audio)
                    ELSE [phase |-> "meta", left |-> left - k, got |-> got + k, audio |-> audio]
         /\ \A i \in 1 .. k : q[i] = [is |-> "meta", n |-> got + i]
<1>1. \A i \in 1 .. Len(q) : Fits(st[i - 1], q[i], st[i], m, skip)
  BY DEF Track
<1>2. Len(q) \in Nat /\ k \in Nat /\ k <= Len(q) /\ 1 \in 1 .. Len(q)
  OBVIOUS
<1>3. \A s, x, t : Fits(s, x, t, m, skip) /\ s.phase = "meta" => OnMeta(s, x, t, m)
  BY DEF Fits, OnSound, OnLength, LengthAt
<1>4. Fits(st[0], q[1], st[1], m, skip)
  <2>1. Fits(st[1 - 1], q[1], st[1], m, skip) /\ 1 - 1 = 0
    BY <1>1, <1>2
  <2>2. QED
    BY <2>1
<1>5. OnMeta(st[0], q[1], st[1], m)
  BY <1>3, <1>4
<1>6. /\ left > 0 /\ left + got = 2 /\ q[1] = [is |-> "meta", n |-> got + 1]
      /\ st[1] = IF left = 1 THEN SoundAt(m, audio)
                 ELSE [phase |-> "meta", left |-> left - 1, got |-> got + 1, audio |-> audio]
  BY <1>5 DEF OnMeta
<1>7. CASE k = 1
  <2>1. \A i \in 1 .. k : i = 1
    BY <1>7
  <2>2. QED
    BY <1>6, <1>7, <2>1
<1>8. CASE k # 1
  <2>1. k = 2 /\ left = 2 /\ got = 0 /\ 2 \in 1 .. Len(q) /\ 2 - 1 = 1
    BY <1>2, <1>6, <1>8
  <2>2. st[1] = [phase |-> "meta", left |-> 1, got |-> 1, audio |-> audio]
    BY <1>6, <2>1
  <2>3. Fits(st[1], q[2], st[2], m, skip)
    <3>1. Fits(st[2 - 1], q[2], st[2], m, skip)
      BY <1>1, <2>1
    <3>2. QED
      BY <2>1, <3>1
  <2>4. OnMeta(st[1], q[2], st[2], m)
    BY <1>3, <2>2, <2>3
  <2>5. st[2] = SoundAt(m, audio) /\ q[2] = [is |-> "meta", n |-> 2]
    BY <2>2, <2>4 DEF OnMeta
  <2>6. \A i \in 1 .. k : i = 1 \/ i = 2
    BY <2>1
  <2>7. QED
    BY <1>6, <2>1, <2>5, <2>6
<1>9. QED
  BY <1>7, <1>8

\* A stream in two parts, what was read and what was not.
LEMMA JoinedParts ==
  ASSUME NEW a \in Seq(Symbols), NEW b \in Seq(Symbols)
  PROVE  /\ a \o b \in Seq(Symbols) /\ Len(a \o b) = Len(a) + Len(b)
         /\ \A i \in 1 .. Len(a) : (a \o b)[i] = a[i]
         /\ \A i \in 1 .. Len(b) : (a \o b)[Len(a) + i] = b[i]
<1>1. a \o b \in Seq(Symbols) /\ Len(a \o b) = Len(a) + Len(b) /\ Len(a) \in Nat /\ Len(b) \in Nat
  OBVIOUS
<1>2. \A i \in 1 .. Len(a) : (a \o b)[i] = a[i]
  BY <1>1
<1>3. ASSUME NEW i \in 1 .. Len(b) PROVE (a \o b)[Len(a) + i] = b[i]
  <2>1. Len(a) + i \in 1 .. Len(a) + Len(b) /\ ~(Len(a) + i <= Len(a)) /\ (Len(a) + i) - Len(a) = i
    BY <1>1
  <2>2. QED
    BY <1>1, <2>1
<1>4. QED
  BY <1>1, <1>2, <1>3

\* The same, from what it holds.
LEMMA JoinedIs ==
  ASSUME NEW a \in Seq(Symbols), NEW b \in Seq(Symbols), NEW d \in Seq(Symbols),
         Len(d) = Len(a) + Len(b),
         \A i \in 1 .. Len(a) : d[i] = a[i],
         \A i \in 1 .. Len(b) : d[Len(a) + i] = b[i]
  PROVE  a \o b = d
<1>1. /\ a \o b \in Seq(Symbols) /\ Len(a \o b) = Len(a) + Len(b) /\ Len(a) \in Nat /\ Len(b) \in Nat
      /\ \A i \in 1 .. Len(a) : (a \o b)[i] = a[i]
      /\ \A i \in 1 .. Len(b) : (a \o b)[Len(a) + i] = b[i]
  BY JoinedParts
<1>2. ASSUME NEW i \in 1 .. Len(d) PROVE (a \o b)[i] = d[i]
  <2>1. CASE i <= Len(a)
    <3>1. i \in 1 .. Len(a)
      BY <1>1, <2>1
    <3>2. QED
      BY <1>1, <3>1
  <2>2. CASE i > Len(a)
    <3>1. i - Len(a) \in 1 .. Len(b) /\ Len(a) + (i - Len(a)) = i
      BY <1>1, <2>2
    <3>2. (a \o b)[Len(a) + (i - Len(a))] = d[Len(a) + (i - Len(a))]
      BY <1>1, <3>1
    <3>3. QED
      BY <3>1, <3>2
  <2>3. QED
    BY <1>1, <2>1, <2>2
<1> DEFINE e == a \o b
<1>3. e \in Seq(Symbols) /\ Len(e) = Len(d) /\ \A i \in 1 .. Len(d) : e[i] = d[i]
  BY <1>1, <1>2
<1> HIDE DEF e
<1>4. e = d
  BY <1>3
<1>5. QED
  BY <1>4 DEF e

\* Metadata taken a piece at a time is what it is taken whole.
LEMMA MetasGrow ==
  ASSUME NEW g \in Nat, NEW c \in Seq(Symbols), NEW k \in 0 .. Len(c),
         \A i \in 1 .. k : c[i] = [is |-> "meta", n |-> g + i]
  PROVE  Metas(g) \o SubSeq(c, 1, k) = Metas(g + k) /\ Metas(g + k) \in Seq(Symbols) /\ Len(Metas(g + k)) = g + k
<1> DEFINE a == Metas(g)
           b == SubSeq(c, 1, k)
           d == Metas(g + k)
<1>1. k \in Nat /\ k <= Len(c) /\ g + k \in Nat
  OBVIOUS
<1>2. \A i \in Int : [is |-> "meta", n |-> i] \in Symbols
  BY DEF Symbols
<1>3. \A n \in Nat : Metas(n) \in Seq(Symbols) /\ Len(Metas(n)) = n /\ \A i \in 1 .. n : Metas(n)[i] = [is |-> "meta", n |-> i]
  BY <1>2 DEF Metas
<1>4. b \in Seq(Symbols) /\ Len(b) = k /\ \A i \in 1 .. k : b[i] = [is |-> "meta", n |-> g + i]
  BY <1>1
<1>5. /\ a \in Seq(Symbols) /\ Len(a) = g /\ \A i \in 1 .. g : a[i] = [is |-> "meta", n |-> i]
      /\ d \in Seq(Symbols) /\ Len(d) = g + k /\ \A i \in 1 .. g + k : d[i] = [is |-> "meta", n |-> i]
  BY <1>1, <1>3
<1> HIDE DEF a, b, d
<1>6. Len(d) = Len(a) + Len(b)
  BY <1>4, <1>5
<1>7. /\ \A i \in 1 .. Len(a) : d[i] = a[i]
      /\ \A i \in 1 .. Len(b) : d[Len(a) + i] = b[i]
  BY <1>1, <1>4, <1>5
<1>8. a \o b = d
  BY <1>4, <1>5, <1>6, <1>7, JoinedIs
<1>9. QED
  BY <1>5, <1>8 DEF a, b, d

-------------------------------------------------------------------------------
(* Frames. *)

\* The f-th frame after the first, counted from nought.
LEMMA FrameSounds ==
  ASSUME NEW skip \in Nat, NEW f \in Nat, NEW j \in 1 .. FrameLen
  PROVE  /\ Sound(skip + f * FrameLen + j, skip) = FrameOf(f + 1)[j]
         /\ Sound(skip + f * FrameLen + j, skip).is = "head" <=> j = 1
<1>1. FrameLen \in Nat /\ FrameLen > 1 /\ f * FrameLen \in Nat
  BY RadioAssumption
<1>2. (f * FrameLen + j - 1) \div FrameLen = f
  <2> DEFINE y == f * FrameLen + j - 1
  <2>1. 0 <= j - 1 /\ j - 1 < FrameLen /\ j - 1 \in Int
    BY <1>1
  <2>2. \A a, r, w \in Int : w > 0 /\ 0 <= r /\ r < w => (a * w + r) \div w = a
    OBVIOUS
  <2>3. y = f * FrameLen + (j - 1)
    BY <1>1
  <2>4. QED
    BY <1>1, <2>1, <2>2, <2>3
<1>3. (f * FrameLen + j) % FrameLen = 1 <=> j = 1
  <2>1. \A a, r, w \in Int : w > 0 /\ 0 <= r /\ r < w => (a * w + r) % w = r
    OBVIOUS
  <2>2. CASE j < FrameLen
    BY <1>1, <2>1, <2>2
  <2>3. CASE j = FrameLen
    <3>1. f * FrameLen + j = (f + 1) * FrameLen + 0
      BY <1>1, <2>3
    <3>2. (f * FrameLen + j) % FrameLen = 0
      BY <1>1, <2>1, <3>1
    <3>3. QED
      BY <1>1, <2>3, <3>2
  <2>4. QED
    BY <1>1, <2>2, <2>3
<1>4. LET k == skip + f * FrameLen + j
      IN  k \in Nat /\ ~(k <= skip) /\ k - skip = f * FrameLen + j /\ k - skip - 1 = f * FrameLen + j - 1
  BY <1>1
<1>5. Sound(skip + f * FrameLen + j, skip) = [is |-> IF j = 1 THEN "head" ELSE "data", n |-> f + 1]
  BY <1>2, <1>3, <1>4 DEF Sound
<1>6. QED
  BY <1>5 DEF FrameOf

-------------------------------------------------------------------------------
(* What the engine has of the stream. *)

Here(audio) == [phase |-> icy.phase, left |-> icy.remain, got |-> Len(icy.meta), audio |-> audio]
There == AfterSound(icy.metaint, srv.left, srv.audio)

StreamShape ==
  /\ icy \in [metaint : {0, MetaInt}, phase : {"audio", "len", "meta"}, remain : Nat, meta : Seq(Symbols)]
  /\ srv \in [audio : Nat, left : Nat, skip : Nat]
  /\ icy.metaint = 0 => icy.remain = 0 /\ srv.left = 0
  /\ icy.meta = Metas(Len(icy.meta)) /\ (icy.phase # "meta" => icy.meta = <<>>)
  /\ chunk \in Seq(Symbols) /\ wire \in Seq(Symbols) /\ adts \in Seq(Symbols)

\* All that was sent has been taken, or is still to be read; of the sound taken,
\* what is before base was frames, or the end of the one in which the listener
\* joined, and the rest is in the accumulator.
Split(base, st) ==
  /\ Track(st, chunk \o wire, icy.metaint, srv.skip)
  /\ st[0] = Here(base + Len(adts)) /\ st[Len(chunk \o wire)] = There
  /\ \A j \in 1 .. Len(adts) : adts[j] = Sound(base + j, srv.skip)
  /\ \/ base = srv.skip + Len(frames) * FrameLen
     \/ Len(frames) = 0 /\ base <= srv.skip

FramesWhole == frames \in Seq(Seq(Symbols)) /\ frames = [i \in 1 .. Len(frames) |-> FrameOf(i)]
StreamIs == StreamShape /\ FramesWhole /\ \E base \in Nat : \E st : Split(base, st)

\* Nothing sent, nothing taken.
LEMMA Empty == /\ <<>> \in Seq(Symbols) /\ Len(<<>>) = 0 /\ <<>> \o <<>> = <<>> /\ <<>> = Metas(0)
<1>1. <<>> \in Seq(Symbols) /\ Len(<<>>) = 0 /\ <<>> \o <<>> = <<>>
  OBVIOUS
<1>2. Metas(0) = <<>>
  BY DEF Metas
<1>3. QED
  BY <1>1, <1>2

\* A symbol more in the second part.
LEMMA JoinedAppend ==
  ASSUME NEW a \in Seq(Symbols), NEW b \in Seq(Symbols), NEW x \in Symbols
  PROVE  a \o Append(b, x) = Append(a \o b, x)
<1> DEFINE d == Append(a \o b, x)
           c == Append(b, x)
           e == a \o b
<1>1. /\ e \in Seq(Symbols) /\ Len(e) = Len(a) + Len(b) /\ Len(a) \in Nat /\ Len(b) \in Nat
      /\ \A i \in 1 .. Len(a) : e[i] = a[i]
      /\ \A i \in 1 .. Len(b) : e[Len(a) + i] = b[i]
  BY JoinedParts
<1>2. c \in Seq(Symbols) /\ Len(c) = Len(b) + 1 /\ c[Len(b) + 1] = x /\ \A i \in 1 .. Len(b) : c[i] = b[i]
  OBVIOUS
<1> HIDE DEF e
<1>3. d \in Seq(Symbols) /\ Len(d) = Len(e) + 1 /\ d[Len(e) + 1] = x /\ \A i \in 1 .. Len(e) : d[i] = e[i]
  BY <1>1 DEF e
<1> HIDE DEF c, d
<1>4. Len(d) = Len(a) + Len(c)
  BY <1>1, <1>2, <1>3
<1>5. \A i \in 1 .. Len(a) : d[i] = a[i]
  BY <1>1, <1>3
<1>6. ASSUME NEW i \in 1 .. Len(c) PROVE d[Len(a) + i] = c[i]
  <2>1. CASE i = Len(b) + 1
    <3>1. Len(a) + i = Len(e) + 1
      BY <1>1, <2>1
    <3>2. QED
      BY <1>2, <1>3, <2>1, <3>1
  <2>2. CASE i # Len(b) + 1
    <3>1. i \in 1 .. Len(b) /\ Len(a) + i \in 1 .. Len(e)
      BY <1>1, <1>2, <2>2
    <3>2. QED
      BY <1>1, <1>2, <1>3, <3>1
  <2>3. QED
    BY <2>1, <2>2
<1>7. a \o c = d
  BY <1>2, <1>3, <1>4, <1>5, <1>6, JoinedIs
<1>8. QED
  BY <1>7 DEF c, d, e

\* Fewer symbols in the first.
LEMMA JoinedFrom ==
  ASSUME NEW a \in Seq(Symbols), NEW b \in Seq(Symbols), NEW k \in 0 .. Len(a)
  PROVE  From(a, k) \o b = From(a \o b, k) /\ From(a, k) \in Seq(Symbols) /\ Len(From(a, k)) = Len(a) - k
<1> DEFINE c == From(a, k)
           e == a \o b
           d == From(e, k)
<1>1. /\ e \in Seq(Symbols) /\ Len(e) = Len(a) + Len(b) /\ Len(a) \in Nat /\ Len(b) \in Nat
      /\ \A i \in 1 .. Len(a) : e[i] = a[i]
      /\ \A i \in 1 .. Len(b) : e[Len(a) + i] = b[i]
  BY JoinedParts
<1>2. k \in Nat /\ k <= Len(a)
  BY <1>1
<1>3. c \in Seq(Symbols) /\ Len(c) = Len(a) - k /\ \A i \in 1 .. Len(a) - k : c[i] = a[i + k]
  BY <1>1, <1>2 DEF From
<1> HIDE DEF e
<1>4. d \in Seq(Symbols) /\ Len(d) = Len(e) - k /\ \A i \in 1 .. Len(e) - k : d[i] = e[i + k]
  BY <1>1, <1>2 DEF From
<1> HIDE DEF c, d
<1>5. Len(d) = Len(c) + Len(b)
  BY <1>1, <1>2, <1>3, <1>4
<1>6. ASSUME NEW i \in 1 .. Len(c) PROVE d[i] = c[i]
  <2>1. i \in 1 .. Len(a) - k /\ i \in 1 .. Len(e) - k /\ i + k \in 1 .. Len(a)
    BY <1>1, <1>2, <1>3
  <2>2. QED
    BY <1>1, <1>3, <1>4, <2>1
<1>7. ASSUME NEW i \in 1 .. Len(b) PROVE d[Len(c) + i] = b[i]
  <2>1. Len(c) + i \in 1 .. Len(e) - k /\ (Len(c) + i) + k = Len(a) + i
    BY <1>1, <1>2, <1>3
  <2>2. QED
    BY <1>1, <1>4, <2>1
<1>8. c \o b = d
  BY <1>3, <1>4, <1>5, <1>6, <1>7, JoinedIs
<1>9. QED
  BY <1>3, <1>8 DEF c, d, e

\* A symbol more, for parts whose join is known.
LEMMA BothGrow ==
  ASSUME NEW a \in Seq(Symbols), NEW b \in Seq(Symbols), NEW c \in Seq(Symbols), a \o b = c, NEW x \in Symbols
  PROVE  /\ Append(b, x) \in Seq(Symbols) /\ Append(c, x) \in Seq(Symbols)
         /\ a \o Append(b, x) = Append(c, x) /\ Len(Append(c, x)) = Len(c) + 1
<1>1. Append(b, x) \in Seq(Symbols) /\ Append(c, x) \in Seq(Symbols) /\ Len(Append(c, x)) = Len(c) + 1
  OBVIOUS
<1>2. a \o Append(b, x) = Append(a \o b, x)
  BY JoinedAppend
<1>3. QED
  BY <1>1, <1>2

\* A length with its metadata, as it is sent.
LEMMA LengthAppended ==
  ASSUME NEW w \in Seq(Symbols), NEW x \in Symbols
  PROVE  /\ w \o <<x>> \o Metas(0) = Append(w, x)
         /\ w \o <<x>> \o Metas(2) = Append(Append(Append(w, x), [is |-> "meta", n |-> 1]), [is |-> "meta", n |-> 2])
<1> DEFINE v == Append(w, x)
           m1 == [is |-> "meta", n |-> 1]
           m2 == [is |-> "meta", n |-> 2]
<1>1. v \in Seq(Symbols) /\ w \o <<x>> = v
  OBVIOUS
<1>2. m1 \in Symbols /\ m2 \in Symbols
  BY DEF Symbols
<1>3. Metas(0) = <<>> /\ v \o <<>> = v
  BY <1>1 DEF Metas
<1>4. Metas(2) = Append(Append(<<>>, m1), m2)
  <2>1. <<m1, m2>> = Append(Append(<<>>, m1), m2)
    OBVIOUS
  <2>2. /\ Metas(2) \in Seq(Symbols) /\ Len(Metas(2)) = 2 /\ Metas(2)[1] = m1 /\ Metas(2)[2] = m2
    BY <1>2 DEF Metas
  <2>3. <<m1, m2>> \in Seq(Symbols)
    BY <1>2
  <2>4. Metas(2) = <<m1, m2>>
    BY <2>2, <2>3
  <2>5. QED
    BY <2>1, <2>4
<1> HIDE DEF m1, m2, v
<1>5. <<>> \in Seq(Symbols) /\ Append(<<>>, m1) \in Seq(Symbols)
  BY <1>2
<1>6. v \o Append(Append(<<>>, m1), m2) = Append(v \o Append(<<>>, m1), m2)
  BY <1>1, <1>2, <1>5, JoinedAppend
<1>7. v \o Append(<<>>, m1) = Append(v \o <<>>, m1)
  BY <1>1, <1>2, <1>5, JoinedAppend
<1>8. v \o Metas(2) = Append(Append(v, m1), m2)
  BY <1>3, <1>4, <1>6, <1>7
<1>9. QED
  BY <1>1, <1>3, <1>8 DEF v, m1, m2

-------------------------------------------------------------------------------
\* The server's step: the run goes on where the server is.
LEMMA SendKeeps == ASSUME StreamIs, ServerSends PROVE StreamIs'
<1> DEFINE m == icy.metaint
           q == chunk \o wire
           skip == srv.skip
<1>1. /\ chunk' = chunk /\ icy' = icy /\ adts' = adts /\ frames' = frames
      /\ IF m # 0 /\ srv.left = 0
         THEN \E n \in {0, 2} :
               /\ wire' = wire \o <<[is |-> "len", n |-> n]>> \o Metas(n)
               /\ srv' = [srv EXCEPT !.left = MetaInt]
         ELSE /\ wire' = Append(wire, AudioSymbol(srv.audio + 1))
              /\ srv' = [srv EXCEPT !.audio = @ + 1, !.left = IF @ > 0 THEN @ - 1 ELSE 0]
  BY DEF ServerSends, splitVars, histVars
<1>2. /\ icy \in [metaint : {0, MetaInt}, phase : {"audio", "len", "meta"}, remain : Nat, meta : Seq(Symbols)]
      /\ srv \in [audio : Nat, left : Nat, skip : Nat]
      /\ m = 0 => icy.remain = 0 /\ srv.left = 0
      /\ chunk \in Seq(Symbols) /\ wire \in Seq(Symbols) /\ adts \in Seq(Symbols)
      /\ m \in Nat /\ MetaInt \in Nat /\ skip \in Nat /\ (m # 0 => m = MetaInt)
  BY RadioAssumption DEF StreamIs, StreamShape
<1>3. PICK base \in Nat : \E st : Split(base, st)
  BY DEF StreamIs
<1>4. PICK st : Split(base, st)
  BY <1>3
<1>5. Track(st, q, m, skip) /\ st[Len(q)] = AfterSound(m, srv.left, srv.audio) /\ q \in Seq(Symbols)
  BY <1>2, <1>4, JoinedParts DEF Split, There
<1>6. ASSUME NEW p \in Seq(Symbols), NEW r, Track(r, p, m, skip), r[0] = st[0],
             chunk' \o wire' = p, srv' \in [audio : Nat, left : Nat, skip : Nat], srv'.skip = skip,
             m = 0 => srv'.left = 0, wire' \in Seq(Symbols),
             r[Len(p)] = AfterSound(m, srv'.left, srv'.audio)
      PROVE  StreamIs'
  <2>1. StreamShape' /\ FramesWhole'
    BY <1>1, <1>2, <1>6 DEF StreamIs, StreamShape, FramesWhole
  <2>2. Split(base, r)'
    BY <1>1, <1>4, <1>6 DEF Split, Here, There
  <2>3. QED
    BY <2>1, <2>2 DEF StreamIs
<1>7. chunk \in Seq(Symbols) /\ wire \in Seq(Symbols)
  BY <1>2
<1>8. q \in Seq(Symbols) /\ chunk \o wire = q
  BY <1>5
<1> HIDE DEF m, q, skip
<1>9. CASE m # 0 /\ srv.left = 0
  <2>1. PICK n \in {0, 2} : wire' = wire \o <<[is |-> "len", n |-> n]>> \o Metas(n)
    BY <1>1, <1>9
  <2>2. srv' = [srv EXCEPT !.left = MetaInt]
    BY <1>1, <1>9
  <2>3. /\ srv' \in [audio : Nat, left : Nat, skip : Nat] /\ srv'.skip = skip /\ srv'.left = m
        /\ srv'.audio = srv.audio /\ srv.audio \in Nat /\ m > 0
    BY <1>2, <1>9, <2>2 DEF skip
  <2> DEFINE x == [is |-> "len", n |-> n]
             m1 == [is |-> "meta", n |-> 1]
             m2 == [is |-> "meta", n |-> 2]
             a == srv.audio
             M(l, g) == [phase |-> "meta", left |-> l, got |-> g, audio |-> a]
  <2>4. x \in Symbols /\ m1 \in Symbols /\ m2 \in Symbols
    BY DEF Symbols
  <2>5. st[Len(q)] = LengthAt(a)
    BY <1>5, <1>9 DEF AfterSound
  <2>6. AfterSound(m, srv'.left, srv'.audio) = SoundAt(m, a)
    BY <2>3 DEF AfterSound
  <2>7. SoundAt(m, a) \in SplitterPlaces /\ M(2, 0) \in SplitterPlaces /\ M(1, 1) \in SplitterPlaces
    BY <2>3 DEF SplitterPlaces, SoundAt
  <2>8. CASE n = 0
    <3>1. wire' = Append(wire, x)
      BY <1>2, <2>1, <2>4, <2>8, LengthAppended
    <3>2. chunk' \o wire' = Append(q, x) /\ wire' \in Seq(Symbols) /\ Append(q, x) \in Seq(Symbols)
      <4>1. x \in Symbols
        BY <2>4
      <4> HIDE DEF x, m1, m2
      <4>2. Append(wire, x) \in Seq(Symbols) /\ Append(q, x) \in Seq(Symbols) /\ chunk \o Append(wire, x) = Append(q, x)
        BY <1>7, <1>8, <4>1, BothGrow
      <4>3. QED
        BY <1>1, <3>1, <4>2
    <3>3. Fits(st[Len(q)], x, SoundAt(m, a), m, skip)
      BY <2>3, <2>5, <2>8 DEF Fits, OnLength, LengthAt
    <3>4. PICK r : Track(r, Append(q, x), m, skip) /\ r[0] = st[0] /\ r[Len(q) + 1] = SoundAt(m, a)
      BY <1>5, <2>4, <2>7, <3>3, RunGrows
    <3>5. Len(Append(q, x)) = Len(q) + 1
      BY <1>5, <2>4
    <3>6. QED
      BY <1>6, <2>3, <2>6, <3>2, <3>4, <3>5
  <2>9. CASE n = 2
    <3> DEFINE q1 == Append(q, x)
               q2 == Append(q1, m1)
               q3 == Append(q2, m2)
    <3>1. wire' = Append(Append(Append(wire, x), m1), m2)
      BY <1>2, <2>1, <2>4, <2>9, LengthAppended
    <3>2. /\ q1 \in Seq(Symbols) /\ q2 \in Seq(Symbols) /\ q3 \in Seq(Symbols)
          /\ Len(q1) = Len(q) + 1 /\ Len(q2) = Len(q1) + 1 /\ Len(q3) = Len(q2) + 1
      BY <1>5, <2>4
    <3>3. chunk' \o wire' = q3 /\ wire' \in Seq(Symbols)
      <4> DEFINE w1 == Append(wire, x)
                 w2 == Append(w1, m1)
      <4>1. x \in Symbols
        BY <2>4
      <4>2. m1 \in Symbols
        BY <2>4
      <4>3. m2 \in Symbols
        BY <2>4
      <4> HIDE DEF x, m1, m2
      <4>4. w1 \in Seq(Symbols) /\ q1 \in Seq(Symbols) /\ chunk \o w1 = q1
        BY <1>7, <1>8, <4>1, BothGrow
      <4> HIDE DEF w1, q1
      <4>5. w2 \in Seq(Symbols) /\ q2 \in Seq(Symbols) /\ chunk \o w2 = q2
        BY <1>7, <4>2, <4>4, BothGrow
      <4> HIDE DEF w2, q2
      <4>6. Append(w2, m2) \in Seq(Symbols) /\ chunk \o Append(w2, m2) = q3
        BY <1>7, <4>3, <4>5, BothGrow
      <4>7. wire' = Append(w2, m2)
        BY <3>1 DEF w1, w2, x, m1, m2
      <4>8. QED
        BY <1>1, <4>6, <4>7
    <3>4. Fits(st[Len(q)], x, M(2, 0), m, skip)
      BY <2>3, <2>5, <2>9 DEF Fits, OnLength, LengthAt
    <3>5. Fits(M(2, 0), m1, M(1, 1), m, skip)
      BY <2>3 DEF Fits, OnMeta
    <3>6. Fits(M(1, 1), m2, SoundAt(m, a), m, skip)
      BY <2>3 DEF Fits, OnMeta
    <3> HIDE DEF x, m1, m2, M, a
    <3>7. PICK r1 : Track(r1, q1, m, skip) /\ r1[0] = st[0] /\ r1[Len(q1)] = M(2, 0)
      BY <1>5, <2>4, <2>7, <3>2, <3>4, RunGrows
    <3> HIDE DEF q1
    <3>8. PICK r2 : Track(r2, q2, m, skip) /\ r2[0] = r1[0] /\ r2[Len(q2)] = M(1, 1)
      BY <2>4, <2>7, <3>2, <3>5, <3>7, RunGrows
    <3> HIDE DEF q2
    <3>9. PICK r3 : Track(r3, q3, m, skip) /\ r3[0] = r2[0] /\ r3[Len(q3)] = SoundAt(m, a)
      BY <2>4, <2>7, <3>2, <3>6, <3>8, RunGrows
    <3> HIDE DEF q3
    <3>10. QED
      BY <1>6, <2>3, <2>6, <3>2, <3>3, <3>7, <3>8, <3>9 DEF a
  <2>10. QED
    BY <2>8, <2>9
<1>10. CASE ~(m # 0 /\ srv.left = 0)
  <2> DEFINE x == Sound(srv.audio + 1, skip)
             l == IF srv.left > 0 THEN srv.left - 1 ELSE 0
             t == AfterSound(m, l, srv.audio + 1)
  <2>1. srv.audio \in Nat /\ srv.left \in Nat /\ l \in Nat /\ srv.audio + 1 \in Nat
    BY <1>2
  <2>2. /\ wire' = Append(wire, x) /\ srv' = [srv EXCEPT !.audio = @ + 1, !.left = l]
    BY <1>1, <1>2, <1>10, <2>1, SoundIsAudio DEF skip
  <2>3. srv' \in [audio : Nat, left : Nat, skip : Nat] /\ srv'.skip = skip /\ srv'.left = l /\ srv'.audio = srv.audio + 1
    BY <1>2, <2>1, <2>2 DEF skip
  <2>4. x \in Symbols
    <3>1. skip \in Nat /\ srv.audio + 1 \in Nat
      BY <1>2, <2>1
    <3>2. QED
      BY <3>1, SoundIsSymbol
  <2>5. t \in SplitterPlaces
    BY <2>1 DEF AfterSound, SoundAt, LengthAt, SplitterPlaces
  <2>6. Fits(st[Len(q)], x, t, m, skip)
    <3>1. st[Len(q)] = SoundAt(srv.left, srv.audio)
      BY <1>5, <1>10 DEF AfterSound
    <3>2. CASE m = 0
      <4>1. srv.left = 0 /\ l = 0
        BY <1>2, <3>2
      <4>2. QED
        BY <3>1, <3>2, <4>1 DEF Fits, OnSound, SoundAt, AfterSound
    <3>3. CASE m # 0
      <4>1. srv.left > 0 /\ l = srv.left - 1
        BY <1>10, <2>1, <3>3
      <4>2. QED
        BY <3>1, <3>3, <4>1 DEF Fits, OnSound, SoundAt
    <3>4. QED
      BY <3>2, <3>3
  <2> HIDE DEF x, t
  <2>7. chunk' \o wire' = Append(q, x) /\ wire' \in Seq(Symbols) /\ Append(q, x) \in Seq(Symbols)
        /\ Len(Append(q, x)) = Len(q) + 1
    <3>1. /\ Append(wire, x) \in Seq(Symbols) /\ Append(q, x) \in Seq(Symbols)
          /\ chunk \o Append(wire, x) = Append(q, x) /\ Len(Append(q, x)) = Len(q) + 1
      BY <1>7, <1>8, <2>4, BothGrow
    <3>2. QED
      BY <1>1, <2>2, <3>1
  <2>8. PICK r : Track(r, Append(q, x), m, skip) /\ r[0] = st[0] /\ r[Len(q) + 1] = t
    BY <1>5, <2>4, <2>5, <2>6, RunGrows
  <2>9. m = 0 => srv'.left = 0
    BY <1>2, <2>3
  <2>10. QED
    BY <1>6, <2>3, <2>7, <2>8, <2>9 DEF t
<1>11. QED
  BY <1>9, <1>10

\* The splitter's steps: it takes k symbols and is where the run is after them.
LEMMA TakeKeeps ==
  ASSUME StreamIs, NEW base \in Nat, NEW st, Split(base, st), NEW k \in 0 .. Len(chunk),
         chunk' = From(chunk, k), UNCHANGED <<wire, srv, frames>>,
         icy' \in [metaint : {0, MetaInt}, phase : {"audio", "len", "meta"}, remain : Nat, meta : Seq(Symbols)],
         icy'.metaint = icy.metaint, icy'.metaint = 0 => icy'.remain = 0,
         icy'.meta = Metas(Len(icy'.meta)), icy'.phase # "meta" => icy'.meta = <<>>,
         adts' \in Seq(Symbols), st[k] = Here(base + Len(adts))',
         \A j \in 1 .. Len(adts') : adts'[j] = Sound(base + j, srv.skip)
  PROVE  StreamIs'
<1> DEFINE q == chunk \o wire
           m == icy.metaint
           skip == srv.skip
<1>1. chunk \in Seq(Symbols) /\ wire \in Seq(Symbols)
  BY DEF StreamIs, StreamShape
<1>2. /\ q \in Seq(Symbols) /\ Len(q) = Len(chunk) + Len(wire) /\ Len(chunk) \in Nat /\ Len(wire) \in Nat
  BY <1>1, JoinedParts
<1>3. /\ From(chunk, k) \o wire = From(q, k) /\ From(chunk, k) \in Seq(Symbols)
  BY <1>1, JoinedFrom
<1>4. k \in 0 .. Len(q)
  BY <1>2
<1>5. Track(st, q, m, skip)
  BY DEF Split
<1> HIDE DEF q
<1>6. PICK r : Track(r, From(q, k), m, skip) /\ r[0] = st[k] /\ r[Len(q) - k] = st[Len(q)]
  BY <1>2, <1>4, <1>5, RunMovesOn
<1>7. Len(From(q, k)) = Len(q) - k
  BY <1>2, <1>4 DEF From
<1>8. chunk' \o wire' = From(q, k)
  BY <1>3
<1>9. StreamShape' /\ FramesWhole'
  BY <1>3 DEF StreamIs, StreamShape, FramesWhole
<1>10. There' = There /\ st[Len(q)] = There
  BY DEF Split, There, q
<1>11. Split(base, r)'
  BY <1>6, <1>7, <1>8, <1>10 DEF Split
<1>12. QED
  BY <1>9, <1>11 DEF StreamIs

\* re_consume: sound, up to the next length or all of the chunk.
LEMMA SoundKeeps == ASSUME StreamIs, ConsumesAudio PROVE StreamIs'
<1> DEFINE m == icy.metaint
           q == chunk \o wire
           skip == srv.skip
           left == icy.remain
           k == Run
<1>1. /\ chunk # <<>> /\ icy.phase = "audio" /\ adts' = adts \o SubSeq(chunk, 1, k)
      /\ chunk' = From(chunk, k) /\ icy' = AfterRun(left - k) /\ UNCHANGED <<wire, srv, frames>>
  BY DEF ConsumesAudio, netVars, histVars
<1>2. /\ icy \in [metaint : {0, MetaInt}, phase : {"audio", "len", "meta"}, remain : Nat, meta : Seq(Symbols)]
      /\ icy.meta = Metas(Len(icy.meta)) /\ icy.meta = <<>>
      /\ m = 0 => left = 0
      /\ chunk \in Seq(Symbols) /\ wire \in Seq(Symbols) /\ adts \in Seq(Symbols)
      /\ m \in Nat /\ skip \in Nat /\ left \in Nat
  BY <1>1, RadioAssumption DEF StreamIs, StreamShape
<1>3. PICK base \in Nat : \E st : Split(base, st)
  BY DEF StreamIs
<1>4. PICK st : Split(base, st)
  BY <1>3
<1>5. /\ q \in Seq(Symbols) /\ Len(q) = Len(chunk) + Len(wire) /\ Len(chunk) \in Nat /\ Len(wire) \in Nat /\ Len(chunk) > 0
      /\ \A i \in 1 .. Len(chunk) : q[i] = chunk[i]
  <2>1. chunk \in Seq(Symbols) /\ wire \in Seq(Symbols)
    BY <1>2
  <2>2. Len(chunk) \in Nat /\ Len(wire) \in Nat /\ Len(chunk) > 0
    BY <1>1, <2>1
  <2>3. QED
    BY <2>1, <2>2, JoinedParts
<1> DEFINE audio == base + Len(adts)
<1>6. Track(st, q, m, skip) /\ audio \in Nat /\ st[0] = SoundAt(left, audio)
  <2>1. Track(st, q, m, skip) /\ st[0] = Here(audio)
    BY <1>4 DEF Split
  <2>2. Len(icy.meta) = 0
    BY <1>2
  <2>3. QED
    BY <1>1, <1>2, <2>1, <2>2 DEF Here, SoundAt
<1> HIDE DEF q, skip
<1>7. k \in 1 .. Len(chunk) /\ (m # 0 => k <= left)
  <2>1. CASE m = 0
    BY <1>5, <2>1 DEF Run
  <2>2. CASE m # 0
    <3>1. Fits(st[0], q[1], st[1], m, skip)
      <4>1. 1 \in 1 .. Len(q) /\ 1 - 1 = 0
        BY <1>5
      <4>2. Fits(st[1 - 1], q[1], st[1], m, skip)
        BY <1>6, <4>1 DEF Track
      <4>3. QED
        BY <4>1, <4>2
    <3>2. OnSound(st[0], q[1], st[1], m, skip)
      BY <1>6, <3>1 DEF Fits, OnLength, OnMeta, LengthAt, SoundAt
    <3>3. left > 0
      BY <1>6, <2>2, <3>2 DEF OnSound, SoundAt
    <3>4. QED
      BY <1>2, <1>5, <2>2, <3>3 DEF Run, Smaller
  <2>3. QED
    BY <2>1, <2>2
<1> HIDE DEF k, m, left, audio
<1>8. /\ st[k] = IF m = 0 THEN SoundAt(0, audio + k) ELSE AfterSound(m, left - k, audio + k)
      /\ \A i \in 1 .. k : q[i] = Sound(audio + i, skip)
  <2>1. k \in 1 .. Len(q) /\ q \in Seq(Symbols)
    BY <1>5, <1>7
  <2>2. m \in Nat /\ skip \in Nat /\ left \in Nat /\ (m = 0 => left = 0)
    BY <1>2 DEF m, left, skip
  <2>3. QED
    BY <1>6, <1>7, <2>1, <2>2, RunOfSound
<1>9. /\ adts' \in Seq(Symbols) /\ Len(adts') = Len(adts) + k
      /\ \A i \in 1 .. Len(adts) : adts'[i] = adts[i]
      /\ \A i \in 1 .. k : adts'[Len(adts) + i] = chunk[i]
  <2> DEFINE b == SubSeq(chunk, 1, k)
  <2>1. b \in Seq(Symbols) /\ Len(b) = k /\ \A i \in 1 .. k : b[i] = chunk[i]
    BY <1>2, <1>7
  <2>2. adts' = adts \o b /\ adts \in Seq(Symbols)
    BY <1>1, <1>2
  <2> HIDE DEF b
  <2>3. /\ adts \o b \in Seq(Symbols) /\ Len(adts \o b) = Len(adts) + Len(b)
        /\ \A i \in 1 .. Len(adts) : (adts \o b)[i] = adts[i]
        /\ \A i \in 1 .. Len(b) : (adts \o b)[Len(adts) + i] = b[i]
    BY <2>1, <2>2, JoinedParts
  <2>4. QED
    BY <2>1, <2>2, <2>3
<1>10. \A j \in 1 .. Len(adts') : adts'[j] = Sound(base + j, srv.skip)
  <2>1. ASSUME NEW j \in 1 .. Len(adts') PROVE adts'[j] = Sound(base + j, skip)
    <3>1. Len(adts) \in Nat
      BY <1>2
    <3>2. CASE j <= Len(adts)
      <4>1. j \in 1 .. Len(adts)
        BY <3>1, <3>2
      <4>2. QED
        BY <1>4, <1>9, <4>1 DEF Split, skip
    <3>3. CASE j > Len(adts)
      <4>1. j - Len(adts) \in 1 .. k /\ Len(adts) + (j - Len(adts)) = j /\ audio + (j - Len(adts)) = base + j
            /\ j - Len(adts) \in 1 .. Len(chunk)
        BY <1>7, <1>9, <3>1, <3>3 DEF audio
      <4>2. adts'[j] = chunk[j - Len(adts)] /\ q[j - Len(adts)] = chunk[j - Len(adts)]
        BY <1>5, <1>9, <4>1
      <4>3. q[j - Len(adts)] = Sound(audio + (j - Len(adts)), skip)
        BY <1>8, <4>1
      <4>4. QED
        BY <4>1, <4>2, <4>3
    <3>4. QED
      BY <3>1, <3>2, <3>3
  <2>2. QED
    BY <2>1 DEF skip
<1>11. /\ icy' \in [metaint : {0, MetaInt}, phase : {"audio", "len", "meta"}, remain : Nat, meta : Seq(Symbols)]
       /\ icy'.metaint = icy.metaint /\ (icy'.metaint = 0 => icy'.remain = 0)
       /\ icy'.meta = icy.meta /\ icy'.phase # "meta"
       /\ icy'.phase = (IF m # 0 /\ left - k = 0 THEN "len" ELSE "audio")
       /\ icy'.remain = IF m = 0 THEN 0 ELSE left - k
  <2>1. CASE m = 0
    <3>1. icy' = icy
      BY <1>1, <2>1 DEF AfterRun, m
    <3>2. QED
      BY <1>1, <1>2, <2>1, <3>1 DEF m, left
  <2>2. CASE m # 0
    <3>1. left - k \in Nat
      BY <1>2, <1>7, <2>2
    <3>2. icy' = [icy EXCEPT !.remain = left - k, !.phase = IF left - k = 0 THEN "len" ELSE "audio"]
      BY <1>1, <2>2 DEF AfterRun, m
    <3>3. QED
      BY <1>2, <2>2, <3>1, <3>2 DEF m
  <2>3. QED
    BY <2>1, <2>2
<1>12. st[k] = Here(base + Len(adts))'
  <2>1. base + Len(adts') = audio + k /\ Len(icy'.meta) = 0
    BY <1>2, <1>7, <1>9, <1>11 DEF audio
  <2>2. Here(base + Len(adts))' = [phase |-> icy'.phase, left |-> icy'.remain, got |-> 0, audio |-> audio + k]
    BY <2>1 DEF Here
  <2>3. QED
    BY <1>8, <1>11, <2>2 DEF SoundAt, AfterSound, LengthAt
<1>13. k \in 0 .. Len(chunk)
  BY <1>7
<1>14. /\ icy'.meta = Metas(Len(icy'.meta)) /\ icy'.meta = <<>>
  BY <1>2, <1>11
<1>15. QED
  BY <1>1, <1>4, <1>9, <1>10, <1>11, <1>12, <1>13, <1>14, TakeKeeps

\* re_consume: the length of the metadata.
LEMMA LengthKeeps == ASSUME StreamIs, ConsumesLength PROVE StreamIs'
<1> DEFINE m == icy.metaint
           q == chunk \o wire
           skip == srv.skip
           x == Head(chunk)
<1>1. /\ chunk # <<>> /\ icy.phase = "len" /\ chunk' = Tail(chunk) /\ UNCHANGED <<wire, srv, frames, adts>>
      /\ icy' = IF x.n = 0 THEN BackToAudio
                ELSE [icy EXCEPT !.phase = "meta", !.remain = x.n, !.meta = <<>>]
  BY DEF ConsumesLength, netVars, histVars
<1>2. /\ icy \in [metaint : {0, MetaInt}, phase : {"audio", "len", "meta"}, remain : Nat, meta : Seq(Symbols)]
      /\ icy.meta = <<>> /\ chunk \in Seq(Symbols) /\ wire \in Seq(Symbols) /\ adts \in Seq(Symbols)
      /\ m \in Nat
  BY <1>1, RadioAssumption DEF StreamIs, StreamShape
<1>3. PICK base \in Nat : \E st : Split(base, st)
  BY DEF StreamIs
<1>4. PICK st : Split(base, st)
  BY <1>3
<1>5. /\ q \in Seq(Symbols) /\ Len(q) = Len(chunk) + Len(wire) /\ Len(chunk) \in Nat /\ Len(wire) \in Nat /\ Len(chunk) > 0
      /\ q[1] = chunk[1] /\ x = chunk[1]
  <2>1. /\ q \in Seq(Symbols) /\ Len(q) = Len(chunk) + Len(wire) /\ Len(chunk) \in Nat /\ Len(wire) \in Nat /\ Len(chunk) > 0
        /\ \A i \in 1 .. Len(chunk) : q[i] = chunk[i]
    BY <1>1, <1>2, JoinedParts
  <2>2. 1 \in 1 .. Len(chunk) /\ x = chunk[1]
    BY <1>1, <1>2, <2>1
  <2>3. QED
    BY <2>1, <2>2
<1>6. chunk' = From(chunk, 1)
  BY <1>1, <1>2, <1>5 DEF From
<1> DEFINE audio == base + Len(adts)
<1>7. Track(st, q, m, skip) /\ st[0] = Here(audio)
  BY <1>4 DEF Split
<1> HIDE DEF q, skip, x
<1>8. Fits(st[0], x, st[1], m, skip)
  <2>1. 1 \in 1 .. Len(q) /\ 1 - 1 = 0
    BY <1>5
  <2>2. Fits(st[1 - 1], q[1], st[1], m, skip)
    BY <1>7, <2>1 DEF Track
  <2>3. QED
    BY <1>5, <2>1, <2>2
<1>9. OnLength(st[0], x, st[1], m) /\ st[0].audio = audio
  BY <1>1, <1>7, <1>8 DEF Fits, OnSound, OnMeta, Here
<1>10. /\ icy' \in [metaint : {0, MetaInt}, phase : {"audio", "len", "meta"}, remain : Nat, meta : Seq(Symbols)]
       /\ icy'.metaint = m /\ m # 0 /\ icy'.meta = <<>>
       /\ st[1] = [phase |-> icy'.phase, left |-> icy'.remain, got |-> 0, audio |-> audio]
  <2>1. m # 0 /\ <<>> \in Seq(Symbols)
    BY <1>9 DEF OnLength
  <2>2. CASE x.n = 0
    <3>1. icy' = BackToAudio /\ st[1] = SoundAt(m, audio)
      BY <1>1, <1>9, <2>2 DEF OnLength
    <3>2. QED
      BY <1>2, <2>1, <3>1 DEF BackToAudio, SoundAt
  <2>3. CASE x.n # 0
    <3>1. /\ x.n = 2 /\ st[1] = [phase |-> "meta", left |-> 2, got |-> 0, audio |-> audio]
          /\ icy' = [icy EXCEPT !.phase = "meta", !.remain = 2, !.meta = <<>>]
      BY <1>1, <1>9, <2>3 DEF OnLength
    <3>2. /\ icy' \in [metaint : {0, MetaInt}, phase : {"audio", "len", "meta"}, remain : Nat, meta : Seq(Symbols)]
          /\ icy'.metaint = m /\ icy'.meta = <<>> /\ icy'.phase = "meta" /\ icy'.remain = 2
      BY <1>2, <2>1, <3>1
    <3>3. QED
      BY <2>1, <3>1, <3>2
  <2>4. QED
    BY <2>2, <2>3
<1>11. st[1] = Here(base + Len(adts))'
  <2>1. adts' = adts /\ Len(icy'.meta) = 0
    BY <1>1, <1>10
  <2>2. QED
    BY <1>10, <2>1 DEF Here
<1>12. \A j \in 1 .. Len(adts') : adts'[j] = Sound(base + j, srv.skip)
  BY <1>1, <1>4 DEF Split
<1>13. 1 \in 0 .. Len(chunk) /\ adts' \in Seq(Symbols)
  BY <1>1, <1>2, <1>5
<1>14. icy'.meta = Metas(Len(icy'.meta))
  BY <1>10, Empty
<1>15. QED
  BY <1>1, <1>4, <1>6, <1>10, <1>11, <1>12, <1>13, <1>14, TakeKeeps

\* re_consume: metadata; what is announced of it is whole.
LEMMA MetaKeeps ==
  ASSUME StreamIs, ConsumesMeta
  PROVE  StreamIs' /\ (titles' = titles \/ titles' = Append(titles, Metas(2)))
<1> DEFINE m == icy.metaint
           q == chunk \o wire
           skip == srv.skip
           k == Smaller(Len(chunk), icy.remain)
           meta == icy.meta \o SubSeq(chunk, 1, k)
           left == icy.remain
           got == Len(icy.meta)
<1>1. /\ chunk # <<>> /\ icy.phase = "meta" /\ chunk' = From(chunk, k) /\ UNCHANGED <<wire, srv, frames, adts>>
      /\ IF k = left
         THEN icy' = BackToAudio /\ titles' = Append(titles, meta)
         ELSE icy' = [icy EXCEPT !.remain = left - k, !.meta = meta] /\ UNCHANGED titles
  BY DEF ConsumesMeta, netVars
<1>2. /\ icy \in [metaint : {0, MetaInt}, phase : {"audio", "len", "meta"}, remain : Nat, meta : Seq(Symbols)]
      /\ icy.meta = Metas(got) /\ chunk \in Seq(Symbols) /\ wire \in Seq(Symbols) /\ adts \in Seq(Symbols)
      /\ m \in Nat /\ left \in Nat /\ got \in Nat
  <2>1. /\ icy \in [metaint : {0, MetaInt}, phase : {"audio", "len", "meta"}, remain : Nat, meta : Seq(Symbols)]
        /\ icy.meta = Metas(Len(icy.meta)) /\ chunk \in Seq(Symbols) /\ wire \in Seq(Symbols) /\ adts \in Seq(Symbols)
    BY DEF StreamIs, StreamShape
  <2>2. m \in Nat /\ left \in Nat /\ icy.meta \in Seq(Symbols)
    BY <2>1, RadioAssumption
  <2>3. got \in Nat
    BY <2>2
  <2>4. QED
    BY <2>1, <2>2, <2>3
<1>3. PICK base \in Nat : \E st : Split(base, st)
  BY DEF StreamIs
<1>4. PICK st : Split(base, st)
  BY <1>3
<1>5. /\ q \in Seq(Symbols) /\ Len(q) = Len(chunk) + Len(wire) /\ Len(chunk) \in Nat /\ Len(wire) \in Nat /\ Len(chunk) > 0
      /\ \A i \in 1 .. Len(chunk) : q[i] = chunk[i]
  <2>1. chunk \in Seq(Symbols) /\ wire \in Seq(Symbols)
    BY <1>2
  <2>2. Len(chunk) \in Nat /\ Len(wire) \in Nat /\ Len(chunk) > 0
    BY <1>1, <2>1
  <2>3. QED
    BY <2>1, <2>2, JoinedParts
<1> DEFINE audio == base + Len(adts)
<1>6. Track(st, q, m, skip) /\ st[0] = [phase |-> "meta", left |-> left, got |-> got, audio |-> audio] /\ audio \in Nat
  <2>1. Track(st, q, m, skip) /\ st[0] = Here(audio)
    BY <1>4 DEF Split
  <2>2. QED
    BY <1>1, <1>2, <2>1 DEF Here
<1> HIDE DEF q, skip
<1>7. k \in 0 .. Len(chunk) /\ k <= left /\ (left > 0 => k > 0)
  BY <1>2, <1>5 DEF Smaller
<1>8. left > 0 /\ m # 0
  <2>1. 1 \in 1 .. Len(q) /\ 1 - 1 = 0
    BY <1>5
  <2>2. Fits(st[1 - 1], q[1], st[1], m, skip)
    BY <1>6, <2>1 DEF Track
  <2>3. OnMeta(st[0], q[1], st[1], m)
    BY <1>6, <2>1, <2>2 DEF Fits, OnSound, OnLength, LengthAt
  <2>4. QED
    BY <1>6, <2>3 DEF OnMeta
<1> HIDE DEF k
<1>9. /\ left + got = 2
      /\ st[k] = IF k = left THEN SoundAt(m, audio)
                 ELSE [phase |-> "meta", left |-> left - k, got |-> got + k, audio |-> audio]
      /\ \A i \in 1 .. k : q[i] = [is |-> "meta", n |-> got + i]
  <2>1. k \in 1 .. Len(q) /\ q \in Seq(Symbols) /\ k <= left
    BY <1>5, <1>7, <1>8
  <2>2. left \in Nat /\ got \in Nat
    BY <1>2
  <2> HIDE DEF left, got, audio, m
  <2>3. QED
    BY <1>6, <2>1, <2>2, RunOfMeta
<1>10. meta = Metas(got + k) /\ Metas(got + k) \in Seq(Symbols) /\ Len(Metas(got + k)) = got + k
  <2>1. ASSUME NEW i \in 1 .. k PROVE chunk[i] = [is |-> "meta", n |-> got + i]
    <3>1. i \in 1 .. Len(chunk)
      BY <1>7
    <3>2. QED
      BY <1>5, <1>9, <3>1
  <2>2. got \in Nat /\ chunk \in Seq(Symbols) /\ k \in 0 .. Len(chunk)
    BY <1>2, <1>7
  <2>3. icy.meta = Metas(got)
    BY <1>2
  <2> HIDE DEF got
  <2>4. Metas(got) \o SubSeq(chunk, 1, k) = Metas(got + k) /\ Metas(got + k) \in Seq(Symbols) /\ Len(Metas(got + k)) = got + k
    BY <2>1, <2>2, MetasGrow
  <2>5. QED
    BY <2>3, <2>4
<1> HIDE DEF meta
<1>11. /\ icy' \in [metaint : {0, MetaInt}, phase : {"audio", "len", "meta"}, remain : Nat, meta : Seq(Symbols)]
       /\ icy'.metaint = m /\ icy'.meta = Metas(Len(icy'.meta)) /\ (icy'.phase # "meta" => icy'.meta = <<>>)
       /\ st[k] = [phase |-> icy'.phase, left |-> icy'.remain, got |-> Len(icy'.meta), audio |-> audio]
       /\ titles' = titles \/ titles' = Append(titles, Metas(2))
  <2>1. CASE k = left
    <3>1. icy' = BackToAudio /\ titles' = Append(titles, meta) /\ got + k = 2 /\ st[k] = SoundAt(m, audio)
      BY <1>1, <1>2, <1>9, <2>1
    <3>2. titles' = Append(titles, Metas(2))
      BY <1>10, <3>1
    <3>3. <<>> \in Seq(Symbols) /\ Len(<<>>) = 0 /\ <<>> = Metas(0)
      BY Empty
    <3>4. /\ icy' \in [metaint : {0, MetaInt}, phase : {"audio", "len", "meta"}, remain : Nat, meta : Seq(Symbols)]
          /\ icy'.metaint = m /\ icy'.meta = <<>> /\ icy'.phase = "audio" /\ icy'.remain = m
      BY <1>2, <3>1, <3>3 DEF BackToAudio
    <3>5. QED
      BY <3>1, <3>2, <3>3, <3>4 DEF SoundAt
  <2>2. CASE k # left
    <3>1. icy' = [icy EXCEPT !.remain = left - k, !.meta = meta] /\ UNCHANGED titles /\ left - k \in Nat
      BY <1>1, <1>2, <1>7, <2>2
    <3>2. /\ icy' \in [metaint : {0, MetaInt}, phase : {"audio", "len", "meta"}, remain : Nat, meta : Seq(Symbols)]
          /\ icy'.metaint = m /\ icy'.meta = meta /\ icy'.phase = "meta" /\ icy'.remain = left - k
      BY <1>1, <1>2, <1>10, <3>1
    <3>3. Len(meta) = got + k
      BY <1>10
    <3>4. QED
      BY <1>9, <1>10, <2>2, <3>1, <3>2, <3>3
  <2>3. QED
    BY <2>1, <2>2
<1>12. st[k] = Here(base + Len(adts))'
  BY <1>1, <1>11 DEF Here
<1>13. \A j \in 1 .. Len(adts') : adts'[j] = Sound(base + j, srv.skip)
  BY <1>1, <1>4 DEF Split
<1>14. adts' \in Seq(Symbols)
  BY <1>1, <1>2
<1>15. StreamIs'
  BY <1>1, <1>4, <1>7, <1>8, <1>11, <1>12, <1>13, <1>14, TakeKeeps
<1>16. QED
  BY <1>11, <1>15

-------------------------------------------------------------------------------
(* The accumulator. *)

LEMMA DropKeeps ==
  ASSUME StreamIs, NEW base \in Nat, NEW st, Split(base, st), NEW d \in 0 .. Len(adts),
         adts' = From(adts, d), UNCHANGED <<chunk, wire, icy, srv>>, FramesWhole',
         \/ base + d = srv.skip + Len(frames') * FrameLen
         \/ Len(frames') = 0 /\ base + d <= srv.skip
  PROVE  StreamIs'
<1>1. adts \in Seq(Symbols)
  BY DEF StreamIs, StreamShape
<1>2. Len(adts) \in Nat /\ d \in Nat /\ d <= Len(adts) /\ base + d \in Nat
  BY <1>1
<1>3. adts' \in Seq(Symbols) /\ Len(adts') = Len(adts) - d /\ \A j \in 1 .. Len(adts) - d : adts'[j] = adts[j + d]
  BY <1>1, <1>2 DEF From
<1>4. \A j \in 1 .. Len(adts) - d : j + d \in 1 .. Len(adts) /\ base + (j + d) = (base + d) + j
  BY <1>2
<1>5. \A j \in 1 .. Len(adts') : adts'[j] = Sound((base + d) + j, srv.skip)
  BY <1>3, <1>4 DEF Split
<1>6. (base + d) + Len(adts') = base + Len(adts)
  BY <1>2, <1>3
<1>7. StreamShape'
  BY <1>3 DEF StreamIs, StreamShape
<1>8. Split(base + d, st)'
  BY <1>5, <1>6 DEF Split, Here, There
<1>9. QED
  BY <1>2, <1>7, <1>8 DEF StreamIs

\* The first header in the accumulator is that of the next frame.
LEMMA HeadIsNext ==
  ASSUME StreamIs, NEW base \in Nat, NEW st, Split(base, st)
  PROVE  /\ Heads # {} => /\ FrameAt \in 1 .. Len(adts)
                          /\ base + FrameAt - 1 = srv.skip + Len(frames) * FrameLen
         /\ Heads = {} => \/ base + Len(adts) = srv.skip + Len(frames) * FrameLen
                          \/ Len(frames) = 0 /\ base + Len(adts) <= srv.skip
<1> DEFINE skip == srv.skip
           f == Len(frames)
           z == skip + f * FrameLen
<1>1. adts \in Seq(Symbols) /\ srv \in [audio : Nat, left : Nat, skip : Nat] /\ frames \in Seq(Seq(Symbols))
  BY DEF StreamIs, StreamShape, FramesWhole
<1>2. Len(adts) \in Nat /\ DOMAIN adts = 1 .. Len(adts)
  BY <1>1
<1>3. skip \in Nat
  BY <1>1
<1>4. f \in Nat
  BY <1>1
<1>5. z \in Nat /\ (f = 0 => z = skip)
  BY <1>3, <1>4, RadioAssumption
<1>6. Sound(z + 1, skip).is = "head"
  <2>1. 1 \in 1 .. FrameLen
    BY RadioAssumption
  <2> HIDE DEF f, skip
  <2>2. Sound(skip + f * FrameLen + 1, skip).is = "head"
    BY <1>3, <1>4, <2>1, FrameSounds
  <2>3. QED
    BY <2>2
<1>7. /\ \A j \in 1 .. Len(adts) : adts[j] = Sound(base + j, skip)
      /\ base = z \/ (f = 0 /\ base <= skip)
  BY DEF Split
<1>8. \A k \in Nat : Sound(k, skip).is = "head" => k > skip
  BY <1>3 DEF Sound
<1> HIDE DEF z, f, skip
<1>9. base <= z
  BY <1>5, <1>7
<1> DEFINE p == z + 1 - base
<1>10. p \in Nat /\ p > 0 /\ base + p = z + 1
  BY <1>5, <1>9
<1>11. ASSUME NEW i \in Heads PROVE p <= i /\ p \in Heads
  <2>1. i \in 1 .. Len(adts) /\ adts[i].is = "head"
    BY <1>2 DEF Heads
  <2>2. Sound(base + i, skip).is = "head" /\ base + i \in Nat
    BY <1>7, <2>1
  <2>3. p <= i
    <3>1. CASE base = z
      BY <1>5, <2>1, <3>1
    <3>2. CASE f = 0 /\ base <= skip
      <4>1. base + i > skip
        BY <1>8, <2>2
      <4>2. QED
        BY <1>3, <1>5, <2>1, <3>2, <4>1
    <3>3. QED
      BY <1>7, <3>1, <3>2
  <2>4. p \in 1 .. Len(adts)
    BY <1>2, <1>10, <2>1, <2>3
  <2>5. adts[p].is = "head"
    BY <1>6, <1>7, <1>10, <2>4
  <2>6. QED
    BY <1>2, <2>3, <2>4, <2>5 DEF Heads
<1>12. ASSUME Heads # {} PROVE FrameAt \in 1 .. Len(adts) /\ base + FrameAt - 1 = z
  <2>1. p \in Heads /\ \A j \in Heads : p <= j
    BY <1>11, <1>12
  <2>2. FrameAt \in Heads /\ \A j \in Heads : FrameAt <= j
    BY <2>1, Zenon DEF FrameAt
  <2>3. FrameAt \in 1 .. Len(adts) /\ FrameAt <= p /\ p <= FrameAt
    BY <1>2, <2>1, <2>2 DEF Heads
  <2> HIDE DEF p
  <2>4. FrameAt = p
    BY <1>10, <2>3
  <2>5. QED
    BY <1>5, <1>10, <2>3, <2>4
<1>13. ASSUME Heads = {} PROVE base + Len(adts) = z \/ (f = 0 /\ base + Len(adts) <= skip)
  <2>1. ~(p <= Len(adts))
    <3>1. SUFFICES ASSUME p <= Len(adts) PROVE FALSE
      OBVIOUS
    <3>2. p \in 1 .. Len(adts)
      BY <1>2, <1>10, <3>1
    <3>3. adts[p].is = "head"
      BY <1>6, <1>7, <1>10, <3>2
    <3>4. QED
      BY <1>2, <1>13, <3>2, <3>3 DEF Heads
  <2>2. base + Len(adts) <= z
    BY <1>2, <1>5, <2>1
  <2>3. QED
    BY <1>2, <1>5, <1>7, <2>2
<1>14. QED
  BY <1>12, <1>13 DEF z, f, skip

\* re_feed_audio without a whole frame keeps what may begin one.
LEMMA NoFrameKeeps == ASSUME StreamIs, NoFrame PROVE StreamIs'
<1>1. /\ adts' = IF Heads = {} THEN <<>> ELSE From(adts, FrameAt - 1)
      /\ UNCHANGED <<chunk, wire, icy, srv, frames>>
  BY DEF NoFrame, netVars, histVars
<1>2. PICK base \in Nat : \E st : Split(base, st)
  BY DEF StreamIs
<1>3. PICK st : Split(base, st)
  BY <1>2
<1>4. FramesWhole' /\ adts \in Seq(Symbols) /\ srv \in [audio : Nat, left : Nat, skip : Nat]
  BY <1>1 DEF StreamIs, StreamShape, FramesWhole
<1>5. CASE Heads = {}
  <2>1. Len(adts) \in 0 .. Len(adts) /\ From(adts, Len(adts)) = <<>>
    BY <1>4 DEF From
  <2>2. adts' = From(adts, Len(adts))
    BY <1>1, <1>5, <2>1
  <2>3. \/ base + Len(adts) = srv.skip + Len(frames') * FrameLen
        \/ Len(frames') = 0 /\ base + Len(adts) <= srv.skip
    BY <1>1, <1>3, <1>5, HeadIsNext
  <2>4. QED
    BY <1>1, <1>3, <1>4, <2>1, <2>2, <2>3, DropKeeps
<1>6. CASE Heads # {}
  <2>1. FrameAt \in 1 .. Len(adts) /\ base + FrameAt - 1 = srv.skip + Len(frames) * FrameLen
    BY <1>3, <1>6, HeadIsNext
  <2>2. FrameAt - 1 \in 0 .. Len(adts) /\ base + (FrameAt - 1) = srv.skip + Len(frames') * FrameLen
    BY <1>1, <1>4, <2>1
  <2>3. adts' = From(adts, FrameAt - 1)
    BY <1>1, <1>6
  <2>4. QED
    BY <1>1, <1>3, <1>4, <2>2, <2>3, DropKeeps
<1>7. QED
  BY <1>5, <1>6

\* What is cut out of the accumulator is the next frame.
LEMMA FrameIsWhole ==
  ASSUME StreamIs, HasFrame, NEW base \in Nat, NEW st, Split(base, st)
  PROVE  SubSeq(adts, FrameAt, FrameAt + FrameLen - 1) = FrameOf(Len(frames) + 1)
<1> DEFINE f == Len(frames)
           skip == srv.skip
           b == SubSeq(adts, FrameAt, FrameAt + FrameLen - 1)
           c == FrameOf(f + 1)
<1>1. adts \in Seq(Symbols) /\ srv \in [audio : Nat, left : Nat, skip : Nat] /\ frames \in Seq(Seq(Symbols))
  BY DEF StreamIs, StreamShape, FramesWhole
<1>2. Len(adts) \in Nat
  BY <1>1
<1>3. skip \in Nat /\ f \in Nat /\ FrameLen \in Nat /\ FrameLen > 1 /\ f * FrameLen \in Nat
  BY <1>1, RadioAssumption
<1>4. FrameAt \in 1 .. Len(adts) /\ base + FrameAt - 1 = skip + f * FrameLen /\ FrameAt + FrameLen - 1 <= Len(adts)
  BY <1>2, <1>3, HeadIsNext DEF HasFrame
<1>5. b \in Seq(Symbols) /\ Len(b) = FrameLen /\ \A j \in 1 .. FrameLen : b[j] = adts[FrameAt + j - 1]
  BY <1>1, <1>2, <1>3, <1>4
<1>6. c \in Seq(Symbols) /\ Len(c) = FrameLen
  BY <1>3 DEF FrameOf, Symbols
<1>7. ASSUME NEW j \in 1 .. FrameLen PROVE b[j] = c[j]
  <2>1. /\ FrameAt + j - 1 \in 1 .. Len(adts)
        /\ base + (FrameAt + j - 1) = skip + f * FrameLen + j
    BY <1>2, <1>3, <1>4
  <2>2. adts[FrameAt + j - 1] = Sound(base + (FrameAt + j - 1), skip)
    BY <2>1 DEF Split
  <2> HIDE DEF f, skip
  <2>3. Sound(skip + f * FrameLen + j, skip) = FrameOf(f + 1)[j]
    BY <1>3, FrameSounds
  <2>4. QED
    BY <1>5, <2>1, <2>2, <2>3
<1> HIDE DEF b, c
<1>8. b = c
  BY <1>5, <1>6, <1>7
<1>9. QED
  BY <1>8 DEF b, c

\* re_feed_audio with a frame.
LEMMA DecodesKeeps ==
  ASSUME StreamIs, Decodes
  PROVE  StreamIs' /\ pcm' = <<Len(frames')>> /\ Len(frames') = Len(frames) + 1
<1> DEFINE frame == SubSeq(adts, FrameAt, FrameAt + FrameLen - 1)
           f == Len(frames)
<1>1. /\ frames' = Append(frames, frame) /\ pcm' = <<Head(frame).n>> /\ HasFrame
      /\ adts' = From(adts, FrameAt + FrameLen - 1) /\ UNCHANGED <<chunk, wire, icy, srv>>
  BY DEF Decodes, netVars
<1>2. PICK base \in Nat : \E st : Split(base, st)
  BY DEF StreamIs
<1>3. PICK st : Split(base, st)
  BY <1>2
<1>4. frame = FrameOf(f + 1)
  BY <1>1, <1>3, FrameIsWhole
<1> HIDE DEF frame
<1>5. /\ FrameLen \in Nat /\ FrameLen > 1 /\ adts \in Seq(Symbols) /\ srv \in [audio : Nat, left : Nat, skip : Nat]
      /\ frames \in Seq(Seq(Symbols)) /\ frames = [i \in 1 .. f |-> FrameOf(i)]
  BY RadioAssumption DEF StreamIs, StreamShape, FramesWhole
<1>6. f \in Nat
  BY <1>5
<1>7. FrameOf(f + 1) \in Seq(Symbols) /\ Head(FrameOf(f + 1)).n = f + 1
  <2>1. FrameOf(f + 1) \in Seq(Symbols) /\ Len(FrameOf(f + 1)) = FrameLen
    BY <1>5, <1>6 DEF FrameOf, Symbols
  <2>2. Head(FrameOf(f + 1)) = FrameOf(f + 1)[1] /\ FrameOf(f + 1)[1].n = f + 1
    BY <1>5, <2>1 DEF FrameOf
  <2>3. QED
    BY <2>1, <2>2
<1>8. /\ frames' \in Seq(Seq(Symbols)) /\ Len(frames') = f + 1
      /\ \A i \in 1 .. f : frames'[i] = frames[i]
      /\ frames'[f + 1] = FrameOf(f + 1)
  BY <1>1, <1>4, <1>5, <1>7
<1>9. FramesWhole'
  <2>1. ASSUME NEW i \in 1 .. f + 1 PROVE frames'[i] = FrameOf(i)
    <3>1. CASE i = f + 1
      BY <1>8, <3>1
    <3>2. CASE i # f + 1
      <4>1. i \in 1 .. f
        BY <1>6, <3>2
      <4>2. QED
        BY <1>5, <1>8, <4>1
    <3>3. QED
      BY <3>1, <3>2
  <2>2. DOMAIN frames' = 1 .. f + 1 /\ frames' = [i \in DOMAIN frames' |-> frames'[i]]
    BY <1>6, <1>8
  <2>3. frames' = [i \in 1 .. f + 1 |-> FrameOf(i)]
    BY <2>1, <2>2
  <2>4. QED
    BY <1>8, <2>3 DEF FramesWhole
<1> DEFINE d == FrameAt + FrameLen - 1
<1>10. /\ d \in 0 .. Len(adts) /\ base + d = srv.skip + Len(frames') * FrameLen
  <2>1. FrameAt \in 1 .. Len(adts) /\ base + FrameAt - 1 = srv.skip + f * FrameLen
    BY <1>1, <1>3, HeadIsNext DEF HasFrame
  <2>2. FrameAt + FrameLen - 1 <= Len(adts) /\ Len(adts) \in Nat
    BY <1>1, <1>5, <2>1 DEF HasFrame
  <2>3. srv.skip \in Nat /\ (f + 1) * FrameLen = f * FrameLen + FrameLen /\ f * FrameLen \in Nat
    BY <1>5, <1>6
  <2>4. base + d = srv.skip + (f + 1) * FrameLen
    <3>1. FrameAt \in Nat /\ FrameLen \in Nat
      BY <1>5, <2>1, <2>2
    <3>2. base + d = (base + FrameAt - 1) + FrameLen
      BY <3>1
    <3> DEFINE z == f * FrameLen
               s == srv.skip
    <3>3. z \in Nat /\ s \in Nat /\ (f + 1) * FrameLen = z + FrameLen /\ base + FrameAt - 1 = s + z
      BY <2>1, <2>3
    <3> HIDE DEF z, s, d, f
    <3>4. base + d = s + (f + 1) * FrameLen
      BY <3>1, <3>2, <3>3
    <3>5. QED
      BY <3>4 DEF s
  <2>5. d \in 0 .. Len(adts)
    BY <1>5, <2>1, <2>2
  <2>6. QED
    BY <1>8, <2>4, <2>5
<1>11. adts' = From(adts, d)
  BY <1>1
<1> HIDE DEF d
<1>12. StreamIs'
  BY <1>1, <1>3, <1>9, <1>10, <1>11, DropKeeps
<1>13. pcm' = <<f + 1>>
  BY <1>1, <1>4, <1>7
<1>14. QED
  BY <1>8, <1>12, <1>13

-------------------------------------------------------------------------------
(* The steps around the split. *)

LEMMA StreamStays ==
  ASSUME StreamIs, UNCHANGED <<chunk, wire, icy, srv, adts, frames>> PROVE StreamIs'
<1>1. PICK base \in Nat : \E st : Split(base, st)
  BY DEF StreamIs
<1>2. PICK st : Split(base, st)
  BY <1>1
<1>3. Split(base, st)'
  BY <1>2 DEF Split, Here, There
<1>4. StreamShape' /\ FramesWhole'
  BY DEF StreamIs, StreamShape, FramesWhole
<1>5. QED
  BY <1>3, <1>4 DEF StreamIs

\* A read moves symbols from the wire to the chunk.
LEMMA ReadKeeps == ASSUME StreamIs, chunk = <<>>, Reads PROVE StreamIs' /\ wk' = "consume"
<1>1. /\ UNCHANGED <<icy, srv, adts, frames>> /\ wk' = "consume"
      /\ \E k \in 1 .. Smaller(MaxChunk, Len(wire)) : chunk' = SubSeq(wire, 1, k) /\ wire' = From(wire, k)
  BY DEF Reads, histVars
<1>2. PICK k \in 1 .. Smaller(MaxChunk, Len(wire)) : chunk' = SubSeq(wire, 1, k) /\ wire' = From(wire, k)
  BY <1>1
<1>3. wire \in Seq(Symbols) /\ Len(wire) \in Nat
  BY DEF StreamIs, StreamShape
<1>4. k \in Nat /\ k <= Len(wire)
  BY <1>3, RadioAssumption DEF Smaller
<1>5. /\ chunk' \in Seq(Symbols) /\ Len(chunk') = k /\ \A i \in 1 .. k : wire[i] = chunk'[i]
      /\ wire' \in Seq(Symbols) /\ Len(wire') = Len(wire) - k /\ \A i \in 1 .. Len(wire) - k : wire[k + i] = wire'[i]
  <2>1. chunk' \in Seq(Symbols) /\ Len(chunk') = k /\ \A i \in 1 .. k : wire[i] = chunk'[i]
    BY <1>2, <1>3, <1>4
  <2>2. wire' \in Seq(Symbols) /\ Len(wire') = Len(wire) - k /\ \A i \in 1 .. Len(wire) - k : wire'[i] = wire[i + k]
    BY <1>2, <1>3, <1>4 DEF From
  <2>3. \A i \in 1 .. Len(wire) - k : i + k = k + i
    BY <1>3, <1>4
  <2>4. QED
    BY <2>1, <2>2, <2>3
<1>6. chunk' \o wire' = wire
  <2> DEFINE u == chunk'
             v == wire'
  <2>1. u \in Seq(Symbols) /\ v \in Seq(Symbols) /\ wire \in Seq(Symbols)
    BY <1>3, <1>5
  <2>2. Len(wire) = Len(u) + Len(v)
    BY <1>3, <1>4, <1>5
  <2>3. (\A i \in 1 .. Len(u) : wire[i] = u[i]) /\ (\A i \in 1 .. Len(v) : wire[Len(u) + i] = v[i])
    BY <1>5
  <2> HIDE DEF u, v
  <2>4. u \o v = wire
    BY <2>1, <2>2, <2>3, JoinedIs
  <2>5. QED
    BY <2>4 DEF u, v
<1>7. chunk \o wire = wire
  BY <1>3
<1>8. PICK base \in Nat : \E st : Split(base, st)
  BY DEF StreamIs
<1>9. PICK st : Split(base, st)
  BY <1>8
<1>10. Split(base, st)'
  BY <1>1, <1>6, <1>7, <1>9 DEF Split, Here, There
<1>11. StreamShape' /\ FramesWhole'
  BY <1>1, <1>5 DEF StreamIs, StreamShape, FramesWhole
<1>12. QED
  BY <1>1, <1>10, <1>11 DEF StreamIs

\* A stream of which nothing has been sent.
LEMMA OpenedIs ==
  ASSUME NEW m \in {0, MetaInt}, NEW skip \in Nat,
         icy' = [metaint |-> m, phase |-> "audio", remain |-> m, meta |-> <<>>],
         srv' = [audio |-> 0, left |-> m, skip |-> skip],
         chunk' = <<>>, wire' = <<>>, adts' = <<>>, frames' = <<>>
  PROVE  StreamIs'
<1>1. m \in Nat /\ <<>> \in Seq(Symbols) /\ Len(<<>>) = 0 /\ <<>> \o <<>> = <<>> /\ <<>> = Metas(0)
  BY RadioAssumption, Empty
<1>2. StreamShape'
  BY <1>1 DEF StreamShape
<1>3. FramesWhole'
  <2>1. <<>> \in Seq(Seq(Symbols)) /\ <<>> = [i \in 1 .. 0 |-> FrameOf(i)]
    OBVIOUS
  <2>2. QED
    BY <1>1, <2>1 DEF FramesWhole
<1> DEFINE st == [i \in 0 .. 0 |-> SoundAt(m, 0)]
<1>4. st[0] = SoundAt(m, 0) /\ SoundAt(m, 0) \in SplitterPlaces /\ st \in [0 .. 0 -> SplitterPlaces]
  BY <1>1 DEF SplitterPlaces, SoundAt
<1> HIDE DEF st
<1>5. Track(st, <<>>, m, skip)
  BY <1>1, <1>4 DEF Track
<1>6. Here(0)' = SoundAt(m, 0) /\ There' = SoundAt(m, 0)
  BY <1>1 DEF Here, There, AfterSound, SoundAt
<1>7. Split(0, st)'
  <2>1. chunk' \o wire' = <<>> /\ Len(<<>>) = 0 /\ Len(adts') = 0 /\ 0 + 0 = 0 /\ Len(frames') = 0 /\ 0 <= skip
    BY <1>1
  <2>2. icy'.metaint = m /\ srv'.skip = skip
    OBVIOUS
  <2>3. Track(st, chunk' \o wire', icy'.metaint, srv'.skip)
    BY <1>5, <2>1, <2>2
  <2>4. st[0] = Here(0 + Len(adts))' /\ st[Len(chunk' \o wire')] = There'
    BY <1>4, <1>6, <2>1 DEF Here
  <2>5. \A j \in 1 .. Len(adts') : adts'[j] = Sound(0 + j, srv'.skip)
    BY <2>1
  <2>6. Len(frames') = 0 /\ 0 <= srv'.skip
    BY <2>1, <2>2
  <2>7. QED
    BY <2>3, <2>4, <2>5, <2>6 DEF Split
<1>8. QED
  BY <1>2, <1>3, <1>7 DEF StreamIs

-------------------------------------------------------------------------------
(* The invariant of the stream. *)

Taking == {"consume", "frame", "write"}
Fresh ==
  /\ icy = [metaint |-> 0, phase |-> "audio", remain |-> 0, meta |-> <<>>]
  /\ srv = [audio |-> 0, left |-> 0, skip |-> 0]
  /\ wire = <<>> /\ adts = <<>> /\ frames = <<>>
StreamInv ==
  engine = "live" =>
    /\ StreamIs
    /\ wk \notin Taking => chunk = <<>>
    /\ wk \in {"start", "open", "send"} => Fresh

LEMMA StreamInvStep == StreamInv /\ [Next]_vars => StreamInv'
<1> SUFFICES ASSUME StreamInv, [Next]_vars PROVE StreamInv'
  OBVIOUS
<1>1. ASSUME UNCHANGED <<chunk, wire, icy, srv, adts, frames>>, engine' = "live" => engine = "live",
             \/ wk' = wk
             \/ wk' \in Taking /\ wk \in Taking
             \/ wk \notin Taking /\ wk' \notin {"start", "open", "send"}
             \/ wk \in {"start", "open", "send"}
             \/ chunk = <<>> /\ wk' \notin {"start", "open", "send"}
      PROVE  StreamInv'
  <2>1. SUFFICES ASSUME engine' = "live" PROVE StreamInv'
    BY DEF StreamInv
  <2>2. StreamIs'
    BY <1>1, <2>1, StreamStays DEF StreamInv
  <2>3. QED
    BY <1>1, <2>1, <2>2 DEF StreamInv, Fresh, Taking
<1>2. ASSUME StreamIs', chunk' = <<>> \/ wk' \in Taking, wk' \notin {"start", "open", "send"} PROVE StreamInv'
  BY <1>2 DEF StreamInv
<1>3. CASE EnterLoading
  <2>1. /\ wk' = "start"
        /\ icy' = [metaint |-> 0, phase |-> "audio", remain |-> 0, meta |-> <<>>]
        /\ srv' = [audio |-> 0, left |-> 0, skip |-> 0]
        /\ chunk' = <<>> /\ wire' = <<>> /\ adts' = <<>> /\ frames' = <<>>
    BY <1>3 DEF EnterLoading, NoEngine
  <2>2. 0 \in {0, MetaInt} /\ 0 \in Nat
    OBVIOUS
  <2>3. StreamIs'
    BY <2>1, <2>2, OpenedIs
  <2>4. QED
    BY <2>1, <2>3 DEF StreamInv, Fresh, Taking
<1>4. CASE EnterStopped \/ Destroy
  BY <1>1, <1>4 DEF EnterStopped, Destroy, ReStop, netVars, splitVars, histVars
<1>5. CASE JoinEnds \/ OnEngineState
  BY <1>1, <1>5 DEF JoinEnds, OnEngineState, netVars, splitVars, histVars
<1>6. CASE WorkerStarts \/ OpensRequest \/ OpenFails
  BY <1>1, <1>6 DEF WorkerStarts, OpensRequest, OpenFails, Works, wkKept, uiVars, netVars, splitVars, histVars, Taking
<1>7. CASE ResponseArrives
  <2>1. Works("send") /\ engine = "live" /\ wk' = "read" /\ UNCHANGED <<wire, chunk, adts, frames>>
    BY <1>7 DEF ResponseArrives, Works, histVars
  <2>2. PICK metaint \in {0, MetaInt}, skip \in {0, FrameLen - 1} :
          /\ icy' = [icy EXCEPT !.metaint = metaint, !.remain = metaint]
          /\ srv' = [srv EXCEPT !.left = metaint, !.skip = skip]
    BY <1>7 DEF ResponseArrives
  <2>3. Fresh /\ chunk = <<>>
    BY <2>1 DEF StreamInv, Works, Taking
  <2>4. skip \in Nat
    BY RadioAssumption
  <2>5. /\ icy' = [metaint |-> metaint, phase |-> "audio", remain |-> metaint, meta |-> <<>>]
        /\ srv' = [audio |-> 0, left |-> metaint, skip |-> skip]
    BY <2>2, <2>3 DEF Fresh
  <2>6. wire' = <<>> /\ chunk' = <<>> /\ adts' = <<>> /\ frames' = <<>>
    BY <2>1, <2>3 DEF Fresh
  <2>7. StreamIs'
    BY <2>4, <2>5, <2>6, OpenedIs
  <2>8. QED
    BY <1>2, <2>1, <2>6, <2>7
<1>8. CASE LooksAtStop \/ LoopEnds
  BY <1>1, <1>8 DEF LooksAtStop, LoopEnds, Works, wkKept, uiVars, netVars, splitVars, histVars, Taking
<1>9. CASE Reads
  <2>1. StreamIs /\ chunk = <<>>
    BY <1>9 DEF Reads, Works, StreamInv, Taking
  <2>2. QED
    BY <1>2, <1>9, <2>1, ReadKeeps DEF Taking
<1>10. CASE ConsumesAudio
  BY <1>2, <1>10, SoundKeeps DEF ConsumesAudio, Works, StreamInv, Taking
<1>11. CASE ConsumesLength
  BY <1>2, <1>11, LengthKeeps DEF ConsumesLength, Works, StreamInv, Taking
<1>12. CASE ConsumesMeta
  BY <1>2, <1>12, MetaKeeps DEF ConsumesMeta, Works, StreamInv, Taking
<1>13. CASE ChunkDone
  BY <1>1, <1>13 DEF ChunkDone, Works, wkKept, uiVars, netVars, splitVars, histVars
<1>14. CASE NoFrame
  BY <1>2, <1>14, NoFrameKeeps DEF NoFrame, Works, StreamInv, Taking
<1>15. CASE DecoderMade \/ WasapiStarts \/ WritesPcm
  BY <1>1, <1>15 DEF DecoderMade, WasapiStarts, WritesPcm, Works, wkKept, uiVars, netVars, splitVars, histVars, Taking
<1>16. CASE Decodes
  BY <1>2, <1>16, DecodesKeeps DEF Decodes, Works, StreamInv, Taking
<1>17. CASE Teardown \/ WorkerEnds
  BY <1>1, <1>17 DEF Teardown, WorkerEnds, Works, wkKept, uiVars, netVars, splitVars, histVars, Taking
<1>18. CASE Render
  BY <1>1, <1>18 DEF Render, RenderWakes, RenderFills, uiVars, netVars, splitVars, histVars
<1>19. CASE ServerSends
  <2>1. engine = "live" /\ wk \notin {"start", "open", "send"} /\ UNCHANGED <<wk, chunk, engine>>
    BY <1>19 DEF ServerSends, Connected, uiVars, splitVars
  <2>2. StreamIs'
    BY <1>19, <2>1, SendKeeps DEF StreamInv
  <2>3. QED
    BY <2>1, <2>2 DEF StreamInv
<1>20. CASE UNCHANGED vars
  BY <1>1, <1>20 DEF vars, uiVars, netVars, splitVars, histVars
<1>21. QED
  BY <1>3, <1>4, <1>5, <1>6, <1>7, <1>8, <1>9, <1>10, <1>11, <1>12, <1>13, <1>14, <1>15, <1>16,
     <1>17, <1>18, <1>19, <1>20 DEF Next, Ui, Worker

-------------------------------------------------------------------------------
(* The blocks of sound, from the decoder through the ring to the device.     *)

\* The number of the last block that left the decoder's hand.
Written == Len(frames) - Len(pcm)

InARow(s) == \A i \in 1 .. Len(s) - 1 : s[i + 1] = s[i] + 1

BlocksShape ==
  /\ ring \in Seq(Int) /\ played \in Seq(Int)
  /\ engine = "live" =>
       /\ pcm = IF wk = "write" THEN <<Len(frames)>> ELSE <<>>
       /\ wk \in {"joinrender", "ended"} => stop
       /\ wk = "ended" => render # "filling"
       /\ wk # "ended" /\ ~wasapi => played = <<>> /\ render = "none"

\* Until the stop nothing is dropped.
RingIsRun == ~stop => InARow(ring) /\ (ring # <<>> => ring[Len(ring)] = Written)

\* What is played next follows what was played last; a block is dropped only from
\* a full ring, and after the stop the ring gives up one block at most.
NextFollows ==
  (~stop \/ render = "filling") /\ played # <<>> =>
    IF ring = <<>> THEN played[Len(played)] = Written ELSE ring[1] = played[Len(played)] + 1

BlocksInv == BlocksShape /\ InARow(played) /\ (engine = "live" => RingIsRun /\ NextFollows)

\* The device takes one block or none.
LEMMA BlockPlayed ==
  ASSUME NEW p \in Seq(Int), NEW r \in Seq(Int), NEW k \in 0 .. Smaller(Len(r), 1)
  PROVE  \/ From(r, k) = r /\ p \o SubSeq(r, 1, k) = p
         \/ r # <<>> /\ From(r, k) = Tail(r) /\ p \o SubSeq(r, 1, k) = Append(p, r[1])
<1>1. Len(r) \in Nat
  OBVIOUS
<1>2. CASE k = 0
  <2>1. From(r, k) = r
    BY <1>1, <1>2 DEF From
  <2>2. SubSeq(r, 1, k) = <<>> /\ p \o <<>> = p
    BY <1>1, <1>2
  <2>3. QED
    BY <2>1, <2>2
<1>3. CASE k # 0
  <2>1. k = 1 /\ Len(r) > 0 /\ r # <<>>
    BY <1>1, <1>3 DEF Smaller
  <2>2. From(r, k) = Tail(r)
    BY <1>1, <2>1 DEF From
  <2>3. r[1] \in Int
    BY <1>1, <2>1
  <2>4. SubSeq(r, 1, 1) = <<r[1]>>
    <3> DEFINE a == SubSeq(r, 1, 1)
               one == <<r[1]>>
    <3>1. a \in Seq(Int) /\ Len(a) = 1 /\ a[1] = r[1]
      BY <1>1, <2>1
    <3>2. one \in Seq(Int) /\ Len(one) = 1 /\ one[1] = r[1]
      BY <2>3
    <3> HIDE DEF a, one
    <3>3. \A i \in 1 .. 1 : a[i] = one[i]
      BY <3>1, <3>2
    <3>4. a = one
      BY <3>1, <3>2, <3>3
    <3>5. QED
      BY <3>4 DEF a, one
  <2>5. p \o <<r[1]>> = Append(p, r[1])
    BY <2>3
  <2>6. QED
    BY <2>1, <2>2, <2>4, <2>5
<1>4. QED
  BY <1>2, <1>3

\* A block more at the end, a block less at the front.
LEMMA RowGrows ==
  ASSUME NEW s \in Seq(Int), NEW x \in Int
  PROVE  /\ Append(s, x) \in Seq(Int) /\ Append(s, x) # <<>> /\ Len(Append(s, x)) = Len(s) + 1
         /\ Append(s, x)[Len(Append(s, x))] = x
         /\ s # <<>> => Append(s, x)[1] = s[1]
         /\ s = <<>> => Append(s, x)[1] = x
         /\ InARow(s) /\ (s # <<>> => x = s[Len(s)] + 1) => InARow(Append(s, x))
<1> DEFINE t == Append(s, x)
<1>1. /\ Len(s) \in Nat /\ t \in Seq(Int) /\ Len(t) = Len(s) + 1 /\ t[Len(s) + 1] = x
      /\ \A i \in 1 .. Len(s) : t[i] = s[i]
  OBVIOUS
<1>2. s # <<>> => 1 \in 1 .. Len(s) /\ Len(s) \in 1 .. Len(s)
  OBVIOUS
<1> HIDE DEF t
<1>3. ASSUME InARow(s), s # <<>> => x = s[Len(s)] + 1 PROVE InARow(t)
  <2>1. ASSUME NEW i \in 1 .. Len(t) - 1 PROVE t[i + 1] = t[i] + 1
    <3>1. i \in 1 .. Len(s)
      BY <1>1
    <3>2. s # <<>>
      BY <1>1, <3>1
    <3>3. CASE i = Len(s)
      BY <1>1, <1>3, <3>1, <3>2, <3>3
    <3>4. CASE i # Len(s)
      <4>1. i \in 1 .. Len(s) - 1 /\ i + 1 \in 1 .. Len(s)
        BY <1>1, <3>1, <3>4
      <4>2. s[i + 1] = s[i] + 1
        BY <1>3, <4>1 DEF InARow
      <4>3. QED
        BY <1>1, <3>1, <4>1, <4>2
    <3>5. QED
      BY <3>3, <3>4
  <2>2. QED
    BY <2>1 DEF InARow
<1>4. t # <<>> /\ t[Len(t)] = x
  BY <1>1
<1>5. (s # <<>> => t[1] = s[1]) /\ (s = <<>> => t[1] = x)
  BY <1>1, <1>2
<1>6. QED
  BY <1>1, <1>3, <1>4, <1>5 DEF t

\* The same at the front.
LEMMA RowShrinks ==
  ASSUME NEW s \in Seq(Int), s # <<>>
  PROVE  /\ Tail(s) \in Seq(Int) /\ s[1] \in Int
         /\ Tail(s) # <<>> => Tail(s)[Len(Tail(s))] = s[Len(s)]
         /\ Tail(s) = <<>> => s[1] = s[Len(s)]
         /\ InARow(s) => InARow(Tail(s)) /\ (Tail(s) # <<>> => Tail(s)[1] = s[1] + 1)
<1> DEFINE t == Tail(s)
<1>1. /\ Len(s) \in Nat /\ Len(s) > 0 /\ t \in Seq(Int) /\ Len(t) = Len(s) - 1
      /\ \A i \in 1 .. Len(s) - 1 : t[i] = s[i + 1]
      /\ s[1] \in Int
  OBVIOUS
<1> HIDE DEF t
<1>2. ASSUME t # <<>>
      PROVE  /\ Len(t) \in 1 .. Len(s) - 1 /\ 1 \in 1 .. Len(s) - 1 /\ Len(t) + 1 = Len(s)
             /\ t[Len(t)] = s[Len(s)] /\ t[1] = s[2]
  <2>1. Len(t) > 0
    BY <1>1, <1>2
  <2>2. Len(t) \in 1 .. Len(s) - 1 /\ 1 \in 1 .. Len(s) - 1 /\ Len(t) + 1 = Len(s) /\ 1 + 1 = 2
    BY <1>1, <2>1
  <2>3. QED
    BY <1>1, <2>2
<1>3. ASSUME t = <<>> PROVE s[1] = s[Len(s)]
  <2>1. Len(t) = 0
    BY <1>3
  <2>2. Len(s) = 1
    BY <1>1, <2>1
  <2>3. QED
    BY <2>2
<1>4. ASSUME InARow(s) PROVE InARow(t) /\ (t # <<>> => t[1] = s[1] + 1)
  <2>1. ASSUME NEW i \in 1 .. Len(t) - 1 PROVE t[i + 1] = t[i] + 1
    <3>1. i \in 1 .. Len(s) - 1 /\ i + 1 \in 1 .. Len(s) - 1
      BY <1>1
    <3>2. t[i] = s[i + 1] /\ t[i + 1] = s[(i + 1) + 1]
      BY <1>1, <3>1
    <3>3. s[(i + 1) + 1] = s[i + 1] + 1
      BY <1>4, <3>1 DEF InARow
    <3>4. QED
      BY <3>2, <3>3
  <2>2. ASSUME t # <<>> PROVE t[1] = s[1] + 1
    <3>1. 1 \in 1 .. Len(s) - 1 /\ t[1] = s[2] /\ 1 + 1 = 2
      BY <1>2, <2>2
    <3>2. s[1 + 1] = s[1] + 1
      BY <1>4, <3>1 DEF InARow
    <3>3. QED
      BY <3>1, <3>2
  <2>3. QED
    BY <2>1, <2>2 DEF InARow
<1>5. QED
  BY <1>1, <1>2, <1>3, <1>4 DEF t

LEMMA BlocksInvStep == StreamInv /\ BlocksInv /\ [Next]_vars => BlocksInv'
<1> SUFFICES ASSUME StreamInv, BlocksInv, [Next]_vars PROVE BlocksInv'
  OBVIOUS
<1>1. /\ ring \in Seq(Int) /\ played \in Seq(Int) /\ InARow(played)
      /\ engine = "live" => Len(frames) \in Nat
  BY DEF BlocksInv, BlocksShape, StreamInv, StreamIs, FramesWhole
\* Steps that touch no block.
<1>2. ASSUME UNCHANGED <<ring, played, pcm, frames, render>>, engine' = "live" => engine = "live" /\ wasapi' = wasapi,
             stop' = stop \/ stop' = TRUE,
             engine' = "live" => (wk' = "write" <=> wk = "write") /\ (wk' = "ended" <=> wk = "ended"),
             wk' = "joinrender" => wk = "joinrender" \/ stop'
      PROVE  BlocksInv'
  BY <1>2 DEF BlocksInv, BlocksShape, RingIsRun, NextFollows, Written, InARow
<1>3. CASE EnterLoading
  <2>1. /\ wk' = "start" /\ stop' = FALSE /\ pcm' = <<>> /\ ring' = <<>> /\ wasapi' = FALSE
        /\ render' = "none" /\ played' = <<>>
    BY <1>3 DEF EnterLoading, NoEngine
  <2>2. <<>> \in Seq(Int) /\ Len(<<>>) = 0
    OBVIOUS
  <2>3. InARow(<<>>)
    BY DEF InARow
  <2>4. QED
    BY <2>1, <2>2, <2>3 DEF BlocksInv, BlocksShape, RingIsRun, NextFollows
<1>4. CASE EnterStopped \/ Destroy
  BY <1>2, <1>4 DEF EnterStopped, Destroy, ReStop, StopSignals, decVars, histVars
<1>5. CASE JoinEnds \/ OnEngineState
  BY <1>2, <1>5 DEF JoinEnds, OnEngineState, decVars, histVars
<1>6. CASE WorkerStarts \/ OpensRequest \/ ResponseArrives \/ OpenFails
  BY <1>2, <1>6 DEF WorkerStarts, OpensRequest, ResponseArrives, OpenFails, Works, wkKept, uiVars, decVars, histVars
<1>7. CASE LooksAtStop \/ LoopEnds \/ Reads
  BY <1>2, <1>7 DEF LooksAtStop, LoopEnds, Reads, Works, wkKept, uiVars, decVars, histVars
<1>8. CASE ConsumesAudio \/ ConsumesLength \/ ConsumesMeta \/ ChunkDone
  BY <1>2, <1>8 DEF ConsumesAudio, ConsumesLength, ConsumesMeta, ChunkDone, Works, wkKept, uiVars, decVars, histVars
<1>9. CASE NoFrame \/ DecoderMade
  BY <1>2, <1>9 DEF NoFrame, DecoderMade, Works, wkKept, uiVars, decVars, histVars
<1>10. CASE Decodes
  <2>1. /\ engine = "live" /\ wk = "frame" /\ wk' = "write" /\ UNCHANGED <<engine, stop, ring, render, played, wasapi>>
    BY <1>10 DEF Decodes, Works, wkKept, uiVars
  <2>2. pcm' = <<Len(frames')>> /\ Len(frames') = Len(frames) + 1
    BY <1>10, <2>1, DecodesKeeps DEF StreamInv
  <2>3. pcm = <<>> /\ Len(pcm) = 0 /\ Len(pcm') = 1
    BY <2>1, <2>2 DEF BlocksInv, BlocksShape
  <2>4. Written' = Written
    BY <1>1, <2>1, <2>2, <2>3 DEF Written
  <2> HIDE DEF Written
  <2>5. BlocksShape'
    BY <2>1, <2>2 DEF BlocksInv, BlocksShape
  <2>6. InARow(played)' /\ RingIsRun' /\ NextFollows'
    BY <2>1, <2>4 DEF BlocksInv, RingIsRun, NextFollows, InARow
  <2>7. QED
    BY <2>5, <2>6 DEF BlocksInv
<1>11. ASSUME engine = "live", wk = "write", wk' = "frame", pcm' = <<>>, UNCHANGED <<engine, frames>>
       PROVE  /\ pcm = <<Len(frames)>> /\ Len(frames) \in Nat
              /\ Written = Len(frames) - 1 /\ Written' = Len(frames) /\ Written' = Written + 1
  <2>1. pcm = <<Len(frames)>> /\ Len(pcm) = 1 /\ Len(pcm') = 0
    BY <1>11 DEF BlocksInv, BlocksShape
  <2>2. QED
    BY <1>1, <1>11, <2>1 DEF Written
<1>12. CASE WasapiStarts
  <2>1. /\ engine = "live" /\ wk = "write" /\ ~wasapi /\ UNCHANGED <<engine, stop, frames, played>>
        /\ \/ wasapi' = TRUE /\ render' = "waiting" /\ ring' = <<>> /\ UNCHANGED <<wk, pcm>>
           \/ ring' = pcm /\ pcm' = <<>> /\ wk' = "frame" /\ UNCHANGED <<wasapi, render>>
    BY <1>12 DEF WasapiStarts, Works, wkKept, uiVars, histVars
  <2>2. played = <<>> /\ render = "none"
    BY <2>1 DEF BlocksInv, BlocksShape
  <2>3. <<>> \in Seq(Int) /\ InARow(<<>>)
    BY DEF InARow
  <2>4. CASE wasapi' = TRUE /\ render' = "waiting" /\ ring' = <<>> /\ UNCHANGED <<wk, pcm>>
    BY <2>1, <2>2, <2>3, <2>4 DEF BlocksInv, BlocksShape, RingIsRun, NextFollows
  <2>5. CASE ring' = pcm /\ pcm' = <<>> /\ wk' = "frame" /\ UNCHANGED <<wasapi, render>>
    <3>1. pcm = <<Len(frames)>> /\ Len(frames) \in Nat /\ Written' = Len(frames)
      BY <1>11, <2>1, <2>5
    <3> DEFINE one == <<Len(frames)>>
    <3>2. one \in Seq(Int) /\ Len(one) = 1 /\ one[1] = Len(frames)
      BY <3>1
    <3>3. ring' = one
      BY <2>5, <3>1
    <3> HIDE DEF one
    <3>4. InARow(one) /\ one[Len(one)] = Len(frames)
      BY <3>2 DEF InARow
    <3>5. Len(frames) = Written'
      BY <3>1
    <3>6. InARow(ring') /\ ring'[Len(ring')] = Written'
      BY <3>3, <3>4, <3>5
    <3>7. RingIsRun' /\ NextFollows' /\ InARow(played)'
      BY <2>1, <2>2, <2>3, <3>6 DEF RingIsRun, NextFollows, InARow
    <3>8. BlocksShape'
      BY <2>1, <2>2, <2>3, <2>5, <3>2, <3>3 DEF BlocksShape
    <3>9. QED
      BY <3>7, <3>8 DEF BlocksInv
  <2>6. QED
    BY <2>1, <2>4, <2>5
<1>13. CASE WritesPcm
  <2>1. /\ engine = "live" /\ wk = "write" /\ wk' = "frame" /\ wasapi /\ pcm' = <<>>
        /\ UNCHANGED <<engine, stop, frames, played, wasapi, render>>
        /\ \/ ring' = ring \o pcm
           \/ ~(Len(ring) < RingCap) /\ stop /\ UNCHANGED ring
    BY <1>13 DEF WritesPcm, Room, GivesUp, Works, wkKept, uiVars, histVars
  <2>2. /\ pcm = <<Len(frames)>> /\ Len(frames) \in Nat
        /\ Written = Len(frames) - 1 /\ Written' = Len(frames) /\ Written' = Written + 1
    BY <1>11, <2>1
  <2>3. CASE ring' = ring \o pcm
    <3> DEFINE x == Len(frames)
               w == Written
    <3>1. ring' = Append(ring, x) /\ x \in Int
      BY <1>1, <2>2, <2>3
    <3>2. x = w + 1 /\ w = x - 1 /\ Written' = x
      BY <2>2
    <3> HIDE DEF x, w
    <3>3. /\ Append(ring, x) \in Seq(Int) /\ Append(ring, x) # <<>> /\ Append(ring, x)[Len(Append(ring, x))] = x
          /\ ring # <<>> => Append(ring, x)[1] = ring[1]
          /\ ring = <<>> => Append(ring, x)[1] = x
          /\ InARow(ring) /\ (ring # <<>> => x = ring[Len(ring)] + 1) => InARow(Append(ring, x))
      BY <1>1, <3>1, RowGrows
    <3>4. ~stop => InARow(ring) /\ (ring # <<>> => ring[Len(ring)] = w)
      BY <2>1 DEF BlocksInv, RingIsRun, w
    <3>5. RingIsRun'
      <4>1. SUFFICES ASSUME ~stop PROVE InARow(ring') /\ ring'[Len(ring')] = Written'
        BY <2>1 DEF RingIsRun, InARow
      <4>2. QED
        BY <3>1, <3>2, <3>3, <3>4, <4>1
    <3>6. NextFollows'
      <4>1. SUFFICES ASSUME ~stop \/ render = "filling", played # <<>>
                     PROVE  ring' # <<>> /\ ring'[1] = played[Len(played)] + 1
        BY <2>1 DEF NextFollows
      <4>2. IF ring = <<>> THEN played[Len(played)] = w ELSE ring[1] = played[Len(played)] + 1
        BY <2>1, <4>1 DEF BlocksInv, NextFollows, w
      <4>3. QED
        BY <3>1, <3>2, <3>3, <4>2
    <3>7. BlocksShape'
      BY <2>1, <3>1, <3>3 DEF BlocksInv, BlocksShape
    <3>8. QED
      BY <1>1, <2>1, <3>5, <3>6, <3>7 DEF BlocksInv, InARow
  <2>4. CASE ~(Len(ring) < RingCap) /\ stop /\ UNCHANGED ring
    <3>1. ring # <<>>
      BY <2>4, RadioAssumption
    <3>2. RingIsRun' /\ NextFollows'
      BY <2>1, <2>4, <3>1 DEF BlocksInv, RingIsRun, NextFollows
    <3>3. BlocksShape'
      BY <2>1, <2>4 DEF BlocksInv, BlocksShape
    <3>4. QED
      BY <1>1, <2>1, <3>2, <3>3 DEF BlocksInv, InARow
  <2>5. QED
    BY <2>1, <2>3, <2>4
<1>14. CASE Teardown
  BY <1>2, <1>14 DEF Teardown, TeardownSignals, Works, wkKept, uiVars, decVars, histVars
<1>15. CASE WorkerEnds
  <2>1. /\ engine = "live" /\ wk = "joinrender" /\ wk' = "ended" /\ ring' = <<>> /\ pcm' = <<>> /\ render # "filling"
        /\ UNCHANGED <<engine, stop, played, render>>
    BY <1>15 DEF WorkerEnds, Works, wkKept, uiVars, histVars
  <2>2. stop
    BY <2>1 DEF BlocksInv, BlocksShape
  <2>3. <<>> \in Seq(Int)
    OBVIOUS
  <2>4. QED
    BY <1>1, <2>1, <2>2, <2>3 DEF BlocksInv, BlocksShape, RingIsRun, NextFollows, InARow
<1>16. CASE RenderWakes
  <2>1. /\ engine = "live" /\ render = "waiting" /\ render' = IF stop THEN "ended" ELSE "filling"
        /\ UNCHANGED <<engine, stop, wk, pcm, wasapi, ring, frames, played>>
    BY <1>16 DEF RenderWakes, uiVars, decVars, histVars
  <2>2. wk = "ended" => stop
    BY <2>1 DEF BlocksInv, BlocksShape
  <2>3. BlocksShape'
    BY <2>1, <2>2 DEF BlocksInv, BlocksShape
  <2>4. RingIsRun' /\ NextFollows'
    BY <2>1 DEF BlocksInv, RingIsRun, NextFollows, Written, InARow
  <2>5. QED
    BY <1>1, <2>1, <2>3, <2>4 DEF BlocksInv, InARow
<1>17. CASE RenderFills
  <2>1. /\ engine = "live" /\ render = "filling" /\ render' = "waiting"
        /\ UNCHANGED <<engine, stop, wk, pcm, wasapi, frames>>
        /\ \E k \in 0 .. Smaller(Len(ring), 1) : ring' = From(ring, k) /\ played' = played \o SubSeq(ring, 1, k)
    BY <1>17 DEF RenderFills, uiVars, decVars
  <2>2. \/ ring' = ring /\ played' = played
        \/ ring # <<>> /\ ring' = Tail(ring) /\ played' = Append(played, ring[1])
    BY <1>1, <2>1, BlockPlayed
  <2>3. wasapi \/ wk = "ended"
    BY <2>1 DEF BlocksInv, BlocksShape
  <2>4. wk # "ended" /\ wasapi
    BY <2>1, <2>3 DEF BlocksInv, BlocksShape
  <2>5. Written' = Written
    BY <2>1 DEF Written
  <2> HIDE DEF Written
  <2>6. CASE ring' = ring /\ played' = played
    <3>1. BlocksShape'
      BY <2>1, <2>4, <2>6 DEF BlocksInv, BlocksShape
    <3>2. RingIsRun' /\ NextFollows'
      BY <2>1, <2>5, <2>6 DEF BlocksInv, RingIsRun, NextFollows, InARow
    <3>3. QED
      BY <1>1, <2>1, <2>6, <3>1, <3>2 DEF BlocksInv, InARow
  <2>7. CASE ring # <<>> /\ ring' = Tail(ring) /\ played' = Append(played, ring[1])
    <3> DEFINE t == Tail(ring)
               x == ring[1]
               p == Append(played, x)
    <3>1. /\ t \in Seq(Int) /\ x \in Int
          /\ t # <<>> => t[Len(t)] = ring[Len(ring)]
          /\ t = <<>> => x = ring[Len(ring)]
          /\ InARow(ring) => InARow(t) /\ (t # <<>> => t[1] = x + 1)
      BY <1>1, <2>7, RowShrinks
    <3>2. ring' = t /\ played' = p
      BY <2>7
    <3>3. played # <<>> => x = played[Len(played)] + 1
      BY <2>1, <2>7 DEF BlocksInv, NextFollows
    <3> HIDE DEF x
    <3>4. p \in Seq(Int) /\ p # <<>> /\ p[Len(p)] = x /\ InARow(p)
      BY <1>1, <3>1, <3>3, RowGrows
    <3> HIDE DEF t, p
    <3>5. ~stop => InARow(ring) /\ ring[Len(ring)] = Written
      BY <2>1, <2>7 DEF BlocksInv, RingIsRun
    <3>6. RingIsRun'
      BY <2>1, <2>5, <3>1, <3>2, <3>5 DEF RingIsRun, InARow
    <3>7. NextFollows'
      <4>1. SUFFICES ASSUME ~stop PROVE IF t = <<>> THEN p[Len(p)] = Written ELSE t[1] = p[Len(p)] + 1
        BY <2>1, <2>5, <3>2 DEF NextFollows
      <4>2. QED
        BY <3>1, <3>4, <3>5, <4>1
    <3>8. BlocksShape'
      BY <2>1, <2>4, <3>1, <3>2, <3>4 DEF BlocksInv, BlocksShape
    <3>9. InARow(played)'
      BY <3>2, <3>4 DEF InARow
    <3>10. QED
      BY <3>6, <3>7, <3>8, <3>9 DEF BlocksInv
  <2>8. QED
    BY <2>2, <2>6, <2>7
<1>18. CASE ServerSends
  BY <1>2, <1>18 DEF ServerSends, uiVars, decVars, histVars
<1>19. CASE UNCHANGED vars
  BY <1>2, <1>19 DEF vars, uiVars, decVars, histVars
<1>20. QED
  BY <1>3, <1>4, <1>5, <1>6, <1>7, <1>8, <1>9, <1>10, <1>12, <1>13, <1>14, <1>15, <1>16, <1>17,
     <1>18, <1>19 DEF Next, Ui, Worker, Render

-------------------------------------------------------------------------------
TitlesWhole == titles \in Seq(Seq(Symbols)) /\ \A i \in DOMAIN titles : titles[i] = Metas(2)

LEMMA TitlesStep == StreamInv /\ TitlesWhole /\ [Next]_vars => TitlesWhole'
<1> SUFFICES ASSUME StreamInv, TitlesWhole, [Next]_vars PROVE TitlesWhole'
  OBVIOUS
<1>1. CASE titles' = titles
  BY <1>1 DEF TitlesWhole
<1>2. CASE titles' = <<>>
  BY <1>2 DEF TitlesWhole
<1>3. CASE titles' = Append(titles, Metas(2))
  <2>1. Metas(2) \in Seq(Symbols)
    BY DEF Metas, Symbols
  <2> DEFINE x == Metas(2)
  <2>2. titles \in Seq(Seq(Symbols)) /\ \A i \in DOMAIN titles : titles[i] = x
    BY DEF TitlesWhole
  <2> HIDE DEF x
  <2>3. /\ titles' \in Seq(Seq(Symbols)) /\ DOMAIN titles' = 1 .. Len(titles) + 1 /\ titles'[Len(titles) + 1] = x
        /\ DOMAIN titles = 1 .. Len(titles) /\ Len(titles) \in Nat /\ \A i \in 1 .. Len(titles) : titles'[i] = titles[i]
    BY <1>3, <2>1, <2>2 DEF x
  <2>4. ASSUME NEW i \in DOMAIN titles' PROVE titles'[i] = x
    BY <2>2, <2>3
  <2>5. QED
    BY <2>3, <2>4 DEF TitlesWhole, x
<1>4. CASE ConsumesMeta
  BY <1>1, <1>3, <1>4, MetaKeeps DEF ConsumesMeta, Works, StreamInv
<1>5. CASE EnterLoading
  BY <1>2, <1>5 DEF EnterLoading, NoEngine
<1>6. CASE EnterStopped \/ Destroy \/ Ui
  BY <1>1, <1>6 DEF EnterStopped, Destroy, ReStop, Ui, JoinEnds, OnEngineState, histVars
<1>7. CASE Worker /\ ~ConsumesMeta
  BY <1>1, <1>7 DEF Worker, WorkerStarts, OpensRequest, ResponseArrives, OpenFails, LooksAtStop, LoopEnds, Reads,
       ConsumesAudio, ConsumesLength, ChunkDone, NoFrame, DecoderMade, Decodes, WasapiStarts, WritesPcm, Teardown,
       WorkerEnds, histVars
<1>8. CASE Render \/ ServerSends
  BY <1>1, <1>8 DEF Render, RenderWakes, RenderFills, ServerSends, histVars
<1>9. CASE UNCHANGED vars
  BY <1>1, <1>9 DEF vars, histVars
<1>10. QED
  BY <1>4, <1>5, <1>6, <1>7, <1>8, <1>9 DEF Next

HeardInv == StreamInv /\ BlocksInv /\ TitlesWhole

LEMMA HeardInvInit == Init => HeardInv
<1> SUFFICES ASSUME Init PROVE HeardInv
  OBVIOUS
<1>1. engine # "live" /\ ring = <<>> /\ played = <<>> /\ titles = <<>>
  BY DEF Init
<1>2. <<>> \in Seq(Int) /\ <<>> \in Seq(Seq(Symbols)) /\ Len(<<>>) = 0 /\ DOMAIN <<>> = {}
  OBVIOUS
<1>3. InARow(played) /\ TitlesWhole
  BY <1>1, <1>2 DEF InARow, TitlesWhole
<1>4. QED
  BY <1>1, <1>2, <1>3 DEF HeardInv, StreamInv, BlocksInv, BlocksShape

LEMMA HeardInvSays == HeardInv => HeardAsSent
<1> SUFFICES ASSUME HeardInv PROVE HeardAsSent
  OBVIOUS
<1>1. engine = "live" => frames = [i \in 1 .. Len(frames) |-> FrameOf(i)]
  BY DEF HeardInv, StreamInv, StreamIs, FramesWhole
<1>2. \A t \in ToSet(titles) : t = Metas(2)
  BY DEF HeardInv, TitlesWhole, ToSet
<1>3. \A i \in 1 .. Len(played) - 1 : played[i + 1] = played[i] + 1
  BY DEF HeardInv, BlocksInv, InARow
<1>4. QED
  BY <1>1, <1>2, <1>3 DEF HeardAsSent

(* radio_engine.c:356-466: however the stream was cut into reads and wherever *)
(* the listener joined, every frame is decoded once, whole and in order, each *)
(* title is announced whole, and what is played is a run of blocks.           *)
THEOREM RadioHeardAsSent == Spec => []HeardAsSent
<1>1. HeardInv /\ [Next]_vars => HeardInv'
  BY StreamInvStep, BlocksInvStep, TitlesStep DEF HeardInv
<1>2. QED
  BY <1>1, HeardInvInit, HeardInvSays, PTL DEF Spec

-------------------------------------------------------------------------------
(* The playback of a sound: one does not disturb the next.                   *)

Places == {"none", "fetch", "decode", "open", "wait", "fail", "cleanup", "exit1", "exit2", "gone"}

AudioTypeOK ==
  /\ runs \in Nat
  /\ player \in [Runs -> Places]
  /\ g_playing \in BOOLEAN /\ g_stop_event \in BOOLEAN /\ g_done_event \in BOOLEAN /\ stopAsked \in BOOLEAN
  /\ device \in {"closed", "playing", "drained"}

Working(r) == player[r] \notin {"none", "gone"}

\* At most one worker is under way, the last run's, and the service is taken
\* until it leaves.
OneWorker ==
  /\ \A r \in Runs : r > runs => player[r] = "none"
  /\ \A r \in Runs : Working(r) => g_playing /\ r = runs

\* The buffers are of the run under way until it has freed them.
BuffersAreOwn ==
  /\ \A r \in Runs : Working(r) => buffers = IF player[r] = "exit2" THEN 0 ELSE r
  /\ ~g_playing => buffers = 0
  /\ "buffers" \notin audioHurt

\* The device is open for the run that waits for it or is about to close it.
DeviceIsOwn ==
  /\ \A r \in Runs : Working(r) /\ player[r] \notin {"wait", "cleanup"} => device = "closed"
  /\ ~g_playing => device = "closed"

\* The events say of the run under way what they are for: nothing is left over
\* in them from the run before.
EventsAreOwn ==
  /\ g_stop_event = stopAsked
  /\ \A r \in Runs : player[r] \in {"fetch", "decode", "open", "wait"} /\ g_done_event => device = "drained"
  /\ \A r \in Runs : player[r] = "cleanup" /\ ~stopAsked => device # "playing"

AudioInv == AudioTypeOK /\ OneWorker /\ BuffersAreOwn /\ DeviceIsOwn /\ EventsAreOwn

LEMMA AudioInvInit == AudioInit => AudioInv
<1> SUFFICES ASSUME AudioInit PROVE AudioInv
  OBVIOUS
<1>1. player \in [Runs -> Places] /\ \A r \in Runs : player[r] = "none"
  BY DEF AudioInit, Places
<1>2. AudioTypeOK
  BY <1>1 DEF AudioInit, AudioTypeOK
<1>3. OneWorker /\ BuffersAreOwn /\ DeviceIsOwn /\ EventsAreOwn
  BY <1>1 DEF AudioInit, Working, OneWorker, BuffersAreOwn, DeviceIsOwn, EventsAreOwn
<1>4. QED
  BY <1>2, <1>3 DEF AudioInv

\* A step of a worker is a step of the last run's, which holds the service.
LEMMA WorkerIsLast ==
  ASSUME AudioInv, NEW r \in Runs, Working(r)
  PROVE  r = runs /\ g_playing /\ \A q \in Runs : q # r => ~Working(q)
BY DEF AudioInv, OneWorker

-------------------------------------------------------------------------------
LEMMA AudioInvStep == AudioInv /\ [AudioNext]_audioVars => AudioInv'
<1> SUFFICES ASSUME AudioInv, [AudioNext]_audioVars PROVE AudioInv'
  OBVIOUS
<1> USE DEF AudioInv, AudioTypeOK, Places, OneWorker, BuffersAreOwn, DeviceIsOwn, EventsAreOwn
<1>1. ASSUME NEW r \in Runs, AudioWorker(r) PROVE AudioInv'
  <2>1. CASE Fetched(r) \/ Decoded(r) \/ WorkFails(r)
    BY <1>1, <2>1, WorkerIsLast DEF Fetched, Decoded, WorkFails, Moves, Working
  <2>2. CASE DeviceOpened(r)
    BY <1>1, <2>2, WorkerIsLast DEF DeviceOpened, Moves, Working
  <2>3. CASE WaitEnds(r)
    BY <1>1, <2>3, WorkerIsLast DEF WaitEnds, Moves, Working
  <2>4. CASE CleanUp(r) \/ Fails(r)
    BY <1>1, <2>4, WorkerIsLast DEF CleanUp, Fails, CleansUp, Moves, Working
  <2>5. CASE Frees(r)
    BY <1>1, <2>5, WorkerIsLast DEF Frees, ExitOrder, AfterExit, Moves, Working
  <2>6. CASE Leaves(r)
    BY <1>1, <2>6, WorkerIsLast DEF Leaves, ExitOrder, AfterExit, Moves, Working
  <2>7. QED
    BY <1>1, <2>1, <2>2, <2>3, <2>4, <2>5, <2>6 DEF AudioWorker
<1>2. CASE WaveOutDone
  BY <1>2 DEF WaveOutDone, Working
<1>3. CASE PlayAccepted
  <2>1. /\ ~g_playing /\ g_playing' = TRUE /\ runs' = runs + 1 /\ buffers' = runs' /\ stopAsked' = FALSE
        /\ g_stop_event' = FALSE /\ g_done_event' = FALSE /\ device' = device /\ audioHurt' = audioHurt
        /\ player' = [player EXCEPT ![runs + 1] = "fetch"]
    BY <1>3 DEF PlayAccepted, EventsReset
  <2>2. \A r \in Runs : ~Working(r)
    BY <2>1
  <2>3. /\ player' \in [Runs -> Places]
        /\ \A r \in Runs : player'[r] = IF r = runs + 1 THEN "fetch" ELSE player[r]
    BY <2>1
  <2>4. OneWorker'
    BY <2>1, <2>2, <2>3 DEF Working, Runs
  <2>5. BuffersAreOwn' /\ DeviceIsOwn' /\ EventsAreOwn'
    BY <2>1, <2>2, <2>3 DEF Working
  <2>6. AudioTypeOK'
    <3>1. runs' \in Nat
      BY <2>1
    <3>2. g_playing' \in BOOLEAN /\ g_stop_event' \in BOOLEAN /\ g_done_event' \in BOOLEAN /\ stopAsked' \in BOOLEAN
      BY <2>1
    <3>3. device' \in {"closed", "playing", "drained"}
      BY <2>1
    <3>4. QED
      BY <2>3, <3>1, <3>2, <3>3
  <2>7. QED
    BY <2>4, <2>5, <2>6
<1>4. CASE PlayRequested \/ PlayRefused \/ StatusShown
  BY <1>4 DEF PlayRequested, PlayRefused, StatusShown, Working
<1>5. CASE WindowClosed
  BY <1>5 DEF WindowClosed, Working
<1>6. CASE StopClicked
  BY <1>6 DEF StopClicked, Working
<1>7. CASE ShutDown
  BY <1>7 DEF ShutDown, Working
<1>8. CASE StopReturns \/ ShutDownReturns
  BY <1>8 DEF StopReturns, ShutDownReturns, Working
<1>9. CASE UNCHANGED audioVars
  BY <1>9 DEF audioVars, Working
<1>10. QED
  BY <1>1, <1>2, <1>3, <1>4, <1>5, <1>6, <1>7, <1>8, <1>9 DEF AudioNext, AudioMessages

(* A playback nobody stopped has been heard to its end when its device is     *)
(* closed, the buffers of a request are never freed by the worker of an       *)
(* earlier one, and a free service holds neither (audio_start_common's        *)
(* resets, audio_worker's wait and exit_thread).                              *)
THEOREM AudioRunsAreApart == AudioSpec => []RunsAreApart
<1>1. AudioInv => RunsAreApart
  BY DEF AudioInv, AudioTypeOK, BuffersAreOwn, DeviceIsOwn, EventsAreOwn, RunsAreApart
<1>2. QED
  BY <1>1, AudioInvInit, AudioInvStep, PTL DEF AudioSpec

-------------------------------------------------------------------------------
(* The television: the picture is shown with its sound.                      *)

TvStates == {"IDLE", "LOADING", "LOADED", "PLAYING", "STOPPED", "ERROR"}
Engines == {"none", "idle", "source", "play", "failed", "null"}
LoaderPlaces == {"none", "start", "load", "wait", "warm", "tail", "loaded", "play", "failed", "done"}
TvEvents == [event : {"LOADEDMETADATA", "PLAYING", "ERROR"}, player : Plays]
UnusedLoader == [at |-> "none", step |-> 1, player |-> 0]

PlayerType == [state : TvStates, engine : Engines, muted : BOOLEAN, warming_up : BOOLEAN]
LoaderType == [at : LoaderPlaces, step : Nat, player : Plays \cup {0}]

TvShape ==
  /\ plays \in 0..MaxPlays /\ st_player \in Plays \cup {0} /\ g_active_player \in Plays \cup {0}
  /\ players \in [Plays -> PlayerType] /\ loader \in [Plays -> LoaderType]
  /\ \A i \in Plays : loader[i].at \notin {"none", "start", "done"} => loader[i].player \in Plays
  /\ tvBox \in Seq(TvEvents) /\ notify \in Seq(TvEvents)

\* Only the last attempt is under way, and all that is there is its own.
LastAlone ==
  /\ \A i \in Plays : i > plays =>
        /\ players[i].engine = "none" /\ ~players[i].muted /\ ~players[i].warming_up
        /\ loader[i].at = "none" /\ loader[i].step = 1
  /\ \A i \in Plays : i < plays => loader[i].at \in {"none", "done"}
  /\ st_player \in {0, plays} /\ g_active_player \in {0, plays}
  /\ g_active_player # 0 => g_active_player \in Plays /\ Exists(g_active_player)
  /\ \A i \in Plays : loader[i].at \notin {"none", "start", "done"} => loader[i].player = i
  /\ \A k \in DOMAIN tvBox : tvBox[k].player <= plays
  /\ \A k \in DOMAIN notify : notify[k].player <= plays

\* The gate is shut before the sound goes off and opened after it is back on.
MutedBehindGate ==
  \A i \in Plays : i = plays =>
    /\ loader[i].at \in {"none", "start", "load", "wait"} => loader[i].step = 1
    /\ loader[i].at = "warm" => loader[i].step \in 1..5
    /\ players[i].warming_up <=> loader[i].at = "warm" /\ loader[i].step \in 2..4
    /\ players[i].muted <=> loader[i].at = "warm" /\ loader[i].step = 3

\* Before the muted start nothing says PLAYING, and behind the gate nothing is heard saying it.
BeforePlay(i) == loader[i].at \in {"none", "start", "load", "wait"} \/ (loader[i].at = "warm" /\ loader[i].step <= 2)
SaysPlaying(box, i) == \E k \in DOMAIN box : box[k] = Event("PLAYING", i)
GateHolds ==
  \A i \in Plays : i = plays =>
    /\ BeforePlay(i) => players[i].engine # "play" /\ ~SaysPlaying(tvBox, i) /\ ~SaysPlaying(notify, i)
    /\ BeforePlay(i) \/ players[i].warming_up => tvState # "playing"
PlayingIsActive == tvState = "playing" /\ tvUi = "loop" => g_active_player # 0

TvInv == TvShape /\ (alone => LastAlone /\ MutedBehindGate /\ GateHolds /\ PlayingIsActive)

LEMMA JoinedBoxes ==
  ASSUME NEW S, NEW s \in Seq(S), NEW t \in Seq(S)
  PROVE  /\ s \o t \in Seq(S)
         /\ \A k \in DOMAIN (s \o t) : \/ \E j \in DOMAIN s : (s \o t)[k] = s[j]
                                     \/ \E j \in DOMAIN t : (s \o t)[k] = t[j]
<1>1. /\ s \o t \in Seq(S) /\ Len(s \o t) = Len(s) + Len(t) /\ Len(s) \in Nat /\ Len(t) \in Nat
      /\ DOMAIN s = 1 .. Len(s) /\ DOMAIN t = 1 .. Len(t) /\ DOMAIN (s \o t) = 1 .. Len(s \o t)
  OBVIOUS
<1>2. ASSUME NEW k \in 1 .. Len(s \o t), k > Len(s)
      PROVE  k - Len(s) \in DOMAIN t /\ (s \o t)[k] = t[k - Len(s)]
  BY <1>1, <1>2
<1>3. ASSUME NEW k \in 1 .. Len(s \o t), k <= Len(s)
      PROVE  k \in DOMAIN s /\ (s \o t)[k] = s[k]
  BY <1>1, <1>3
<1>4. QED
  BY <1>1, <1>2, <1>3

LEMMA LongerBox ==
  ASSUME NEW S, NEW s \in Seq(S), NEW e \in S
  PROVE  /\ Append(s, e) \in Seq(S)
         /\ \A k \in DOMAIN Append(s, e) : Append(s, e)[k] = e \/ \E j \in DOMAIN s : Append(s, e)[k] = s[j]
<1>1. /\ Append(s, e) \in Seq(S) /\ Len(s) \in Nat /\ DOMAIN s = 1 .. Len(s)
      /\ DOMAIN Append(s, e) = 1 .. Len(s) + 1
  OBVIOUS
<1>2. ASSUME NEW k \in 1 .. Len(s) + 1, k # Len(s) + 1
      PROVE  k \in DOMAIN s /\ Append(s, e)[k] = s[k]
  BY <1>1, <1>2
<1>3. Append(s, e)[Len(s) + 1] = e
  OBVIOUS
<1>4. QED
  BY <1>1, <1>2, <1>3

LEMMA ShorterBox ==
  ASSUME NEW S, NEW s \in Seq(S), s # <<>>
  PROVE  /\ Tail(s) \in Seq(S) /\ Head(s) \in S /\ 1 \in DOMAIN s /\ Head(s) = s[1]
         /\ \A k \in DOMAIN Tail(s) : \E j \in DOMAIN s : Tail(s)[k] = s[j]
<1>1. /\ Tail(s) \in Seq(S) /\ Head(s) \in S /\ Head(s) = s[1] /\ Len(s) \in Nat /\ Len(s) > 0
      /\ DOMAIN s = 1 .. Len(s) /\ DOMAIN Tail(s) = 1 .. Len(s) - 1
  OBVIOUS
<1>2. ASSUME NEW k \in 1 .. Len(s) - 1
      PROVE  k + 1 \in DOMAIN s /\ Tail(s)[k] = s[k + 1]
  BY <1>1, <1>2
<1>3. QED
  BY <1>1, <1>2

LEMMA TvInvInit == TvInit => TvInv
<1> SUFFICES ASSUME TvInit PROVE TvInv
  OBVIOUS
<1>1. NewPlayer \in PlayerType /\ UnusedLoader \in LoaderType
  BY DEF NewPlayer, UnusedLoader, PlayerType, LoaderType, TvStates, Engines, LoaderPlaces
<1>2. /\ players = [p \in Plays |-> NewPlayer] /\ loader = [i \in Plays |-> UnusedLoader]
      /\ plays = 0 /\ st_player = 0 /\ g_active_player = 0 /\ tvBox = <<>> /\ notify = <<>> /\ tvState = "splash"
  BY DEF TvInit, UnusedLoader
<1>3. \A i \in Plays : loader[i] = UnusedLoader /\ UnusedLoader.at = "none"
  BY <1>2 DEF UnusedLoader
<1>4. TvShape
  BY <1>1, <1>2, <1>3, TvAssumption DEF TvShape
<1>5. \A i \in Plays : i > 0 /\ i # 0
  BY TvAssumption DEF Plays
<1>6. LastAlone /\ MutedBehindGate /\ GateHolds /\ PlayingIsActive
  BY <1>2, <1>3, <1>5, TvAssumption
     DEF LastAlone, MutedBehindGate, GateHolds, PlayingIsActive, Plays, NewPlayer, UnusedLoader
<1>7. QED
  BY <1>4, <1>6 DEF TvInv

\* One field of a player is set, or the place of a worker.
LEMMA PlayerSet ==
  ASSUME NEW q \in PlayerType, NEW s \in TvStates, NEW e \in Engines
  PROVE  /\ [q EXCEPT !.state = s] \in PlayerType
         /\ [q EXCEPT !.engine = e] \in PlayerType
         /\ [q EXCEPT !.state = s, !.engine = e] \in PlayerType
         /\ Playing(q) \in PlayerType
         /\ \A step : Warmed(q, step) \in PlayerType
<1>1. Playing(q) \in PlayerType
  BY DEF Playing, PlayerType, Engines
<1>2. ASSUME NEW step PROVE Warmed(q, step) \in PlayerType
  BY <1>1 DEF Warmed, PlayerType
<1>3. QED
  BY <1>1, <1>2 DEF PlayerType

LEMMA GoesThere ==
  ASSUME TvShape, NEW i \in Plays, NEW place \in LoaderPlaces, Goes(i, place),
         place \notin {"none", "start", "done"} => loader[i].player \in Plays
  PROVE  /\ loader' \in [Plays -> LoaderType]
         /\ loader'[i].at = place /\ loader'[i].step = loader[i].step /\ loader'[i].player = loader[i].player
         /\ \A j \in Plays : j # i => loader'[j] = loader[j]
         /\ \A j \in Plays : loader'[j].at \notin {"none", "start", "done"} => loader'[j].player \in Plays
<1>1. [loader[i] EXCEPT !.at = place] \in LoaderType
  BY DEF TvShape, LoaderType
<1>2. loader' = [loader EXCEPT ![i] = [loader[i] EXCEPT !.at = place]]
  BY DEF Goes
<1>3. loader' \in [Plays -> LoaderType]
  BY <1>1, <1>2 DEF TvShape
<1>4. /\ loader'[i] = [loader[i] EXCEPT !.at = place]
      /\ \A j \in Plays : j # i => loader'[j] = loader[j]
  BY <1>2 DEF TvShape
<1>5. loader'[i].at = place /\ loader'[i].step = loader[i].step /\ loader'[i].player = loader[i].player
  BY <1>1, <1>4 DEF TvShape, LoaderType
<1>6. QED
  BY <1>3, <1>4, <1>5 DEF TvShape

-------------------------------------------------------------------------------
(* The workers' steps outside of the warm-up: one moves on, and its player   *)
(* may get a source, or play when the warm-up is over.                       *)

QuietMove(i) ==
  /\ loader[i].at \notin {"none", "warm", "done"}
  /\ loader' \in [Plays -> LoaderType] /\ \A j \in Plays : j # i => loader'[j] = loader[j]
  /\ loader'[i].step = loader[i].step /\ loader'[i].at \notin {"none", "start"}
  /\ loader'[i].at # "done" => loader'[i].player = IF loader[i].at = "start" THEN st_player ELSE loader[i].player
  /\ loader'[i].at # "done" => loader'[i].player \in Plays
  /\ loader'[i].at \in {"load", "wait", "warm"} => loader[i].at \in {"start", "load", "wait"}

QuietPlayers(i) ==
  /\ players' \in [Plays -> PlayerType]
  /\ \A r \in Plays :
       /\ players'[r].muted = players[r].muted /\ players'[r].warming_up = players[r].warming_up
       /\ \/ players'[r].engine = players[r].engine
          \/ Exists(r) /\ players'[r].engine = "source"
          \/ Exists(r) /\ players'[r].engine = "play" /\ loader[i].at = "play"

LEMMA QuietWorker ==
  ASSUME TvInv, NEW i \in Plays, QuietMove(i), QuietPlayers(i), tvState' \in {tvState, "error"},
         UNCHANGED <<st_player, g_active_player, notify, tvBox, tvUi, plays, alone>>
  PROVE  TvInv'
<1>1. TvShape'
  BY DEF TvInv, TvShape, QuietMove, QuietPlayers
<1>2. ASSUME alone PROVE LastAlone' /\ MutedBehindGate' /\ GateHolds' /\ PlayingIsActive'
  <2> USE <1>2 DEF TvInv
  <2>1. i = plays /\ plays \in Nat /\ \A j \in Plays : j \in Nat \ {0}
    BY TvAssumption DEF Plays, LastAlone, TvShape, QuietMove
  <2>2. LastAlone'
    <3>1. ASSUME NEW j \in Plays, j > plays
          PROVE  /\ players'[j].engine = "none" /\ ~players'[j].muted /\ ~players'[j].warming_up
                 /\ loader'[j].at = "none" /\ loader'[j].step = 1
      <4>1. j # i /\ players[j].engine = "none" /\ ~players[j].muted /\ ~players[j].warming_up
            /\ loader[j].at = "none" /\ loader[j].step = 1
        BY <2>1, <3>1 DEF LastAlone
      <4>2. QED
        BY <4>1 DEF QuietMove, QuietPlayers, Exists
    <3>2. \A j \in Plays : j < plays => loader'[j].at \in {"none", "done"}
      BY <2>1 DEF LastAlone, QuietMove
    <3>3. g_active_player # 0 => g_active_player \in Plays /\ Exists(g_active_player)'
      BY DEF LastAlone, QuietPlayers, Exists
    <3>4. ASSUME NEW j \in Plays, loader'[j].at \notin {"none", "start", "done"} PROVE loader'[j].player = j
      BY <2>1, <3>4 DEF LastAlone, QuietMove
    <3>5. QED
      BY <3>1, <3>2, <3>3, <3>4 DEF LastAlone
  <2>3. MutedBehindGate'
    BY <2>1 DEF MutedBehindGate, QuietMove, QuietPlayers, TvShape
  <2>4. BeforePlay(i)' => BeforePlay(i)
    BY DEF BeforePlay, QuietMove
  <2>5. GateHolds'
    BY <2>1, <2>4 DEF GateHolds, BeforePlay, SaysPlaying, QuietMove, QuietPlayers, Event
  <2>6. PlayingIsActive'
    BY DEF PlayingIsActive
  <2>7. QED
    BY <2>2, <2>3, <2>5, <2>6
<1>3. QED
  BY <1>1, <1>2 DEF TvInv

LEMMA QuietSteps ==
  ASSUME TvInv, NEW i \in Plays,
         \/ LoaderStarts(i) \/ SourceSet(i) \/ SourceRefused(i) \/ WaitOver(i)
         \/ LooksAtState(i) \/ BecomesLoaded(i) \/ LoaderPlays(i) \/ LoaderFails(i)
  PROVE  TvInv'
<1>1. tvState' \in {tvState, "error"}
  BY DEF LoaderStarts, SourceSet, SourceRefused, WaitOver, LooksAtState, BecomesLoaded, LoaderPlays, LoaderFails, Shown
<1>2. UNCHANGED <<st_player, g_active_player, notify, tvBox, tvUi, plays, alone>>
  BY DEF LoaderStarts, SourceSet, SourceRefused, WaitOver, LooksAtState, BecomesLoaded, LoaderPlays, LoaderFails
<1>3. QuietMove(i)
  <2>1. CASE LoaderStarts(i)
    <3> DEFINE l == [loader[i] EXCEPT !.at = IF st_player = 0 THEN "done" ELSE "load", !.player = st_player]
    <3>1. loader' = [loader EXCEPT ![i] = l] /\ loader[i].at = "start" /\ st_player \in Plays \cup {0}
      BY <2>1 DEF LoaderStarts, At, TvInv, TvShape
    <3>2. /\ l \in LoaderType /\ l.step = loader[i].step /\ l.player = st_player
          /\ l.at = IF st_player = 0 THEN "done" ELSE "load"
      BY <3>1 DEF TvInv, TvShape, LoaderType, LoaderPlaces
    <3> HIDE DEF l
    <3>3. loader' \in [Plays -> LoaderType] /\ loader'[i] = l /\ \A j \in Plays : j # i => loader'[j] = loader[j]
      BY <3>1, <3>2 DEF TvInv, TvShape
    <3>4. QED
      BY <3>1, <3>2, <3>3 DEF QuietMove
  <2>2. ASSUME NEW place \in LoaderPlaces \ {"none", "start"}, Goes(i, place),
               loader[i].at \notin {"none", "start", "warm", "done"},
               place \in {"load", "wait", "warm"} => loader[i].at \in {"load", "wait"}
        PROVE  QuietMove(i)
    BY <2>2, GoesThere DEF QuietMove, TvInv, TvShape
  <2>3. CASE SourceSet(i)
    BY <2>3, <2>2 DEF SourceSet, At, LoaderPlaces
  <2>4. CASE SourceRefused(i)
    BY <2>4, <2>2 DEF SourceRefused, At, LoaderPlaces
  <2>5. CASE WaitOver(i)
    BY <2>5, <2>2 DEF WaitOver, At, LoaderPlaces
  <2>6. CASE LooksAtState(i)
    BY <2>6, <2>2 DEF LooksAtState, At, LoaderPlaces
  <2>7. CASE BecomesLoaded(i)
    BY <2>7, <2>2 DEF BecomesLoaded, At, LoaderPlaces
  <2>8. CASE LoaderPlays(i)
    BY <2>8, <2>2 DEF LoaderPlays, At, LoaderPlaces
  <2>9. CASE LoaderFails(i)
    BY <2>9, <2>2 DEF LoaderFails, At, LoaderPlaces
  <2>10. QED
    BY <2>1, <2>3, <2>4, <2>5, <2>6, <2>7, <2>8, <2>9
<1>4. QuietPlayers(i)
  <2> DEFINE p == loader[i].player
  <2>1. ASSUME UNCHANGED players PROVE QuietPlayers(i)
    BY <2>1 DEF QuietPlayers, TvInv, TvShape
  <2>2. ASSUME NEW r \in Plays, NEW q \in PlayerType, players' = [players EXCEPT ![r] = q],
               q.muted = players[r].muted, q.warming_up = players[r].warming_up,
               q.engine = players[r].engine \/ (Exists(r) /\ q.engine = "source")
        PROVE  QuietPlayers(i)
    BY <2>2 DEF QuietPlayers, TvInv, TvShape
  <2>3. loader[i].at \notin {"none", "start", "done"} => p \in Plays /\ players[p] \in PlayerType
    BY DEF TvInv, TvShape
  <2> HIDE DEF p
  <2>4. CASE SourceSet(i)
    <3> DEFINE q == [players[p] EXCEPT !.state = "LOADING", !.engine = "source"]
    <3>1. p \in Plays /\ players' = [players EXCEPT ![p] = q] /\ Exists(p)
      BY <2>4, <2>3 DEF SourceSet, At, p
    <3>2. q \in PlayerType /\ q.muted = players[p].muted /\ q.warming_up = players[p].warming_up /\ q.engine = "source"
      <4>1. players[p] \in PlayerType
        BY <2>4, <2>3 DEF SourceSet, At
      <4>2. QED
        BY <4>1 DEF PlayerType, TvStates, Engines
    <3> HIDE DEF q
    <3>3. QED
      BY <3>1, <3>2, <2>2
  <2>5. ASSUME NEW s \in TvStates, p \in Plays, players' = [players EXCEPT ![p].state = s]
        PROVE  QuietPlayers(i)
    <3> DEFINE q == [players[p] EXCEPT !.state = s]
    <3>1. players' = [players EXCEPT ![p] = q]
      BY <2>5
    <3>2. players[p] \in PlayerType
      BY <2>5 DEF TvInv, TvShape
    <3>3. q \in PlayerType /\ q.muted = players[p].muted /\ q.warming_up = players[p].warming_up /\ q.engine = players[p].engine
      BY <3>2 DEF PlayerType
    <3> HIDE DEF q
    <3>4. QED
      BY <2>5, <3>1, <3>3, <2>2
  <2>6. CASE SourceRefused(i)
    BY <2>6, <2>1, <2>3, <2>5 DEF SourceRefused, At, p, TvStates
  <2>7. CASE BecomesLoaded(i)
    BY <2>7, <2>3, <2>5 DEF BecomesLoaded, At, p, TvStates
  <2>8. CASE LoaderPlays(i)
    <3>1. /\ players' = [r \in Plays |-> IF r = st_player THEN Playing(players[r]) ELSE players[r]]
          /\ loader[i].at = "play" /\ players \in [Plays -> PlayerType]
      BY <2>8 DEF LoaderPlays, At, TvInv, TvShape
    <3>2. ASSUME NEW q \in PlayerType
          PROVE  /\ Playing(q) \in PlayerType /\ Playing(q).muted = q.muted /\ Playing(q).warming_up = q.warming_up
                 /\ Playing(q).engine = q.engine \/ (q.engine = "source" /\ Playing(q).engine = "play")
      BY DEF Playing, PlayerType, Engines
    <3>3. QED
      BY <3>1, <3>2 DEF QuietPlayers, Exists
  <2>9. CASE LoaderStarts(i) \/ WaitOver(i) \/ LooksAtState(i) \/ LoaderFails(i)
    BY <2>9, <2>1 DEF LoaderStarts, WaitOver, LooksAtState, LoaderFails
  <2>10. QED
    BY <2>4, <2>6, <2>7, <2>8, <2>9
<1>5. QED
  BY <1>1, <1>2, <1>3, <1>4, QuietWorker

-------------------------------------------------------------------------------
(* The warm-up.                                                              *)

LEMMA WarmUpEffect ==
  ASSUME NEW q \in PlayerType, NEW n \in 1..5
  PROVE  /\ Len(WarmUp) = 5
         /\ Warmed(q, WarmUp[n]).warming_up = IF n = 1 THEN TRUE ELSE IF n = 4 THEN FALSE ELSE q.warming_up
         /\ Warmed(q, WarmUp[n]).muted = IF n = 2 THEN TRUE ELSE IF n = 3 THEN FALSE ELSE q.muted
         /\ Warmed(q, WarmUp[n]).engine = IF n = 2 /\ q.engine = "source" THEN "play" ELSE q.engine
         /\ WarmUp[n] = "refire" <=> n = 5
<1>1. /\ WarmUp[1] = "gate" /\ WarmUp[2] = "play muted" /\ WarmUp[3] = "unmute"
      /\ WarmUp[4] = "ungate" /\ WarmUp[5] = "refire" /\ Len(WarmUp) = 5
  BY DEF WarmUp
<1>2. n = 1 \/ n = 2 \/ n = 3 \/ n = 4 \/ n = 5
  OBVIOUS
<1>3. CASE n = 1
  BY <1>1, <1>3 DEF Warmed, PlayerType
<1>4. CASE n = 2
  <2>1. Playing(q) \in PlayerType
    BY DEF Playing, PlayerType, Engines
  <2>2. /\ Playing(q).warming_up = q.warming_up
        /\ Playing(q).engine = IF q.engine = "source" THEN "play" ELSE q.engine
    BY DEF Playing, PlayerType
  <2>3. Warmed(q, WarmUp[n]) = [Playing(q) EXCEPT !.muted = TRUE]
    BY <1>1, <1>4 DEF Warmed
  <2>4. QED
    BY <1>1, <1>4, <2>1, <2>2, <2>3 DEF PlayerType
<1>5. CASE n = 3
  BY <1>1, <1>5 DEF Warmed, PlayerType
<1>6. CASE n = 4
  BY <1>1, <1>6 DEF Warmed, PlayerType
<1>7. CASE n = 5
  BY <1>1, <1>7 DEF Warmed, PlayerType
<1>8. QED
  BY <1>2, <1>3, <1>4, <1>5, <1>6, <1>7

LEMMA WarmUpStep ==
  ASSUME TvInv, NEW i \in Plays, WarmsUp(i)
  PROVE  TvInv'
<1> DEFINE p == loader[i].player
           n == loader[i].step
           l == [loader[i] EXCEPT !.step = n + 1, !.at = IF n < Len(WarmUp) THEN "warm" ELSE "tail"]
<1>1. /\ loader[i].at = "warm" /\ p \in Plays /\ players[p] \in PlayerType /\ loader[i] \in LoaderType /\ n \in Nat
      /\ UNCHANGED <<tvState, st_player, g_active_player, notify, plays, raised, alone>>
  BY DEF WarmsUp, At, TvInv, TvShape, LoaderType
<1>2. CASE tvUi' = "crashed" /\ UNCHANGED <<players, loader, tvBox>>
  <2>1. TvShape'
    BY <1>1, <1>2 DEF TvInv, TvShape
  <2>2. alone => LastAlone' /\ MutedBehindGate' /\ GateHolds' /\ PlayingIsActive'
    BY <1>1, <1>2 DEF TvInv, LastAlone, MutedBehindGate, GateHolds, PlayingIsActive, Exists, BeforePlay, SaysPlaying
  <2>3. QED
    BY <1>1, <2>1, <2>2 DEF TvInv
<1>3. CASE ~(tvUi' = "crashed" /\ UNCHANGED <<players, loader, tvBox>>)
  <2>1. /\ players' = [players EXCEPT ![p] = Warmed(players[p], WarmUp[n])]
        /\ loader' = [loader EXCEPT ![i] = l]
        /\ tvBox' = IF WarmUp[n] = "refire" /\ p = g_active_player THEN Append(tvBox, Event("PLAYING", p)) ELSE tvBox
        /\ tvUi' = tvUi
    BY <1>1, <1>3 DEF WarmsUp
  <2>2. Event("PLAYING", p) \in TvEvents /\ Event("PLAYING", p).player = p
    BY <1>1 DEF Event, TvEvents
  <2>3. l \in LoaderType /\ l.step = n + 1 /\ l.at = (IF n < Len(WarmUp) THEN "warm" ELSE "tail") /\ l.player = p
    <3> DEFINE place == IF n < Len(WarmUp) THEN "warm" ELSE "tail"
    <3>1. place \in LoaderPlaces
      BY DEF LoaderPlaces
    <3>2. l = [loader[i] EXCEPT !.step = n + 1, !.at = place]
      OBVIOUS
    <3>3. n + 1 \in Nat
      BY <1>1
    <3> HIDE DEF place, l
    <3>4. l \in LoaderType /\ l.step = n + 1 /\ l.at = place /\ l.player = p
      BY <1>1, <3>1, <3>2, <3>3 DEF LoaderType
    <3>5. QED
      BY <3>4 DEF place
  <2>4. /\ loader' \in [Plays -> LoaderType] /\ loader'[i] = l /\ \A j \in Plays : j # i => loader'[j] = loader[j]
    <3> HIDE DEF l, p, n
    <3>1. QED
      BY <2>1, <2>3 DEF TvInv, TvShape
  <2>5. /\ players' \in [Plays -> PlayerType] /\ players'[p] = Warmed(players[p], WarmUp[n])
        /\ \A r \in Plays : r # p => players'[r] = players[r]
    <3>1. Warmed(players[p], WarmUp[n]) \in PlayerType
      BY <1>1, PlayerSet DEF TvStates, Engines
    <3> HIDE DEF p, n
    <3>2. QED
      BY <1>1, <2>1, <3>1 DEF TvInv, TvShape
  <2>6. tvBox' \in Seq(TvEvents)
    BY <2>1, <2>2, LongerBox DEF TvInv, TvShape
  <2>7. TvShape'
    BY <1>1, <2>3, <2>4, <2>5, <2>6 DEF TvInv, TvShape
  <2>8. ASSUME alone PROVE LastAlone' /\ MutedBehindGate' /\ GateHolds' /\ PlayingIsActive'
    <3>1. i = plays /\ p = i /\ plays \in Nat /\ n \in 1..5
      BY <1>1, <2>8 DEF TvInv, LastAlone, MutedBehindGate, TvShape, Plays
    <3>2. /\ players'[i].warming_up = IF n = 1 THEN TRUE ELSE IF n = 4 THEN FALSE ELSE players[i].warming_up
          /\ players'[i].muted = IF n = 2 THEN TRUE ELSE IF n = 3 THEN FALSE ELSE players[i].muted
          /\ players'[i].engine = IF n = 2 /\ players[i].engine = "source" THEN "play" ELSE players[i].engine
          /\ Len(WarmUp) = 5
          /\ WarmUp[n] = "refire" <=> n = 5
      <4> DEFINE w == Warmed(players[p], WarmUp[n])
      <4>1. players[p] = players[i] /\ players'[i] = w
        BY <2>5, <3>1
      <4> HIDE DEF n, p
      <4>2. /\ w.warming_up = IF n = 1 THEN TRUE ELSE IF n = 4 THEN FALSE ELSE players[p].warming_up
            /\ w.muted = IF n = 2 THEN TRUE ELSE IF n = 3 THEN FALSE ELSE players[p].muted
            /\ w.engine = IF n = 2 /\ players[p].engine = "source" THEN "play" ELSE players[p].engine
            /\ Len(WarmUp) = 5
            /\ WarmUp[n] = "refire" <=> n = 5
        <5>1. players[p] \in PlayerType /\ n \in 1..5
          BY <1>1, <3>1
        <5>2. QED
          BY <5>1, WarmUpEffect, Zenon
      <4> HIDE DEF w
      <4>3. QED
        BY <4>1, <4>2
    <3>3. /\ loader'[i].step = n + 1 /\ loader'[i].player = i
          /\ loader'[i].at = IF n < 5 THEN "warm" ELSE "tail"
      BY <2>3, <2>4, <3>1, <3>2
    <3>4. \A k \in DOMAIN tvBox' : (n = 5 /\ tvBox'[k].player = i) \/ \E j \in DOMAIN tvBox : tvBox'[k] = tvBox[j]
      <4> DEFINE e == Event("PLAYING", p)
      <4>1. tvBox \in Seq(TvEvents) /\ e \in TvEvents /\ e.player = i
        BY <2>2, <3>1 DEF TvInv, TvShape
      <4>2. tvBox' = tvBox \/ (n = 5 /\ tvBox' = Append(tvBox, e))
        BY <2>1, <3>2
      <4> HIDE DEF e, n
      <4>3. \A k \in DOMAIN Append(tvBox, e) : Append(tvBox, e)[k] = e \/ \E j \in DOMAIN tvBox : Append(tvBox, e)[k] = tvBox[j]
        BY <4>1, LongerBox
      <4>4. QED
        BY <4>1, <4>2, <4>3
    <3>5. n # 5 => tvBox' = tvBox
      BY <2>1, <3>2
    <3> HIDE DEF n, l, p
    <3>6. LastAlone'
      <4>1. \A j \in Plays : j > plays => j # i
        BY <3>1
      <4>2. \A k \in DOMAIN tvBox' : tvBox'[k].player <= plays
        BY <2>8, <3>1, <3>4 DEF TvInv, LastAlone
      <4>3. g_active_player # 0 => g_active_player \in Plays /\ Exists(g_active_player)'
        BY <1>1, <2>8, <2>5, <3>1, <3>2 DEF TvInv, LastAlone, Exists
      <4>4. QED
        BY <1>1, <2>8, <2>4, <2>5, <3>1, <3>3, <4>1, <4>2, <4>3 DEF TvInv, LastAlone
    <3>7. MutedBehindGate'
      <4>1. players[i].warming_up <=> n \in 2..4
        BY <1>1, <2>8, <3>1 DEF TvInv, MutedBehindGate, n
      <4>2. players[i].muted <=> n = 3
        BY <1>1, <2>8, <3>1 DEF TvInv, MutedBehindGate, n
      <4>3. players'[i].warming_up <=> n \in 1..3
        BY <3>1, <3>2, <4>1
      <4>4. players'[i].muted <=> n = 2
        BY <3>1, <3>2, <4>2
      <4>5. QED
        BY <1>1, <3>1, <3>3, <4>3, <4>4 DEF MutedBehindGate
    <3>8. GateHolds'
      <4>1. BeforePlay(i)' => n = 1 /\ BeforePlay(i)
        BY <1>1, <3>1, <3>3 DEF BeforePlay, n
      <4>2. BeforePlay(i)' => players'[i].engine # "play" /\ ~SaysPlaying(tvBox, i)' /\ ~SaysPlaying(notify, i)'
        BY <1>1, <2>8, <3>1, <3>2, <3>5, <4>1 DEF TvInv, GateHolds, SaysPlaying, Event
      <4>3. players'[i].warming_up => players[i].warming_up \/ BeforePlay(i)
        <5>1. CASE n = 1
          BY <1>1, <5>1 DEF BeforePlay, n
        <5>2. CASE n = 4
          <6>1. players'[i].warming_up = FALSE
            BY <3>2, <5>2
          <6>2. QED
            BY <6>1
        <5>3. CASE n # 1 /\ n # 4
          <6>1. players'[i].warming_up = players[i].warming_up
            BY <3>2, <5>3
          <6>2. QED
            BY <6>1
        <5>4. QED
          BY <5>1, <5>2, <5>3
      <4>4. QED
        BY <1>1, <2>8, <3>1, <4>1, <4>2, <4>3 DEF TvInv, GateHolds
    <3>9. PlayingIsActive'
      BY <1>1, <2>1, <2>8 DEF TvInv, PlayingIsActive
    <3>10. QED
      BY <3>6, <3>7, <3>8, <3>9
  <2>9. QED
    BY <1>1, <2>7, <2>8 DEF TvInv
<1>4. QED
  BY <1>2, <1>3

-------------------------------------------------------------------------------
(* The engine, its callback and the UI thread.                               *)

LEMMA EngineSteps ==
  ASSUME TvInv,
         \/ \E p \in Plays : \E kind \in {"LOADEDMETADATA", "PLAYING", "ERROR"} : MfRaises(p, kind)
         \/ MfPosts
  PROVE  TvInv'
<1>1. ASSUME NEW p \in Plays, NEW kind \in {"LOADEDMETADATA", "PLAYING", "ERROR"}, MfRaises(p, kind)
      PROVE  TvInv'
  <2> DEFINE e == Event(kind, p)
             q == [players[p] EXCEPT !.engine = IF kind = "ERROR" THEN "failed" ELSE @]
  <2>1. /\ notify' = <<e>> /\ players' = [players EXCEPT ![p] = q] /\ kind \in Raisable(p)
        /\ UNCHANGED <<tvState, st_player, g_active_player, loader, tvBox, tvUi, plays, alone>>
    BY <1>1 DEF MfRaises
  <2>2. e \in TvEvents /\ e.player = p /\ e.event = kind
    BY DEF Event, TvEvents
  <2>3. players[p] \in PlayerType
    BY DEF TvInv, TvShape
  <2>4. /\ q \in PlayerType /\ q.muted = players[p].muted /\ q.warming_up = players[p].warming_up
        /\ q.engine = players[p].engine \/ q.engine = "failed"
    BY <2>3 DEF PlayerType, Engines
  <2>5. players[p].engine \in {"source", "play"} /\ (kind = "PLAYING" => players[p].engine = "play")
    BY <2>1 DEF Raisable
  <2> HIDE DEF e, q
  <2>6. /\ players' \in [Plays -> PlayerType] /\ players'[p] = q
        /\ \A r \in Plays : r # p => players'[r] = players[r]
    BY <2>1, <2>4 DEF TvInv, TvShape
  <2>7. notify' \in Seq(TvEvents) /\ \A k \in DOMAIN notify' : notify'[k] = e
    BY <2>1, <2>2
  <2>8. TvShape'
    BY <2>1, <2>6, <2>7 DEF TvInv, TvShape
  <2>9. ASSUME alone PROVE LastAlone' /\ MutedBehindGate' /\ GateHolds' /\ PlayingIsActive'
    <3>1. ~(p > plays) /\ p \in Nat /\ plays \in Nat
      BY <2>5, <2>9 DEF TvInv, LastAlone, TvShape, Plays
    <3>2. LastAlone'
      <4>1. \A j \in Plays : j > plays => j # p
        BY <3>1
      <4>2. \A k \in DOMAIN notify' : notify'[k].player <= plays
        BY <2>2, <2>7, <3>1
      <4>3. g_active_player # 0 => Exists(g_active_player)'
        BY <2>1, <2>4, <2>5, <2>6, <2>9 DEF TvInv, LastAlone, Exists
      <4>4. QED
        BY <2>1, <2>6, <2>9, <4>1, <4>2, <4>3 DEF TvInv, LastAlone
    <3>3. \A r \in Plays : players'[r].muted = players[r].muted /\ players'[r].warming_up = players[r].warming_up
      BY <2>4, <2>6
    <3>4. MutedBehindGate'
      BY <2>1, <2>9, <3>3 DEF TvInv, MutedBehindGate
    <3>5. \A r \in Plays : BeforePlay(r)' => BeforePlay(r)
      BY <2>1 DEF BeforePlay
    <3>6. ASSUME NEW r \in Plays, r = plays, BeforePlay(r)
          PROVE  players'[r].engine # "play" /\ ~SaysPlaying(tvBox, r)' /\ ~SaysPlaying(notify, r)'
      <4>1. players[r].engine # "play" /\ ~SaysPlaying(tvBox, r)
        BY <2>9, <3>6 DEF TvInv, GateHolds
      <4>2. players'[r].engine # "play"
        BY <2>4, <2>6, <4>1
      <4>3. ~SaysPlaying(tvBox, r)'
        BY <2>1, <4>1 DEF SaysPlaying
      <4>4. ~SaysPlaying(notify, r)'
        BY <2>2, <2>5, <2>7, <4>1 DEF SaysPlaying, Event
      <4>5. QED
        BY <4>2, <4>3, <4>4
    <3>7. GateHolds'
      BY <2>1, <2>9, <3>3, <3>5, <3>6 DEF TvInv, GateHolds
    <3>8. PlayingIsActive'
      BY <2>1, <2>9 DEF TvInv, PlayingIsActive
    <3>9. QED
      BY <3>2, <3>4, <3>7, <3>8
  <2>10. QED
    BY <2>1, <2>8, <2>9 DEF TvInv
<1>2. CASE MfPosts
  <2>1. /\ notify' = <<>> /\ (tvBox' = tvBox \/ tvBox' = tvBox \o notify)
        /\ UNCHANGED <<tvState, st_player, g_active_player, players, loader, tvUi, plays, alone>>
    BY <1>2 DEF MfPosts
  <2>2. /\ tvBox' \in Seq(TvEvents)
        /\ \A k \in DOMAIN tvBox' : \/ \E j \in DOMAIN tvBox : tvBox'[k] = tvBox[j]
                                    \/ \E j \in DOMAIN notify : tvBox'[k] = notify[j]
    <3>1. tvBox \in Seq(TvEvents) /\ notify \in Seq(TvEvents)
      BY DEF TvInv, TvShape
    <3> DEFINE both == tvBox \o notify
    <3>2. /\ both \in Seq(TvEvents)
          /\ \A k \in DOMAIN both : \/ \E j \in DOMAIN tvBox : both[k] = tvBox[j]
                                   \/ \E j \in DOMAIN notify : both[k] = notify[j]
      BY <3>1, JoinedBoxes
    <3> HIDE DEF both
    <3>3. CASE tvBox' = tvBox
      BY <3>1, <3>3
    <3>4. CASE tvBox' = both
      BY <3>2, <3>4
    <3>5. QED
      BY <2>1, <3>3, <3>4 DEF both
  <2>3. TvShape'
    BY <2>1, <2>2 DEF TvInv, TvShape
  <2>4. ASSUME alone PROVE LastAlone' /\ MutedBehindGate' /\ GateHolds' /\ PlayingIsActive'
    <3>1. LastAlone'
      BY <2>1, <2>2, <2>4 DEF TvInv, LastAlone, Exists
    <3>2. MutedBehindGate' /\ PlayingIsActive'
      BY <2>1, <2>4 DEF TvInv, MutedBehindGate, PlayingIsActive
    <3>3. \A r : ~SaysPlaying(notify, r)' /\ (SaysPlaying(tvBox, r)' => SaysPlaying(tvBox, r) \/ SaysPlaying(notify, r))
      BY <2>1, <2>2 DEF SaysPlaying, Event
    <3>4. GateHolds'
      BY <2>1, <2>4, <3>3 DEF TvInv, GateHolds, BeforePlay
    <3>5. QED
      BY <3>1, <3>2, <3>4
  <2>5. QED
    BY <2>1, <2>3, <2>4 DEF TvInv
<1>3. QED
  BY <1>1, <1>2

LEMMA EngineEventStep ==
  ASSUME TvInv, OnEngineEvent
  PROVE  TvInv'
<1> DEFINE e == Head(tvBox)
           p == e.player
           s == NewState(players[p], e.event)
<1>1. /\ tvBox # <<>> /\ tvBox' = Tail(tvBox) /\ tvUi = "loop"
      /\ IF IsOurs(p) /\ s # players[p].state
         THEN players' = [players EXCEPT ![p].state = s] /\ tvState' = Shown(s)
         ELSE UNCHANGED <<players, tvState>>
      /\ UNCHANGED <<st_player, g_active_player, loader, notify, tvUi, plays, alone>>
  BY DEF OnEngineEvent
<1>2. /\ tvBox' \in Seq(TvEvents) /\ e \in TvEvents /\ 1 \in DOMAIN tvBox /\ e = tvBox[1]
      /\ \A k \in DOMAIN tvBox' : \E j \in DOMAIN tvBox : tvBox'[k] = tvBox[j]
  BY <1>1, ShorterBox DEF TvInv, TvShape
<1>3. /\ p \in Plays /\ players[p] \in PlayerType /\ e = Event(e.event, p)
  BY <1>2 DEF TvInv, TvShape, TvEvents, Event
<1>4. s \in TvStates /\ (s = "PLAYING" => s = players[p].state \/ (e.event = "PLAYING" /\ ~players[p].warming_up))
  BY <1>3 DEF NewState, PlayerType, TvStates
<1> HIDE DEF e, p, s
<1>5. /\ players' \in [Plays -> PlayerType]
      /\ \A r \in Plays : /\ players'[r].muted = players[r].muted /\ players'[r].warming_up = players[r].warming_up
                          /\ players'[r].engine = players[r].engine
  <2>1. players \in [Plays -> PlayerType]
    BY DEF TvInv, TvShape
  <2>2. CASE UNCHANGED players
    BY <2>1, <2>2
  <2>3. CASE players' = [players EXCEPT ![p].state = s]
    <3> DEFINE q == [players[p] EXCEPT !.state = s]
    <3>1. /\ q \in PlayerType /\ q.muted = players[p].muted /\ q.warming_up = players[p].warming_up
          /\ q.engine = players[p].engine
      BY <1>3, <1>4 DEF PlayerType
    <3>2. players' = [players EXCEPT ![p] = q]
      BY <2>3
    <3> HIDE DEF q
    <3>3. QED
      BY <1>3, <2>1, <3>1, <3>2
  <2>4. QED
    BY <1>1, <2>2, <2>3
<1>6. tvState' = "playing" /\ tvState # "playing" =>
         p = g_active_player /\ e.event = "PLAYING" /\ ~players[p].warming_up
  BY <1>1, <1>4 DEF Shown, IsOurs
<1>7. TvShape'
  BY <1>1, <1>2, <1>5 DEF TvInv, TvShape
<1>8. ASSUME alone PROVE LastAlone' /\ MutedBehindGate' /\ GateHolds' /\ PlayingIsActive'
  <2>1. LastAlone'
    <3>1. \A k \in DOMAIN tvBox' : tvBox'[k].player <= plays
      BY <1>2, <1>8 DEF TvInv, LastAlone
    <3>2. QED
      BY <1>1, <1>5, <1>8, <3>1 DEF TvInv, LastAlone, Exists
  <2>2. MutedBehindGate'
    BY <1>1, <1>5, <1>8 DEF TvInv, MutedBehindGate
  <2>3. \A r : /\ SaysPlaying(tvBox, r)' => SaysPlaying(tvBox, r)
               /\ SaysPlaying(notify, r)' <=> SaysPlaying(notify, r)
    BY <1>1, <1>2 DEF SaysPlaying, Event
  <2>4. \A r \in Plays : BeforePlay(r)' <=> BeforePlay(r)
    BY <1>1 DEF BeforePlay
  <2>5. tvState' = "playing" /\ tvState # "playing" =>
           p = plays /\ g_active_player # 0 /\ ~BeforePlay(p) /\ ~players[p].warming_up
    <3> SUFFICES ASSUME tvState' = "playing", tvState # "playing"
                 PROVE  p = plays /\ g_active_player # 0 /\ ~BeforePlay(p) /\ ~players[p].warming_up
      OBVIOUS
    <3>1. p # 0 /\ p = g_active_player /\ e.event = "PLAYING"
      BY <1>3, <1>6, TvAssumption DEF Plays
    <3>2. p = plays
      BY <1>8, <3>1 DEF TvInv, LastAlone
    <3>3. SaysPlaying(tvBox, p)
      BY <1>2, <1>3, <3>1 DEF SaysPlaying
    <3>4. QED
      BY <1>3, <1>6, <1>8, <3>1, <3>2, <3>3 DEF TvInv, GateHolds
  <2>6. GateHolds'
    <3>1. ASSUME NEW r \in Plays, r = plays, BeforePlay(r) \/ players'[r].warming_up PROVE tvState' # "playing"
      BY <1>5, <1>8, <2>5, <3>1 DEF TvInv, GateHolds
    <3>2. QED
      BY <1>1, <1>5, <1>8, <2>3, <2>4, <3>1 DEF TvInv, GateHolds
  <2>7. PlayingIsActive'
    BY <1>1, <1>8, <2>5 DEF TvInv, PlayingIsActive
  <2>8. QED
    BY <2>1, <2>2, <2>6, <2>7
<1>9. QED
  BY <1>1, <1>7, <1>8 DEF TvInv

LEMMA UiSteps ==
  ASSUME TvInv,
         EnterSplash \/ PaneClosed \/ EnterLoadingFails \/ StopTv \/ PaneCloses \/ UNCHANGED tvVars
  PROVE  TvInv'
<1> USE DEF TvInv
<1>1. CASE EnterSplash \/ PaneClosed \/ UNCHANGED tvVars
  <2>1. /\ UNCHANGED <<st_player, g_active_player, players, loader, notify, plays, alone>>
        /\ tvState' = tvState \/ tvState' \in {"splash", "gone"}
        /\ tvBox' = tvBox \/ tvBox' = <<>>
        /\ tvState' = "playing" /\ tvUi' = "loop" => tvUi = "loop" /\ tvState = "playing"
    BY <1>1 DEF EnterSplash, PaneClosed, tvVars
  <2>2. TvShape'
    <3>1. tvBox' \in Seq(TvEvents)
      <4>1. tvBox \in Seq(TvEvents) /\ <<>> \in Seq(TvEvents)
        BY DEF TvShape
      <4>2. tvBox' = tvBox \/ tvBox' = <<>>
        BY <2>1
      <4>3. QED
        BY <4>1, <4>2
    <3>2. QED
      BY <2>1, <3>1 DEF TvShape
  <2>3. ASSUME alone PROVE LastAlone' /\ MutedBehindGate' /\ GateHolds' /\ PlayingIsActive'
    <3>1. LastAlone'
      BY <2>1, <2>3 DEF LastAlone, Exists
    <3>2. MutedBehindGate' /\ PlayingIsActive'
      BY <2>1, <2>3 DEF MutedBehindGate, PlayingIsActive
    <3>3. GateHolds'
      BY <2>1, <2>3 DEF GateHolds, BeforePlay, SaysPlaying, Event
    <3>4. QED
      BY <3>1, <3>2, <3>3
  <2>4. QED
    BY <2>1, <2>2, <2>3
<1>2. CASE EnterLoadingFails
  <2>1. /\ UNCHANGED <<g_active_player, players, loader, tvBox, notify, plays, alone>>
        /\ tvState' = "error" /\ st_player' \in {st_player, 0}
    BY <1>2 DEF EnterLoadingFails
  <2>2. TvShape'
    BY <2>1 DEF TvShape
  <2>3. alone => LastAlone' /\ MutedBehindGate' /\ PlayingIsActive'
    BY <2>1 DEF LastAlone, MutedBehindGate, PlayingIsActive, Exists
  <2>4. alone => GateHolds'
    BY <2>1 DEF GateHolds, BeforePlay, SaysPlaying, Event
  <2>5. QED
    BY <2>1, <2>2, <2>3, <2>4
<1>3. CASE StopTv \/ PaneCloses
  <2>1. /\ UNCHANGED <<tvState, loader, notify, plays, alone>>
        /\ tvUi' # "loop" /\ PlayerDestroyed
    BY <1>3 DEF StopTv, PaneCloses
  <2>2. /\ st_player' = 0 /\ g_active_player' \in {g_active_player, 0}
        /\ tvBox' \in {tvBox, <<>>}
    BY <2>1 DEF PlayerDestroyed
  <2>3. players' \in [Plays -> PlayerType]
    <3>1. CASE st_player = 0
      BY <2>1, <3>1 DEF PlayerDestroyed, TvShape
    <3>2. CASE st_player # 0
      <4>1. st_player \in Plays /\ players[st_player] \in PlayerType
        BY <3>2 DEF TvShape
      <4> DEFINE q == [players[st_player] EXCEPT !.state = "STOPPED", !.engine = "null"]
      <4>2. q \in PlayerType
        BY <4>1 DEF PlayerType, TvStates, Engines
      <4>3. players' = [players EXCEPT ![st_player] = q]
        BY <2>1, <3>2 DEF PlayerDestroyed
      <4> HIDE DEF q
      <4>4. QED
        BY <4>1, <4>2, <4>3 DEF TvShape
    <3>3. QED
      BY <3>1, <3>2
  <2>4. \A r \in Plays :
          /\ players'[r].muted = players[r].muted /\ players'[r].warming_up = players[r].warming_up
          /\ players'[r].engine = players[r].engine \/ (r = st_player /\ st_player # 0 /\ players'[r].engine = "null")
    <3>1. CASE st_player = 0
      BY <2>1, <3>1 DEF PlayerDestroyed, TvShape
    <3>2. CASE st_player # 0
      <4>1. st_player \in Plays /\ players[st_player] \in PlayerType
        BY <3>2 DEF TvShape
      <4> DEFINE q == [players[st_player] EXCEPT !.state = "STOPPED", !.engine = "null"]
      <4>2. /\ q.muted = players[st_player].muted /\ q.warming_up = players[st_player].warming_up
            /\ q.engine = "null"
        BY <4>1 DEF PlayerType
      <4>3. players' = [players EXCEPT ![st_player] = q]
        BY <2>1, <3>2 DEF PlayerDestroyed
      <4> HIDE DEF q
      <4>4. QED
        BY <3>2, <4>1, <4>2, <4>3 DEF TvShape
    <3>3. QED
      BY <3>1, <3>2
  <2>5. TvShape'
    <3>1. tvBox' \in Seq(TvEvents)
      <4>1. tvBox \in Seq(TvEvents) /\ <<>> \in Seq(TvEvents)
        BY DEF TvShape
      <4>2. tvBox' = tvBox \/ tvBox' = <<>>
        BY <2>2
      <4>3. QED
        BY <4>1, <4>2
    <3>2. QED
      BY <2>1, <2>2, <2>3, <3>1 DEF TvShape
  <2>6. ASSUME alone PROVE LastAlone' /\ MutedBehindGate' /\ GateHolds' /\ PlayingIsActive'
    <3>1. \A r \in Plays : r > plays => players'[r].engine = "none"
      <4>1. ASSUME NEW r \in Plays, r > plays PROVE r # st_player \/ st_player = 0
        BY <2>6, <4>1, TvAssumption DEF LastAlone, TvShape, Plays
      <4>2. QED
        BY <2>4, <2>6, <4>1 DEF LastAlone
    <3>2. g_active_player' # 0 => g_active_player' \in Plays /\ Exists(g_active_player)'
      <4> SUFFICES ASSUME g_active_player' # 0 PROVE g_active_player' \in Plays /\ Exists(g_active_player)'
        OBVIOUS
      <4>1. g_active_player # st_player /\ g_active_player' = g_active_player /\ g_active_player \in Plays /\ Exists(g_active_player)
        BY <2>1, <2>6 DEF PlayerDestroyed, LastAlone
      <4>2. players'[g_active_player].engine = players[g_active_player].engine
        BY <2>4, <4>1
      <4>3. QED
        BY <4>1, <4>2 DEF Exists
    <3>3. LastAlone'
      BY <2>1, <2>2, <2>4, <2>6, <3>1, <3>2 DEF LastAlone
    <3>4. MutedBehindGate' /\ PlayingIsActive'
      BY <2>1, <2>4, <2>6 DEF MutedBehindGate, PlayingIsActive
    <3>5. \A r : SaysPlaying(tvBox, r)' => SaysPlaying(tvBox, r)
      BY <2>2 DEF SaysPlaying, Event
    <3>6. \A r : SaysPlaying(notify, r)' => SaysPlaying(notify, r)
      BY <2>1 DEF SaysPlaying, Event
    <3>7. \A r : BeforePlay(r)' <=> BeforePlay(r)
      BY <2>1 DEF BeforePlay
    <3>8. GateHolds'
      BY <2>1, <2>4, <2>6, <3>5, <3>6, <3>7 DEF GateHolds
    <3>9. QED
      BY <3>3, <3>4, <3>8
  <2>7. QED
    BY <2>1, <2>5, <2>6
<1>4. QED
  BY <1>1, <1>2, <1>3

LEMMA NewAttempt ==
  ASSUME TvInv, EnterLoadingTv
  PROVE  TvInv'
<1> DEFINE n == plays + 1
           q == [players[n] EXCEPT !.engine = "idle"]
           l == [loader[n] EXCEPT !.at = "start"]
<1>1. /\ plays' = n /\ st_player' = n /\ g_active_player' = n /\ tvState' = "loading" /\ tvBox = <<>>
      /\ players' = [players EXCEPT ![n] = q] /\ loader' = [loader EXCEPT ![n] = l]
      /\ UNCHANGED <<notify, tvBox, tvUi>> /\ plays < MaxPlays
      /\ alone' = (alone /\ \A i \in Plays : loader[i].at \in {"none", "done"})
  BY DEF EnterLoadingTv, Clicked
<1>2. n \in Plays /\ n \in 1..MaxPlays /\ players[n] \in PlayerType /\ loader[n] \in LoaderType /\ plays \in Nat
      /\ \A i \in Plays : i \in Nat
  BY <1>1, TvAssumption DEF TvInv, TvShape, Plays
<1>3. q \in PlayerType /\ q.muted = players[n].muted /\ q.warming_up = players[n].warming_up /\ q.engine = "idle"
  BY <1>2 DEF PlayerType, Engines
<1>4. l \in LoaderType /\ l.at = "start" /\ l.step = loader[n].step
  BY <1>2 DEF LoaderType, LoaderPlaces
<1> HIDE DEF q, l
<1>5. players' \in [Plays -> PlayerType] /\ players'[n] = q /\ \A r \in Plays : r # n => players'[r] = players[r]
  <2> HIDE DEF n
  <2>1. QED
    BY <1>1, <1>2, <1>3 DEF TvInv, TvShape
<1>6. loader' \in [Plays -> LoaderType] /\ loader'[n] = l /\ \A r \in Plays : r # n => loader'[r] = loader[r]
  <2> HIDE DEF n
  <2>1. QED
    BY <1>1, <1>2, <1>4 DEF TvInv, TvShape
<1>7. TvShape'
  <2>1. plays' \in 0..MaxPlays
    BY <1>1, <1>2, TvAssumption
  <2> HIDE DEF n
  <2>2. QED
    BY <1>1, <1>2, <1>4, <1>5, <1>6, <2>1 DEF TvInv, TvShape
<1>8. ASSUME alone' PROVE LastAlone' /\ MutedBehindGate' /\ GateHolds' /\ PlayingIsActive'
  <2>1. alone /\ \A i \in Plays : loader[i].at \in {"none", "done"}
    BY <1>1, <1>8
  <2>2. /\ players[n].engine = "none" /\ ~players[n].muted /\ ~players[n].warming_up
        /\ loader[n].at = "none" /\ loader[n].step = 1
    BY <1>2, <2>1 DEF TvInv, LastAlone
  <2>3. /\ \A k \in DOMAIN tvBox : tvBox[k].player <= plays /\ tvBox[k].player # n
        /\ \A k \in DOMAIN notify : notify[k].player <= plays /\ notify[k].player # n
    <3>1. /\ \A k \in DOMAIN tvBox : tvBox[k].player <= plays /\ tvBox[k].player \in Plays
          /\ \A k \in DOMAIN notify : notify[k].player <= plays /\ notify[k].player \in Plays
      <4>1. /\ \A k \in DOMAIN tvBox : tvBox[k] \in TvEvents
            /\ \A k \in DOMAIN notify : notify[k] \in TvEvents
        BY DEF TvInv, TvShape
      <4>2. QED
        BY <2>1, <4>1 DEF TvInv, LastAlone, TvEvents
    <3>2. \A x \in Plays : x <= plays => x # n
      BY <1>2
    <3>3. QED
      BY <3>1, <3>2
  <2>4. LastAlone'
    <3>1. \A i \in Plays : i > n => i > plays /\ i # n
      BY <1>2
    <3>2. \A i \in Plays : i < n => i # n
      BY <1>2
    <3>3. \A x \in Plays : x <= plays => x <= n
      BY <1>2
    <3>4. /\ \A k \in DOMAIN tvBox : tvBox[k].player <= n
          /\ \A k \in DOMAIN notify : notify[k].player <= n
      <4>1. /\ \A k \in DOMAIN tvBox : tvBox[k].player \in Plays
            /\ \A k \in DOMAIN notify : notify[k].player \in Plays
        <5>1. /\ \A k \in DOMAIN tvBox : tvBox[k] \in TvEvents
              /\ \A k \in DOMAIN notify : notify[k] \in TvEvents
          BY DEF TvInv, TvShape
        <5>2. QED
          BY <5>1 DEF TvEvents
      <4>2. QED
        BY <2>3, <3>3, <4>1
    <3>5. \A i \in Plays : loader'[i].at \in {"none", "start", "done"}
      BY <1>4, <1>6, <2>1
    <3> HIDE DEF n
    <3>6. Exists(g_active_player)'
      BY <1>1, <1>3, <1>5 DEF Exists
    <3>7. QED
      BY <1>1, <1>2, <1>4, <1>5, <1>6, <2>1, <3>1, <3>2, <3>4, <3>5, <3>6 DEF TvInv, LastAlone
  <2>5. MutedBehindGate'
    <3> HIDE DEF n
    <3>1. ~q.muted /\ ~q.warming_up
      BY <1>3, <2>2
    <3>2. QED
      BY <1>1, <1>4, <1>5, <1>6, <2>2, <3>1 DEF MutedBehindGate
  <2>6. GateHolds'
    <3> HIDE DEF n
    <3>1. \A x \in Plays : x = n => ~SaysPlaying(tvBox, x)' /\ ~SaysPlaying(notify, x)'
      BY <1>1, <2>3 DEF SaysPlaying, Event
    <3>2. QED
      BY <1>1, <1>3, <1>5, <3>1 DEF GateHolds
  <2>7. PlayingIsActive'
    BY <1>1 DEF PlayingIsActive
  <2>8. QED
    BY <2>4, <2>5, <2>6, <2>7
<1>9. QED
  BY <1>7, <1>8 DEF TvInv

(* While the tab says "playing" there is an active player and it is not      *)
(* muted, unless the worker of an earlier attempt was left to run beside     *)
(* this one: whatever the engine raises and whenever the callback posts it,  *)
(* the player is stopped or the wait times out (player_load_hls's order of   *)
(* gate, sound and synthetic event; player_handle_window_event's checks).    *)
THEOREM TvPictureHasSound == TvSpec => []PictureHasSound
<1>1. TvInv /\ [TvNext]_tvVars => TvInv'
  <2> SUFFICES ASSUME TvInv, [TvNext]_tvVars PROVE TvInv'
    OBVIOUS
  <2>1. ASSUME NEW i \in Plays, Loader(i) PROVE TvInv'
    BY <2>1, QuietSteps, WarmUpStep DEF Loader
  <2>2. QED
    BY <2>1, EngineSteps, EngineEventStep, UiSteps, NewAttempt DEF TvNext, UiTv, TvUser
<1>2. TvInv => PictureHasSound
  <2> SUFFICES ASSUME TvInv, alone, tvState = "playing", tvUi = "loop" PROVE HasSound(g_active_player)
    BY DEF PictureHasSound
  <2>1. g_active_player # 0 /\ g_active_player = plays /\ g_active_player \in Plays /\ Exists(g_active_player)
    BY DEF TvInv, LastAlone, PlayingIsActive
  <2>2. ~players[g_active_player].muted
    <3>1. ~players[g_active_player].warming_up
      BY <2>1 DEF TvInv, GateHolds
    <3>2. QED
      BY <2>1, <3>1 DEF TvInv, MutedBehindGate
  <2>3. QED
    BY <2>1, <2>2 DEF HasSound
<1>3. QED
  BY TvInvInit, <1>1, <1>2, PTL DEF TvSpec
===============================================================================
