----------------------------- MODULE RadioEngine -----------------------------
(***************************************************************************)
(* Live Radio: the tab on the UI thread (src/src/liveradio_module.c), the  *)
(* worker that reads, splits, frames and decodes the stream, and the       *)
(* render thread (src/src/radio_engine.c).  They meet in the PCM ring, the *)
(* stop event, the request handle and the window's posted states.  The     *)
(* server, the decoder and the audio device are external.                  *)
(*                                                                         *)
(* The stream is a sequence of symbols: audio ("head", the ADTS header of  *)
(* frame n, and "data" of frame n), the metadata length ("len", which also *)
(* counts the metadata symbols that follow) and metadata ("meta").  A      *)
(* decoded frame is one block of PCM with the frame's number.              *)
(***************************************************************************)
EXTENDS Integers, Sequences, SequencesExt

CONSTANTS
    MetaInt,    \* icy-metaint: audio symbols between two metadata lengths
    FrameLen,   \* symbols of an ADTS frame
    RingCap,    \* blocks the ring holds
    MaxChunk,   \* RE_NET_CHUNK: symbols of one read
    MaxAudio,   \* bound: audio symbols the server sends on one connection
    MaxStarts   \* bound: engines the user starts

\* A frame is more than its header, and the ring has room for a block.
ASSUME RadioAssumption ==
    /\ MetaInt \in Nat /\ MaxChunk \in Nat /\ FrameLen \in Nat /\ FrameLen > 1
    /\ RingCap \in Nat /\ RingCap > 0

VARIABLES
    ui,         \* UI thread: [st, at]: LrState.state, and loop or join
    engine,     \* st->engine: none, live, or freed under its worker
    starts,     \* engines so far
    msgs,       \* WM_LR_ENGINE_STATE messages posted, oldest first
    run,        \* run_state
    stop,       \* stop_event
    request,    \* hRequest: none, open or closed
    wk,         \* the worker: where it is
    chunk,      \* symbols of this read it has not consumed
    icy,        \* [metaint, phase, remain, meta]
    adts,       \* the ADTS accumulator
    decoder,    \* none, ready or failed
    pcm,        \* decoded and not yet in the ring
    ring,       \* fill of the ring, oldest first
    wasapi,     \* wasapi_ready
    render,     \* the render thread: none, waiting, filling or ended
    srv,        \* the server: [audio, left, skip]: audio sent, left before metadata
    wire,       \* symbols sent and not read
    frames, titles, played  \* history: decoded, announced, rendered

uiVars == <<ui, engine, starts>>
netVars == <<request, srv, wire>>
splitVars == <<chunk, icy, adts>>
decVars == <<decoder, pcm, wasapi>>
histVars == <<frames, titles, played>>
vars == <<uiVars, msgs, run, stop, wk, netVars, splitVars, decVars, ring, render, histVars>>

-------------------------------------------------------------------------------
(* The stream as the server composes it.  A listener joins in the middle of *)
(* a frame: skip is what is left of the frame before the first.             *)

Smaller(a, b) == IF a <= b THEN a ELSE b
From(s, k) == SubSeq(s, k + 1, Len(s))

AudioSymbol(k) ==
    LET j == k - srv.skip
    IN  IF j <= 0 THEN [is |-> "data", n |-> 0]
        ELSE [is |-> IF j % FrameLen = 1 THEN "head" ELSE "data", n |-> ((j - 1) \div FrameLen) + 1]

NoEngine ==
    /\ run' = "IDLE" /\ stop' = FALSE /\ request' = "none" /\ chunk' = <<>> /\ adts' = <<>>
    /\ icy' = [metaint |-> 0, phase |-> "audio", remain |-> 0, meta |-> <<>>]
    /\ decoder' = "none" /\ pcm' = <<>> /\ ring' = <<>> /\ wasapi' = FALSE /\ render' = "none"
    /\ wire' = <<>> /\ frames' = <<>> /\ titles' = <<>> /\ played' = <<>>
    /\ srv' = [audio |-> 0, left |-> 0, skip |-> 0]

Init ==
    /\ ui = [st |-> "SPLASH", at |-> "loop"] /\ engine = "none" /\ starts = 0
    /\ msgs = <<>> /\ run = "IDLE" /\ stop = FALSE /\ request = "none" /\ wk = "none"
    /\ chunk = <<>> /\ adts = <<>>
    /\ icy = [metaint |-> 0, phase |-> "audio", remain |-> 0, meta |-> <<>>]
    /\ decoder = "none" /\ pcm = <<>> /\ ring = <<>> /\ wasapi = FALSE /\ render = "none"
    /\ srv = [audio |-> 0, left |-> 0, skip |-> 0]
    /\ wire = <<>> /\ frames = <<>> /\ titles = <<>> /\ played = <<>>

-------------------------------------------------------------------------------
(* The tab. *)

(* lr_enter_loading: a new engine, also after an error, where the pointer   *)
(* to the old one is lost; what its worker has left to do publishes nothing *)
(* and touches only that engine.                                            *)
EnterLoading ==
    /\ ui.at = "loop" /\ ui.st \in {"SPLASH", "ERROR"} /\ starts < MaxStarts
    /\ starts' = starts + 1 /\ engine' = "live"
    /\ ui' = [ui EXCEPT !.st = "LOADING"]
    /\ NoEngine /\ wk' = "start"
    /\ UNCHANGED msgs

(* re_stop: the event, then the request handle, then the join. *)
StopSignals_KeepsRequest == stop' = TRUE /\ UNCHANGED request
StopSignals == stop' = TRUE /\ request' = IF request = "open" THEN "closed" ELSE request
ReStop(next) ==
    /\ ui' = [st |-> next, at |-> "join"] /\ StopSignals
    /\ UNCHANGED <<engine, starts, msgs, run, wk, srv, wire, splitVars, decVars, ring, render, histVars>>

EnterStopped == ui.at = "loop" /\ ui.st = "PLAYING" /\ ReStop("SPLASH")

(* WM_DESTROY, whatever the tab is doing. *)
Destroy ==
    /\ ui.at = "loop" /\ ui.st # "gone"
    /\ IF engine = "live" THEN ReStop("gone")
       ELSE ui' = [st |-> "gone", at |-> "loop"]
            /\ UNCHANGED <<engine, starts, msgs, run, stop, wk, netVars, splitVars, decVars, ring, render, histVars>>

(* The worker ended, or it is inside a WinHTTP call that nothing cancelled  *)
(* and eight seconds have passed; re_destroy frees the engine all the same. *)
Uncancelled == wk \in {"send", "recv"} /\ request = "open"
JoinEnds ==
    /\ ui.at = "join" /\ (wk = "ended" \/ Uncancelled)
    /\ engine' = IF wk = "ended" THEN "none" ELSE "freed"
    /\ ui' = [ui EXCEPT !.at = "loop"]
    /\ UNCHANGED <<starts, msgs, run, stop, wk, netVars, splitVars, decVars, ring, render, histVars>>

(* WM_LR_ENGINE_STATE. *)
OnEngineState ==
    /\ ui.at = "loop" /\ msgs # <<>> /\ msgs' = Tail(msgs)
    /\ ui' = IF ui.st # "gone" /\ Head(msgs) \in {"PLAYING", "ERROR"}
             THEN [ui EXCEPT !.st = Head(msgs)] ELSE ui
    /\ UNCHANGED <<engine, starts, run, stop, wk, netVars, splitVars, decVars, ring, render, histVars>>

-------------------------------------------------------------------------------
(* The worker.  Nothing happens to an engine that is gone: what a worker    *)
(* does in freed memory is not described.                                   *)

Works(place) == engine = "live" /\ wk = place
Publish(state) == run' = state /\ msgs' = Append(msgs, state)
wkKept == <<uiVars>>

WorkerStarts ==
    /\ Works("start")
    /\ Publish("CONNECTING") /\ wk' = "open"
    /\ UNCHANGED <<wkKept, stop, netVars, splitVars, decVars, ring, render, histVars>>

(* re_http_open up to the request handle, which no stop can close before.   *)
OpensRequest ==
    /\ Works("open")
    /\ request' = "open" /\ wk' = "send"
    /\ UNCHANGED <<wkKept, msgs, run, stop, srv, wire, splitVars, decVars, ring, render, histVars>>

(* The response, with or without icy-metaint; or an error, which a closed   *)
(* handle gives at once.                                                    *)
ResponseArrives ==
    /\ Works("send") /\ request = "open"
    /\ \E metaint \in {0, MetaInt}, skip \in {0, FrameLen - 1} :
          /\ icy' = [icy EXCEPT !.metaint = metaint, !.remain = metaint]
          /\ srv' = [srv EXCEPT !.left = metaint, !.skip = skip]
    /\ wk' = "read"
    /\ UNCHANGED <<wkKept, msgs, run, stop, request, wire, chunk, adts, decVars, ring, render, histVars>>

OpenFails ==
    /\ Works("send") \/ Works("open")
    /\ Publish("ERROR") /\ wk' = "teardown"
    /\ UNCHANGED <<wkKept, stop, netVars, splitVars, decVars, ring, render, histVars>>

(* The read loop: the stop is looked at, then WinHttpReadData blocks until  *)
(* there is data, the handle is closed, the stream ends or 15 s have passed.*)
LooksAtStop ==
    /\ Works("read") /\ ~stop /\ run # "ERROR" /\ wk' = "recv"
    /\ UNCHANGED <<wkKept, msgs, run, stop, netVars, splitVars, decVars, ring, render, histVars>>

GaveUp == ~wasapi /\ ~stop /\ run # "ERROR"
LoopEnds ==
    /\ \/ Works("read") /\ (stop \/ run = "ERROR")
       \/ Works("recv") /\ (request = "closed" \/ wire = <<>>)
    /\ IF GaveUp THEN Publish("ERROR") ELSE UNCHANGED <<run, msgs>>
    /\ wk' = "teardown"
    /\ UNCHANGED <<wkKept, stop, netVars, splitVars, decVars, ring, render, histVars>>

Reads ==
    /\ Works("recv") /\ request = "open" /\ wire # <<>>
    /\ \E k \in 1 .. Smaller(MaxChunk, Len(wire)) :
          chunk' = SubSeq(wire, 1, k) /\ wire' = From(wire, k)
    /\ wk' = "consume"
    /\ UNCHANGED <<wkKept, msgs, run, stop, request, srv, icy, adts, decVars, ring, render, histVars>>

-------------------------------------------------------------------------------
(* re_consume: what is left of the chunk, by the phase of the interleave.   *)

(* The audio up to the next metadata length, or all of it. *)
Run == IF icy.metaint = 0 THEN Len(chunk) ELSE Smaller(Len(chunk), icy.remain)
AfterRun_NoCount(left) == icy
AfterRun(left) == IF icy.metaint = 0 THEN icy
                  ELSE [icy EXCEPT !.remain = left, !.phase = IF left = 0 THEN "len" ELSE "audio"]

ConsumesAudio ==
    /\ Works("consume") /\ chunk # <<>> /\ icy.phase = "audio"
    /\ adts' = adts \o SubSeq(chunk, 1, Run)
    /\ chunk' = From(chunk, Run) /\ icy' = AfterRun(icy.remain - Run)
    /\ wk' = "frame"
    /\ UNCHANGED <<wkKept, msgs, run, stop, netVars, decVars, ring, render, histVars>>

(* The length; metadata follows unless it is zero. *)
BackToAudio == [icy EXCEPT !.phase = "audio", !.remain = icy.metaint, !.meta = <<>>]
ConsumesLength ==
    /\ Works("consume") /\ chunk # <<>> /\ icy.phase = "len"
    /\ LET size == Head(chunk).n
       IN  icy' = IF size = 0 THEN BackToAudio
                  ELSE [icy EXCEPT !.phase = "meta", !.remain = size, !.meta = <<>>]
    /\ chunk' = Tail(chunk)
    /\ UNCHANGED <<wkKept, msgs, run, stop, wk, netVars, adts, decVars, ring, render, histVars>>

(* Metadata, over as many chunks as it takes; then the title is announced.  *)
ConsumesMeta ==
    /\ Works("consume") /\ chunk # <<>> /\ icy.phase = "meta"
    /\ LET take == Smaller(Len(chunk), icy.remain)
           meta == icy.meta \o SubSeq(chunk, 1, take)
       IN  /\ chunk' = From(chunk, take)
           /\ IF take = icy.remain
              THEN icy' = BackToAudio /\ titles' = Append(titles, meta)
              ELSE icy' = [icy EXCEPT !.remain = @ - take, !.meta = meta] /\ UNCHANGED titles
    /\ UNCHANGED <<wkKept, msgs, run, stop, wk, netVars, adts, decVars, ring, render, frames, played>>

ChunkDone ==
    /\ Works("consume") /\ chunk = <<>> /\ wk' = "read"
    /\ UNCHANGED <<wkKept, msgs, run, stop, netVars, splitVars, decVars, ring, render, histVars>>

-------------------------------------------------------------------------------
(* re_feed_audio: the next whole frame in the accumulator, past whatever is *)
(* not a header.                                                            *)

Heads == {i \in DOMAIN adts : adts[i].is = "head"}
FrameAt == CHOOSE i \in Heads : \A j \in Heads : i <= j
HasFrame == Heads # {} /\ Len(adts) - FrameAt + 1 >= FrameLen

NoFrame ==
    /\ Works("frame") /\ ~HasFrame
    /\ adts' = IF Heads = {} THEN <<>> ELSE From(adts, FrameAt - 1)
    /\ wk' = "consume"
    /\ UNCHANGED <<wkKept, msgs, run, stop, netVars, chunk, icy, decVars, ring, render, histVars>>

(* re_decoder_ensure on the first frame; a failure leaves the accumulator   *)
(* as it is, and only the text of last_error is set.                        *)
DecoderMade ==
    /\ Works("frame") /\ HasFrame /\ decoder # "ready"
    /\ \/ decoder' = "ready" /\ UNCHANGED wk
       \/ decoder' = "failed" /\ wk' = "consume"
    /\ UNCHANGED <<wkKept, msgs, run, stop, netVars, splitVars, pcm, wasapi, ring, render, histVars>>

Decodes ==
    /\ Works("frame") /\ HasFrame /\ decoder = "ready"
    /\ LET frame == SubSeq(adts, FrameAt, FrameAt + FrameLen - 1)
       IN  frames' = Append(frames, frame) /\ pcm' = <<Head(frame).n>>
    /\ adts' = From(adts, FrameAt + FrameLen - 1)
    /\ wk' = "write"
    /\ UNCHANGED <<wkKept, msgs, run, stop, netVars, chunk, icy, decoder, wasapi, ring, render, titles, played>>

(* re_on_first_pcm and re_wasapi_start: a new ring; then the device, whose  *)
(* failure is not looked at and is met again with the next block.  That a   *)
(* thread cannot be created is not modelled.                                *)
WasapiStarts ==
    /\ Works("write") /\ ~wasapi
    /\ \/ /\ wasapi' = TRUE /\ render' = "waiting" /\ Publish("PLAYING")
          /\ ring' = <<>> /\ UNCHANGED <<wk, pcm>>
       \/ /\ ring' = pcm /\ pcm' = <<>> /\ wk' = "frame"
          /\ UNCHANGED <<wasapi, render, run, msgs>>
    /\ UNCHANGED <<wkKept, stop, netVars, splitVars, decoder, histVars>>

(* The back-pressured write. *)
Room == Len(ring) < RingCap
GivesUp_WhenFull == ~Room
GivesUp == ~Room /\ stop
WritesPcm ==
    /\ Works("write") /\ wasapi
    /\ \/ Room /\ ring' = ring \o pcm
       \/ GivesUp /\ UNCHANGED ring
    /\ pcm' = <<>> /\ wk' = "frame"
    /\ UNCHANGED <<wkKept, msgs, run, stop, netVars, splitVars, decoder, wasapi, render, histVars>>

(* The teardown: the render thread first, which only the event ends. *)
TeardownSignals_Not == UNCHANGED stop
TeardownSignals == stop' = TRUE
Teardown ==
    /\ Works("teardown") /\ TeardownSignals /\ wk' = "joinrender"
    /\ UNCHANGED <<wkKept, msgs, run, netVars, splitVars, decVars, ring, render, histVars>>

(* Then the device, the decoder, the ring and the connection. *)
Farewell_Always == Publish("STOPPED")
Farewell == IF run # "ERROR" THEN Publish("STOPPED") ELSE UNCHANGED <<run, msgs>>
WorkerEnds ==
    /\ Works("joinrender") /\ render \in {"none", "ended"}
    /\ ring' = <<>> /\ wasapi' = FALSE /\ decoder' = "none" /\ pcm' = <<>>
    /\ request' = "none" /\ Farewell /\ wk' = "ended"
    /\ UNCHANGED <<wkKept, stop, srv, wire, splitVars, render, histVars>>

-------------------------------------------------------------------------------
(* The render thread: the stop event is looked at before the audio event.   *)

RenderWakes ==
    /\ engine = "live" /\ render = "waiting"
    /\ render' = IF stop THEN "ended" ELSE "filling"
    /\ UNCHANGED <<uiVars, msgs, run, stop, wk, netVars, splitVars, decVars, ring, histVars>>

(* Fills what the device has room for; the rest is silence. *)
RenderFills ==
    /\ engine = "live" /\ render = "filling"
    /\ \E k \in 0 .. Smaller(Len(ring), 1) :
          ring' = From(ring, k) /\ played' = played \o SubSeq(ring, 1, k)
    /\ render' = "waiting"
    /\ UNCHANGED <<uiVars, msgs, run, stop, wk, netVars, splitVars, decVars, frames, titles>>

-------------------------------------------------------------------------------
(* The server, as re_consume expects it. *)

Connected == engine = "live" /\ wk \notin {"none", "start", "open", "send", "teardown", "joinrender", "ended"}
Metas(n) == [i \in 1 .. n |-> [is |-> "meta", n |-> i]]
ServerSends ==
    /\ Connected
    /\ IF icy.metaint # 0 /\ srv.left = 0
       THEN \E n \in {0, 2} :
               /\ wire' = wire \o <<[is |-> "len", n |-> n]>> \o Metas(n)
               /\ srv' = [srv EXCEPT !.left = MetaInt]
       ELSE /\ srv.audio < MaxAudio
            /\ wire' = Append(wire, AudioSymbol(srv.audio + 1))
            /\ srv' = [srv EXCEPT !.audio = @ + 1, !.left = IF @ > 0 THEN @ - 1 ELSE 0]
    /\ UNCHANGED <<uiVars, msgs, run, stop, request, wk, splitVars, decVars, ring, render, histVars>>

-------------------------------------------------------------------------------
Ui == JoinEnds \/ OnEngineState
Worker ==
    \/ WorkerStarts \/ OpensRequest \/ ResponseArrives \/ OpenFails \/ LooksAtStop \/ LoopEnds \/ Reads
    \/ ConsumesAudio \/ ConsumesLength \/ ConsumesMeta \/ ChunkDone
    \/ NoFrame \/ DecoderMade \/ Decodes \/ WasapiStarts \/ WritesPcm \/ Teardown \/ WorkerEnds
Render == RenderWakes \/ RenderFills
Next == EnterLoading \/ EnterStopped \/ Destroy \/ Ui \/ Worker \/ Render \/ ServerSends

(* The three threads run, WinHTTP calls end (WinHttpSetTimeouts); the user  *)
(* and the server owe nothing.                                              *)
Spec == Init /\ [][Next]_vars /\ WF_vars(Ui) /\ WF_vars(Worker) /\ WF_vars(Render)

-------------------------------------------------------------------------------
(* radio_engine.c:425-466 and 356-423: whatever the reads were cut into and  *)
(* wherever in a frame the listener joined, what is decoded is every frame   *)
(* once, whole, in order and without a byte of metadata, and each title is   *)
(* announced whole; and what is played is a run of consecutive blocks:       *)
(* back-pressure loses nothing and an underrun doubles nothing               *)
(* (radio_engine.c:162-165).                                                 *)
FrameOf(n) == [j \in 1 .. FrameLen |-> [is |-> IF j = 1 THEN "head" ELSE "data", n |-> n]]
HeardAsSent ==
    /\ engine = "live" => frames = [i \in 1 .. Len(frames) |-> FrameOf(i)]
    /\ \A t \in ToSet(titles) : t = Metas(2)
    /\ \A i \in 1 .. Len(played) - 1 : played[i + 1] = played[i] + 1

(* liveradio_module.c:641-672: when no message is under way, the tab shows   *)
(* an error exactly when its engine has met one, and neither connecting nor  *)
(* playing for an engine that has not said so.                               *)
TabFollowsEngine ==
    engine = "live" /\ msgs = <<>> /\ ui.at = "loop" =>
        /\ ui.st = "ERROR" <=> run = "ERROR"
        /\ ui.st = "LOADING" => run \in {"IDLE", "CONNECTING"}
        /\ ui.st = "PLAYING" => run \in {"PLAYING", "STOPPED"}

(* Once it is stopped, by the user or by the end of the stream, the worker   *)
(* and the render thread end, and the UI thread that joins them goes on.     *)
StopEnds ==
    /\ (engine = "live" /\ (stop \/ wk = "teardown")) ~>
          ((wk = "ended" /\ render # "waiting") \/ engine # "live" \/ wk = "start")
    /\ (ui.at = "join") ~> (ui.at = "loop")

(* radio_engine.c:1157-1162 and 1020-1040: closing the request handle ends a *)
(* worker in its read loop within the join; only a stop that came before the *)
(* handle was there frees the engine under its worker.                       *)
ReaderIsJoined == engine = "freed" => wk = "send"

(* "signals the worker, joins it, tears down" (radio_engine.h:72): the       *)
(* engine is not freed while its worker still runs.                          *)
JoinedBeforeFree == engine # "freed"

(* "Decoder init failed: error already published. Stop consuming; the worker *)
(* loop will tear down." (radio_engine.c:408-409)                            *)
DecoderFailurePublished == decoder = "failed" => run = "ERROR"
===============================================================================
