--------------------------- MODULE RipSession_proofs ---------------------------
(* Machine-checked theorems about RipSession, for any number of sessions,   *)
(* transfers and items, any chunks, and a server that may stop reading.     *)
EXTENDS RipSession, TLAPS, WellFoundedInduction, SequenceTheorems

-------------------------------------------------------------------------------
(* The invariant, in parts.                                                 *)

UiPlaces == {"loop", "send", "sending", "finish", "lock", "join", "gone"}
Reasons == {"input", "command", "download", "answer", "done", "close", "shutdown"}
WorkerPlaces == {"none", "wait", "send", "locking", "sending", "end", "ended"}
IsSeq(q) == \E S : q \in Seq(S)

Types ==
    /\ ui \in [at : UiPlaces, for : Reasons]
    /\ sid \in Nat /\ telnet \in {0, sid}
    /\ transfers \in Nat /\ active \in Nat /\ zmr \in {0, active}
    /\ worker \in [at : WorkerPlaces, last : BOOLEAN, t : Nat, home : Nat]
    /\ IsSeq(queue)

Queued(event) == \E i \in DOMAIN queue : queue[i].event = event

(* The UI thread: it reads input as such, and inside a handler that sends    *)
(* or tears down there is a session; past the transfer's end there is none. *)
UiIsWhere ==
    /\ ui.at = "loop" => ui = Loop
    /\ ui.at \in {"send", "sending", "finish", "lock", "join"} => telnet # 0
    /\ ui.at \in {"lock", "join"} => zmr = 0

(* The transfer belongs to the session that is open.                        *)
TransferIsOurs ==
    /\ zmr # 0 => connected /\ telnet # 0 /\ worker.home = telnet
    /\ zmr # 0 /\ worker.at \in {"locking", "sending"} => worker.t = telnet
    /\ telnet # 0 => ~freed

(* One DONE for each worker, after its end, and none left when the next may *)
(* begin.                                                                   *)
OneDone ==
    /\ active = 0 <=> worker.at = "none"
    /\ \A i \in DOMAIN queue : queue[i].event = "DONE" =>
           /\ worker.at \in {"none", "ended"}
           /\ active # 0 => queue[i].from = active
           /\ \A j \in DOMAIN queue : queue[j].event = "DONE" => i = j
    /\ active = 0 /\ telnet # 0 /\ ui.at \in {"loop", "send", "sending"} => ~Queued("DONE")
    /\ ui.at = "finish" /\ ui.for = "done" => worker.at = "ended" /\ ~Queued("DONE")

(* The receive thread: CLOSED is the last it posts, and while it connects   *)
(* nothing it posted says otherwise.                                        *)
ClosedIsLast ==
    /\ connected \/ Queued("CONNECTED") \/ (ui.at \in {"finish", "lock", "join"} /\ ui.for = "close")
           => rx # "connecting"
    /\ \A i \in DOMAIN queue : queue[i].event = "CLOSED" =>
           /\ rx \in {"ended", "none"}
           /\ \A j \in DOMAIN queue : j > i => queue[j].event = "DONE"
    /\ rx \in {"ended", "none"} /\ Queued("DATA") => Queued("CLOSED")

(* What is posted is of the session that is open; without one the receive   *)
(* thread is gone and what was drawn is about to be cleared.                *)
PostedIsOurs ==
    /\ telnet # 0 => \A i \in DOMAIN queue : queue[i].event # "DONE" => queue[i].from = telnet
    /\ telnet = 0 /\ ui.at = "loop" => rx = "none"
    /\ telnet = 0 /\ ui.at = "loop" /\ everDrew => Queued("CLOSED")

ApartInv ==
    Types /\ UiIsWhere /\ TransferIsOurs /\ OneDone /\ ClosedIsLast /\ PostedIsOurs

-------------------------------------------------------------------------------
(* Facts about the message queue.                                           *)

LEMMA AppendFact ==
    ASSUME NEW q, IsSeq(q), NEW m
    PROVE  /\ IsSeq(Append(q, m))
           /\ DOMAIN q = 1 .. Len(q) /\ Len(q) \in Nat
           /\ DOMAIN Append(q, m) = 1 .. Len(q) + 1
           /\ \A i \in DOMAIN q : Append(q, m)[i] = q[i]
           /\ Append(q, m)[Len(q) + 1] = m
  <1>1. PICK S : q \in Seq(S)
    BY DEF IsSeq
  <1>2. q \in Seq(S \cup {m})
    BY <1>1
  <1>3. Append(q, m) \in Seq(S \cup {m})
    BY <1>2
  <1> QED
    BY <1>1, <1>2, <1>3 DEF IsSeq

LEMMA TailFact ==
    ASSUME NEW q, IsSeq(q), q # << >>
    PROVE  /\ IsSeq(Tail(q))
           /\ DOMAIN q = 1 .. Len(q) /\ Len(q) \in Nat /\ 1 \in DOMAIN q
           /\ Head(q) = q[1]
           /\ DOMAIN Tail(q) = 1 .. Len(q) - 1
           /\ \A i \in DOMAIN Tail(q) : i + 1 \in DOMAIN q /\ Tail(q)[i] = q[i + 1]
  <1>1. PICK S : q \in Seq(S)
    BY DEF IsSeq
  <1> QED
    BY <1>1 DEF IsSeq

LEMMA ApartInit == Init => ApartInv
  <1> SUFFICES ASSUME Init PROVE ApartInv
    OBVIOUS
  <1>1. IsSeq(queue)
    <2>1. queue \in Seq(Nat)
      BY DEF Init
    <2> QED
      BY <2>1 DEF IsSeq
  <1>2. \A event : ~Queued(event)
    BY DEF Init, Queued
  <1>3. Types
    BY <1>1 DEF Init, Types, Loop, UiPlaces, Reasons, WorkerPlaces
  <1>4. UiIsWhere /\ TransferIsOurs
    BY DEF Init, UiIsWhere, TransferIsOurs, Loop
  <1>5. OneDone /\ ClosedIsLast /\ PostedIsOurs
    BY <1>2 DEF Init, OneDone, ClosedIsLast, PostedIsOurs, Loop
  <1> QED
    BY <1>3, <1>4, <1>5 DEF ApartInv

-------------------------------------------------------------------------------
(* Steps that leave the queue alone.                                        *)

LEMMA SilentSteps ==
    ASSUME ApartInv, UNCHANGED queue,
           \/ \E download \in BOOLEAN : Command(download)
           \/ UiSendStarts \/ UiSendReturns \/ Escape
           \/ Disconnect \/ Shutdown \/ FinishJoined \/ FinishTimeout \/ CloseSocket \/ FreeHandle
    PROVE  ApartInv'
  <1> USE DEF ApartInv, Types, UiIsWhere, TransferIsOurs, OneDone, ClosedIsLast, PostedIsOurs,
              UiPlaces, Reasons, WorkerPlaces, Queued, Loop, At, UserTurn
  <1>1. ASSUME NEW d \in BOOLEAN, Command(d) PROVE ApartInv'
    <2>1. CASE d = TRUE
      <3>1. /\ ui = Loop /\ ui' = At("send", "download") /\ zmr = 0 /\ active = 0 /\ connected /\ telnet # 0
            /\ UNCHANGED <<telnet, connected, everDrew, sid, freed, rx>>
        BY <1>1, <2>1 DEF Command, CanBegin, rxVars
      <3>2. /\ zmr' = transfers + 1 /\ active' = transfers + 1 /\ transfers' = transfers + 1
            /\ worker' = [at |-> "send", last |-> FALSE, t |-> 0, home |-> telnet]
        BY <1>1, <2>1 DEF Command, Begin
      <3>3. ~Queued("DONE")
        BY <3>1
      <3> QED
        BY <3>1, <3>2, <3>3
    <2>2. CASE d = FALSE
      BY <1>1, <2>2 DEF Command, rxVars, zVars
    <2> QED
      BY <2>1, <2>2
  <1>2. CASE UiSendStarts
    BY <1>2 DEF UiSendStarts, rxVars, zVars, peerVars, histVars
  <1>3. CASE UiSendReturns
    BY <1>3 DEF UiSendReturns, rxVars, zVars, peerVars, histVars
  <1>4. CASE Escape
    BY <1>4 DEF Escape, uiVars, rxVars, peerVars, histVars
  <1>5. CASE Disconnect
    <2>1. Teardown("close") /\ connected /\ ui = Loop
      BY <1>5 DEF Disconnect
    <2>2. UNCHANGED <<telnet, zmr, active, sid, freed, rx, worker, transfers>>
      BY <1>5 DEF Disconnect, TeardownFrame
    <2>3. CASE zmr # 0
      BY <2>1, <2>2, <2>3 DEF Teardown
    <2>4. CASE zmr = 0 /\ telnet # 0
      BY <2>1, <2>2, <2>4 DEF Teardown
    <2>5. CASE zmr = 0 /\ telnet = 0
      BY <2>1, <2>2, <2>5 DEF Teardown, CloseFlags, Blank
    <2> QED
      BY <2>3, <2>4, <2>5
  <1>6. CASE Shutdown
    BY <1>6 DEF Shutdown, Teardown, TeardownFrame, CloseFlags, Blank
  <1>7. CASE FinishJoined
    <2>1. /\ ui.at = "finish" /\ worker.at = "ended" /\ zmr' = 0 /\ active' = 0
          /\ worker' = [worker EXCEPT !.at = "none"] /\ telnet # 0
          /\ UNCHANGED <<telnet, sid, freed, rx, transfers>>
      BY <1>7 DEF FinishJoined
    <2>2. CASE ui.for = "done"
      <3>1. ui' \in {At("send", "answer"), Loop} /\ UNCHANGED connected
        BY <1>7, <2>2 DEF FinishJoined, Consume
      <3> QED
        BY <2>1, <2>2, <3>1
    <2>3. CASE ui.for # "done"
      <3>1. ui' = At("lock", ui.for) /\ UNCHANGED <<connected, everDrew>>
        BY <1>7, <2>1, <2>3 DEF FinishJoined, AfterTransfer
      <3> QED
        BY <2>1, <2>3, <3>1
    <2> QED
      BY <2>2, <2>3
  <1>8. CASE FinishTimeout
    BY <1>8 DEF FinishTimeout, AfterTransfer, CloseFlags, Blank, Sendable
  <1>9. CASE CloseSocket
    BY <1>9 DEF CloseSocket, zVars
  <1>10. CASE FreeHandle
    BY <1>10 DEF FreeHandle, Joined, CloseFlags, Blank, zVars
  <1> QED
    BY <1>1, <1>2, <1>3, <1>4, <1>5, <1>6, <1>7, <1>8, <1>9, <1>10

-------------------------------------------------------------------------------
(* Steps that take a message.  What is left of the queue was behind it.     *)

LEMMA TakeFact ==
    ASSUME Types, NEW event, Take(event)
    PROVE  /\ IsSeq(queue') /\ 1 \in DOMAIN queue /\ queue[1].event = event /\ queue[1] = Head(queue)
           /\ ui.at = "loop"
           /\ \A i \in DOMAIN queue' : i + 1 \in DOMAIN queue /\ i \in Nat /\ i > 0 /\ queue'[i] = queue[i + 1]
           /\ \A i \in DOMAIN queue : i = 1 \/ (i - 1 \in DOMAIN queue' /\ queue[i] = queue'[i - 1])
           /\ DOMAIN queue \subseteq Nat
  BY TailFact DEF Take, Types

LEMMA TakingSteps ==
    ASSUME ApartInv,
           \/ OnConnected \/ OnError \/ OnDataTransfer \/ OnDataSwitch \/ OnDataScene
           \/ OnClosed \/ OnDone
    PROVE  ApartInv'
  <1> USE DEF ApartInv, Types, UiIsWhere, TransferIsOurs, OneDone, ClosedIsLast, PostedIsOurs,
              UiPlaces, Reasons, WorkerPlaces, Queued, Loop, At
  <1>1. CASE OnConnected
    <2>1. Take("CONNECTED")
      BY <1>1 DEF OnConnected
    <2> QED
      BY <1>1, <2>1, TakeFact DEF OnConnected, rxVars, zVars
  <1>2. CASE OnError
    <2>1. Take("ERROR")
      BY <1>2 DEF OnError
    <2> QED
      BY <1>2, <2>1, TakeFact DEF OnError, uiVars, rxVars, zVars
  <1>3. CASE OnDataTransfer
    <2>1. Take("DATA")
      BY <1>3 DEF OnDataTransfer
    <2>2. UNCHANGED <<ui, telnet, connected, everDrew, zmr, active, sid, freed, rx, worker, transfers>>
      BY <1>3 DEF OnDataTransfer, uiVars, rxVars
    <2>9. Types' /\ UiIsWhere' /\ TransferIsOurs'
      BY <2>1, <2>2, TakeFact
    <2>10. OneDone'
      BY <2>1, <2>2, TakeFact
    <2>11. ClosedIsLast'
      BY <2>1, <2>2, TakeFact
    <2>12. PostedIsOurs'
      BY <2>1, <2>2, TakeFact
    <2> QED
      BY <2>9, <2>10, <2>11, <2>12
  <1>4. CASE OnDataSwitch
    <2>1. Take("DATA") /\ CanBegin
      BY <1>4 DEF OnDataSwitch
    <2>2. /\ zmr = 0 /\ active = 0 /\ connected /\ telnet # 0
          /\ zmr' = transfers + 1 /\ active' = transfers + 1 /\ transfers' = transfers + 1
          /\ worker' = [at |-> "send", last |-> FALSE, t |-> 0, home |-> telnet]
          /\ UNCHANGED <<telnet, connected, sid, freed, rx>>
      BY <1>4, <2>1 DEF OnDataSwitch, CanBegin, Begin, rxVars
    <2>3. ui' \in {At("send", "answer"), Loop}
      BY <1>4 DEF OnDataSwitch, Consume
    <2>9. Types' /\ UiIsWhere' /\ TransferIsOurs'
      BY <2>1, <2>2, <2>3, TakeFact
    <2>10. OneDone'
      BY <2>1, <2>2, <2>3, TakeFact
    <2>11. ClosedIsLast'
      BY <2>1, <2>2, <2>3, TakeFact
    <2>12. PostedIsOurs'
      BY <2>1, <2>2, <2>3, TakeFact
    <2> QED
      BY <2>9, <2>10, <2>11, <2>12
  <1>5. CASE OnDataScene
    <2>1. Take("DATA")
      BY <1>5 DEF OnDataScene
    <2>2. zmr = 0 /\ UNCHANGED <<telnet, connected, zmr, active, sid, freed, rx, worker, transfers>>
      BY <1>5 DEF OnDataScene, rxVars, zVars
    <2>3. ui' = Loop \/ (ui' = At("send", "answer") /\ telnet # 0)
      BY <1>5 DEF OnDataScene, Consume
    <2>9. Types' /\ UiIsWhere' /\ TransferIsOurs'
      BY <2>1, <2>2, <2>3, TakeFact
    <2>10. OneDone'
      BY <2>1, <2>2, <2>3, TakeFact
    <2>11. ClosedIsLast'
      BY <2>1, <2>2, <2>3, TakeFact
    <2>12. PostedIsOurs'
      BY <2>1, <2>2, <2>3, TakeFact
    <2> QED
      BY <2>9, <2>10, <2>11, <2>12
  <1>6. CASE OnClosed
    <2>1. Take("CLOSED") /\ Teardown("close")
      BY <1>6 DEF OnClosed
    <2>2. UNCHANGED <<telnet, zmr, active, sid, freed, rx, worker, transfers>>
      BY <1>6 DEF OnClosed, TeardownFrame
    <2>3. CASE zmr # 0
      BY <2>1, <2>2, <2>3, TakeFact DEF Teardown
    <2>4. CASE zmr = 0 /\ telnet # 0
      BY <2>1, <2>2, <2>4, TakeFact DEF Teardown
    <2>5. CASE zmr = 0 /\ telnet = 0
      BY <2>1, <2>2, <2>5, TakeFact DEF Teardown, CloseFlags, Blank
    <2> QED
      BY <2>3, <2>4, <2>5
  <1>7. CASE OnDone
    <2>1. Take("DONE")
      BY <1>7 DEF OnDone
    <2>2. UNCHANGED <<telnet, connected, everDrew, zmr, active, sid, freed, rx, worker, transfers>>
      BY <1>7 DEF OnDone, rxVars
    <2>3. ui' = IF zmr = 0 THEN ui ELSE At("finish", "done")
      BY <1>7 DEF OnDone
    <2>9. Types' /\ UiIsWhere' /\ TransferIsOurs'
      BY <2>1, <2>2, <2>3, TakeFact
    <2>4. \A i \in DOMAIN queue' : queue'[i].event # "DONE"
      BY <2>1, TakeFact
    <2>5. worker.at \in {"none", "ended"}
      BY <2>1, TakeFact
    <2>10. OneDone'
      BY <2>2, <2>3, <2>4, <2>5
    <2>11. ClosedIsLast'
      BY <2>1, <2>2, <2>3, TakeFact
    <2>12. PostedIsOurs'
      BY <2>1, <2>2, <2>3, TakeFact
    <2> QED
      BY <2>9, <2>10, <2>11, <2>12
  <1> QED
    BY <1>1, <1>2, <1>3, <1>4, <1>5, <1>6, <1>7

-------------------------------------------------------------------------------
(* Steps that post, and those of the other threads.                         *)

LEMMA PostFact ==
    ASSUME Types, NEW m, Post(m)
    PROVE  /\ IsSeq(queue') /\ DOMAIN queue \subseteq Nat /\ DOMAIN queue' \subseteq Nat
           /\ \A i \in DOMAIN queue : i \in DOMAIN queue' /\ queue'[i] = queue[i]
           /\ \A i \in DOMAIN queue' :
                 \/ i \in DOMAIN queue /\ queue'[i] = queue[i]
                 \/ queue'[i] = m /\ \A j \in DOMAIN queue' : j = i \/ (j < i /\ j \in DOMAIN queue)
           /\ \E i \in DOMAIN queue' : queue'[i] = m
  BY AppendFact DEF Post, Types

PostTwo(m, n) == queue' = queue \o <<m, n>>

LEMMA PostTwoFact ==
    ASSUME Types, NEW m, NEW n, PostTwo(m, n)
    PROVE  /\ IsSeq(queue') /\ DOMAIN queue \subseteq Nat /\ DOMAIN queue' \subseteq Nat
           /\ \A i \in DOMAIN queue : i \in DOMAIN queue' /\ queue'[i] = queue[i]
           /\ \E k \in DOMAIN queue' :
                 /\ queue'[k] = n
                 /\ \A i \in DOMAIN queue' : i <= k
                 /\ \A i \in DOMAIN queue' :
                       i = k \/ queue'[i] = m \/ (i \in DOMAIN queue /\ queue'[i] = queue[i])
  <1>1. PICK S : queue \in Seq(S)
    BY DEF IsSeq, Types
  <1>2. queue \in Seq(S \cup {m, n}) /\ <<m, n>> \in Seq(S \cup {m, n})
    BY <1>1
  <1>3. IsSeq(queue')
    BY <1>2 DEF IsSeq, PostTwo
  <1>4. /\ Len(queue') = Len(queue) + 2 /\ Len(queue) \in Nat
        /\ DOMAIN queue = 1 .. Len(queue) /\ DOMAIN queue' = 1 .. Len(queue')
        /\ \A i \in 1 .. Len(queue) : queue'[i] = queue[i]
        /\ queue'[Len(queue) + 1] = m /\ queue'[Len(queue) + 2] = n
    BY <1>2 DEF PostTwo
  <1> QED
    BY <1>3, <1>4

LEMMA OtherSteps ==
    ASSUME ApartInv,
           \/ Connect \/ Rx \/ Worker \/ Peer \/ UNCHANGED vars
    PROVE  ApartInv'
  <1> USE DEF ApartInv, Types, UiIsWhere, TransferIsOurs, OneDone, ClosedIsLast, PostedIsOurs,
              UiPlaces, Reasons, WorkerPlaces, Queued, Loop, At
  <1>1. CASE Connect
    BY <1>1 DEF Connect, UserTurn, zVars
  <1>2. CASE RxConnects
    <2>1. rx = "connecting" /\ UNCHANGED <<ui, telnet, connected, everDrew, zmr, active, sid, freed, worker, transfers>>
      BY <1>2 DEF RxConnects, rxKept, uiVars, zVars
    <2>2. CASE rx' = "recv" /\ Post(FromRx("CONNECTED", <<>>))
      <3>1. FromRx("CONNECTED", <<>>).event = "CONNECTED" /\ FromRx("CONNECTED", <<>>).from = sid
        BY DEF FromRx
      <3>2. Types' /\ UiIsWhere' /\ TransferIsOurs'
        BY <2>1, <2>2, <3>1, PostFact
      <3>3. OneDone'
        BY <2>1, <2>2, <3>1, PostFact
      <3>4. ClosedIsLast'
        BY <2>1, <2>2, <3>1, PostFact
      <3>5. PostedIsOurs'
        BY <2>1, <2>2, <3>1, PostFact
      <3> QED
        BY <3>2, <3>3, <3>4, <3>5
    <2>3. CASE rx' = "ended" /\ queue' = queue \o <<FromRx("ERROR", <<>>), FromRx("CLOSED", <<>>)>>
      <3> DEFINE e == FromRx("ERROR", <<>>)
                 c == FromRx("CLOSED", <<>>)
      <3>1. e.event = "ERROR" /\ e.from = sid /\ c.event = "CLOSED" /\ c.from = sid
        BY DEF FromRx
      <3>2. PostTwo(e, c)
        BY <2>3 DEF PostTwo
      <3> HIDE DEF e, c
      <3>3. PICK k \in DOMAIN queue' :
              /\ queue'[k] = c
              /\ \A i \in DOMAIN queue' : i <= k
              /\ \A i \in DOMAIN queue' :
                    i = k \/ queue'[i] = e \/ (i \in DOMAIN queue /\ queue'[i] = queue[i])
        BY <3>2, PostTwoFact
      <3>4. /\ IsSeq(queue') /\ DOMAIN queue \subseteq Nat /\ DOMAIN queue' \subseteq Nat
            /\ \A i \in DOMAIN queue : i \in DOMAIN queue' /\ queue'[i] = queue[i]
        BY <3>2, PostTwoFact
      <3>9. rx' = "ended"
        BY <2>3
      <3>5. Types' /\ UiIsWhere' /\ TransferIsOurs'
        BY <2>1, <3>9, <3>4
      <3>6. OneDone'
        BY <2>1, <3>9, <3>1, <3>3, <3>4
      <3>7. ClosedIsLast'
        BY <2>1, <3>9, <3>1, <3>3, <3>4
      <3>8. PostedIsOurs'
        BY <2>1, <3>9, <3>1, <3>3, <3>4
      <3> QED
        BY <3>5, <3>6, <3>7, <3>8
    <2> QED
      BY <1>2, <2>2, <2>3 DEF RxConnects
  <1>3. CASE RxReceives
    BY <1>3 DEF RxReceives, rxKept, uiVars, zVars
  <1>4. CASE RxReplyStarts
    BY <1>4 DEF RxReplyStarts, rxKept, uiVars, zVars
  <1>5. CASE RxReplyReturns
    BY <1>5 DEF RxReplyReturns, rxKept, uiVars, zVars
  <1>6. CASE RxPosts
    <2>1. Post(FromRx("DATA", held))
      BY <1>6 DEF RxPosts
    <2> QED
      BY <1>6, <2>1, PostFact DEF RxPosts, FromRx, rxKept, uiVars, zVars
  <1>7. CASE RxCloses
    <2>1. Post(FromRx("CLOSED", <<>>))
      BY <1>7 DEF RxCloses, Farewell
    <2> QED
      BY <1>7, <2>1, PostFact DEF RxCloses, FromRx, rxKept, uiVars, zVars
  <1>8. CASE WorkerTakes
    <2>1. /\ worker.at = "wait" /\ worker'.at \in WorkerPlaces \ {"none", "locking", "sending", "ended"}
          /\ worker'.home = worker.home /\ worker' \in [at : WorkerPlaces, last : BOOLEAN, t : Nat, home : Nat]
      BY <1>8 DEF WorkerTakes
    <2>2. UNCHANGED <<ui, telnet, connected, everDrew, zmr, active, sid, freed, rx, queue, transfers>>
      BY <1>8 DEF WorkerTakes, workerKept, uiVars, rxVars
    <2>9. Types' /\ UiIsWhere' /\ TransferIsOurs'
      BY <2>1, <2>2
    <2>10. OneDone'
      BY <2>1, <2>2
    <2>11. ClosedIsLast'
      BY <2>1, <2>2
    <2>12. PostedIsOurs'
      BY <2>1, <2>2
    <2> QED
      BY <2>9, <2>10, <2>11, <2>12
  <1>9. CASE WorkerStops
    BY <1>9 DEF WorkerStops, workerKept, uiVars, rxVars
  <1>10. CASE WorkerReads
    BY <1>10 DEF WorkerReads, workerKept, uiVars, rxVars
  <1>11. CASE WorkerSendStarts
    BY <1>11 DEF WorkerSendStarts, workerKept, uiVars, rxVars
  <1>12. CASE WorkerSendReturns
    <2>1. /\ worker.at = "sending" /\ worker'.at \in {"end", "wait"}
          /\ worker'.home = worker.home /\ worker' \in [at : WorkerPlaces, last : BOOLEAN, t : Nat, home : Nat]
      BY <1>12 DEF WorkerSendReturns
    <2>2. UNCHANGED <<ui, telnet, connected, everDrew, zmr, active, sid, freed, rx, queue, transfers>>
      BY <1>12 DEF WorkerSendReturns, workerKept, uiVars, rxVars
    <2>9. Types' /\ UiIsWhere' /\ TransferIsOurs'
      BY <2>1, <2>2
    <2>10. OneDone'
      BY <2>1, <2>2
    <2>11. ClosedIsLast'
      BY <2>1, <2>2
    <2>12. PostedIsOurs'
      BY <2>1, <2>2
    <2> QED
      BY <2>9, <2>10, <2>11, <2>12
  <1>13. CASE WorkerEnds
    <2>1. Post([event |-> "DONE", from |-> active, items |-> <<>>])
      BY <1>13 DEF WorkerEnds
    <2>2. /\ worker.at = "end" /\ worker'.at = "ended"
          /\ worker'.home = worker.home /\ worker' \in [at : WorkerPlaces, last : BOOLEAN, t : Nat, home : Nat]
      BY <1>13 DEF WorkerEnds
    <2>3. UNCHANGED <<ui, telnet, connected, everDrew, zmr, active, sid, freed, rx, transfers>>
      BY <1>13 DEF WorkerEnds, workerKept, uiVars, rxVars
    <2>9. Types' /\ UiIsWhere' /\ TransferIsOurs'
      BY <2>1, <2>2, <2>3, PostFact
    <2>10. OneDone'
      BY <2>1, <2>2, <2>3, PostFact
    <2>11. ClosedIsLast'
      BY <2>1, <2>2, <2>3, PostFact
    <2>12. PostedIsOurs'
      BY <2>1, <2>2, <2>3, PostFact
    <2> QED
      BY <2>9, <2>10, <2>11, <2>12
  <1>14. CASE PeerSends \/ PeerNegotiates \/ PeerChanges
    BY <1>14 DEF PeerSends, PeerNegotiates, PeerChanges, uiVars, rxVars, zVars
  <1>15. CASE UNCHANGED vars
    BY <1>15 DEF vars, uiVars, rxVars, zVars
  <1> QED
    BY <1>1, <1>2, <1>3, <1>4, <1>5, <1>6, <1>7, <1>8, <1>9, <1>10, <1>11, <1>12, <1>13,
       <1>14, <1>15
    DEF Rx, Worker, Peer

-------------------------------------------------------------------------------
LEMMA ApartStep == ApartInv /\ [Next]_vars => ApartInv'
  <1> SUFFICES ASSUME ApartInv, [Next]_vars PROVE ApartInv'
    OBVIOUS
  <1>1. CASE \E download \in BOOLEAN : Command(download)
    <2>1. UNCHANGED queue
      BY <1>1 DEF Command
    <2> QED
      BY <1>1, <2>1, SilentSteps
  <1>2. CASE UiSendStarts \/ UiSendReturns \/ Escape \/ FinishTimeout \/ CloseSocket \/ FreeHandle
    <2>1. UNCHANGED queue
      BY <1>2 DEF UiSendStarts, UiSendReturns, Escape, FinishTimeout, CloseSocket, FreeHandle
    <2> QED
      BY <1>2, <2>1, SilentSteps
  <1>3. CASE Disconnect \/ Shutdown \/ FinishJoined
    <2>1. UNCHANGED queue
      BY <1>3 DEF Disconnect, Shutdown, FinishJoined
    <2> QED
      BY <1>3, <2>1, SilentSteps
  <1>4. CASE \/ OnConnected \/ OnError \/ OnDataTransfer \/ OnDataSwitch \/ OnDataScene
             \/ OnClosed \/ OnDone
    BY <1>4, TakingSteps
  <1>5. CASE Connect \/ Rx \/ Worker \/ Peer \/ UNCHANGED vars
    BY <1>5, OtherSteps
  <1> QED
    BY <1>1, <1>2, <1>3, <1>4, <1>5 DEF Next, User, Ui

(* No message, thread, transfer or scene of one session reaches another,    *)
(* whatever the order of connects, drops, transfers, escapes and posted     *)
(* messages (rip_close_session, rip_zmodem_abandon, telnet_proto_close).    *)
THEOREM RipSessionsAreApart == Spec => []SessionsAreApart
  <1>1. ApartInv => SessionsAreApart
    <2> SUFFICES ASSUME ApartInv PROVE SessionsAreApart
      OBVIOUS
    <2> USE DEF ApartInv, Types, UiIsWhere, TransferIsOurs, OneDone, ClosedIsLast, PostedIsOurs
    <2>1. OwnEvents
      BY DEF OwnEvents, Loop
    <2>2. NothingOutlives
      BY DEF NothingOutlives, Queued, Loop
    <2> QED
      BY <2>1, <2>2 DEF SessionsAreApart
  <1> QED
    BY ApartInit, ApartStep, <1>1, PTL DEF Spec

-------------------------------------------------------------------------------
(* The stream of a session.  Recursions over a sequence are taken as a run   *)
(* of values, one for each number of elements so far.                        *)

LEMMA LeastNumber ==
    ASSUME NEW T \in SUBSET Nat, T # {}
    PROVE  \E s \in T : \A t \in T : s <= t
<1> DEFINE R == {ss \in Nat \X Nat : ss[1] < ss[2]}
<1>1. IsWellFoundedOn(R, Nat)
  BY NatLessThanWellFounded, Zenon DEF OpToRel
<1> HIDE DEF R
<1>2. PICK s \in T : \A t \in T : ~ (<<t, s>> \in R)
  BY <1>1, WFMin
<1>3. \A t \in T : t \in Nat /\ s \in Nat /\ ~ (t < s)
  BY <1>2 DEF R
<1>4. QED
  BY <1>2, <1>3

\* A set of numbers that has 0 and, below n, with each the next, has all up to n.
LEMMA CountsUp ==
    ASSUME NEW n \in Nat, NEW T, 0 \in T, \A i \in 0 .. n : i \in T /\ i < n => i + 1 \in T
    PROVE  \A i \in 0 .. n : i \in T
<1> SUFFICES ASSUME NEW m \in 0 .. n, m \notin T PROVE FALSE
  OBVIOUS
<1> DEFINE M == {i \in 0 .. n : i \notin T}
<1>1. M \in SUBSET Nat /\ M # {}
  OBVIOUS
<1> HIDE DEF M
<1>2. PICK s \in M : \A t \in M : s <= t
  BY <1>1, LeastNumber
<1>3. s \in 0 .. n /\ s \notin T /\ s # 0
  BY <1>2 DEF M
<1>4. s - 1 \in 0 .. n /\ s - 1 < n /\ s - 1 < s /\ s = (s - 1) + 1
  BY <1>3
<1>5. s - 1 \notin M
  BY <1>1, <1>2, <1>4
<1>6. s - 1 \in T
  BY <1>4, <1>5 DEF M
<1>7. QED
  BY <1>3, <1>4, <1>6

\* n steps of F from s.
RunOf(g, n, F, s, S) == g \in [0 .. n -> S] /\ g[0] = s /\ \A i \in 0 .. n : i < n => g[i + 1] = F[<<i, g[i]>>]

LEMMA RunExists ==
    ASSUME NEW S, NEW s \in S, NEW F \in [Nat \X S -> S], NEW n \in Nat
    PROVE  \E g : RunOf(g, n, F, s, S)
<1> DEFINE Run(g, m) == g \in [0 .. m -> S] /\ g[0] = s /\ \A i \in 0 .. m : i < m => g[i + 1] = F[<<i, g[i]>>]
           T == {m \in 0 .. n : \E g : Run(g, m)}
<1>1. 0 \in T
  <2>1. Run([i \in 0 .. 0 |-> s], 0)
    OBVIOUS
  <2>2. 0 \in 0 .. n
    OBVIOUS
  <2>3. QED
    BY <2>1, <2>2
<1>2. ASSUME NEW m \in 0 .. n, m \in T, m < n PROVE m + 1 \in T
  <2>1. PICK g : Run(g, m)
    BY <1>2
  <2> DEFINE new == F[<<m, g[m]>>]
             h == [i \in 0 .. m + 1 |-> IF i = m + 1 THEN new ELSE g[i]]
  <2>2. new \in S
    <3>1. <<m, g[m]>> \in Nat \X S
      BY <2>1
    <3>2. QED
      BY <3>1
  <2>3. h \in [0 .. m + 1 -> S] /\ h[0] = s
    BY <2>1, <2>2
  <2>4. h[m + 1] = new /\ \A i \in 0 .. m : h[i] = g[i]
    OBVIOUS
  <2> HIDE DEF h
  <2>5. ASSUME NEW i \in 0 .. m + 1, i < m + 1 PROVE h[i + 1] = F[<<i, h[i]>>]
    <3>1. CASE i = m
      BY <2>4, <3>1
    <3>2. CASE i # m
      <4>1. i \in 0 .. m /\ i < m /\ i + 1 \in 0 .. m
        BY <2>5, <3>2
      <4>2. QED
        BY <2>1, <2>4, <4>1
    <3>3. QED
      BY <3>1, <3>2
  <2>6. Run(h, m + 1) /\ m + 1 \in 0 .. n
    BY <1>2, <2>3, <2>5
  <2>7. QED
    BY <2>6
<1> HIDE DEF T
<1>3. n \in T
  BY <1>1, <1>2, CountsUp
<1>4. QED
  BY <1>3 DEF T, RunOf

\* F of each element.
Mapped(F, q) == [i \in DOMAIN q |-> F[q[i]]]

\* F may be taken of the parts of a sequence.
Spreads(F, S, T) ==
    \A a, b \in Seq(S) : /\ Mapped(F, a) \in Seq(T) /\ Mapped(F, b) \in Seq(T)
                         /\ Mapped(F, a \o b) = Mapped(F, a) \o Mapped(F, b)

LEMMA MappedSpreads == ASSUME NEW S, NEW T, NEW F \in [S -> T] PROVE Spreads(F, S, T)
<1> SUFFICES ASSUME NEW a \in Seq(S), NEW b \in Seq(S)
             PROVE  /\ Mapped(F, a) \in Seq(T) /\ Mapped(F, b) \in Seq(T)
                    /\ Mapped(F, a \o b) = Mapped(F, a) \o Mapped(F, b)
  BY DEF Spreads
<1> DEFINE c == a \o b
           x == Mapped(F, a)
           y == Mapped(F, b)
           z == Mapped(F, c)
           w == x \o y
<1>1. /\ c \in Seq(S) /\ Len(c) = Len(a) + Len(b) /\ Len(a) \in Nat /\ Len(b) \in Nat
      /\ \A i \in 1 .. Len(c) : c[i] = IF i <= Len(a) THEN a[i] ELSE b[i - Len(a)]
  OBVIOUS
<1> HIDE DEF c
<1>0. \A q \in Seq(S) : /\ Mapped(F, q) \in Seq(T) /\ Len(Mapped(F, q)) = Len(q)
                        /\ \A i \in 1 .. Len(q) : Mapped(F, q)[i] = F[q[i]]
  <2> SUFFICES ASSUME NEW q \in Seq(S)
               PROVE  /\ Mapped(F, q) \in Seq(T) /\ Len(Mapped(F, q)) = Len(q)
                      /\ \A i \in 1 .. Len(q) : Mapped(F, q)[i] = F[q[i]]
    OBVIOUS
  <2>1. DOMAIN q = 1 .. Len(q) /\ Len(q) \in Nat /\ \A i \in 1 .. Len(q) : q[i] \in S
    OBVIOUS
  <2>2. \A i \in 1 .. Len(q) : F[q[i]] \in T
    BY <2>1
  <2>3. QED
    BY <2>1, <2>2 DEF Mapped
<1>2. x \in Seq(T) /\ Len(x) = Len(a) /\ \A i \in 1 .. Len(a) : x[i] = F[a[i]]
  BY <1>0
<1>3. y \in Seq(T) /\ Len(y) = Len(b) /\ \A i \in 1 .. Len(b) : y[i] = F[b[i]]
  BY <1>0
<1>4. z \in Seq(T) /\ Len(z) = Len(c) /\ \A i \in 1 .. Len(c) : z[i] = F[c[i]]
  BY <1>0, <1>1
<1> HIDE DEF x, y, z
<1>5. w \in Seq(T) /\ Len(w) = Len(x) + Len(y)
      /\ \A i \in 1 .. Len(w) : w[i] = IF i <= Len(x) THEN x[i] ELSE y[i - Len(x)]
  <2>1. x \in Seq(T) /\ y \in Seq(T)
    BY <1>2, <1>3
  <2>2. QED
    BY <2>1
<1> HIDE DEF w
<1>6. ASSUME NEW i \in 1 .. Len(z) PROVE z[i] = w[i]
  <2>1. z[i] = F[c[i]] /\ i \in 1 .. Len(w) /\ i \in 1 .. Len(c)
    BY <1>1, <1>2, <1>3, <1>4, <1>5
  <2>2. CASE i <= Len(a)
    <3>1. i \in 1 .. Len(a) /\ c[i] = a[i] /\ w[i] = x[i]
      BY <1>1, <1>2, <1>5, <2>1, <2>2
    <3>2. QED
      BY <1>2, <2>1, <3>1
  <2>3. CASE ~(i <= Len(a))
    <3>1. i - Len(a) \in 1 .. Len(b) /\ c[i] = b[i - Len(a)] /\ w[i] = y[i - Len(a)]
      BY <1>1, <1>2, <1>3, <1>5, <2>1, <2>3
    <3>2. QED
      BY <1>3, <2>1, <3>1
  <2>4. QED
    BY <2>2, <2>3
<1>7. Len(z) = Len(w)
  BY <1>1, <1>2, <1>3, <1>4, <1>5
<1>8. z = w
  BY <1>4, <1>5, <1>6, <1>7, SeqEqual
<1>9. QED
  BY <1>2, <1>3, <1>8 DEF c, x, y, z, w

LEMMA MappedFew ==
    ASSUME NEW F, NEW e
    PROVE  Mapped(F, <<>>) = <<>> /\ Mapped(F, <<e>>) = <<F[e]>>
  BY DEF Mapped

\* The sums of the first sequences of c, one for each number of them.
Sums(g, c, n, S) ==
    /\ g \in [0 .. n -> Seq(S)] /\ g[0] = <<>>
    /\ \A i \in 0 .. n : i < n => g[i + 1] = g[i] \o c[i + 1]

LEMMA SumsExist ==
    ASSUME NEW S, NEW c \in Seq(Seq(S)), NEW n \in Nat, n = Len(c)
    PROVE  \E g : Sums(g, c, n, S)
<1> DEFINE Q == Seq(S)
           F == [x \in Nat \X Q |-> IF x[1] + 1 \in 1 .. n THEN x[2] \o c[x[1] + 1] ELSE x[2]]
<1>0. <<>> \in Q
  OBVIOUS
<1>1. \A i \in 1 .. n : c[i] \in Q
  OBVIOUS
<1>2. \A a, b \in Q : a \o b \in Q
  OBVIOUS
<1>3. \A i \in 0 .. n, v \in Q : i < n => F[<<i, v>>] = v \o c[i + 1]
  <2> SUFFICES ASSUME NEW i \in 0 .. n, NEW v \in Q, i < n PROVE F[<<i, v>>] = v \o c[i + 1]
    OBVIOUS
  <2> DEFINE x == <<i, v>>
  <2>1. x \in Nat \X Q /\ x[1] = i /\ x[2] = v /\ i + 1 \in 1 .. n
    OBVIOUS
  <2> HIDE DEF x, Q
  <2>2. F[x] = v \o c[i + 1]
    BY <2>1
  <2>3. QED
    BY <2>2 DEF x
<1> HIDE DEF Q
<1>4. F \in [Nat \X Q -> Q]
  BY <1>1, <1>2
<1> HIDE DEF F
<1>5. PICK g \in [0 .. n -> Q] : g[0] = <<>> /\ \A i \in 0 .. n : i < n => g[i + 1] = F[<<i, g[i]>>]
  <2>1. \E g : RunOf(g, n, F, <<>>, Q)
    BY <1>0, <1>4, RunExists
  <2>2. QED
    BY <2>1 DEF RunOf
<1>6. \A i \in 0 .. n : i < n => g[i + 1] = g[i] \o c[i + 1]
  BY <1>3, <1>5
<1>7. Sums(g, c, n, S)
  BY <1>5, <1>6 DEF Sums, Q
<1>8. QED
  BY <1>7

LEMMA FlattenIs ==
    ASSUME NEW S, NEW c \in Seq(Seq(S)), NEW n \in Nat, n = Len(c), NEW g, Sums(g, c, n, S)
    PROVE  FlattenSeq(c) = g[n] /\ g[n] \in Seq(S)
<1>1. g \in [0 .. n -> Seq(S)] /\ g[0] = <<>>
  BY DEF Sums
<1>2. \A i \in 0 .. n : i < n => g[i + 1] = g[i] \o c[i + 1]
  BY DEF Sums
<1>3. g[n] \in Seq(S)
  BY <1>1
<1>4. CASE n = 0
  <2>1. c = <<>> /\ Len(c) = 0
    BY <1>4, EmptySeq
  <2>2. FlattenSeq(c) = c
    BY <2>1 DEF FlattenSeq
  <2>3. QED
    BY <1>1, <1>3, <1>4, <2>1, <2>2
<1>5. CASE n # 0
  <2> DEFINE flatten[i \in 1 .. Len(c)] == IF i = 1 THEN c[i] ELSE flatten[i - 1] \o c[i]
             f == [i \in 1 .. Len(c) |-> g[i]]
  <2>1. f = [i \in 1 .. Len(c) |-> IF i = 1 THEN c[i] ELSE f[i - 1] \o c[i]]
    <3>1. ASSUME NEW i \in 1 .. n PROVE g[i] = IF i = 1 THEN c[i] ELSE f[i - 1] \o c[i]
      <4>1. i - 1 \in 0 .. n /\ i - 1 < n /\ (i - 1) + 1 = i /\ c[i] \in Seq(S)
        OBVIOUS
      <4>2. g[i] = g[i - 1] \o c[i]
        BY <1>2, <4>1
      <4>3. CASE i = 1
        BY <1>1, <4>1, <4>2, <4>3
      <4>4. CASE i # 1
        <5>1. i - 1 \in 1 .. Len(c)
          BY <4>4
        <5>2. f[i - 1] = g[i - 1]
          BY <5>1
        <5>3. QED
          BY <4>2, <4>4, <5>2
      <4>5. QED
        BY <4>3, <4>4
    <3>2. QED
      BY <3>1
  <2>2. flatten = [i \in 1 .. Len(c) |-> IF i = 1 THEN c[i] ELSE flatten[i - 1] \o c[i]]
    <3>1. \E h : h = [i \in 1 .. Len(c) |-> IF i = 1 THEN c[i] ELSE h[i - 1] \o c[i]]
      <4> HIDE DEF f
      <4>1. QED
        BY <2>1
    <3>2. QED
      BY <3>1 DEF flatten
  <2>3. FlattenSeq(c) = flatten[Len(c)]
    BY <1>5 DEF FlattenSeq
  <2> HIDE DEF flatten, f
  <2> DEFINE T == {i \in 0 .. n : i = 0 \/ flatten[i] = g[i]}
  <2>4. 0 \in T
    OBVIOUS
  <2>5. ASSUME NEW i \in 0 .. n, i \in T, i < n PROVE i + 1 \in T
    <3>1. i + 1 \in 1 .. Len(c) /\ (i + 1) - 1 = i /\ i + 1 \in 0 .. n /\ c[i + 1] \in Seq(S)
      BY <2>5
    <3>2. flatten[i + 1] = IF i + 1 = 1 THEN c[i + 1] ELSE flatten[(i + 1) - 1] \o c[i + 1]
      BY <2>2, <3>1
    <3>3. g[i + 1] = g[i] \o c[i + 1]
      BY <1>2, <2>5
    <3>4. flatten[i + 1] = g[i + 1]
      <4>1. CASE i = 0
        <5>1. <<>> \o c[i + 1] = c[i + 1]
          BY <3>1
        <5>2. flatten[i + 1] = c[i + 1]
          BY <3>2, <4>1
        <5>3. g[i + 1] = <<>> \o c[i + 1]
          BY <1>1, <3>3, <4>1
        <5>4. QED
          BY <5>1, <5>2, <5>3
      <4>2. CASE i # 0
        <5>1. flatten[i] = g[i] /\ i + 1 # 1
          BY <2>5, <4>2
        <5>2. flatten[i + 1] = flatten[(i + 1) - 1] \o c[i + 1]
          BY <3>2, <5>1
        <5>3. QED
          BY <3>1, <3>3, <5>1, <5>2
      <4>3. QED
        BY <4>1, <4>2
    <3>5. QED
      BY <3>1, <3>4
  <2> HIDE DEF T
  <2>6. n \in T
    <3>1. \A i \in 0 .. n : i \in T
      BY <2>4, <2>5, CountsUp
    <3>2. QED
      BY <3>1
  <2>7. QED
    BY <1>3, <1>5, <2>3, <2>6 DEF T
<1>6. QED
  BY <1>4, <1>5

LEMMA FlattenJoined ==
    ASSUME NEW S, NEW a \in Seq(Seq(S)), NEW b \in Seq(Seq(S))
    PROVE  /\ FlattenSeq(a) \in Seq(S) /\ FlattenSeq(b) \in Seq(S)
           /\ FlattenSeq(a \o b) = FlattenSeq(a) \o FlattenSeq(b)
<1> DEFINE c == a \o b
           m == Len(a)
           n == Len(b)
           k == m + n
<1>1. /\ m \in Nat /\ n \in Nat /\ Len(c) = k /\ c \in Seq(Seq(S)) /\ k \in Nat
      /\ \A i \in 1 .. m : c[i] = a[i] /\ a[i] \in Seq(S)
      /\ \A i \in 1 .. n : c[m + i] = b[i] /\ b[i] \in Seq(S)
  OBVIOUS
<1>0. m = Len(a) /\ n = Len(b) /\ k = m + n
  OBVIOUS
<1> HIDE DEF c, m, n, k
<1>2. PICK g : Sums(g, c, k, S)
  BY <1>1, SumsExist
<1>3. PICK h : Sums(h, b, n, S)
  BY <1>0, <1>1, SumsExist
<1>4. FlattenSeq(c) = g[k]
  BY <1>1, <1>2, FlattenIs
<1>5. FlattenSeq(b) = h[n] /\ h[n] \in Seq(S)
  BY <1>0, <1>1, <1>3, FlattenIs
<1>6. g \in [0 .. k -> Seq(S)] /\ g[0] = <<>> /\ \A i \in 0 .. k : i < k => g[i + 1] = g[i] \o c[i + 1]
  BY <1>2 DEF Sums
<1>7. h \in [0 .. n -> Seq(S)] /\ h[0] = <<>> /\ \A i \in 0 .. n : i < n => h[i + 1] = h[i] \o b[i + 1]
  BY <1>3 DEF Sums
<1> DEFINE f == [i \in 0 .. m |-> g[i]]
<1>8. Sums(f, a, m, S)
  <2>1. \A i \in 0 .. m : i \in 0 .. k
    BY <1>0, <1>1
  <2>2. f \in [0 .. m -> Seq(S)] /\ f[0] = <<>>
    <3>1. \A i \in 0 .. m : g[i] \in Seq(S)
      BY <1>6, <2>1
    <3>2. 0 \in 0 .. m
      BY <1>1
    <3>3. QED
      BY <1>6, <3>1, <3>2
  <2>3. ASSUME NEW i \in 0 .. m, i < m PROVE f[i + 1] = f[i] \o a[i + 1]
    <3>1. i + 1 \in 0 .. m /\ i + 1 \in 1 .. m /\ i < k /\ i \in 0 .. k
      BY <1>0, <1>1, <2>3
    <3>2. g[i + 1] = g[i] \o c[i + 1]
      BY <1>6, <3>1
    <3>3. c[i + 1] = a[i + 1]
      BY <1>1, <3>1
    <3>4. QED
      BY <3>1, <3>2, <3>3
  <2> HIDE DEF f
  <2>4. QED
    BY <2>2, <2>3 DEF Sums
<1>9. FlattenSeq(a) = f[m] /\ f[m] \in Seq(S)
  BY <1>0, <1>1, <1>8, FlattenIs
<1>10. f[m] = g[m] /\ g[m] \in Seq(S)
  BY <1>1, <1>9
<1> HIDE DEF f
<1> DEFINE T == {i \in 0 .. n : g[m + i] = g[m] \o h[i]}
<1>11. 0 \in T
  BY <1>1, <1>7, <1>10
<1>12. ASSUME NEW i \in 0 .. n, i \in T, i < n PROVE i + 1 \in T
  <2>1. m + i \in 0 .. k /\ m + i < k /\ (m + i) + 1 = m + (i + 1) /\ i + 1 \in 1 .. n /\ i + 1 \in 0 .. n
    BY <1>0, <1>1, <1>12
  <2>2. g[(m + i) + 1] = g[m + i] \o c[(m + i) + 1]
    BY <1>6, <2>1
  <2>3. c[m + (i + 1)] = b[i + 1] /\ b[i + 1] \in Seq(S)
    BY <1>1, <2>1
  <2>4. g[m + i] = g[m] \o h[i] /\ h[i] \in Seq(S)
    BY <1>7, <1>12
  <2>5. h[i + 1] = h[i] \o b[i + 1]
    BY <1>7, <1>12
  <2>6. (g[m] \o h[i]) \o b[i + 1] = g[m] \o (h[i] \o b[i + 1])
    <3>1. g[m] \in Seq(S) /\ h[i] \in Seq(S) /\ b[i + 1] \in Seq(S)
      BY <1>10, <2>3, <2>4
    <3>2. \A x, y, z \in Seq(S) : (x \o y) \o z = x \o (y \o z)
      BY ConcatAssociative
    <3>3. QED
      BY <3>1, <3>2
  <2>7. g[m + (i + 1)] = g[m] \o h[i + 1]
    BY <2>1, <2>2, <2>3, <2>4, <2>5, <2>6
  <2>8. QED
    BY <2>1, <2>7
<1> HIDE DEF T
<1>13. n \in 0 .. n /\ n \in T
  <2>1. \A i \in 0 .. n : i \in T
    BY <1>1, <1>11, <1>12, CountsUp
  <2>2. QED
    BY <1>1, <2>1
<1>14. g[k] = g[m] \o h[n]
  BY <1>0, <1>13 DEF T
<1>15. QED
  BY <1>4, <1>5, <1>9, <1>10, <1>14 DEF c

LEMMA FlattenFew ==
    ASSUME NEW S, NEW s \in Seq(S)
    PROVE  FlattenSeq(<<>>) = <<>> /\ FlattenSeq(<<s>>) = s
<1>1. FlattenSeq(<<>>) = <<>>
  BY DEF FlattenSeq
<1> DEFINE c == <<s>>
<1>2. c \in Seq(Seq(S)) /\ Len(c) = 1 /\ c[1] = s
  OBVIOUS
<1> HIDE DEF c
<1>3. PICK g : Sums(g, c, 1, S)
  BY <1>2, SumsExist
<1>4. FlattenSeq(c) = g[1]
  BY <1>2, <1>3, FlattenIs
<1>5. g[0] = <<>> /\ g[0 + 1] = g[0] \o c[0 + 1]
  <2>1. 0 \in 0 .. 1 /\ 0 < 1
    OBVIOUS
  <2>2. QED
    BY <1>3, <2>1 DEF Sums
<1>6. <<>> \o s = s
  OBVIOUS
<1>7. g[1] = s
  BY <1>2, <1>5, <1>6
<1>8. QED
  BY <1>1, <1>4, <1>7 DEF c
-------------------------------------------------------------------------------
(* Items, what is left of them without option bytes, and posted chunks.      *)

Items == [n : Nat, kind : Kinds \cup {"opt"}]
Messages == [event : Events, from : Nat, items : Seq(Items)]
NumberOf == [x \in Items |-> x.n]
KeptOf == [x \in Items |-> IF x.kind = "opt" THEN <<>> ELSE <<x>>]
PartOf == [m \in Messages |-> Numbers(m.items)]
Posted(q) == FlattenSeq([i \in DOMAIN q |-> Numbers(q[i].items)])

LEMMA NumbersMapped == ASSUME NEW q \in Seq(Items) PROVE Numbers(q) = Mapped(NumberOf, q)
<1>1. \A i \in DOMAIN q : q[i] \in Items
  OBVIOUS
<1>2. \A i \in DOMAIN q : NumberOf[q[i]] = q[i].n
  BY <1>1 DEF NumberOf
<1>3. QED
  BY <1>2 DEF Numbers, Mapped

LEMMA NumbersJoined ==
    ASSUME NEW a \in Seq(Items), NEW b \in Seq(Items)
    PROVE  /\ Numbers(a) \in Seq(Nat) /\ Numbers(b) \in Seq(Nat)
           /\ Numbers(a \o b) = Numbers(a) \o Numbers(b)
<1>1. NumberOf \in [Items -> Nat]
  BY DEF NumberOf, Items
<1>2. a \o b \in Seq(Items)
  OBVIOUS
<1>3. Numbers(a) = Mapped(NumberOf, a) /\ Numbers(b) = Mapped(NumberOf, b) /\ Numbers(a \o b) = Mapped(NumberOf, a \o b)
  BY <1>2, NumbersMapped
<1>4. Spreads(NumberOf, Items, Nat)
  BY <1>1, MappedSpreads
<1>5. QED
  BY <1>3, <1>4 DEF Spreads

LEMMA NumbersFew == Numbers(<<>>) = <<>> /\ \A x : Numbers(<<x>>) = <<x.n>>
  BY DEF Numbers

LEMMA PayloadMapped == ASSUME NEW q \in Seq(Items) PROVE Payload(q) = FlattenSeq(Mapped(KeptOf, q))
<1> DEFINE n == Len(q)
           c == Mapped(KeptOf, q)
<1>1. n \in Nat /\ n = Len(q) /\ \A i \in 1 .. n : q[i] \in Items
  OBVIOUS
<1>2. KeptOf \in [Items -> Seq(Items)]
  <2>1. \A x \in Items : <<x>> \in Seq(Items)
    OBVIOUS
  <2>2. <<>> \in Seq(Items)
    OBVIOUS
  <2>3. QED
    BY <2>1, <2>2 DEF KeptOf
<1>3. c \in Seq(Seq(Items)) /\ Len(c) = n
  <2>1. c \in Seq(Seq(Items))
    <3>1. Spreads(KeptOf, Items, Seq(Items))
      BY <1>2, MappedSpreads
    <3>2. QED
      BY <3>1 DEF Spreads
  <2>2. Len(c) = n
    BY DEF Mapped
  <2>3. QED
    BY <2>1, <2>2
<1>4. \A i \in 1 .. n : c[i] = IF q[i].kind = "opt" THEN <<>> ELSE <<q[i]>>
  BY <1>1 DEF Mapped, KeptOf
<1> DEFINE kept[i \in 0 .. Len(q)] ==
               IF i = 0 THEN <<>> ELSE IF q[i].kind = "opt" THEN kept[i - 1] ELSE Append(kept[i - 1], q[i])
<1>5. Payload(q) = kept[Len(q)]
  BY DEF Payload
<1> HIDE DEF c
<1>6. PICK g : Sums(g, c, n, Items)
  BY <1>1, <1>3, SumsExist
<1>7. g \in [0 .. n -> Seq(Items)] /\ g[0] = <<>> /\ \A i \in 0 .. n : i < n => g[i + 1] = g[i] \o c[i + 1]
  BY <1>6 DEF Sums
<1>8. ASSUME NEW i \in 0 .. n, i # 0
      PROVE  g[i] = IF q[i].kind = "opt" THEN g[i - 1] ELSE Append(g[i - 1], q[i])
  <2>1. i - 1 \in 0 .. n /\ i - 1 < n /\ (i - 1) + 1 = i /\ i \in 1 .. n
    BY <1>1, <1>8
  <2>2. g[i] = g[i - 1] \o c[i] /\ g[i - 1] \in Seq(Items) /\ q[i] \in Items
    BY <1>1, <1>7, <2>1
  <2>3. CASE q[i].kind = "opt"
    <3>1. c[i] = <<>>
      BY <1>4, <2>1, <2>3
    <3>2. g[i - 1] \o <<>> = g[i - 1]
      BY <2>2
    <3>3. QED
      BY <2>2, <2>3, <3>1, <3>2
  <2>4. CASE q[i].kind # "opt"
    <3>1. c[i] = <<q[i]>>
      BY <1>4, <2>1, <2>4
    <3>2. g[i - 1] \o <<q[i]>> = Append(g[i - 1], q[i])
      BY <2>2
    <3>3. QED
      BY <2>2, <2>4, <3>1, <3>2
  <2>5. QED
    BY <2>3, <2>4
<1>9. g = [i \in 0 .. Len(q) |->
               IF i = 0 THEN <<>> ELSE IF q[i].kind = "opt" THEN g[i - 1] ELSE Append(g[i - 1], q[i])]
  <2>1. \A i \in 0 .. n : g[i] = IF i = 0 THEN <<>>
                                 ELSE IF q[i].kind = "opt" THEN g[i - 1] ELSE Append(g[i - 1], q[i])
    BY <1>7, <1>8
  <2>2. QED
    BY <1>7, <2>1
<1>10. kept = [i \in 0 .. Len(q) |->
               IF i = 0 THEN <<>> ELSE IF q[i].kind = "opt" THEN kept[i - 1] ELSE Append(kept[i - 1], q[i])]
  <2>1. \E h : h = [i \in 0 .. Len(q) |->
               IF i = 0 THEN <<>> ELSE IF q[i].kind = "opt" THEN h[i - 1] ELSE Append(h[i - 1], q[i])]
    BY <1>9
  <2>2. QED
    BY <2>1 DEF kept
<1> HIDE DEF kept, n
<1> DEFINE T == {i \in 0 .. n : kept[i] = g[i]}
<1>11. 0 \in T
  BY <1>1, <1>7, <1>10
<1>12. ASSUME NEW i \in 0 .. n, i \in T, i < n PROVE i + 1 \in T
  <2>1. i + 1 \in 0 .. n /\ (i + 1) - 1 = i /\ i + 1 # 0 /\ i + 1 \in 0 .. Len(q)
    BY <1>1, <1>12
  <2>2. kept[i + 1] = IF q[i + 1].kind = "opt" THEN kept[(i + 1) - 1] ELSE Append(kept[(i + 1) - 1], q[i + 1])
    BY <1>10, <2>1
  <2>3. g[i + 1] = IF q[i + 1].kind = "opt" THEN g[(i + 1) - 1] ELSE Append(g[(i + 1) - 1], q[i + 1])
    BY <1>8, <2>1
  <2>4. kept[i] = g[i]
    BY <1>12
  <2>5. kept[i + 1] = g[i + 1]
    BY <2>1, <2>2, <2>3, <2>4
  <2>6. QED
    BY <2>1, <2>5
<1> HIDE DEF T
<1>13. n \in 0 .. n /\ n \in T
  <2>1. \A i \in 0 .. n : i \in T
    BY <1>1, <1>11, <1>12, CountsUp
  <2>2. QED
    BY <1>1, <2>1
<1>14. FlattenSeq(c) = g[n]
  BY <1>1, <1>3, <1>6, FlattenIs
<1>15. QED
  BY <1>1, <1>5, <1>13, <1>14 DEF T, c

LEMMA PayloadJoined ==
    ASSUME NEW a \in Seq(Items), NEW b \in Seq(Items)
    PROVE  /\ Payload(a) \in Seq(Items) /\ Payload(b) \in Seq(Items)
           /\ Payload(a \o b) = Payload(a) \o Payload(b)
<1>1. KeptOf \in [Items -> Seq(Items)]
  <2>1. \A x \in Items : <<x>> \in Seq(Items)
    OBVIOUS
  <2>2. <<>> \in Seq(Items)
    OBVIOUS
  <2>3. QED
    BY <2>1, <2>2 DEF KeptOf
<1> DEFINE x == Mapped(KeptOf, a)
           y == Mapped(KeptOf, b)
<1>2. x \in Seq(Seq(Items)) /\ y \in Seq(Seq(Items)) /\ Mapped(KeptOf, a \o b) = x \o y
  <2>1. Spreads(KeptOf, Items, Seq(Items))
    BY <1>1, MappedSpreads
  <2>2. QED
    BY <2>1 DEF Spreads
<1>3. a \o b \in Seq(Items)
  OBVIOUS
<1>4. Payload(a) = FlattenSeq(x) /\ Payload(b) = FlattenSeq(y) /\ Payload(a \o b) = FlattenSeq(Mapped(KeptOf, a \o b))
  BY <1>3, PayloadMapped
<1> HIDE DEF x, y
<1>5. FlattenSeq(x) \in Seq(Items) /\ FlattenSeq(y) \in Seq(Items)
      /\ FlattenSeq(x \o y) = FlattenSeq(x) \o FlattenSeq(y)
  BY <1>2, FlattenJoined
<1>6. QED
  BY <1>2, <1>4, <1>5

LEMMA PayloadFew ==
    ASSUME NEW x \in Items
    PROVE  Payload(<<>>) = <<>> /\ Payload(<<x>>) = IF x.kind = "opt" THEN <<>> ELSE <<x>>
<1>1. <<>> \in Seq(Items) /\ <<x>> \in Seq(Items)
  OBVIOUS
<1>2. Payload(<<>>) = FlattenSeq(Mapped(KeptOf, <<>>)) /\ Payload(<<x>>) = FlattenSeq(Mapped(KeptOf, <<x>>))
  BY <1>1, PayloadMapped
<1> DEFINE s == IF x.kind = "opt" THEN <<>> ELSE <<x>>
<1>3. KeptOf[x] = s /\ s \in Seq(Items)
  BY <1>1 DEF KeptOf
<1> HIDE DEF s
<1>4. Mapped(KeptOf, <<>>) = <<>> /\ Mapped(KeptOf, <<x>>) = <<s>>
  BY <1>3, MappedFew
<1>5. FlattenSeq(<<>>) = <<>> /\ FlattenSeq(<<s>>) = s
  BY <1>3, FlattenFew
<1>6. QED
  BY <1>2, <1>4, <1>5 DEF s

LEMMA PostedMapped == ASSUME NEW q \in Seq(Messages) PROVE Posted(q) = FlattenSeq(Mapped(PartOf, q))
<1>1. \A i \in DOMAIN q : q[i] \in Messages
  OBVIOUS
<1>2. \A i \in DOMAIN q : PartOf[q[i]] = Numbers(q[i].items)
  BY <1>1 DEF PartOf
<1>3. Mapped(PartOf, q) = [i \in DOMAIN q |-> Numbers(q[i].items)]
  BY <1>2 DEF Mapped
<1>4. QED
  BY <1>3 DEF Posted

LEMMA PostedJoined ==
    ASSUME NEW a \in Seq(Messages), NEW b \in Seq(Messages)
    PROVE  /\ Posted(a) \in Seq(Nat) /\ Posted(b) \in Seq(Nat)
           /\ Posted(a \o b) = Posted(a) \o Posted(b)
<1>1. PartOf \in [Messages -> Seq(Nat)]
  <2>1. ASSUME NEW m \in Messages PROVE Numbers(m.items) \in Seq(Nat)
    <3>1. m.items \in Seq(Items)
      BY DEF Messages
    <3>2. QED
      BY <3>1, NumbersJoined
  <2>2. QED
    BY <2>1 DEF PartOf
<1> DEFINE x == Mapped(PartOf, a)
           y == Mapped(PartOf, b)
<1>2. x \in Seq(Seq(Nat)) /\ y \in Seq(Seq(Nat)) /\ Mapped(PartOf, a \o b) = x \o y
  <2>1. Spreads(PartOf, Messages, Seq(Nat))
    BY <1>1, MappedSpreads
  <2>2. QED
    BY <2>1 DEF Spreads
<1>3. a \o b \in Seq(Messages)
  OBVIOUS
<1>4. Posted(a) = FlattenSeq(x) /\ Posted(b) = FlattenSeq(y) /\ Posted(a \o b) = FlattenSeq(Mapped(PartOf, a \o b))
  BY <1>3, PostedMapped
<1> HIDE DEF x, y
<1>5. FlattenSeq(x) \in Seq(Nat) /\ FlattenSeq(y) \in Seq(Nat)
      /\ FlattenSeq(x \o y) = FlattenSeq(x) \o FlattenSeq(y)
  BY <1>2, FlattenJoined
<1>6. QED
  BY <1>2, <1>4, <1>5

LEMMA PostedFew ==
    ASSUME NEW m \in Messages
    PROVE  Posted(<<>>) = <<>> /\ Posted(<<m>>) = Numbers(m.items)
<1>1. <<>> \in Seq(Messages) /\ <<m>> \in Seq(Messages)
  OBVIOUS
<1>2. Posted(<<>>) = FlattenSeq(Mapped(PartOf, <<>>)) /\ Posted(<<m>>) = FlattenSeq(Mapped(PartOf, <<m>>))
  BY <1>1, PostedMapped
<1> DEFINE s == Numbers(m.items)
<1>3. PartOf[m] = s /\ s \in Seq(Nat)
  <2>1. m.items \in Seq(Items)
    BY DEF Messages
  <2>2. QED
    BY <2>1, NumbersJoined DEF PartOf
<1> HIDE DEF s
<1>4. Mapped(PartOf, <<>>) = <<>> /\ Mapped(PartOf, <<m>>) = <<s>>
  BY <1>3, MappedFew
<1>5. FlattenSeq(<<>>) = <<>> /\ FlattenSeq(<<s>>) = s
  BY <1>3, FlattenFew
<1>6. QED
  BY <1>2, <1>4, <1>5 DEF s

LEMMA PostedAppended ==
    ASSUME NEW q \in Seq(Messages), NEW m \in Messages
    PROVE  Append(q, m) \in Seq(Messages) /\ Posted(Append(q, m)) = Posted(q) \o Numbers(m.items)
<1>1. <<m>> \in Seq(Messages) /\ Append(q, m) = q \o <<m>> /\ Append(q, m) \in Seq(Messages)
  OBVIOUS
<1>2. Posted(q \o <<m>>) = Posted(q) \o Posted(<<m>>)
  BY <1>1, PostedJoined
<1>3. QED
  BY <1>1, <1>2, PostedFew

LEMMA PostedTaken ==
    ASSUME NEW q \in Seq(Messages), q # <<>>
    PROVE  /\ Head(q) \in Messages /\ Tail(q) \in Seq(Messages)
           /\ Posted(q) = Numbers(Head(q).items) \o Posted(Tail(q))
<1> DEFINE m == Head(q)
           r == Tail(q)
<1>1. m \in Messages /\ r \in Seq(Messages) /\ q = <<m>> \o r
  OBVIOUS
<1> HIDE DEF m, r
<1>2. <<m>> \in Seq(Messages)
  BY <1>1
<1>3. Posted(<<m>> \o r) = Posted(<<m>>) \o Posted(r)
  BY <1>1, <1>2, PostedJoined
<1>4. Posted(q) = Numbers(m.items) \o Posted(r)
  BY <1>1, <1>3, PostedFew
<1>5. QED
  BY <1>1, <1>4 DEF m, r

-------------------------------------------------------------------------------
(* The stream, and what moves along it.                                     *)

Stream(s, r, q, h, w) == s \o r \o q \o h \o w

Cat(x, y) == x \o y

LEMMA CatFacts ==
    ASSUME NEW S, NEW x \in Seq(S), NEW y \in Seq(S), NEW z \in Seq(S)
    PROVE  Cat(Cat(x, y), z) = Cat(x, Cat(y, z)) /\ Cat(x, y) \in Seq(S) /\ Cat(x, <<>>) = x
<1>1. (x \o y) \o z = x \o (y \o z)
  BY ConcatAssociative
<1>2. x \o y \in Seq(S) /\ x \o <<>> = x
  OBVIOUS
<1>3. QED
  BY <1>1, <1>2 DEF Cat

\* Between neighbours, and past what is empty.
Moves(s, r, q, h, w, x) ==
    /\ Stream(s, r, x \o q, h, w) = Stream(s, r \o x, q, h, w)
    /\ Stream(s, <<>>, x \o q, h, w) = Stream(s \o x, <<>>, q, h, w)
    /\ Stream(s, x \o r, q, h, w) = Stream(s \o x, r, q, h, w)
    /\ Stream(s, r, q, <<>>, x \o w) = Stream(s, r, q, x, w)
    /\ Stream(s, r, q, x, w) = Stream(s, r, q \o x, <<>>, w)
    /\ Stream(s, r, q, h, w \o x) = Stream(s, r, q, h, w) \o x

LEMMA StreamMoves ==
    ASSUME NEW S, NEW s \in Seq(S), NEW r \in Seq(S), NEW q \in Seq(S), NEW h \in Seq(S), NEW w \in Seq(S),
           NEW x \in Seq(S)
    PROVE  Moves(s, r, q, h, w, x)
<1> DEFINE a == Cat(s, r)
           b == Cat(a, q)
           d == Cat(b, h)
<1>1. a \in Seq(S) /\ b \in Seq(S) /\ d \in Seq(S) /\ Cat(r, x) \in Seq(S) /\ Cat(q, x) \in Seq(S) /\ Cat(s, x) \in Seq(S)
  <2>1. a \in Seq(S)
    BY CatFacts
  <2>2. b \in Seq(S)
    BY <2>1, CatFacts
  <2>3. d \in Seq(S)
    BY <2>2, CatFacts
  <2>4. Cat(r, x) \in Seq(S) /\ Cat(q, x) \in Seq(S) /\ Cat(s, x) \in Seq(S)
    BY CatFacts
  <2>5. QED
    BY <2>1, <2>2, <2>3, <2>4
<1>2. Cat(s, Cat(r, x)) = Cat(a, x) /\ Cat(Cat(a, x), q) = Cat(a, Cat(x, q))
  <2>1. Cat(Cat(s, r), x) = Cat(s, Cat(r, x))
    BY CatFacts
  <2> HIDE DEF a
  <2>2. Cat(Cat(a, x), q) = Cat(a, Cat(x, q))
    BY <1>1, CatFacts
  <2>3. QED
    BY <2>1, <2>2 DEF a
<1>3. Cat(s, Cat(x, q)) = Cat(Cat(s, x), q) /\ Cat(s, Cat(x, r)) = Cat(Cat(s, x), r)
  BY CatFacts
<1>4. Cat(s, <<>>) = s /\ Cat(Cat(s, x), <<>>) = Cat(s, x)
  <2>1. Cat(s, <<>>) = s
    BY CatFacts
  <2>2. Cat(Cat(s, x), <<>>) = Cat(s, x)
    BY <1>1, CatFacts
  <2>3. QED
    BY <2>1, <2>2
<1> HIDE DEF a, b, d
<1>5. Cat(b, <<>>) = b /\ Cat(b, Cat(x, w)) = Cat(Cat(b, x), w)
  <2>1. Cat(b, <<>>) = b
    BY <1>1, CatFacts
  <2>2. Cat(b, Cat(x, w)) = Cat(Cat(b, x), w)
    BY <1>1, CatFacts
  <2>3. QED
    BY <2>1, <2>2
<1>6. Cat(a, Cat(q, x)) = Cat(Cat(a, q), x) /\ Cat(Cat(a, Cat(q, x)), <<>>) = Cat(a, Cat(q, x))
  <2>1. Cat(Cat(a, q), x) = Cat(a, Cat(q, x))
    BY <1>1, CatFacts
  <2>2. Cat(a, Cat(q, x)) \in Seq(S)
    BY <1>1, CatFacts
  <2>3. Cat(Cat(a, Cat(q, x)), <<>>) = Cat(a, Cat(q, x))
    BY <2>2, CatFacts
  <2>4. QED
    BY <2>1, <2>3
<1>7. Cat(d, Cat(w, x)) = Cat(Cat(d, w), x) /\ Cat(d, w) \in Seq(S)
  BY <1>1, CatFacts
<1>11. Stream(s, r, x \o q, h, w) = Stream(s, r \o x, q, h, w)
  BY <1>2 DEF Stream, Cat, a
<1>12. Stream(s, <<>>, x \o q, h, w) = Stream(s \o x, <<>>, q, h, w)
  BY <1>3, <1>4 DEF Stream, Cat
<1>13. Stream(s, x \o r, q, h, w) = Stream(s \o x, r, q, h, w)
  BY <1>3 DEF Stream, Cat
<1>14. Stream(s, r, q, <<>>, x \o w) = Stream(s, r, q, x, w)
  BY <1>5 DEF Stream, Cat, a, b
<1>15. Stream(s, r, q, x, w) = Stream(s, r, q \o x, <<>>, w)
  BY <1>6 DEF Stream, Cat, a
<1>16. Stream(s, r, q, h, w \o x) = Stream(s, r, q, h, w) \o x
  BY <1>7 DEF Stream, Cat, a, b, d
<1>17. QED
  BY <1>11, <1>12, <1>13, <1>14, <1>15, <1>16 DEF Moves

\* 1, 2, ... n, and the next.
LEMMA CountUp ==
    ASSUME NEW n \in Nat
    PROVE  [i \in 1 .. n + 1 |-> i] = [i \in 1 .. n |-> i] \o <<n + 1>>
<1> DEFINE a == [i \in 1 .. n |-> i]
           b == [i \in 1 .. n + 1 |-> i]
           c == a \o <<n + 1>>
<1>1. a \in Seq(Nat) /\ Len(a) = n /\ \A i \in 1 .. n : a[i] = i
  OBVIOUS
<1>2. b \in Seq(Nat) /\ Len(b) = n + 1 /\ \A i \in 1 .. n + 1 : b[i] = i
  OBVIOUS
<1> HIDE DEF a, b
<1>3. <<n + 1>> \in Seq(Nat)
  OBVIOUS
<1>4. c \in Seq(Nat) /\ Len(c) = n + 1 /\ \A i \in 1 .. n + 1 : c[i] = IF i <= n THEN a[i] ELSE n + 1
  BY <1>1, <1>3
<1> HIDE DEF c
<1>5. \A i \in 1 .. Len(b) : b[i] = c[i]
  BY <1>1, <1>2, <1>4
<1>6. b = c
  BY <1>2, <1>4, <1>5, SeqEqual
<1>7. QED
  BY <1>6 DEF a, b, c

\* A cut.
LEMMA CutJoined ==
    ASSUME NEW q \in Seq(Items), NEW k \in 0 .. Len(q)
    PROVE  /\ SubSeq(q, 1, k) \in Seq(Items) /\ SubSeq(q, k + 1, Len(q)) \in Seq(Items)
           /\ SubSeq(q, 1, k) \o SubSeq(q, k + 1, Len(q)) = q
<1>1. Len(q) \in Nat /\ 1 \in 1 .. Len(q) + 1 /\ k \in 1 - 1 .. Len(q) /\ Len(q) \in k .. Len(q)
  OBVIOUS
<1>2. SubSeq(q, 1, k) \o SubSeq(q, k + 1, Len(q)) = SubSeq(q, 1, Len(q))
  BY <1>1, ConcatAdjacentSubSeq
<1>3. SubSeq(q, 1, Len(q)) = q
  BY SubSeqFull
<1>4. SubSeq(q, 1, k) \in Seq(Items)
  <2>1. \A i \in 1 .. k : q[i] \in Items
    OBVIOUS
  <2>2. 1 \in Int /\ k \in Int
    BY <1>1
  <2>3. QED
    BY <2>1, <2>2, SubSeqProperties
<1>5. SubSeq(q, k + 1, Len(q)) \in Seq(Items)
  <2>1. \A i \in k + 1 .. Len(q) : q[i] \in Items
    BY <1>1
  <2>2. k + 1 \in Int /\ Len(q) \in Int
    BY <1>1
  <2>3. QED
    BY <2>1, <2>2, SubSeqProperties
<1>6. QED
  BY <1>2, <1>3, <1>4, <1>5

\* The first header is in the chunk.
LEMMA HexAtIn == ASSUME NEW q \in Seq(Items) PROVE HexAt(q) \in 0 .. Len(q)
<1>1. DOMAIN q = 1 .. Len(q) /\ Len(q) \in Nat
  OBVIOUS
<1>2. CASE ~ Has(q, "hex")
  BY <1>1, <1>2 DEF HexAt
<1>3. CASE Has(q, "hex")
  <2> DEFINE T == {i \in DOMAIN q : q[i].kind = "hex"}
  <2>1. T \in SUBSET Nat /\ T # {}
    BY <1>1, <1>3 DEF Has
  <2>2. PICK s \in T : \A t \in T : s <= t
    <3> HIDE DEF T
    <3>1. QED
      BY <2>1, LeastNumber
  <2>3. s \in 1 .. Len(q) /\ q[s].kind = "hex"
    BY <1>1, <2>2
  <2>4. \A j \in 1 .. s - 1 : q[j].kind # "hex"
    <3> SUFFICES ASSUME NEW j \in 1 .. s - 1, q[j].kind = "hex" PROVE FALSE
      OBVIOUS
    <3>1. j \in T
      BY <1>1, <2>3
    <3>2. s <= j
      BY <2>2, <3>1
    <3>3. QED
      BY <1>1, <2>3, <3>2
  <2>5. \E i \in DOMAIN q : FirstHex(q, i)
    BY <1>1, <2>3, <2>4 DEF FirstHex
  <2>6. HexAt(q) \in DOMAIN q
    BY <1>3, <2>5 DEF HexAt
  <2>7. QED
    BY <1>1, <2>6
<1>4. QED
  BY <1>2, <1>3

-------------------------------------------------------------------------------
FlowTypes ==
    /\ ring \in Seq(Items) /\ held \in Seq(Items) /\ wire \in Seq(Items)
    /\ seen \in Seq(Nat) /\ queue \in Seq(Messages) /\ sent \in Nat

(* Where nothing is: no transfer, no item in the ring; nothing received, no  *)
(* payload in hand; and only DATA carries items.                            *)
Empty ==
    /\ zmr = 0 => ring = <<>>
    /\ rx \notin {"reply", "replying", "post"} => held = <<>>
    /\ \A i \in 1 .. Len(queue) : queue[i].event # "DATA" => queue[i].items = <<>>
    /\ ui.at # "finish" => ui.for # "done"

Open == telnet # 0 /\ (ui.at \in {"loop", "send", "sending"} \/ ui.for = "done")
Upto(n) == [i \in 1 .. n |-> i]
All == Stream(seen, Numbers(ring), Posted(queue), Numbers(held), Numbers(Payload(wire)))

FlowInv == FlowTypes /\ Empty /\ (Open => All = Upto(sent))

\* The parts are sequences of numbers.
LEMMA PartTypes ==
    ASSUME FlowTypes
    PROVE  /\ seen \in Seq(Nat) /\ Numbers(ring) \in Seq(Nat) /\ Posted(queue) \in Seq(Nat)
           /\ Numbers(held) \in Seq(Nat) /\ Payload(wire) \in Seq(Items) /\ Numbers(Payload(wire)) \in Seq(Nat)
<1>1. Numbers(ring) \in Seq(Nat)
  BY NumbersJoined DEF FlowTypes
<1>2. Numbers(held) \in Seq(Nat)
  BY NumbersJoined DEF FlowTypes
<1>3. Posted(queue) \in Seq(Nat)
  BY PostedJoined DEF FlowTypes
<1>4. Payload(wire) \in Seq(Items)
  BY PayloadJoined DEF FlowTypes
<1>5. Numbers(Payload(wire)) \in Seq(Nat)
  BY <1>4, NumbersJoined
<1>6. QED
  BY <1>1, <1>2, <1>3, <1>4, <1>5 DEF FlowTypes

LEMMA FlowStays ==
    ASSUME FlowInv, UNCHANGED <<seen, ring, queue, held, wire, sent>>, Open' => Open,
           zmr' = zmr \/ ring = <<>>, rx' = rx \/ held = <<>> \/ rx' \in {"reply", "replying", "post"},
           ui'.at # "finish" => ui'.for # "done"
    PROVE  FlowInv'
<1>1. FlowTypes'
  BY DEF FlowInv, FlowTypes
<1>2. Empty'
  BY DEF FlowInv, Empty
<1>3. All' = All /\ Upto(sent)' = Upto(sent)
  BY DEF All
<1>4. QED
  BY <1>1, <1>2, <1>3 DEF FlowInv

LEMMA FlowInit == Init => FlowInv
<1> SUFFICES ASSUME Init PROVE FlowInv
  OBVIOUS
<1>1. <<>> \in Seq(Items) /\ <<>> \in Seq(Nat) /\ <<>> \in Seq(Messages)
  OBVIOUS
<1>2. FlowTypes
  BY <1>1 DEF FlowTypes, Init
<1>3. Empty
  BY DEF Empty, Init, Loop
<1>4. ~ Open
  BY DEF Open, Init
<1>5. QED
  BY <1>2, <1>3, <1>4 DEF FlowInv

\* Steps in which no item moves.
LEMMA QuietSteps ==
    ASSUME ApartInv, FlowInv,
           \/ \E download \in BOOLEAN : Command(download)
           \/ UiSendStarts \/ UiSendReturns \/ Escape \/ Disconnect \/ Shutdown \/ FreeHandle
           \/ RxReplyStarts \/ RxReplyReturns
           \/ WorkerStops \/ WorkerReads \/ WorkerSendStarts \/ WorkerSendReturns
           \/ PeerChanges \/ UNCHANGED vars
    PROVE  FlowInv'
<1> USE DEF Open, uiVars, rxVars, zVars, peerVars, histVars, rxKept, workerKept
<1>0. Empty /\ Types /\ UiIsWhere
  BY DEF FlowInv, ApartInv
<1>1. ASSUME NEW d \in BOOLEAN, Command(d) PROVE FlowInv'
  <2>1. /\ ui = Loop /\ zmr = 0 /\ ui'.at = "send" /\ ui'.for # "done"
        /\ UNCHANGED <<telnet, queue, held, wire, sent, seen, rx>> /\ ring' \in {<<>>, ring}
    <3>1. ui' = At("send", IF d THEN "download" ELSE "command") /\ zmr = 0 /\ ui.at = "loop"
          /\ UNCHANGED <<telnet, queue, held, wire, sent, seen, rx>>
      BY <1>1 DEF Command, UserTurn
    <3>2. ring' \in {<<>>, ring}
      BY <1>1 DEF Command, Begin
    <3>3. QED
      BY <1>0, <3>1, <3>2 DEF At, UiIsWhere
  <2>2. ring = <<>> /\ ring' = ring
    BY <1>0, <2>1 DEF Empty
  <2>3. QED
    BY <2>1, <2>2, FlowStays DEF Loop
<1>2. CASE UiSendStarts
  BY <1>0, <1>2, FlowStays DEF UiSendStarts, At, Empty
<1>3. CASE UiSendReturns
  BY <1>0, <1>3, FlowStays DEF UiSendReturns, Loop
<1>4. CASE Escape
  BY <1>0, <1>4, FlowStays DEF Escape, Empty
<1>5. CASE Disconnect \/ Shutdown
  <2>1. PICK why \in {"close", "shutdown"} : Teardown(why) /\ UserTurn
    BY <1>5 DEF Disconnect, Shutdown
  <2>2. UNCHANGED <<telnet, zmr, queue, held, wire, sent, seen, rx, ring>>
    BY <1>5 DEF Disconnect, Shutdown, TeardownFrame
  <2>3. ui' = At("finish", why) \/ ui' = At("lock", why) \/ (telnet = 0 /\ ui' \in {Loop, At("gone", why)})
    BY <2>1 DEF Teardown, CloseFlags
  <2>4. QED
    BY <2>2, <2>3, FlowStays DEF At, Loop
<1>6. CASE FreeHandle
  <2>1. telnet' = 0 /\ UNCHANGED <<zmr, queue, held, wire, sent, seen, ring>> /\ rx \in {"ended", "connecting"}
        /\ ui' \in {Loop, At("gone", ui.for)} /\ ui.at = "join"
    BY <1>6 DEF FreeHandle, Joined, CloseFlags
  <2>2. held = <<>> /\ ui.for # "done"
    BY <1>0, <2>1 DEF Empty
  <2>3. QED
    BY <2>1, <2>2, FlowStays DEF At, Loop
<1>7. CASE RxReplyStarts
  BY <1>0, <1>7, FlowStays DEF RxReplyStarts, Empty
<1>8. CASE RxReplyReturns
  BY <1>0, <1>8, FlowStays DEF RxReplyReturns, Empty
<1>9. CASE WorkerStops \/ WorkerReads \/ WorkerSendStarts \/ WorkerSendReturns
  <2>1. UNCHANGED <<ui, telnet, zmr, rx, queue, held, wire, sent, seen, ring>>
    BY <1>9 DEF WorkerStops, WorkerReads, WorkerSendStarts, WorkerSendReturns
  <2>2. QED
    BY <1>0, <2>1, FlowStays DEF Empty
<1>10. CASE PeerChanges \/ UNCHANGED vars
  <2>1. UNCHANGED <<ui, telnet, zmr, rx, queue, held, wire, sent, seen, ring>>
    BY <1>10 DEF PeerChanges, vars
  <2>2. QED
    BY <1>0, <2>1, FlowStays DEF Empty
<1>11. QED
  BY <1>1, <1>2, <1>3, <1>4, <1>5, <1>6, <1>7, <1>8, <1>9, <1>10

-------------------------------------------------------------------------------
\* Of a stream that is not open nothing is asked.
LEMMA NotOpen == ASSUME FlowTypes', Empty', ~ Open' PROVE FlowInv'
  BY DEF FlowInv

LEMMA ConnectFlows == ASSUME ApartInv, FlowInv, Connect PROVE FlowInv'
<1>1. /\ ui = Loop /\ queue = <<>> /\ telnet = 0 /\ UNCHANGED <<ui, zmr, ring, queue>> /\ rx' = "connecting"
      /\ held' = <<>> /\ wire' = <<>> /\ sent' = 0 /\ seen' = <<>>
  BY DEF Connect, UserTurn, zVars, ApartInv, UiIsWhere
<1>2. zmr = 0 /\ ring = <<>>
  BY <1>1 DEF ApartInv, TransferIsOurs, FlowInv, Empty
<1>3. <<>> \in Seq(Items) /\ <<>> \in Seq(Nat)
  OBVIOUS
<1>4. FlowTypes'
  BY <1>1, <1>3 DEF FlowInv, FlowTypes
<1>5. Empty'
  BY <1>1, <1>2 DEF FlowInv, Empty
<1>6. All' = Upto(sent)'
  <2>1. Numbers(<<>>) = <<>>
    BY NumbersFew
  <2>2. Posted(<<>>) = <<>>
    BY DEF Posted, FlattenSeq
  <2>3. Payload(<<>>) = <<>>
    <3>1. [n |-> 0, kind |-> "opt"] \in Items
      BY DEF Items
    <3>2. QED
      BY <3>1, PayloadFew
  <2>4. Stream(<<>>, <<>>, <<>>, <<>>, <<>>) = <<>>
    BY DEF Stream
  <2>5. Upto(0) = <<>>
    BY DEF Upto
  <2>6. QED
    BY <1>1, <1>2, <2>1, <2>2, <2>3, <2>4, <2>5 DEF All
<1>7. QED
  BY <1>4, <1>5, <1>6 DEF FlowInv

LEMMA CloseFlows == ASSUME ApartInv, FlowInv, CloseSocket \/ FinishTimeout PROVE FlowInv'
<1>1. CASE CloseSocket
  <2>1. /\ ui.at = "lock" /\ ui' = At("join", ui.for) /\ UNCHANGED <<zmr, ring, queue, rx, held>>
        /\ wire' = <<>> /\ sent' = 0 /\ seen' = <<>>
    BY <1>1 DEF CloseSocket, zVars
  <2>2. <<>> \in Seq(Items) /\ <<>> \in Seq(Nat) /\ ui.for # "done"
    BY <2>1 DEF FlowInv, Empty
  <2>3. FlowTypes' /\ Empty' /\ ~ Open'
    BY <2>1, <2>2 DEF FlowInv, FlowTypes, Empty, Open, At
  <2>4. QED
    BY <2>3, NotOpen
<1>2. CASE FinishTimeout
  <2>1. /\ ui.at = "finish" /\ worker.at # "ended" /\ telnet # 0 /\ ui' = At("lock", ui.for)
        /\ zmr' = 0 /\ ring' = <<>> /\ UNCHANGED <<queue, rx, held, wire, sent, seen>>
    BY <1>2 DEF FinishTimeout, AfterTransfer, peerVars, histVars, ApartInv, UiIsWhere
  <2>2. <<>> \in Seq(Items) /\ ui.for # "done"
    BY <2>1 DEF ApartInv, OneDone
  <2>3. FlowTypes' /\ Empty' /\ ~ Open'
    BY <2>1, <2>2 DEF FlowInv, FlowTypes, Empty, Open, At
  <2>4. QED
    BY <2>3, NotOpen
<1>3. QED
  BY <1>1, <1>2

\* After DONE the parser takes what the ring still holds.
LEMMA FinishFlows == ASSUME ApartInv, FlowInv, FinishJoined PROVE FlowInv'
<1>1. /\ ui.at = "finish" /\ telnet # 0 /\ zmr' = 0 /\ ring' = <<>>
      /\ UNCHANGED <<telnet, queue, rx, held, wire, sent>>
  BY DEF FinishJoined, peerVars, ApartInv, UiIsWhere
<1>2. FlowTypes /\ Empty
  BY DEF FlowInv
<1>3. CASE ui.for = "done"
  <2>1. seen' = seen \o Numbers(ring) /\ ui' \in {At("send", "answer"), Loop}
    BY <1>3 DEF FinishJoined, Consume, TailItems
  <2>2. Open
    BY <1>1, <1>3 DEF Open
  <2>3. FlowTypes'
    <3>1. <<>> \in Seq(Items) /\ seen \o Numbers(ring) \in Seq(Nat)
      BY <1>2, PartTypes
    <3>2. QED
      BY <1>1, <1>2, <2>1, <3>1 DEF FlowTypes
  <2>4. Empty'
    BY <1>1, <1>2, <2>1 DEF Empty, At, Loop
  <2>5. All' = All
    <3> DEFINE q == Posted(queue)
               h == Numbers(held)
               w == Numbers(Payload(wire))
               x == Numbers(ring)
    <3>1. q \in Seq(Nat) /\ h \in Seq(Nat) /\ w \in Seq(Nat) /\ x \in Seq(Nat) /\ seen \in Seq(Nat)
      BY <1>2, PartTypes
    <3>2. <<>> \in Seq(Nat) /\ x \o <<>> = x
      BY <3>1
    <3>3. Numbers(<<>>) = <<>>
      BY NumbersFew
    <3>4. All = Stream(seen, x, q, h, w)
      BY DEF All
    <3>5. All' = Stream(seen \o x, <<>>, q, h, w)
      BY <1>1, <2>1, <3>3 DEF All
    <3> HIDE DEF q, h, w, x
    <3>6. Stream(seen, x \o <<>>, q, h, w) = Stream(seen \o x, <<>>, q, h, w)
      <4>1. Moves(seen, <<>>, q, h, w, x)
        BY <3>1, <3>2, StreamMoves
      <4>2. QED
        BY <4>1 DEF Moves
    <3>7. QED
      BY <3>2, <3>4, <3>5, <3>6
  <2>6. QED
    BY <1>1, <2>2, <2>3, <2>4, <2>5 DEF FlowInv
<1>4. CASE ui.for # "done"
  <2>1. ui' = At("lock", ui.for) /\ seen' = seen
    BY <1>1, <1>4 DEF FinishJoined, AfterTransfer, histVars
  <2>2. <<>> \in Seq(Items)
    OBVIOUS
  <2>3. FlowTypes' /\ Empty' /\ ~ Open'
    BY <1>1, <1>2, <1>4, <2>1, <2>2 DEF FlowTypes, Empty, Open, At
  <2>4. QED
    BY <2>3, NotOpen
<1>5. QED
  BY <1>3, <1>4

\* The worker takes the first item of the ring.
LEMMA TakesFlows == ASSUME ApartInv, FlowInv, WorkerTakes PROVE FlowInv'
<1>1. /\ ring # <<>> /\ seen' = Append(seen, Head(ring).n) /\ ring' = Tail(ring)
      /\ UNCHANGED <<ui, telnet, zmr, queue, rx, held, wire, sent>>
  BY DEF WorkerTakes, workerKept, uiVars, rxVars, peerVars
<1>2. FlowTypes /\ Empty
  BY DEF FlowInv
<1> DEFINE e == Head(ring)
           x == <<e.n>>
           t == Tail(ring)
<1>3. e \in Items /\ t \in Seq(Items) /\ ring = <<e>> \o t /\ <<e>> \in Seq(Items)
  BY <1>1, <1>2 DEF FlowTypes
<1>4. e.n \in Nat
  BY <1>3 DEF Items
<1>5. seen \in Seq(Nat)
  BY <1>2 DEF FlowTypes
<1>6. x \in Seq(Nat) /\ Append(seen, e.n) = seen \o x /\ Append(seen, e.n) \in Seq(Nat)
  BY <1>4, <1>5
<1> HIDE DEF e, t
<1>7. FlowTypes'
  BY <1>1, <1>2, <1>3, <1>6 DEF FlowTypes, e, t
<1>8. Empty'
  <2>1. zmr # 0
    BY <1>1, <1>2 DEF Empty
  <2>2. QED
    BY <1>1, <1>2, <2>1 DEF Empty
<1>9. All' = All
  <2> DEFINE q == Posted(queue)
             h == Numbers(held)
             w == Numbers(Payload(wire))
             r == Numbers(t)
  <2>1. q \in Seq(Nat) /\ h \in Seq(Nat) /\ w \in Seq(Nat)
    BY <1>2, PartTypes
  <2>2. r \in Seq(Nat) /\ Numbers(<<e>> \o t) = Numbers(<<e>>) \o r
    BY <1>3, NumbersJoined
  <2>3. Numbers(<<e>>) = x
    BY NumbersFew
  <2>4. Numbers(ring) = x \o r
    BY <1>3, <2>2, <2>3
  <2>5. All = Stream(seen, x \o r, q, h, w)
    BY <2>4 DEF All
  <2>6. All' = Stream(seen \o x, r, q, h, w)
    BY <1>1, <1>6 DEF All, e, t
  <2> HIDE DEF q, h, w, r, x
  <2>7. Stream(seen, x \o r, q, h, w) = Stream(seen \o x, r, q, h, w)
    <3>1. Moves(seen, r, q, h, w, x)
      BY <1>5, <1>6, <2>1, <2>2, StreamMoves
    <3>2. QED
      BY <3>1 DEF Moves
  <2>8. QED
    BY <2>5, <2>6, <2>7
<1>10. Open' = Open
  BY <1>1 DEF Open
<1>11. QED
  BY <1>1, <1>7, <1>8, <1>9, <1>10 DEF FlowInv

\* The server sends an item, or option bytes.
Phases == {"scene", "asked", "file"}

LEMMA PeerFlows == ASSUME ApartInv, FlowInv, phase \in Phases, PeerSends \/ PeerNegotiates PROVE FlowInv'
<1>1. FlowTypes /\ Empty
  BY DEF FlowInv
<1> DEFINE s == seen
           r == Numbers(ring)
           q == Posted(queue)
           h == Numbers(held)
           w == Numbers(Payload(wire))
<1>2. s \in Seq(Nat) /\ r \in Seq(Nat) /\ q \in Seq(Nat) /\ h \in Seq(Nat) /\ w \in Seq(Nat) /\ Payload(wire) \in Seq(Items)
      /\ wire \in Seq(Items)
  BY <1>1, PartTypes DEF FlowTypes
<1>3. UNCHANGED <<ui, telnet, zmr, queue, rx, held, ring, seen>>
  BY DEF PeerSends, PeerNegotiates, uiVars, rxVars, zVars, histVars
<1>4. All = Stream(s, r, q, h, w) /\ All' = Stream(s, r, q, h, Numbers(Payload(wire')))
  BY <1>3 DEF All
<1> HIDE DEF s, r, q, h
<1>5. ASSUME NEW e \in Items
      PROVE  Append(wire, e) \in Seq(Items)
             /\ Numbers(Payload(Append(wire, e))) = IF e.kind = "opt" THEN w ELSE w \o <<e.n>>
  <2>1. Append(wire, e) = wire \o <<e>> /\ <<e>> \in Seq(Items) /\ Append(wire, e) \in Seq(Items)
    BY <1>2
  <2> DEFINE p == Payload(wire)
             y == Payload(<<e>>)
  <2>2. Payload(wire \o <<e>>) = p \o y /\ y \in Seq(Items)
    BY <1>2, <2>1, PayloadJoined
  <2>3. y = IF e.kind = "opt" THEN <<>> ELSE <<e>>
    BY PayloadFew
  <2> HIDE DEF p, y
  <2>4. Numbers(p \o y) = Numbers(p) \o Numbers(y)
    BY <1>2, <2>2, NumbersJoined DEF p
  <2>5. Numbers(y) = IF e.kind = "opt" THEN <<>> ELSE <<e.n>>
    BY <2>3, NumbersFew
  <2>6. Numbers(p) = w /\ w \o <<>> = w
    BY <1>2 DEF p
  <2>7. QED
    BY <2>1, <2>2, <2>4, <2>5, <2>6
<1> HIDE DEF w
<1>6. CASE PeerSends
  <2>1. PICK kind \in Kinds : sent' = sent + 1 /\ wire' = Append(wire, [n |-> sent + 1, kind |-> kind])
    <3>1. \E kind \in PeerOffers : sent' = sent + 1 /\ wire' = Append(wire, [n |-> sent + 1, kind |-> kind])
      BY <1>6 DEF PeerSends
    <3>2. PeerOffers \subseteq Kinds
      BY DEF PeerOffers, Kinds, Phases
    <3>3. QED
      BY <3>1, <3>2
  <2> DEFINE e == [n |-> sent + 1, kind |-> kind]
  <2>2. sent \in Nat /\ e \in Items /\ e.kind # "opt" /\ e.n = sent + 1
    BY <1>1, <2>1 DEF FlowTypes, Items, Kinds
  <2> HIDE DEF e
  <2>3. Numbers(Payload(wire')) = w \o <<sent + 1>> /\ wire' \in Seq(Items)
    BY <1>5, <2>1, <2>2 DEF e
  <2>4. <<sent + 1>> \in Seq(Nat)
    BY <2>2
  <2>5. Stream(s, r, q, h, w \o <<sent + 1>>) = Stream(s, r, q, h, w) \o <<sent + 1>>
    <3>1. Moves(s, r, q, h, w, <<sent + 1>>)
      BY <1>2, <2>4, StreamMoves
    <3>2. QED
      BY <3>1 DEF Moves
  <2>6. Upto(sent + 1) = Upto(sent) \o <<sent + 1>>
    BY <2>2, CountUp DEF Upto
  <2>7. Open => All' = Upto(sent')
    BY <1>4, <2>1, <2>3, <2>5, <2>6 DEF FlowInv
  <2>8. FlowTypes'
    BY <1>1, <1>3, <2>1, <2>2, <2>3 DEF FlowTypes
  <2>9. Empty' /\ (Open' => Open)
    BY <1>1, <1>3 DEF Empty, Open
  <2>10. QED
    BY <2>7, <2>8, <2>9 DEF FlowInv
<1>7. CASE PeerNegotiates
  <2> DEFINE e == [n |-> 0, kind |-> "opt"]
  <2>1. sent' = sent /\ wire' = Append(wire, e)
    BY <1>7 DEF PeerNegotiates
  <2>2. e \in Items /\ e.kind = "opt"
    BY DEF Items
  <2> HIDE DEF e
  <2>3. Numbers(Payload(wire')) = w /\ wire' \in Seq(Items)
    BY <1>5, <2>1, <2>2
  <2>4. All' = All
    BY <1>4, <2>3
  <2>5. FlowTypes'
    BY <1>1, <1>3, <2>1, <2>3 DEF FlowTypes
  <2>6. Empty' /\ (Open' => Open)
    BY <1>1, <1>3 DEF Empty, Open
  <2>7. QED
    BY <2>1, <2>4, <2>5, <2>6 DEF FlowInv
<1>8. QED
  BY <1>6, <1>7

-------------------------------------------------------------------------------
\* The receive thread takes a chunk from the socket.
LEMMA ReceivesFlows == ASSUME ApartInv, FlowInv, RxReceives PROVE FlowInv'
<1>1. FlowTypes /\ Empty
  BY DEF FlowInv
<1>2. PICK k \in 1 .. MaxChunk :
          /\ k <= Len(wire)
          /\ held' = Payload(SubSeq(wire, 1, k))
          /\ wire' = SubSeq(wire, k + 1, Len(wire))
          /\ rx' \in {"reply", "post"}
  BY DEF RxReceives
<1>3. rx = "recv" /\ UNCHANGED <<ui, telnet, zmr, queue, ring, sent, seen>>
  BY DEF RxReceives, rxKept, uiVars, zVars, histVars
<1>4. held = <<>>
  BY <1>1, <1>3 DEF Empty
<1> DEFINE a == SubSeq(wire, 1, k)
           b == SubSeq(wire, k + 1, Len(wire))
<1>5. a \in Seq(Items) /\ b \in Seq(Items) /\ a \o b = wire
  <2>1. k \in 0 .. Len(wire) /\ wire \in Seq(Items)
    BY <1>1, <1>2 DEF FlowTypes
  <2>2. QED
    BY <2>1, CutJoined
<1>6. held' = Payload(a) /\ wire' = b
  BY <1>2
<1> HIDE DEF a, b
<1>7. Payload(a) \in Seq(Items) /\ Payload(b) \in Seq(Items) /\ Payload(wire) = Payload(a) \o Payload(b)
  BY <1>5, PayloadJoined
<1>8. Numbers(Payload(wire)) = Numbers(Payload(a)) \o Numbers(Payload(b))
      /\ Numbers(Payload(a)) \in Seq(Nat) /\ Numbers(Payload(b)) \in Seq(Nat)
  <2> DEFINE p == Payload(a)
             q == Payload(b)
  <2> HIDE DEF p, q
  <2>1. p \in Seq(Items) /\ q \in Seq(Items) /\ Payload(wire) = p \o q
    BY <1>7 DEF p, q
  <2>2. Numbers(p \o q) = Numbers(p) \o Numbers(q) /\ Numbers(p) \in Seq(Nat) /\ Numbers(q) \in Seq(Nat)
    BY <2>1, NumbersJoined
  <2>3. QED
    BY <2>1, <2>2 DEF p, q
<1>9. FlowTypes'
  BY <1>1, <1>3, <1>5, <1>6, <1>7 DEF FlowTypes
<1>10. Empty' /\ (Open' => Open) /\ sent' = sent
  BY <1>1, <1>2, <1>3 DEF Empty, Open
<1>11. All' = All
  <2> DEFINE r == Numbers(ring)
             q == Posted(queue)
             x == Numbers(Payload(a))
             w == Numbers(Payload(b))
  <2>1. seen \in Seq(Nat) /\ r \in Seq(Nat) /\ q \in Seq(Nat) /\ x \in Seq(Nat) /\ w \in Seq(Nat)
    BY <1>1, <1>8, PartTypes
  <2>2. All = Stream(seen, r, q, <<>>, x \o w)
    BY <1>4, <1>8, NumbersFew DEF All
  <2>3. All' = Stream(seen, r, q, x, w)
    BY <1>3, <1>6 DEF All
  <2> HIDE DEF r, q, x, w
  <2>4. Moves(seen, r, q, x, w, x)
    BY <2>1, StreamMoves
  <2>5. QED
    BY <2>2, <2>3, <2>4 DEF Moves
<1>12. QED
  BY <1>9, <1>10, <1>11 DEF FlowInv

\* It posts what it holds.
LEMMA PostsFlows == ASSUME ApartInv, FlowInv, RxPosts PROVE FlowInv'
<1>1. FlowTypes /\ Empty
  BY DEF FlowInv
<1> DEFINE m == FromRx("DATA", held)
<1>2. queue' = Append(queue, m) /\ held' = <<>> /\ UNCHANGED <<ui, telnet, zmr, ring, wire, sent, seen>>
  BY DEF RxPosts, Post, rxKept, uiVars, zVars, histVars, peerVars
<1>3. m \in Messages /\ m.event = "DATA" /\ m.items = held
  BY <1>1 DEF FromRx, Messages, Events, FlowTypes, ApartInv, Types
<1> HIDE DEF m
<1>4. queue' \in Seq(Messages) /\ Posted(queue') = Posted(queue) \o Numbers(held)
  BY <1>1, <1>2, <1>3, PostedAppended DEF FlowTypes
<1>5. FlowTypes'
  <2>1. <<>> \in Seq(Items)
    OBVIOUS
  <2>2. QED
    BY <1>1, <1>2, <1>4, <2>1 DEF FlowTypes
<1>6. Empty'
  <2>1. \A i \in 1 .. Len(queue') : queue'[i].event # "DATA" => queue'[i].items = <<>>
    <3>1. /\ Len(queue') = Len(queue) + 1 /\ \A i \in 1 .. Len(queue) : queue'[i] = queue[i]
          /\ queue'[Len(queue) + 1] = m /\ Len(queue) \in Nat
      BY <1>1, <1>2 DEF FlowTypes
    <3>2. QED
      BY <1>1, <1>3, <3>1 DEF Empty
  <2>2. QED
    BY <1>1, <1>2, <2>1 DEF Empty
<1>7. All' = All
  <2> DEFINE r == Numbers(ring)
             q == Posted(queue)
             x == Numbers(held)
             w == Numbers(Payload(wire))
  <2>1. seen \in Seq(Nat) /\ r \in Seq(Nat) /\ q \in Seq(Nat) /\ x \in Seq(Nat) /\ w \in Seq(Nat)
    BY <1>1, PartTypes
  <2>2. All = Stream(seen, r, q, x, w)
    BY DEF All
  <2>3. All' = Stream(seen, r, q \o x, <<>>, w)
    BY <1>2, <1>4, NumbersFew DEF All
  <2> HIDE DEF r, q, x, w
  <2>4. Moves(seen, r, q, x, w, x)
    BY <2>1, StreamMoves
  <2>5. QED
    BY <2>2, <2>3, <2>4 DEF Moves
<1>8. (Open' => Open) /\ sent' = sent
  BY <1>2 DEF Open
<1>9. QED
  BY <1>5, <1>6, <1>7, <1>8 DEF FlowInv

\* A message without items.
LEMMA BareAppended ==
    ASSUME NEW q \in Seq(Messages), NEW m \in Messages, m.items = <<>>,
           \A i \in 1 .. Len(q) : q[i].event # "DATA" => q[i].items = <<>>
    PROVE  /\ Append(q, m) \in Seq(Messages) /\ Posted(Append(q, m)) = Posted(q)
           /\ \A i \in 1 .. Len(Append(q, m)) : Append(q, m)[i].event # "DATA" => Append(q, m)[i].items = <<>>
<1>1. Append(q, m) \in Seq(Messages) /\ Posted(Append(q, m)) = Posted(q) \o Numbers(m.items)
  BY PostedAppended
<1>2. Posted(q) \o <<>> = Posted(q)
  <2>1. Posted(q) \in Seq(Nat)
    BY PostedJoined
  <2>2. QED
    BY <2>1
<1>3. Posted(Append(q, m)) = Posted(q)
  BY <1>1, <1>2, NumbersFew
<1>4. /\ Len(Append(q, m)) = Len(q) + 1 /\ \A i \in 1 .. Len(q) : Append(q, m)[i] = q[i]
      /\ Append(q, m)[Len(q) + 1] = m /\ Len(q) \in Nat
  OBVIOUS
<1>5. QED
  BY <1>1, <1>3, <1>4

\* Steps that post one: the receive thread's and the worker's.
LEMMA BareFlows == ASSUME ApartInv, FlowInv, RxConnects \/ RxCloses \/ WorkerEnds PROVE FlowInv'
<1>1. FlowTypes /\ Empty /\ sid \in Nat /\ active \in Nat
  BY DEF FlowInv, ApartInv, Types
<1>2. UNCHANGED <<ui, telnet, zmr, ring, held, wire, sent, seen>> /\ (rx' = rx \/ held = <<>>)
  BY <1>1 DEF RxConnects, RxCloses, WorkerEnds, rxKept, workerKept, uiVars, rxVars, zVars, histVars, peerVars, Empty
<1>3. \A event \in Events : FromRx(event, <<>>) \in Messages /\ FromRx(event, <<>>).items = <<>>
  <2>1. <<>> \in Seq(Items)
    OBVIOUS
  <2>2. QED
    BY <1>1, <2>1 DEF FromRx, Messages
<1>4. queue' \in Seq(Messages) /\ Posted(queue') = Posted(queue)
      /\ \A i \in 1 .. Len(queue') : queue'[i].event # "DATA" => queue'[i].items = <<>>
  <2> DEFINE c == FromRx("CONNECTED", <<>>)
             e == FromRx("ERROR", <<>>)
             f == FromRx("CLOSED", <<>>)
             d == [event |-> "DONE", from |-> active, items |-> <<>>]
  <2>1. c \in Messages /\ e \in Messages /\ f \in Messages /\ c.items = <<>> /\ e.items = <<>> /\ f.items = <<>>
    BY <1>3 DEF Events
  <2>2. d \in Messages /\ d.items = <<>>
    <3>1. <<>> \in Seq(Items)
      OBVIOUS
    <3>2. QED
      BY <1>1, <3>1 DEF Messages, Events
  <2>3. queue \in Seq(Messages) /\ \A i \in 1 .. Len(queue) : queue[i].event # "DATA" => queue[i].items = <<>>
    BY <1>1 DEF FlowTypes, Empty
  <2>4. \/ queue' = Append(queue, c) \/ queue' = queue \o <<e, f>>
        \/ queue' = Append(queue, f) \/ queue' = Append(queue, d)
    BY DEF RxConnects, RxCloses, WorkerEnds, Farewell, Post
  <2> HIDE DEF c, e, f, d
  <2>5. queue \o <<e, f>> = Append(Append(queue, e), f)
    BY <2>1, <2>3
  <2>6. CASE queue' = Append(queue, c)
    BY <2>1, <2>3, <2>6, BareAppended
  <2>7. CASE queue' = Append(queue, f)
    BY <2>1, <2>3, <2>7, BareAppended
  <2>8. CASE queue' = Append(queue, d)
    BY <2>2, <2>3, <2>8, BareAppended
  <2>9. CASE queue' = queue \o <<e, f>>
    <3> DEFINE q == Append(queue, e)
    <3>1. q \in Seq(Messages) /\ Posted(q) = Posted(queue)
          /\ \A i \in 1 .. Len(q) : q[i].event # "DATA" => q[i].items = <<>>
      BY <2>1, <2>3, BareAppended
    <3>2. queue' = Append(q, f)
      BY <2>5, <2>9
    <3> HIDE DEF q
    <3>3. Append(q, f) \in Seq(Messages) /\ Posted(Append(q, f)) = Posted(q)
          /\ \A i \in 1 .. Len(Append(q, f)) : Append(q, f)[i].event # "DATA" => Append(q, f)[i].items = <<>>
      BY <2>1, <3>1, BareAppended
    <3>4. QED
      BY <3>1, <3>2, <3>3
  <2>10. QED
    BY <2>4, <2>6, <2>7, <2>8, <2>9
<1>5. FlowTypes'
  BY <1>1, <1>2, <1>4 DEF FlowTypes
<1>6. Empty' /\ (Open' => Open)
  BY <1>1, <1>2, <1>4 DEF Empty, Open
<1>7. All' = All
  BY <1>2, <1>4 DEF All
<1>8. QED
  BY <1>2, <1>5, <1>6, <1>7 DEF FlowInv

-------------------------------------------------------------------------------
\* The UI thread takes the oldest message.
LEMMA TakenFlows ==
    ASSUME FlowTypes, Empty, NEW event, Take(event)
    PROVE  /\ Head(queue).items \in Seq(Items) /\ queue' \in Seq(Messages) /\ ui.at = "loop"
           /\ event # "DATA" => Head(queue).items = <<>>
           /\ Posted(queue) = Numbers(Head(queue).items) \o Posted(queue')
           /\ Posted(queue') \in Seq(Nat) /\ Numbers(Head(queue).items) \in Seq(Nat)
           /\ \A i \in 1 .. Len(queue') : queue'[i].event # "DATA" => queue'[i].items = <<>>
<1>1. queue # <<>> /\ Head(queue).event = event /\ queue' = Tail(queue) /\ ui.at = "loop"
  BY DEF Take
<1>2. queue \in Seq(Messages) /\ \A i \in 1 .. Len(queue) : queue[i].event # "DATA" => queue[i].items = <<>>
  BY DEF FlowTypes, Empty
<1>3. Head(queue) \in Messages /\ Tail(queue) \in Seq(Messages)
      /\ Posted(queue) = Numbers(Head(queue).items) \o Posted(Tail(queue))
  BY <1>1, <1>2, PostedTaken
<1>4. Head(queue).items \in Seq(Items)
  BY <1>3 DEF Messages
<1>5. /\ Head(queue) = queue[1] /\ 1 \in 1 .. Len(queue)
      /\ \A i \in 1 .. Len(Tail(queue)) : i + 1 \in 1 .. Len(queue) /\ Tail(queue)[i] = queue[i + 1]
  BY <1>1, <1>2
<1>6. event # "DATA" => Head(queue).items = <<>>
  BY <1>1, <1>2, <1>5
<1>7. \A i \in 1 .. Len(queue') : queue'[i].event # "DATA" => queue'[i].items = <<>>
  BY <1>1, <1>2, <1>5
<1>8. Posted(queue') \in Seq(Nat)
  BY <1>1, <1>3, PostedJoined
<1>9. Numbers(Head(queue).items) \in Seq(Nat)
  BY <1>4, NumbersJoined
<1>10. QED
  BY <1>1, <1>3, <1>4, <1>6, <1>7, <1>8, <1>9

\* CONNECTED, ERROR, DONE and CLOSED carry no items.
LEMMA NewsFlows ==
    ASSUME ApartInv, FlowInv, OnConnected \/ OnError \/ OnDone \/ OnClosed
    PROVE  FlowInv'
<1>1. FlowTypes /\ Empty
  BY DEF FlowInv
<1>2. PICK event \in {"CONNECTED", "ERROR", "DONE", "CLOSED"} : Take(event)
  BY DEF OnConnected, OnError, OnDone, OnClosed
<1>3. UNCHANGED <<telnet, zmr, rx, ring, held, wire, sent, seen>>
  BY DEF OnConnected, OnError, OnDone, OnClosed, TeardownFrame, uiVars, rxVars, zVars, histVars, peerVars
<1>4. Posted(queue') = Posted(queue)
  <2>1. Head(queue).items = <<>> /\ Posted(queue) = Numbers(Head(queue).items) \o Posted(queue')
        /\ Posted(queue') \in Seq(Nat)
    BY <1>1, <1>2, TakenFlows
  <2>2. <<>> \o Posted(queue') = Posted(queue')
    BY <2>1
  <2>3. QED
    BY <2>1, <2>2, NumbersFew
<1>5. ui.at = "loop" /\ queue' \in Seq(Messages)
      /\ \A i \in 1 .. Len(queue') : queue'[i].event # "DATA" => queue'[i].items = <<>>
  BY <1>1, <1>2, TakenFlows
<1>6. ui' = ui \/ ui' = At("finish", "done") \/ ui' \in {Loop, At("finish", "close"), At("lock", "close")}
  BY DEF OnConnected, OnError, OnDone, OnClosed, uiVars, Teardown, CloseFlags
<1>7. FlowTypes'
  BY <1>1, <1>3, <1>5 DEF FlowTypes
<1>8. Empty' /\ (Open' => Open)
  BY <1>1, <1>3, <1>5, <1>6 DEF Empty, Open, At, Loop
<1>9. All' = All
  BY <1>3, <1>4 DEF All
<1>10. QED
  BY <1>3, <1>7, <1>8, <1>9 DEF FlowInv

\* DATA in a transfer goes to the ring.
LEMMA TransferFlows == ASSUME ApartInv, FlowInv, OnDataTransfer PROVE FlowInv'
<1>1. FlowTypes /\ Empty
  BY DEF FlowInv
<1> DEFINE a == Head(queue).items
<1>2. Take("DATA") /\ ring' = ring \o a /\ zmr # 0 /\ UNCHANGED <<ui, telnet, zmr, rx, held, wire, sent, seen>>
  BY DEF OnDataTransfer, uiVars, rxVars, histVars, peerVars
<1>3. /\ a \in Seq(Items) /\ queue' \in Seq(Messages)
      /\ Posted(queue) = Numbers(a) \o Posted(queue')
      /\ Posted(queue') \in Seq(Nat) /\ Numbers(a) \in Seq(Nat)
      /\ \A i \in 1 .. Len(queue') : queue'[i].event # "DATA" => queue'[i].items = <<>>
  BY <1>1, <1>2, TakenFlows
<1> HIDE DEF a
<1>4. ring \in Seq(Items)
  BY <1>1 DEF FlowTypes
<1>5. ring \o a \in Seq(Items) /\ Numbers(ring \o a) = Numbers(ring) \o Numbers(a)
  BY <1>3, <1>4, NumbersJoined
<1>6. FlowTypes'
  BY <1>1, <1>2, <1>3, <1>5 DEF FlowTypes
<1>7. Empty' /\ (Open' => Open)
  BY <1>1, <1>2, <1>3 DEF Empty, Open
<1>8. All' = All
  <2> DEFINE r == Numbers(ring)
             q == Posted(queue')
             x == Numbers(a)
             h == Numbers(held)
             w == Numbers(Payload(wire))
  <2>1. seen \in Seq(Nat) /\ r \in Seq(Nat) /\ q \in Seq(Nat) /\ x \in Seq(Nat) /\ h \in Seq(Nat) /\ w \in Seq(Nat)
    BY <1>1, <1>3, PartTypes
  <2>2. All = Stream(seen, r, x \o q, h, w)
    BY <1>3 DEF All
  <2>3. All' = Stream(seen, r \o x, q, h, w)
    BY <1>2, <1>5 DEF All
  <2> HIDE DEF r, q, x, h, w
  <2>4. Moves(seen, r, q, h, w, x)
    BY <2>1, StreamMoves
  <2>5. QED
    BY <2>2, <2>3, <2>4 DEF Moves
<1>9. QED
  BY <1>2, <1>6, <1>7, <1>8 DEF FlowInv

\* DATA without one goes to the parser.
LEMMA SceneFlows == ASSUME ApartInv, FlowInv, OnDataScene PROVE FlowInv'
<1>1. FlowTypes /\ Empty
  BY DEF FlowInv
<1> DEFINE a == Head(queue).items
<1>2. Take("DATA") /\ zmr = 0 /\ UNCHANGED <<telnet, zmr, rx, ring, held, wire, sent>>
      /\ seen' = seen \o Numbers(a) /\ ui' \in {At("send", "answer"), Loop}
  BY DEF OnDataScene, Consume, rxVars, zVars, peerVars
<1>3. /\ a \in Seq(Items) /\ queue' \in Seq(Messages) /\ ui.at = "loop"
      /\ Posted(queue) = Numbers(a) \o Posted(queue')
      /\ Posted(queue') \in Seq(Nat) /\ Numbers(a) \in Seq(Nat)
      /\ \A i \in 1 .. Len(queue') : queue'[i].event # "DATA" => queue'[i].items = <<>>
  BY <1>1, <1>2, TakenFlows
<1> HIDE DEF a
<1>4. ring = <<>>
  BY <1>1, <1>2 DEF Empty
<1>5. seen \o Numbers(a) \in Seq(Nat)
  BY <1>1, <1>3 DEF FlowTypes
<1>6. FlowTypes'
  BY <1>1, <1>2, <1>3, <1>5 DEF FlowTypes
<1>7. Empty' /\ (Open' => Open)
  BY <1>1, <1>2, <1>3 DEF Empty, Open, At, Loop
<1>8. All' = All
  <2> DEFINE q == Posted(queue')
             x == Numbers(a)
             h == Numbers(held)
             w == Numbers(Payload(wire))
  <2>1. seen \in Seq(Nat) /\ q \in Seq(Nat) /\ x \in Seq(Nat) /\ h \in Seq(Nat) /\ w \in Seq(Nat)
    BY <1>1, <1>3, PartTypes
  <2>2. All = Stream(seen, <<>>, x \o q, h, w)
    BY <1>3, <1>4, NumbersFew DEF All
  <2>3. All' = Stream(seen \o x, <<>>, q, h, w)
    BY <1>2, <1>4, NumbersFew DEF All
  <2> HIDE DEF q, x, h, w
  <2>4. Moves(seen, x, q, h, w, x)
    BY <2>1, StreamMoves
  <2>5. QED
    BY <2>2, <2>3, <2>4 DEF Moves
<1>9. QED
  BY <1>2, <1>6, <1>7, <1>8 DEF FlowInv

\* DATA with a header: the parser's part and the receiver's.
LEMMA SwitchFlows == ASSUME ApartInv, FlowInv, OnDataSwitch PROVE FlowInv'
<1>1. FlowTypes /\ Empty
  BY DEF FlowInv
<1> DEFINE items == Head(queue).items
           at == HexAt(items)
           a == SubSeq(items, 1, at)
           b == SubSeq(items, at + 1, Len(items))
<1>2. Take("DATA") /\ zmr = 0 /\ zmr' = transfers + 1 /\ UNCHANGED <<telnet, rx, held, wire, sent>>
      /\ seen' = seen \o Numbers(a) /\ ui' \in {At("send", "answer"), Loop} /\ ring' = b
  BY DEF OnDataSwitch, Consume, Begin, Rest, rxVars, peerVars
<1>3. /\ items \in Seq(Items) /\ queue' \in Seq(Messages) /\ ui.at = "loop"
      /\ Posted(queue) = Numbers(items) \o Posted(queue')
      /\ Posted(queue') \in Seq(Nat)
      /\ \A i \in 1 .. Len(queue') : queue'[i].event # "DATA" => queue'[i].items = <<>>
  BY <1>1, <1>2, TakenFlows
<1>4. a \in Seq(Items) /\ b \in Seq(Items) /\ a \o b = items
  <2> HIDE DEF items
  <2>1. at \in 0 .. Len(items)
    BY <1>3, HexAtIn
  <2> HIDE DEF at
  <2>2. QED
    BY <1>3, <2>1, CutJoined
<1> HIDE DEF items, at, a, b
<1>5. Numbers(a) \in Seq(Nat) /\ Numbers(b) \in Seq(Nat) /\ Numbers(items) = Numbers(a) \o Numbers(b)
  BY <1>4, NumbersJoined
<1>6. ring = <<>> /\ seen \in Seq(Nat) /\ transfers \in Nat
  BY <1>1, <1>2 DEF Empty, FlowTypes, ApartInv, Types
<1>7. seen \o Numbers(a) \in Seq(Nat)
  BY <1>5, <1>6
<1>8. FlowTypes'
  BY <1>1, <1>2, <1>3, <1>4, <1>7 DEF FlowTypes
<1>9. Empty' /\ (Open' => Open)
  <2>1. zmr' # 0
    BY <1>2, <1>6
  <2>2. QED
    BY <1>1, <1>2, <1>3, <2>1 DEF Empty, Open, At, Loop
<1>10. All' = All
  <2> DEFINE q == Posted(queue')
             x == Numbers(a)
             y == Numbers(b)
             h == Numbers(held)
             w == Numbers(Payload(wire))
             p == y \o q
  <2>1. seen \in Seq(Nat) /\ q \in Seq(Nat) /\ x \in Seq(Nat) /\ h \in Seq(Nat) /\ w \in Seq(Nat) /\ y \in Seq(Nat)
    BY <1>1, <1>3, <1>5, PartTypes
  <2>2. All = Stream(seen, <<>>, (x \o y) \o q, h, w)
    BY <1>3, <1>5, <1>6, NumbersFew DEF All
  <2>3. All' = Stream(seen \o x, y, q, h, w)
    BY <1>2 DEF All
  <2> HIDE DEF q, x, y, h, w
  <2>4. Cat(Cat(x, y), q) = Cat(x, Cat(y, q)) /\ Cat(y, q) \in Seq(Nat) /\ Cat(seen, x) \in Seq(Nat)
    <3>1. Cat(Cat(x, y), q) = Cat(x, Cat(y, q))
      BY <2>1, CatFacts
    <3>2. p \in Seq(Nat) /\ seen \o x \in Seq(Nat)
      BY <2>1
    <3>3. QED
      BY <3>1, <3>2 DEF Cat
  <2>5. (x \o y) \o q = x \o p /\ p \in Seq(Nat) /\ seen \o x \in Seq(Nat)
    BY <2>4 DEF Cat
  <2>6. p = y \o q
    OBVIOUS
  <2> HIDE DEF p
  <2>7. Moves(seen, y, p, h, w, x)
    BY <2>1, <2>5, StreamMoves
  <2> DEFINE s == seen \o x
  <2>8. s \in Seq(Nat) /\ <<>> \in Seq(Nat)
    BY <2>5
  <2> HIDE DEF s
  <2>9. Moves(s, <<>>, q, h, w, y)
    BY <2>1, <2>8, StreamMoves
  <2>10. Stream(seen, <<>>, x \o p, h, w) = Stream(s, <<>>, p, h, w)
    BY <2>7 DEF Moves, s
  <2>11. Stream(s, <<>>, y \o q, h, w) = Stream(s, <<>> \o y, q, h, w) /\ <<>> \o y = y
    BY <2>1, <2>9 DEF Moves
  <2>12. QED
    BY <2>2, <2>3, <2>5, <2>6, <2>10, <2>11 DEF s
<1>11. QED
  BY <1>2, <1>8, <1>9, <1>10 DEF FlowInv

\* The server is always in one of its phases.
LEMMA PhaseStep == phase \in Phases /\ [Next]_vars => phase' \in Phases
<1> SUFFICES ASSUME phase \in Phases, [Next]_vars PROVE phase' \in Phases
  OBVIOUS
<1> USE DEF peerVars
<1>1. CASE User
  BY <1>1 DEF User, Connect, Command, Escape, Disconnect, Shutdown, TeardownFrame, Phases
<1>2. CASE Ui
  <2>1. phase' \in {phase, "scene", "asked"}
    BY <1>2 DEF Ui, UiSendStarts, UiSendReturns, OnConnected, OnError, OnDataTransfer, OnDataSwitch, OnDataScene,
                OnClosed, OnDone, FinishJoined, FinishTimeout, CloseSocket, FreeHandle, TeardownFrame
  <2>2. QED
    BY <2>1 DEF Phases
<1>3. CASE Rx
  BY <1>3 DEF Rx, RxConnects, RxReceives, RxReplyStarts, RxReplyReturns, RxPosts, RxCloses
<1>4. CASE Worker
  BY <1>4 DEF Worker, WorkerTakes, WorkerStops, WorkerReads, WorkerSendStarts, WorkerSendReturns, WorkerEnds, Phases
<1>5. CASE Peer
  BY <1>5 DEF Peer, PeerSends, PeerNegotiates, PeerChanges, Phases
<1>6. CASE UNCHANGED vars
  BY <1>6 DEF vars
<1>7. QED
  BY <1>1, <1>2, <1>3, <1>4, <1>5, <1>6 DEF Next

LEMMA FlowStep == ApartInv /\ FlowInv /\ phase \in Phases /\ [Next]_vars => FlowInv'
<1> SUFFICES ASSUME ApartInv, FlowInv, phase \in Phases, [Next]_vars PROVE FlowInv'
  OBVIOUS
<1>1. CASE User
  BY <1>1, ConnectFlows, QuietSteps DEF User
<1>2. CASE Ui
  BY <1>2, QuietSteps, NewsFlows, TransferFlows, SwitchFlows, SceneFlows, FinishFlows, CloseFlows DEF Ui
<1>3. CASE Rx
  BY <1>3, QuietSteps, BareFlows, ReceivesFlows, PostsFlows DEF Rx
<1>4. CASE Worker
  BY <1>4, QuietSteps, BareFlows, TakesFlows DEF Worker
<1>5. CASE Peer \/ UNCHANGED vars
  BY <1>5, QuietSteps, PeerFlows DEF Peer
<1>6. QED
  BY <1>1, <1>2, <1>3, <1>4, <1>5 DEF Next

(* Every item the server sent in a session is in one place and in its order, *)
(* whatever the cuts of recv(), the posted messages, and the switches into   *)
(* and out of transfers (ripscrip_module.c:147-154, rip_scan_for_zmodem,     *)
(* rip_zmodem_abandon).                                                      *)
THEOREM RipOneStream == Spec => []OneStream
<1> DEFINE Inv == ApartInv /\ FlowInv /\ phase \in Phases
<1>1. Init => Inv
  <2>1. Init => phase \in Phases
    BY DEF Init, Phases
  <2>2. QED
    BY <2>1, ApartInit, FlowInit
<1>2. Inv /\ [Next]_vars => Inv'
  BY ApartStep, FlowStep, PhaseStep
<1>3. Inv => OneStream
  <2>1. InQueue = Posted(queue)
    BY DEF InQueue, Posted
  <2>2. QED
    BY <2>1 DEF FlowInv, OneStream, Open, All, Stream, Upto
<1>4. QED
  BY <1>1, <1>2, <1>3, PTL DEF Spec
===============================================================================
