------------------------------ MODULE ZmodemRing ------------------------------
(***************************************************************************)
(* The byte ring of one Zmodem receive session (src/src/zmodem_recv.c).    *)
(* The UI thread pushes freshly arrived payload into the ring, asks for a  *)
(* cancel and finally joins the worker; the worker thread pulls the bytes  *)
(* out one at a time through zm_recv().  ring_lock makes each critical     *)
(* section one step; everything between two of them interleaves.           *)
(*                                                                         *)
(* A byte is abstracted to its position in the stream the transport        *)
(* delivered: the k-th byte handed to zmodem_recv_push() is the number k.  *)
(* Times are counted in polls: a wait on an event ends when the event is   *)
(* set or when its time is up, and adds one poll either way, which is how  *)
(* the code counts ("waited += 100" whatever ended the wait).              *)
(***************************************************************************)
EXTENDS Integers, Sequences

CONSTANTS
    RingBytes,      \* ZMR_RING_BYTES, the capacity of the ring
    IdlePolls,      \* ZMR_IDLE_TIMEOUT_MS / 100, polls before the worker gives up
    PushPolls,      \* ZMR_PUSH_WAIT_MS / 50, polls before a push drops the rest
    MaxChunk,       \* bound: longest payload of one push
    MaxSent         \* bound: bytes the transport delivers in all

ASSUME RingAssumption ==
    /\ RingBytes \in Nat \ {0}
    /\ IdlePolls \in Nat
    /\ PushPolls \in Nat
    /\ MaxChunk \in Nat
    /\ MaxSent \in Nat

VARIABLES
    ring, head, tail, count,    \* the ring: slots, next write, next read, fill
    dataEvt, spaceEvt,          \* the two manual-reset events
    cancel, stop,               \* cancel_request and stop_request
    wpc, waited, ret,           \* worker: place, polls of this ring_pop, last result of zm_recv
    uipc, base, len, off, pwaited,  \* UI thread: place, and the push in hand
    sent,                       \* bytes the transport has delivered
    accepted, popped, rest,     \* history: bytes put in the ring, taken by zm_recv, handed back
    late                        \* history: bytes taken after a cancel was asked for

ringVars == <<ring, head, tail, count, dataEvt, spaceEvt>>
flagVars == <<cancel, stop>>
workerVars == <<wpc, waited, ret>>
pushVars == <<base, len, off, pwaited>>
histVars == <<accepted, popped, rest, late>>
vars == <<ringVars, flagVars, workerVars, uipc, pushVars, sent, histVars>>

-------------------------------------------------------------------------------
(* Operators named X_<slip> are variants of X that a slip in the code would *)
(* give; no specification uses them.  The runs are repeated with X replaced *)
(* by its variant to show that a property would notice the slip.            *)

(* The slot that ring index arithmetic reaches: (x) % ZMR_RING_BYTES. *)
Slot_NoWrap(x) == x
Slot(x) == x % RingBytes

(* The bytes waiting in the ring, oldest first. *)
Waiting == [i \in 1 .. count |-> ring[Slot(tail + i - 1)]]

MinOf(a, b) == IF a <= b THEN a ELSE b

(* One more wait on an event, whatever ended it. *)
Polled_Stuck(polls) == polls
Polled(polls) == polls + 1

Init ==
    /\ ring = [i \in 0 .. RingBytes - 1 |-> 0]
    /\ head = 0 /\ tail = 0 /\ count = 0
    /\ dataEvt = FALSE /\ spaceEvt = TRUE
    /\ cancel = FALSE /\ stop = FALSE
    /\ wpc = "core" /\ waited = 0 /\ ret = "none"
    /\ uipc = "idle" /\ base = 0 /\ len = 0 /\ off = 0 /\ pwaited = 0
    /\ sent = 0
    /\ accepted = << >> /\ popped = << >> /\ rest = << >> /\ late = 0

-------------------------------------------------------------------------------
(* UI thread: zmodem_recv_push *)

(* A chunk of n bytes arrives from the telnet layer and is pushed. *)
PushBegin ==
    /\ uipc = "idle"
    /\ \E n \in 1 .. MaxChunk :
        /\ sent + n <= MaxSent
        /\ base' = sent /\ len' = n /\ off' = 0 /\ pwaited' = 0
        /\ sent' = sent + n
    /\ uipc' = "copy"
    /\ UNCHANGED <<ringVars, flagVars, workerVars, histVars>>

(* What one pass of the push loop can take: what is left, or the room. *)
Take == MinOf(len - off, RingBytes - count)

(* How far slot s lies ahead of the next write. *)
Ahead(s) == IF s >= head THEN s - head ELSE s + RingBytes - head

(* The slots one pass writes, and the byte each receives. *)
Filled_OneTooMany(take) ==
    [s \in 0 .. RingBytes - 1 |->
        IF Ahead(s) <= take THEN base + off + Ahead(s) + 1 ELSE ring[s]]
Filled(take) ==
    [s \in 0 .. RingBytes - 1 |->
        IF Ahead(s) < take THEN base + off + Ahead(s) + 1 ELSE ring[s]]

(* The events at the end of that critical section, the ring holding fill.  *)
PushSignals_NoWake(fill) ==
    /\ spaceEvt' = (spaceEvt /\ fill < RingBytes)
    /\ UNCHANGED dataEvt
PushSignals(fill) ==
    /\ dataEvt' = (dataEvt \/ fill > 0)
    /\ spaceEvt' = (spaceEvt /\ fill < RingBytes)

(* The critical section of the push loop, and what the loop does next:     *)
(* done, or full with polls left, or full and out of polls, in which case  *)
(* the remainder is dropped.                                               *)
PushCopy ==
    /\ uipc = "copy"
    /\ LET take == Take IN
        /\ ring' = Filled(take)
        /\ head' = Slot(head + take)
        /\ count' = count + take
        /\ PushSignals(count + take)
        /\ off' = off + take
        /\ accepted' = accepted \o [i \in 1 .. take |-> base + off + i]
        /\ uipc' = IF off + take >= len \/ pwaited >= PushPolls
                   THEN "idle" ELSE "wait"
    /\ UNCHANGED <<tail, flagVars, workerVars, base, len, pwaited, sent, popped, rest, late>>

(* WaitForSingleObject(space_evt, 50): the event, or the time, ends it. *)
PushWait ==
    /\ uipc = "wait"
    /\ pwaited' = Polled(pwaited)
    /\ uipc' = "copy"
    /\ UNCHANGED <<ringVars, flagVars, workerVars, base, len, off, sent, histVars>>

-------------------------------------------------------------------------------
(* UI thread: zmodem_recv_cancel and zmodem_recv_finish *)

Cancel ==
    /\ uipc = "idle"
    /\ ~cancel
    /\ cancel' = TRUE
    /\ dataEvt' = TRUE
    /\ UNCHANGED <<ring, head, tail, count, spaceEvt, stop, workerVars, uipc, pushVars, sent, histVars>>

(* The result is collected once the worker has posted DONE, or at once by  *)
(* a disconnect, which cancels first (ripscrip_module.c:786).              *)
FinishBegin ==
    /\ uipc = "idle"
    /\ wpc = "done" \/ cancel
    /\ stop' = TRUE
    /\ dataEvt' = TRUE
    /\ uipc' = "join"
    /\ UNCHANGED <<ring, head, tail, count, spaceEvt, cancel, workerVars, pushVars, sent, histVars>>

(* ring_drain: everything still queued, oldest first. *)
Drained_FromHead == [i \in 1 .. count |-> ring[Slot(head + i - 1)]]
Drained == Waiting

(* The join succeeded: ring_drain, then the session is freed.  When there  *)
(* is no memory for the copy the ring is emptied all the same.             *)
FinishJoined ==
    /\ uipc = "join"
    /\ wpc = "done"
    /\ rest' \in {Drained, << >>}
    /\ count' = 0
    /\ tail' = head
    /\ uipc' = "freed"
    /\ UNCHANGED <<ring, head, dataEvt, spaceEvt, flagVars, workerVars, pushVars, sent, accepted, popped, late>>

(* Five seconds passed: the session is leaked, never freed under the worker. *)
FinishTimeout_Free ==
    /\ uipc = "join"
    /\ wpc # "done"
    /\ uipc' = "freed"
    /\ UNCHANGED <<ringVars, flagVars, workerVars, pushVars, sent, histVars>>
FinishTimeout_Infinite == FALSE /\ UNCHANGED vars
FinishTimeout ==
    /\ uipc = "join"
    /\ wpc # "done"
    /\ uipc' = "leaked"
    /\ UNCHANGED <<ringVars, flagVars, workerVars, pushVars, sent, histVars>>

-------------------------------------------------------------------------------
(* Worker thread: zm_recv and ring_pop *)

(* zm_recv looks at cancel_request before it looks at the ring. *)
MayReceive_Always == TRUE
MayReceive == ~cancel

(* zm_recv with a cancel pending takes nothing. *)
RecvCancelled ==
    /\ wpc = "core"
    /\ ~MayReceive
    /\ ret' = "cancelled"
    /\ UNCHANGED <<ringVars, flagVars, wpc, waited, uipc, pushVars, sent, histVars>>

(* zm_recv without one enters ring_pop. *)
RecvBegin ==
    /\ wpc = "core"
    /\ MayReceive
    /\ wpc' = "pop"
    /\ waited' = 0
    /\ ret' = "none"
    /\ UNCHANGED <<ringVars, flagVars, uipc, pushVars, sent, histVars>>

(* The critical section of ring_pop with a byte there. *)
PopByte ==
    /\ wpc = "pop"
    /\ count > 0
    /\ popped' = Append(popped, ring[tail])
    /\ tail' = Slot(tail + 1)
    /\ count' = count - 1
    /\ dataEvt' = (dataEvt /\ count > 1)
    /\ spaceEvt' = TRUE
    /\ late' = IF cancel THEN late + 1 ELSE late
    /\ wpc' = "core"
    /\ ret' = "byte"
    /\ UNCHANGED <<ring, head, flagVars, waited, uipc, pushVars, sent, accepted, rest>>

(* The same critical section with the ring empty. *)
PopEmpty ==
    /\ wpc = "pop"
    /\ count = 0
    /\ wpc' = "check"
    /\ UNCHANGED <<ringVars, flagVars, waited, ret, uipc, pushVars, sent, histVars>>

(* Outside the lock: told to stop, or the far end has been quiet too long. *)
PopGiveUp ==
    /\ wpc = "check"
    /\ stop \/ waited >= IdlePolls
    /\ wpc' = "core"
    /\ ret' = "closed"
    /\ UNCHANGED <<ringVars, flagVars, waited, uipc, pushVars, sent, histVars>>

(* Neither: wait on data_evt, which it or the time ends, and look again. *)
PopWait ==
    /\ wpc = "check"
    /\ ~stop /\ waited < IdlePolls
    /\ waited' = Polled(waited)
    /\ wpc' = "pop"
    /\ UNCHANGED <<ringVars, flagVars, ret, uipc, pushVars, sent, histVars>>

(* The conversation is over: the thread posts DONE and returns.            *)
WorkerDone ==
    /\ wpc = "core"
    /\ wpc' = "done"
    /\ UNCHANGED <<ringVars, flagVars, waited, ret, uipc, pushVars, sent, histVars>>

-------------------------------------------------------------------------------
RingPop == PopByte \/ PopEmpty \/ PopGiveUp \/ PopWait

UiNext ==
    \/ PushBegin \/ PushCopy \/ PushWait
    \/ Cancel \/ FinishBegin \/ FinishJoined \/ FinishTimeout

WorkerNext == RecvCancelled \/ RecvBegin \/ RingPop \/ WorkerDone

Next == UiNext \/ WorkerNext

Spec == Init /\ [][Next]_vars

(* Both threads are scheduled: a ring_pop or a push that has begun keeps   *)
(* running, a join ends.  Nothing obliges the transport to deliver, the    *)
(* user to cancel or the conversation to ask for another byte.             *)
Fairness ==
    /\ WF_vars(RingPop)
    /\ WF_vars(PushCopy \/ PushWait)
    /\ WF_vars(FinishJoined \/ FinishTimeout)

FairSpec == Spec /\ Fairness
-------------------------------------------------------------------------------
(* Properties *)

(* Every variable stays in its range; cursors stay inside the ring. *)
TypeOK ==
    /\ ring \in [0 .. RingBytes - 1 -> Nat]
    /\ head \in 0 .. RingBytes - 1
    /\ tail \in 0 .. RingBytes - 1
    /\ count \in 0 .. RingBytes
    /\ dataEvt \in BOOLEAN /\ spaceEvt \in BOOLEAN
    /\ cancel \in BOOLEAN /\ stop \in BOOLEAN
    /\ wpc \in {"core", "pop", "check", "done"}
    /\ waited \in Nat
    /\ ret \in {"none", "byte", "closed", "cancelled"}
    /\ uipc \in {"idle", "copy", "wait", "join", "freed", "leaked"}
    /\ base \in Nat /\ len \in Nat /\ off \in Nat /\ pwaited \in Nat
    /\ sent \in Nat
    /\ accepted \in Seq(Nat) /\ popped \in Seq(Nat) /\ rest \in Seq(Nat)
    /\ late \in Nat

(* Neither side can sleep through the other's signal: whenever both        *)
(* threads are outside the lock, a non-empty ring has data_evt set and a   *)
(* ring with room has space_evt set (the SetEvent and ResetEvent calls of  *)
(* ring_pop and zmodem_recv_push agree with the fill count).               *)
NoLostWakeup ==
    uipc # "freed" =>
        /\ count > 0 => dataEvt
        /\ spaceEvt <=> count < RingBytes

(* Once the user has asked to cancel, zm_recv hands out at most the one    *)
(* byte whose ring_pop was already under way (zmodem_recv.c:282).          *)
OneByteAfterCancel == late <= 1

(* The ring is freed, and drained, only when its worker is gone            *)
(* (zmodem_recv_finish joins, or leaks the session).                       *)
NoFreeUnderWorker == uipc = "freed" => wpc = "done"

(* Every wait ends: a push and a join hold the UI thread for a bounded time,  *)
(* a cancelled session is collected or given up, and a worker inside ring_pop *)
(* gets a byte or gives up instead of parking on a ring nobody fills.         *)
WaitsEnd ==
    /\ uipc \in {"copy", "wait"} ~> uipc = "idle"
    /\ uipc = "join" ~> uipc \in {"freed", "leaked"}
    /\ wpc \in {"pop", "check"} ~> wpc = "core"

(* What a session owes its caller, ByteStream, is what the ring does.      *)
Stream == INSTANCE ByteStream WITH
    queue <- Waiting, consumed <- popped, handed <- rest, closed <- (uipc = "freed")
StreamSpec == Stream!Spec
===============================================================================
