----------------------------- MODULE Stream_proofs -----------------------------
(* Machine-checked theorems about the two streams of the telnet tab: the     *)
(* bytes of a Zmodem session in ZmodemRing, for every ring size, every       *)
(* timeout and every amount of traffic; and the payload and the options that *)
(* TelnetParser takes out of what a server sends, for any chunks and any     *)
(* number of commands.                                                       *)
EXTENDS ZmodemRing, TelnetParser, WellFoundedInduction, FiniteSetTheorems, FunctionTheorems,
        SequenceTheorems, TLAPS

(* The ring index arithmetic: one wrap is a subtraction.                    *)
LEMMA SlotFact ==
    /\ \A x \in Nat : Slot(x) \in 0 .. RingBytes - 1
    /\ \A x \in 0 .. RingBytes - 1 : Slot(x) = x
    /\ \A x \in RingBytes .. 2 * RingBytes - 1 : Slot(x) = x - RingBytes
  BY RingAssumption DEF Slot

-------------------------------------------------------------------------------
(* Type correctness.  The cursor of a push never passes its length, which   *)
(* keeps the amount it takes from being negative.                           *)

PushBounded == off <= len

TypeInv == TypeOK /\ PushBounded

(* What one pass of the push loop takes fits in the ring and in the push.   *)
LEMMA TakeFact ==
    ASSUME TypeInv
    PROVE  /\ Take \in Nat
           /\ Take <= len - off
           /\ Take <= RingBytes - count
           /\ off + Take < len => count + Take = RingBytes
  BY RingAssumption DEF TypeInv, TypeOK, PushBounded, Take, MinOf

(* A finite function on 1 .. n with values in Nat is a sequence.            *)
LEMMA WaitingSeq ==
    ASSUME TypeInv
    PROVE  /\ Waiting \in Seq(Nat)
           /\ Len(Waiting) = count
           /\ \A i \in 1 .. count : Waiting[i] = ring[Slot(tail + i - 1)]
  <1>1. count \in Nat
    BY RingAssumption DEF TypeInv, TypeOK
  <1>2. \A i \in 1 .. count : ring[Slot(tail + i - 1)] \in Nat
    <2> SUFFICES ASSUME NEW i \in 1 .. count
                 PROVE  ring[Slot(tail + i - 1)] \in Nat
      OBVIOUS
    <2>1. tail + i - 1 \in Nat
      BY RingAssumption DEF TypeInv, TypeOK
    <2>2. Slot(tail + i - 1) \in 0 .. RingBytes - 1
      BY <2>1, SlotFact
    <2> QED
      BY <2>2 DEF TypeInv, TypeOK
  <1> QED
    BY <1>1, <1>2 DEF Waiting

LEMMA TypeInit == Init => TypeInv
  <1> SUFFICES ASSUME Init PROVE TypeInv
    OBVIOUS
  <1>1. /\ 0 \in 0 .. RingBytes - 1 /\ 0 \in 0 .. RingBytes
        /\ [i \in 0 .. RingBytes - 1 |-> 0] \in [0 .. RingBytes - 1 -> Nat]
    BY RingAssumption
  <1>2. << >> \in Seq(Nat)
    OBVIOUS
  <1>3. /\ ring \in [0 .. RingBytes - 1 -> Nat]
        /\ head \in 0 .. RingBytes - 1 /\ tail \in 0 .. RingBytes - 1
        /\ count \in 0 .. RingBytes
    BY <1>1, Zenon DEF Init
  <1>4. accepted \in Seq(Nat) /\ popped \in Seq(Nat) /\ rest \in Seq(Nat)
    BY <1>2 DEF Init
  <1>5. /\ dataEvt \in BOOLEAN /\ spaceEvt \in BOOLEAN
        /\ cancel \in BOOLEAN /\ stop \in BOOLEAN
    BY DEF Init
  <1> QED
    BY <1>3, <1>4, <1>5 DEF Init, TypeInv, TypeOK, PushBounded

LEMMA TypeStep == TypeInv /\ [Next]_vars => TypeInv'
  <1> SUFFICES ASSUME TypeInv, [Next]_vars
               PROVE  TypeInv'
    OBVIOUS
  <1> USE RingAssumption DEF TypeInv, TypeOK, PushBounded
  <1>1. CASE PushBegin
    BY <1>1 DEF PushBegin, ringVars, flagVars, workerVars, histVars
  <1>2. CASE PushCopy
    <2> DEFINE take == Take
    <2>1. take \in Nat /\ take <= len - off /\ take <= RingBytes - count
      BY TakeFact
    <2>2. ring' \in [0 .. RingBytes - 1 -> Nat]
      BY <1>2, <2>1 DEF PushCopy, Filled, Ahead
    <2>3. head' \in 0 .. RingBytes - 1
      <3>1. head + take \in Nat
        BY <2>1
      <3>2. head' = Slot(head + take)
        BY <1>2 DEF PushCopy
      <3> QED
        BY <3>1, <3>2, SlotFact
    <2>4. count' \in 0 .. RingBytes /\ off' \in Nat /\ off' <= len
      BY <1>2, <2>1 DEF PushCopy
    <2>5. dataEvt' \in BOOLEAN /\ spaceEvt' \in BOOLEAN
      BY <1>2 DEF PushCopy, PushSignals
    <2>6. accepted' \in Seq(Nat)
      <3>1. [i \in 1 .. take |-> base + off + i] \in Seq(Nat)
        BY <2>1
      <3> QED
        BY <1>2, <3>1 DEF PushCopy
    <2>7. uipc' \in {"idle", "wait"}
      BY <1>2 DEF PushCopy
    <2> QED
      BY <1>2, <2>2, <2>3, <2>4, <2>5, <2>6, <2>7
      DEF PushCopy, flagVars, workerVars
  <1>3. CASE PushWait
    BY <1>3 DEF PushWait, Polled, ringVars, flagVars, workerVars, histVars
  <1>4. CASE Cancel
    BY <1>4 DEF Cancel, workerVars, pushVars, histVars
  <1>5. CASE FinishBegin
    BY <1>5 DEF FinishBegin, workerVars, pushVars, histVars
  <1>6. CASE FinishJoined
    <2>1. rest' \in Seq(Nat)
      <3>1. Waiting \in Seq(Nat)
        BY WaitingSeq
      <3>2. << >> \in Seq(Nat)
        OBVIOUS
      <3>3. rest' \in {Waiting, << >>}
        BY <1>6 DEF FinishJoined, Drained
      <3> QED
        BY <3>1, <3>2, <3>3
    <2> QED
      BY <1>6, <2>1 DEF FinishJoined, flagVars, workerVars, pushVars
  <1>7. CASE FinishTimeout
    BY <1>7 DEF FinishTimeout, ringVars, flagVars, workerVars, pushVars, histVars
  <1>8. CASE RecvCancelled
    BY <1>8 DEF RecvCancelled, ringVars, flagVars, pushVars, histVars
  <1>9. CASE RecvBegin
    BY <1>9 DEF RecvBegin, ringVars, flagVars, pushVars, histVars
  <1>10. CASE PopByte
    <2>1. tail' \in 0 .. RingBytes - 1
      BY <1>10, SlotFact DEF PopByte
    <2>2. popped' \in Seq(Nat)
      BY <1>10 DEF PopByte
    <2>3. count' \in 0 .. RingBytes /\ late' \in Nat
      BY <1>10 DEF PopByte
    <2> QED
      BY <1>10, <2>1, <2>2, <2>3 DEF PopByte, flagVars, pushVars
  <1>11. CASE PopEmpty
    BY <1>11 DEF PopEmpty, ringVars, flagVars, pushVars, histVars
  <1>12. CASE PopGiveUp
    BY <1>12 DEF PopGiveUp, ringVars, flagVars, pushVars, histVars
  <1>13. CASE PopWait
    BY <1>13 DEF PopWait, Polled, ringVars, flagVars, pushVars, histVars
  <1>14. CASE WorkerDone
    BY <1>14 DEF WorkerDone, ringVars, flagVars, pushVars, histVars
  <1>15. CASE UNCHANGED vars
    BY <1>15 DEF vars, ringVars, flagVars, workerVars, pushVars, histVars
  <1> QED
    BY <1>1, <1>2, <1>3, <1>4, <1>5, <1>6, <1>7, <1>8, <1>9, <1>10, <1>11,
       <1>12, <1>13, <1>14, <1>15
    DEF Next, UiNext, WorkerNext, RingPop

(* The ring's cursors and its fill stay inside the ring, whatever the two   *)
(* threads' interleaving (zmodem_recv.c:183 and 234).                       *)
THEOREM RingTypeOK == Spec => []TypeOK
  <1>1. TypeInv => TypeOK
    BY DEF TypeInv
  <1> QED
    BY <1>1, TypeInit, TypeStep, PTL DEF Spec

-------------------------------------------------------------------------------
(* The three properties of the control: the events, the cancel, the join.   *)

(* zm_recv does not go back into ring_pop once a cancel is asked for, so a  *)
(* worker that is in ring_pop has not yet taken a late byte.                *)
LateBounded ==
    /\ late \in {0, 1}
    /\ ~cancel => late = 0
    /\ wpc \in {"pop", "check"} => late = 0

ControlInv == NoFreeUnderWorker /\ NoLostWakeup /\ LateBounded

LEMMA ControlInit == Init => ControlInv
  BY RingAssumption
  DEF Init, ControlInv, NoFreeUnderWorker, NoLostWakeup, LateBounded

LEMMA ControlStep == TypeInv /\ ControlInv /\ [Next]_vars => ControlInv'
  <1> SUFFICES ASSUME TypeInv, ControlInv, [Next]_vars
               PROVE  ControlInv'
    OBVIOUS
  <1>0. /\ count \in 0 .. RingBytes /\ RingBytes \in Nat \ {0}
        /\ dataEvt \in BOOLEAN /\ spaceEvt \in BOOLEAN
    BY RingAssumption DEF TypeInv, TypeOK
  <1> USE <1>0 DEF ControlInv, NoFreeUnderWorker, NoLostWakeup, LateBounded
  <1>1. CASE PushBegin
    BY <1>1 DEF PushBegin, ringVars, flagVars, workerVars, histVars
  <1>2. CASE PushCopy
    <2> DEFINE take == Take
    <2>1. take \in Nat /\ take <= RingBytes - count
      BY TakeFact
    <2>2. count' = count + take
      BY <1>2 DEF PushCopy
    <2>3. (count' > 0 => dataEvt') /\ (spaceEvt' <=> count' < RingBytes)
      <3>1. /\ dataEvt' = (dataEvt \/ count' > 0)
            /\ spaceEvt' = (spaceEvt /\ count' < RingBytes)
        BY <1>2, <2>2 DEF PushCopy, PushSignals
      <3>2. spaceEvt <=> count < RingBytes
        BY <1>2 DEF PushCopy
      <3>3. count' < RingBytes => count < RingBytes
        BY <2>1, <2>2
      <3> QED
        BY <3>1, <3>2, <3>3, Zenon
    <2> QED
      BY <1>2, <2>3 DEF PushCopy, flagVars, workerVars
  <1>3. CASE PushWait
    BY <1>3 DEF PushWait, ringVars, flagVars, workerVars, histVars
  <1>4. CASE Cancel
    BY <1>4 DEF Cancel, workerVars, pushVars, histVars
  <1>5. CASE FinishBegin
    BY <1>5 DEF FinishBegin, workerVars, pushVars, histVars
  <1>6. CASE FinishJoined
    BY <1>6 DEF FinishJoined, flagVars, workerVars, pushVars
  <1>7. CASE FinishTimeout
    BY <1>7 DEF FinishTimeout, ringVars, flagVars, workerVars, pushVars, histVars
  <1>8. CASE RecvCancelled
    BY <1>8 DEF RecvCancelled, ringVars, flagVars, pushVars, histVars
  <1>9. CASE RecvBegin
    BY <1>9 DEF RecvBegin, MayReceive, ringVars, flagVars, pushVars, histVars
  <1>10. CASE PopByte
    BY <1>10 DEF PopByte, flagVars, pushVars
  <1>11. CASE PopEmpty
    BY <1>11 DEF PopEmpty, ringVars, flagVars, pushVars, histVars
  <1>12. CASE PopGiveUp
    BY <1>12 DEF PopGiveUp, ringVars, flagVars, pushVars, histVars
  <1>13. CASE PopWait
    BY <1>13 DEF PopWait, ringVars, flagVars, pushVars, histVars
  <1>14. CASE WorkerDone
    BY <1>14 DEF WorkerDone, ringVars, flagVars, pushVars, histVars
  <1>15. CASE UNCHANGED vars
    BY <1>15 DEF vars, ringVars, flagVars, workerVars, pushVars, histVars
  <1> QED
    BY <1>1, <1>2, <1>3, <1>4, <1>5, <1>6, <1>7, <1>8, <1>9, <1>10, <1>11,
       <1>12, <1>13, <1>14, <1>15
    DEF Next, UiNext, WorkerNext, RingPop

LEMMA ControlAlways == Spec => [](TypeInv /\ ControlInv)
  BY TypeInit, TypeStep, ControlInit, ControlStep, PTL DEF Spec

(* Neither thread sleeps through the other's signal: the two events agree   *)
(* with the fill of the ring at every point outside the lock.               *)
THEOREM RingNoLostWakeup == Spec => []NoLostWakeup
  <1>1. ControlInv => NoLostWakeup
    BY DEF ControlInv
  <1> QED
    BY <1>1, ControlAlways, PTL

(* zm_recv takes at most one byte after a cancel was asked for.             *)
THEOREM RingOneByteAfterCancel == Spec => []OneByteAfterCancel
  <1>1. ControlInv => OneByteAfterCancel
    BY DEF ControlInv, LateBounded, OneByteAfterCancel
  <1> QED
    BY <1>1, ControlAlways, PTL

(* zmodem_recv_finish never frees the session its worker still runs on.     *)
THEOREM RingNoFreeUnderWorker == Spec => []NoFreeUnderWorker
  <1>1. ControlInv => NoFreeUnderWorker
    BY DEF ControlInv
  <1> QED
    BY <1>1, ControlAlways, PTL

-------------------------------------------------------------------------------
(* The refinement of ByteStream.  Its queue is the ring read from the tail, *)
(* so a push must leave the waiting slots alone and write the next ones:    *)
(* that is where the write cursor has to be.                                *)

HeadFollows == head = Slot(tail + count)

(* What ring_pop reads is the oldest of the waiting bytes, and a pass of    *)
(* the push loop writes none of their slots.                                *)
LEMMA WaitingKept ==
    ASSUME TypeInv, HeadFollows, NEW i \in 1 .. count
    PROVE  /\ Slot(tail + i - 1) \in 0 .. RingBytes - 1
           /\ Ahead(Slot(tail + i - 1)) >= RingBytes - count
  <1>1. /\ tail \in 0 .. RingBytes - 1 /\ head \in 0 .. RingBytes - 1
        /\ count \in 0 .. RingBytes /\ RingBytes \in Nat \ {0}
    BY RingAssumption DEF TypeInv, TypeOK
  <1>2. tail + i - 1 \in 0 .. 2 * RingBytes - 1 /\ tail + count \in 0 .. 2 * RingBytes - 1
    BY <1>1
  <1>3. \/ tail + i - 1 < RingBytes /\ Slot(tail + i - 1) = tail + i - 1
        \/ tail + i - 1 >= RingBytes /\ Slot(tail + i - 1) = tail + i - 1 - RingBytes
    BY <1>1, <1>2, SlotFact
  <1>4. \/ tail + count < RingBytes /\ head = tail + count
        \/ tail + count >= RingBytes /\ head = tail + count - RingBytes
    BY <1>1, <1>2, SlotFact DEF HeadFollows
  <1> QED
    BY <1>1, <1>3, <1>4 DEF Ahead

LEMMA HeadInit == Init => HeadFollows
  BY RingAssumption, SlotFact DEF Init, HeadFollows

(* Two cursors that are moved around the ring meet where one is moved by    *)
(* both distances.                                                          *)
LEMMA SlotAdds ==
    ASSUME NEW x \in 0 .. 2 * RingBytes - 1, NEW y \in 0 .. RingBytes
    PROVE  Slot(Slot(x) + y) = Slot(x + y)
  BY RingAssumption, Z3 DEF Slot

LEMMA HeadStep == TypeInv /\ HeadFollows /\ [Next]_vars => HeadFollows'
  <1> SUFFICES ASSUME TypeInv, HeadFollows, [Next]_vars
               PROVE  HeadFollows'
    OBVIOUS
  <1>0. /\ tail \in 0 .. RingBytes - 1 /\ head \in 0 .. RingBytes - 1
        /\ count \in 0 .. RingBytes /\ RingBytes \in Nat \ {0}
    BY RingAssumption DEF TypeInv, TypeOK
  <1>1. CASE PushCopy
    <2>1. Take \in 0 .. RingBytes - count
      BY <1>0, TakeFact
    <2>2. head' = Slot(Slot(tail + count) + Take) /\ tail' = tail /\ count' = count + Take
      BY <1>1 DEF PushCopy, HeadFollows
    <2>3. Slot(Slot(tail + count) + Take) = Slot(tail + count + Take)
      BY <1>0, <2>1, SlotAdds
    <2>4. tail + count + Take = tail' + count'
      BY <1>0, <2>1, <2>2
    <2> QED
      BY <2>2, <2>3, <2>4 DEF HeadFollows
  <1>2. CASE PopByte
    <2>1. head' = head /\ tail' = Slot(tail + 1) /\ count' = count - 1 /\ count > 0
      BY <1>2 DEF PopByte
    <2>2. Slot(Slot(tail + 1) + (count - 1)) = Slot(tail + 1 + (count - 1))
      BY <1>0, <2>1, SlotAdds
    <2>3. tail + 1 + (count - 1) = tail + count
      BY <1>0
    <2> QED
      BY <2>1, <2>2, <2>3 DEF HeadFollows
  <1>3. CASE FinishJoined
    <2>1. head' = head /\ tail' = head /\ count' = 0
      BY <1>3 DEF FinishJoined
    <2>2. Slot(head + 0) = head
      BY <1>0, SlotFact
    <2> QED
      BY <2>1, <2>2 DEF HeadFollows
  <1>4. CASE UNCHANGED <<head, tail, count>>
    BY <1>4 DEF HeadFollows
  <1> QED
    BY <1>1, <1>2, <1>3, <1>4
    DEF Next, UiNext, WorkerNext, RingPop, PushBegin, PushWait, Cancel, FinishBegin, FinishTimeout,
        RecvCancelled, RecvBegin, PopEmpty, PopGiveUp, PopWait, WorkerDone, vars, ringVars

(* A sequence of naturals is known by its length and its elements.          *)
LEMMA SameSequence ==
    ASSUME NEW s \in Seq(Nat), NEW t \in Seq(Nat), Len(s) = Len(t),
           \A i \in 1 .. Len(s) : s[i] = t[i]
    PROVE  s = t
  OBVIOUS

LEMMA PushAccepts ==
    ASSUME TypeInv, TypeInv', HeadFollows, PushCopy
    PROVE  Stream!Accept
  <1>0. /\ tail \in 0 .. RingBytes - 1 /\ head \in 0 .. RingBytes - 1
        /\ count \in 0 .. RingBytes /\ RingBytes \in Nat \ {0}
    BY RingAssumption DEF TypeInv, TypeOK
  <1>1. Take \in 0 .. RingBytes - count
    BY <1>0, TakeFact
  <1>2. count' = count + Take /\ tail' = tail /\ ring' = Filled(Take)
    BY DEF PushCopy
  <1>3. /\ Len(Waiting) = count /\ \A i \in 1 .. count : Waiting[i] = ring[Slot(tail + i - 1)]
    BY WaitingSeq
  <1>4. /\ Len(Waiting') = count' /\ \A i \in 1 .. count' : Waiting'[i] = ring'[Slot(tail' + i - 1)]
    <2>1. count' \in Nat
      BY <1>0, <1>1, <1>2
    <2> QED
      BY <2>1 DEF Waiting
  <1>5. ASSUME NEW i \in 1 .. count
        PROVE  Waiting'[i] = Waiting[i]
    <2> DEFINE s == Slot(tail + i - 1)
    <2>1. s \in 0 .. RingBytes - 1 /\ Ahead(s) >= RingBytes - count
      BY WaitingKept
    <2>2. Ahead(s) \in Int
      BY <1>0, <2>1 DEF Ahead
    <2>3. ~(Ahead(s) < Take)
      BY <1>0, <1>1, <2>1, <2>2
    <2>4. ring'[s] = ring[s]
      BY <1>2, <2>1, <2>3 DEF Filled
    <2>5. i \in 1 .. count'
      BY <1>0, <1>1, <1>2
    <2> QED
      BY <1>2, <1>3, <1>4, <2>4, <2>5
  <1>6. Len(Waiting') >= Len(Waiting)
    BY <1>0, <1>1, <1>2, <1>3, <1>4
  <1>7. \A i \in 1 .. Len(Waiting) : Waiting'[i] = Waiting[i]
    BY <1>3, <1>5
  <1>8. uipc = "copy" /\ uipc' \in {"idle", "wait"} /\ UNCHANGED <<popped, rest>>
    BY DEF PushCopy
  <1> QED
    BY <1>6, <1>7, <1>8 DEF Stream!Accept

LEMMA PopConsumes ==
    ASSUME TypeInv, TypeInv', ControlInv, PopByte
    PROVE  Stream!Consume
  <1>0. /\ tail \in 0 .. RingBytes - 1
        /\ count \in 0 .. RingBytes /\ RingBytes \in Nat \ {0} /\ count > 0
    BY RingAssumption DEF TypeInv, TypeOK, PopByte
  <1>1. count' = count - 1 /\ tail' = Slot(tail + 1) /\ ring' = ring /\ count' \in Nat
    BY <1>0 DEF PopByte
  <1>2. /\ Waiting \in Seq(Nat) /\ Len(Waiting) = count
        /\ \A i \in 1 .. count : Waiting[i] = ring[Slot(tail + i - 1)]
    BY WaitingSeq
  <1>3. Waiting' = [i \in 1 .. count' |-> ring'[Slot(tail' + i - 1)]]
    BY DEF Waiting
  <1>4. /\ Tail(Waiting) \in Seq(Nat) /\ Len(Tail(Waiting)) = count - 1
        /\ \A i \in 1 .. count - 1 : Tail(Waiting)[i] = Waiting[i + 1]
    BY <1>0, <1>2
  <1>5. ASSUME NEW i \in 1 .. count - 1
        PROVE  ring[Slot(Slot(tail + 1) + i - 1)] = Waiting[i + 1]
    <2>1. Slot(Slot(tail + 1) + (i - 1)) = Slot(tail + 1 + (i - 1))
      BY <1>0, SlotAdds
    <2>2. /\ tail + 1 + (i - 1) = tail + (i + 1) - 1 /\ i + 1 \in 1 .. count
          /\ Slot(tail + 1) + (i - 1) = Slot(tail + 1) + i - 1
      <3>1. Slot(tail + 1) \in Nat
        BY <1>0, SlotFact
      <3> QED
        BY <1>0, <3>1
    <2> QED
      BY <1>2, <2>1, <2>2
  <1>6. Waiting' = Tail(Waiting)
    <2>1. \A i \in 1 .. count - 1 : Waiting[i + 1] \in Nat
      BY <1>0, <1>2
    <2>2. Waiting' \in Seq(Nat) /\ Len(Waiting') = count - 1
      BY <1>1, <1>3, <1>5, <2>1
    <2>3. \A i \in 1 .. count - 1 : Waiting'[i] = Waiting[i + 1]
      BY <1>1, <1>3, <1>5
    <2> QED
      BY <1>4, <2>2, <2>3, SameSequence
  <1>7. Waiting # << >> /\ Head(Waiting) = ring[tail]
    <2>1. tail + 1 - 1 = tail /\ 1 \in 1 .. count /\ Slot(tail) = tail
      BY <1>0, SlotFact
    <2> QED
      BY <1>0, <1>2, <2>1
  <1>8. uipc # "freed" /\ UNCHANGED <<uipc, rest>>
    BY DEF PopByte, ControlInv, NoFreeUnderWorker
  <1>9. popped' = Append(popped, ring[tail])
    BY DEF PopByte
  <1> QED
    BY <1>6, <1>7, <1>8, <1>9 DEF Stream!Consume

LEMMA JoinHandsBack ==
    ASSUME TypeInv, FinishJoined
    PROVE  Stream!HandBack
  <1>1. count' = 0 /\ uipc = "join" /\ uipc' = "freed" /\ rest' \in {Waiting, << >>} /\ UNCHANGED popped
    BY DEF FinishJoined, Drained
  <1>2. Waiting' = << >>
    BY <1>1 DEF Waiting
  <1> QED
    BY <1>1, <1>2 DEF Stream!HandBack

(* Whatever the two threads do, the bytes accepted are taken in order, each *)
(* once, and the rest is handed back: the ring, its cursors and its locks   *)
(* implement ByteStream (zmodem_recv.h's account of push, finish and tail). *)
THEOREM RingImplementsStream == Spec => StreamSpec
  <1>1. Init => Stream!Init
    <2> SUFFICES ASSUME Init PROVE Stream!Init
      OBVIOUS
    <2>1. count = 0 /\ popped = << >> /\ rest = << >> /\ uipc = "idle"
      BY DEF Init
    <2>2. Waiting = << >>
      BY <2>1 DEF Waiting
    <2> QED
      BY <2>1, <2>2 DEF Stream!Init
  <1>2. /\ TypeInv /\ TypeInv' /\ ControlInv /\ HeadFollows /\ [Next]_vars
        => [Stream!Next]_(Stream!streamVars)
    <2> SUFFICES ASSUME TypeInv, TypeInv', ControlInv, HeadFollows, [Next]_vars
                 PROVE  Stream!Next \/ UNCHANGED <<Waiting, popped, rest, uipc = "freed">>
      BY DEF Stream!streamVars
    <2>1. CASE PushCopy
      BY <2>1, PushAccepts DEF Stream!Next
    <2>2. CASE PopByte
      BY <2>2, PopConsumes DEF Stream!Next
    <2>3. CASE FinishJoined
      BY <2>3, JoinHandsBack DEF Stream!Next
    <2>4. CASE UNCHANGED <<ring, tail, count, popped, rest>> /\ (uipc = "freed" <=> uipc' = "freed")
      <3>1. Waiting' = Waiting
        BY <2>4 DEF Waiting
      <3> QED
        BY <2>4, <3>1
    <2> QED
      BY <2>1, <2>2, <2>3, <2>4
      DEF Next, UiNext, WorkerNext, RingPop, PushBegin, PushWait, Cancel, FinishBegin, FinishTimeout,
          RecvCancelled, RecvBegin, PopEmpty, PopGiveUp, PopWait, WorkerDone,
          vars, ringVars, histVars
  <1>3. Spec => []HeadFollows
    BY TypeInit, TypeStep, HeadInit, HeadStep, PTL DEF Spec
  <1> QED
    BY <1>1, <1>2, <1>3, ControlAlways, PTL DEF Spec, StreamSpec, Stream!Spec

-------------------------------------------------------------------------------
(* The option parser.  A chunk is parsed byte by byte, wherever it is cut.   *)

LEMMA LeastNumber ==
    ASSUME NEW T \in SUBSET Nat, T # {}
    PROVE  \E s \in T : \A t \in T : s <= t
<1> DEFINE R == {ss \in Nat \X Nat : ss[1] < ss[2]}
<1>1. IsWellFoundedOn(R, Nat)
  BY NatLessThanWellFounded, Zenon DEF OpToRel
<1> HIDE DEF R
<1>2. PICK s \in T : \A t \in T : ~ (<<t, s>> \in R)
  BY <1>1, WFMin
<1>3. \A t \in T : t \in Nat /\ s \in Nat /\ ~ (t < s)
  BY <1>2 DEF R
<1>4. QED
  BY <1>2, <1>3

\* A set of numbers that has 0 and, below n, with each the next, has all up to n.
LEMMA CountsUp ==
    ASSUME NEW n \in Nat, NEW T, 0 \in T, \A i \in 0 .. n : i \in T /\ i < n => i + 1 \in T
    PROVE  \A i \in 0 .. n : i \in T
<1> SUFFICES ASSUME NEW m \in 0 .. n, m \notin T PROVE FALSE
  OBVIOUS
<1> DEFINE M == {i \in 0 .. n : i \notin T}
<1>1. M \in SUBSET Nat /\ M # {}
  OBVIOUS
<1> HIDE DEF M
<1>2. PICK s \in M : \A t \in M : s <= t
  BY <1>1, LeastNumber
<1>3. s \in 0 .. n /\ s \notin T /\ s # 0
  BY <1>2 DEF M
<1>4. s - 1 \in 0 .. n /\ s - 1 < n /\ s - 1 < s /\ s = (s - 1) + 1
  BY <1>3
<1>5. s - 1 \notin M
  BY <1>1, <1>2, <1>4
<1>6. s - 1 \in T
  BY <1>4, <1>5 DEF M
<1>7. QED
  BY <1>3, <1>4, <1>6

\* The parser's state before, between and after the bytes.
Trace(g, s, bytes, n) == g = [i \in 0 .. n |-> IF i = 0 THEN s ELSE Step(g[i - 1], bytes[i])]

LEMMA TraceIs ==
    ASSUME NEW g, NEW s, NEW bytes, NEW n \in Nat, Trace(g, s, bytes, n)
    PROVE  g[0] = s /\ \A i \in 0 .. n : i < n => g[i + 1] = Step(g[i], bytes[i + 1])
<1>1. \A i \in 0 .. n : g[i] = IF i = 0 THEN s ELSE Step(g[i - 1], bytes[i])
  BY DEF Trace
<1>2. ASSUME NEW i \in 0 .. n, i < n PROVE g[i + 1] = Step(g[i], bytes[i + 1])
  <2>1. i + 1 \in 0 .. n /\ i + 1 # 0 /\ (i + 1) - 1 = i
    BY <1>2
  <2>2. QED
    BY <1>1, <2>1
<1>3. g[0] = s
  BY <1>1
<1>4. QED
  BY <1>2, <1>3

LEMMA TraceOf ==
    ASSUME NEW g, NEW s, NEW bytes, NEW n \in Nat, g = [i \in 0 .. n |-> g[i]],
           g[0] = s, \A i \in 0 .. n : i < n => g[i + 1] = Step(g[i], bytes[i + 1])
    PROVE  Trace(g, s, bytes, n)
<1>1. ASSUME NEW i \in 0 .. n PROVE g[i] = IF i = 0 THEN s ELSE Step(g[i - 1], bytes[i])
  <2>1. CASE i = 0
    BY <2>1
  <2>2. CASE i # 0
    <3>1. i - 1 \in 0 .. n /\ i - 1 < n /\ (i - 1) + 1 = i
      BY <2>2
    <3>2. QED
      BY <2>2, <3>1
  <2>3. QED
    BY <2>1, <2>2
<1>2. QED
  BY <1>1 DEF Trace

\* There is such a trace, and only one.
LEMMA TraceExists ==
    ASSUME NEW s, NEW bytes, NEW n \in Nat
    PROVE  \E g : Trace(g, s, bytes, n)
<1> DEFINE T == {m \in 0 .. n : \E g : Trace(g, s, bytes, m)}
<1>1. 0 \in T
  <2> DEFINE g == [i \in 0 .. 0 |-> s]
  <2>1. Trace(g, s, bytes, 0)
    <3>1. g = [i \in 0 .. 0 |-> g[i]] /\ g[0] = s
      OBVIOUS
    <3>2. 0 \in Nat /\ \A i \in 0 .. 0 : ~(i < 0)
      OBVIOUS
    <3> HIDE DEF g
    <3>3. QED
      BY <3>1, <3>2, TraceOf
  <2>2. QED
    BY <2>1
<1>2. ASSUME NEW m \in 0 .. n, m \in T, m < n PROVE m + 1 \in T
  <2>1. PICK g : Trace(g, s, bytes, m)
    BY <1>2
  <2>2. g[0] = s /\ \A i \in 0 .. m : i < m => g[i + 1] = Step(g[i], bytes[i + 1])
    BY <2>1, TraceIs
  <2> DEFINE h == [i \in 0 .. m + 1 |-> IF i <= m THEN g[i] ELSE Step(g[m], bytes[m + 1])]
  <2>3. h = [i \in 0 .. m + 1 |-> h[i]] /\ h[0] = s
    BY <2>2
  <2>4. \A i \in 0 .. m : h[i] = g[i]
    OBVIOUS
  <2>5. h[m + 1] = Step(g[m], bytes[m + 1])
    OBVIOUS
  <2> HIDE DEF h
  <2>6. ASSUME NEW i \in 0 .. m + 1, i < m + 1 PROVE h[i + 1] = Step(h[i], bytes[i + 1])
    <3>1. CASE i = m
      BY <2>4, <2>5, <3>1
    <3>2. CASE i # m
      <4>1. i \in 0 .. m /\ i < m /\ i + 1 \in 0 .. m
        BY <2>6, <3>2
      <4>2. QED
        BY <2>2, <2>4, <4>1
    <3>3. QED
      BY <3>1, <3>2
  <2>7. Trace(h, s, bytes, m + 1)
    <3>1. m + 1 \in Nat
      OBVIOUS
    <3>2. QED
      BY <2>3, <2>6, <3>1, TraceOf
  <2>8. QED
    BY <1>2, <2>7
<1> HIDE DEF T
<1>3. n \in T
  BY <1>1, <1>2, CountsUp
<1>4. QED
  BY <1>3 DEF T

LEMMA TraceUnique ==
    ASSUME NEW s, NEW bytes, NEW n \in Nat, NEW g, NEW h,
           Trace(g, s, bytes, n), Trace(h, s, bytes, n)
    PROVE  \A i \in 0 .. n : g[i] = h[i]
<1> DEFINE T == {i \in 0 .. n : g[i] = h[i]}
<1>1. /\ g[0] = s /\ \A i \in 0 .. n : i < n => g[i + 1] = Step(g[i], bytes[i + 1])
      /\ h[0] = s /\ \A i \in 0 .. n : i < n => h[i + 1] = Step(h[i], bytes[i + 1])
  BY TraceIs
<1>2. 0 \in T
  BY <1>1
<1>3. \A i \in 0 .. n : i \in T /\ i < n => i + 1 \in T
  BY <1>1
<1> HIDE DEF T
<1>4. \A i \in 0 .. n : i \in T
  BY <1>2, <1>3, CountsUp
<1>5. QED
  BY <1>4 DEF T

LEMMA ParsedIs ==
    ASSUME NEW s, NEW bytes, NEW n \in Nat, n = Len(bytes), NEW g, Trace(g, s, bytes, n)
    PROVE  Parsed(s, bytes) = g[n]
<1> DEFINE after[i \in 0 .. Len(bytes)] == IF i = 0 THEN s ELSE Step(after[i - 1], bytes[i])
<1>1. \E f : f = [i \in 0 .. Len(bytes) |-> IF i = 0 THEN s ELSE Step(f[i - 1], bytes[i])]
  BY DEF Trace
<1>2. after = [i \in 0 .. Len(bytes) |-> IF i = 0 THEN s ELSE Step(after[i - 1], bytes[i])]
  BY <1>1 DEF after
<1>3. Parsed(s, bytes) = after[Len(bytes)]
  BY DEF Parsed
<1> HIDE DEF after
<1>4. Trace(after, s, bytes, n)
  BY <1>2 DEF Trace
<1>5. n \in 0 .. n /\ \A i \in 0 .. n : after[i] = g[i]
  BY <1>4, TraceUnique
<1>6. QED
  BY <1>3, <1>5

\* No byte, one byte, and two pieces: the cut between them makes no difference.
LEMMA ParsedNone == ASSUME NEW s PROVE Parsed(s, <<>>) = s
<1>1. Len(<<>>) = 0 /\ Len(<<>>) \in Nat
  OBVIOUS
<1>2. PICK g : Trace(g, s, <<>>, Len(<<>>))
  BY <1>1, TraceExists
<1>3. g[0] = s
  BY <1>1, <1>2, TraceIs
<1>4. QED
  BY <1>1, <1>2, <1>3, ParsedIs

LEMMA ParsedOne == ASSUME NEW s, NEW b PROVE Parsed(s, <<b>>) = Step(s, b)
<1> DEFINE one == <<b>>
<1>1. Len(one) = 1 /\ one[1] = b
  OBVIOUS
<1> HIDE DEF one
<1>2. PICK g : Trace(g, s, one, 1)
  BY TraceExists
<1>3. g[0] = s /\ g[0 + 1] = Step(g[0], one[0 + 1])
  BY <1>2, TraceIs
<1>4. 1 \in Nat /\ Parsed(s, one) = g[1]
  BY <1>1, <1>2, ParsedIs
<1>5. QED
  BY <1>1, <1>3, <1>4 DEF one

LEMMA ParsedJoined ==
    ASSUME NEW S, NEW a \in Seq(S), NEW b \in Seq(S), NEW s
    PROVE  Parsed(s, a \o b) = Parsed(Parsed(s, a), b)
<1> DEFINE c == a \o b
           m == Len(a)
           n == Len(b)
<1>1. /\ m \in Nat /\ n \in Nat /\ Len(c) = m + n
      /\ \A i \in 1 .. m : c[i] = a[i]
      /\ \A i \in 1 .. n : c[m + i] = b[i]
  OBVIOUS
<1> DEFINE k == m + n
<1>0. k \in Nat /\ k = Len(c)
  BY <1>1
<1> HIDE DEF c, k, m, n
<1>2. PICK g : Trace(g, s, c, k)
  BY <1>0, TraceExists
<1>3. g[0] = s /\ \A i \in 0 .. k : i < k => g[i + 1] = Step(g[i], c[i + 1])
  BY <1>0, <1>2, TraceIs
<1> DEFINE f == [i \in 0 .. m |-> g[i]]
           h == [i \in 0 .. n |-> g[m + i]]
<1>4. /\ f = [i \in 0 .. m |-> f[i]] /\ \A i \in 0 .. m : f[i] = g[i]
      /\ h = [i \in 0 .. n |-> h[i]] /\ \A i \in 0 .. n : h[i] = g[m + i]
  OBVIOUS
<1> HIDE DEF f, h
<1>5. Parsed(s, a) = g[m]
  <2>1. f[0] = s
    BY <1>1, <1>3, <1>4
  <2>2. ASSUME NEW i \in 0 .. m, i < m PROVE f[i + 1] = Step(f[i], a[i + 1])
    <3>1. i \in 0 .. k /\ i < k /\ i + 1 \in 0 .. m /\ i + 1 \in 1 .. m
      BY <1>1, <2>2 DEF k
    <3>2. QED
      BY <1>1, <1>3, <1>4, <3>1
  <2>3. Trace(f, s, a, m)
    BY <1>1, <1>4, <2>1, <2>2, TraceOf
  <2>4. m \in 0 .. m
    BY <1>1
  <2>5. m = Len(a)
    BY DEF m
  <2>6. Parsed(s, a) = f[m]
    BY <1>1, <2>3, <2>5, ParsedIs
  <2>7. QED
    BY <1>4, <2>4, <2>6
<1>6. Parsed(g[m], b) = g[k]
  <2>1. h[0] = g[m]
    <3>1. 0 \in 0 .. n /\ m + 0 = m
      BY <1>1
    <3>2. QED
      BY <1>4, <3>1
  <2>2. ASSUME NEW i \in 0 .. n, i < n PROVE h[i + 1] = Step(h[i], b[i + 1])
    <3>1. /\ m + i \in 0 .. k /\ m + i < k /\ i + 1 \in 0 .. n /\ i + 1 \in 1 .. n
          /\ m + (i + 1) = (m + i) + 1
      BY <1>1, <2>2 DEF k
    <3>2. h[i + 1] = g[(m + i) + 1] /\ h[i] = g[m + i] /\ c[(m + i) + 1] = b[i + 1]
      BY <1>1, <1>4, <3>1
    <3>3. QED
      BY <1>3, <3>1, <3>2
  <2>3. Trace(h, g[m], b, n)
    BY <1>1, <1>4, <2>1, <2>2, TraceOf
  <2>4. n \in 0 .. n
    BY <1>1
  <2>5. n = Len(b)
    BY DEF n
  <2>6. Parsed(g[m], b) = h[n]
    BY <1>1, <2>3, <2>5, ParsedIs
  <2>7. QED
    BY <1>4, <2>4, <2>6 DEF k
<1>7. Parsed(s, c) = g[k]
  BY <1>0, <1>2, ParsedIs
<1>8. QED
  BY <1>5, <1>6, <1>7 DEF c

\* What the parser is fed, what it is, and what it hands on.
Symbols == {"IAC", "SB", "SE", "NOP", "SEND", "d"} \cup Verbs \cup Options
Answered == (Verbs \cup {"SB"}) \X Symbols
Parsers == [is : {"NORMAL", "IAC", "VERB", "SB", "SB_IAC"}, verb : Verbs \cup {"none"}, sb : Seq(Symbols), echo : BOOLEAN]
States == {s \in [p : Parsers, out : Seq(Symbols), back : Seq(Answered)] : s.p.is = "VERB" => s.p.verb \in Verbs}

\* The state q of a parser that has handed on o and a before.
After(o, a, q) == [p |-> q.p, out |-> o \o q.out, back |-> a \o q.back]

LEMMA AnswersType ==
    ASSUME NEW verb \in Verbs, NEW opt \in Symbols
    PROVE  Answers(verb, opt) \in Seq(Answered)
<1>1. \A v \in Verbs \cup {"SB"} : <<v, opt>> \in Answered
  BY DEF Answered
<1>2. <<"SB", "NAWS">> \in Answered
  BY DEF Answered, Symbols, Options
<1>3. \A v \in Verbs \cup {"SB"} : <<<<v, opt>>>> \in Seq(Answered)
  BY <1>1
<1>4. <<<<"SB", "NAWS">>>> \in Seq(Answered)
  BY <1>2
<1>5. {"WILL", "WONT", "DO", "DONT"} \subseteq Verbs
  BY DEF Verbs
<1>6. CASE verb = "DO"
  <2> DEFINE v == IF opt \in Accepted_Do THEN "WILL" ELSE "WONT"
             more == IF opt = "NAWS" THEN <<<<"SB", "NAWS">>>> ELSE <<>>
  <2>1. v \in Verbs /\ more \in Seq(Answered)
    BY <1>4, <1>5
  <2>2. Answers(verb, opt) = <<<<v, opt>>>> \o more
    BY <1>6 DEF Answers
  <2> HIDE DEF v, more
  <2>3. <<<<v, opt>>>> \in Seq(Answered)
    BY <1>3, <2>1
  <2>4. QED
    BY <2>1, <2>2, <2>3
<1>7. CASE verb # "DO"
  BY <1>3, <1>5, <1>7 DEF Answers, Verbs
<1>8. QED
  BY <1>6, <1>7


St(is, v, sb, e, o, a) == [p |-> [is |-> is, verb |-> v, sb |-> sb, echo |-> e], out |-> o, back |-> a]
Kept(sb, b) == IF Len(sb) < SbMax THEN Append(sb, b) ELSE sb

\* One byte in each of the parser's states.
LEMMA StepIs ==
    ASSUME NEW v, NEW sb, NEW e, NEW o, NEW a, NEW b
    PROVE  /\ b = "IAC" => Step(St("NORMAL", v, sb, e, o, a), b) = St("IAC", v, sb, e, o, a)
           /\ b # "IAC" => Step(St("NORMAL", v, sb, e, o, a), b) = St("NORMAL", v, sb, e, Append(o, b), a)
           /\ b = "IAC" => Step(St("IAC", v, sb, e, o, a), b) = St("NORMAL", v, sb, e, Append(o, b), a)
           /\ b \in Verbs => Step(St("IAC", v, sb, e, o, a), b) = St("VERB", b, sb, e, o, a)
           /\ b = "SB" => Step(St("IAC", v, sb, e, o, a), b) = St("SB", v, <<>>, e, o, a)
           /\ b \notin Verbs \cup {"IAC", "SB"} =>
                Step(St("IAC", v, sb, e, o, a), b) = St("NORMAL", v, sb, e, o, a)
           /\ Step(St("VERB", v, sb, e, o, a), b) = St("NORMAL", v, sb, EchoAfter(v, b, e), o, a \o Answers(v, b))
           /\ b = "IAC" => Step(St("SB", v, sb, e, o, a), b) = St("SB_IAC", v, sb, e, o, a)
           /\ b # "IAC" => Step(St("SB", v, sb, e, o, a), b) = St("SB", v, Kept(sb, b), e, o, a)
           /\ b = "SE" => Step(St("SB_IAC", v, sb, e, o, a), b)
                          = St("NORMAL", v, <<>>, e, o, IF IsSend(sb) THEN a \o <<<<"SB", "TTYPE">>>> ELSE a)
           /\ b = "IAC" => Step(St("SB_IAC", v, sb, e, o, a), b) = St("SB", v, Kept(sb, b), e, o, a)
           /\ b \notin {"SE", "IAC"} => Step(St("SB_IAC", v, sb, e, o, a), b) = St("NORMAL", v, <<>>, e, o, a)
<1>1. /\ b = "IAC" => Step(St("NORMAL", v, sb, e, o, a), b) = St("IAC", v, sb, e, o, a)
      /\ b # "IAC" => Step(St("NORMAL", v, sb, e, o, a), b) = St("NORMAL", v, sb, e, Append(o, b), a)
  BY DEF Step, St, Goto, Emit
<1>2. /\ b = "IAC" => Step(St("IAC", v, sb, e, o, a), b) = St("NORMAL", v, sb, e, Append(o, b), a)
      /\ b \in Verbs => Step(St("IAC", v, sb, e, o, a), b) = St("VERB", b, sb, e, o, a)
      /\ b = "SB" => Step(St("IAC", v, sb, e, o, a), b) = St("SB", v, <<>>, e, o, a)
      /\ b \notin Verbs \cup {"IAC", "SB"} => Step(St("IAC", v, sb, e, o, a), b) = St("NORMAL", v, sb, e, o, a)
  BY DEF Step, AfterIac, St, Goto, Emit, Verbs
<1>3. Step(St("VERB", v, sb, e, o, a), b) = St("NORMAL", v, sb, EchoAfter(v, b, e), o, a \o Answers(v, b))
  BY DEF Step, AfterVerb, St, Goto, Reply
<1>4. /\ b = "IAC" => Step(St("SB", v, sb, e, o, a), b) = St("SB_IAC", v, sb, e, o, a)
      /\ b # "IAC" => Step(St("SB", v, sb, e, o, a), b) = St("SB", v, Kept(sb, b), e, o, a)
  BY DEF Step, InSb, SbAppend, Kept, St, Goto
<1>5. /\ b = "SE" => Step(St("SB_IAC", v, sb, e, o, a), b)
                     = St("NORMAL", v, <<>>, e, o, IF IsSend(sb) THEN a \o <<<<"SB", "TTYPE">>>> ELSE a)
      /\ b = "IAC" => Step(St("SB_IAC", v, sb, e, o, a), b) = St("SB", v, Kept(sb, b), e, o, a)
      /\ b \notin {"SE", "IAC"} => Step(St("SB_IAC", v, sb, e, o, a), b) = St("NORMAL", v, <<>>, e, o, a)
  BY DEF Step, AfterSbIac, SbAppend, Kept, St, Goto, Reply
<1>6. QED
  BY <1>1, <1>2, <1>3, <1>4, <1>5

LEMMA StShape ==
    ASSUME NEW q \in States
    PROVE  /\ q = St(q.p.is, q.p.verb, q.p.sb, q.p.echo, q.out, q.back)
           /\ q.p.is \in {"NORMAL", "IAC", "VERB", "SB", "SB_IAC"} /\ q.p.verb \in Verbs \cup {"none"}
           /\ q.p.sb \in Seq(Symbols) /\ q.p.echo \in BOOLEAN /\ q.out \in Seq(Symbols)
           /\ q.back \in Seq(Answered) /\ (q.p.is = "VERB" => q.p.verb \in Verbs)
BY DEF States, Parsers, St

LEMMA StType ==
    ASSUME NEW is \in {"NORMAL", "IAC", "VERB", "SB", "SB_IAC"}, NEW v \in Verbs \cup {"none"},
           NEW sb \in Seq(Symbols), NEW e \in BOOLEAN, NEW o \in Seq(Symbols), NEW a \in Seq(Answered),
           is = "VERB" => v \in Verbs
    PROVE  St(is, v, sb, e, o, a) \in States
<1>1. [is |-> is, verb |-> v, sb |-> sb, echo |-> e] \in Parsers
  BY DEF Parsers
<1>2. QED
  BY <1>1 DEF States, St

LEMMA StepType == ASSUME NEW q \in States, NEW b \in Symbols PROVE Step(q, b) \in States
<1> DEFINE v == q.p.verb
           sb == q.p.sb
           e == q.p.echo
           o == q.out
           a == q.back
           asked == a \o <<<<"SB", "TTYPE">>>>
           Fits(t) == t \in States
<1>1. /\ q = St(q.p.is, v, sb, e, o, a) /\ q.p.is \in {"NORMAL", "IAC", "VERB", "SB", "SB_IAC"}
      /\ v \in Verbs \cup {"none"} /\ sb \in Seq(Symbols) /\ e \in BOOLEAN /\ o \in Seq(Symbols)
      /\ a \in Seq(Answered) /\ (q.p.is = "VERB" => v \in Verbs)
  BY StShape
<1>2. asked \in Seq(Answered)
  <2>1. <<"SB", "TTYPE">> \in Answered
    BY DEF Answered, Symbols, Options
  <2>2. QED
    BY <1>1, <2>1
<1>3. b = "SE" => Step(St("SB_IAC", v, sb, e, o, a), b) = St("NORMAL", v, <<>>, e, o, IF IsSend(sb) THEN asked ELSE a)
  BY StepIs
<1> HIDE DEF v, sb, e, o, a, asked
<1>4. /\ Append(o, b) \in Seq(Symbols) /\ <<>> \in Seq(Symbols)
  BY <1>1
<1>5. Kept(sb, b) \in Seq(Symbols)
  BY <1>1 DEF Kept
<1>6. CASE q.p.is = "NORMAL"
  <2>1. Fits(St("IAC", v, sb, e, o, a))
    BY <1>1, StType
  <2>2. Fits(St("NORMAL", v, sb, e, Append(o, b), a))
    BY <1>1, <1>4, StType
  <2> HIDE DEF Fits
  <2>3. Fits(Step(q, b))
    BY <1>1, <1>6, <2>1, <2>2, StepIs
  <2>4. QED
    BY <2>3 DEF Fits
<1>7. CASE q.p.is = "IAC"
  <2>1. Fits(St("NORMAL", v, sb, e, o, a)) /\ Fits(St("SB", v, <<>>, e, o, a))
    BY <1>1, <1>4, StType
  <2>2. Fits(St("NORMAL", v, sb, e, Append(o, b), a))
    BY <1>1, <1>4, StType
  <2>3. b \in Verbs => Fits(St("VERB", b, sb, e, o, a))
    BY <1>1, StType
  <2> HIDE DEF Fits
  <2>4. Fits(Step(q, b))
    BY <1>1, <1>7, <2>1, <2>2, <2>3, StepIs
  <2>5. QED
    BY <2>4 DEF Fits
<1>8. CASE q.p.is = "VERB"
  <2>1. v \in Verbs /\ Step(q, b) = St("NORMAL", v, sb, EchoAfter(v, b, e), o, a \o Answers(v, b))
    BY <1>1, <1>8, StepIs
  <2>2. Answers(v, b) \in Seq(Answered)
    BY <2>1, AnswersType
  <2>3. EchoAfter(v, b, e) \in BOOLEAN
    BY <1>1 DEF EchoAfter
  <2>4. a \o Answers(v, b) \in Seq(Answered)
    BY <1>1, <2>2
  <2> HIDE DEF Fits
  <2>5. St("NORMAL", v, sb, EchoAfter(v, b, e), o, a \o Answers(v, b)) \in States
    BY <1>1, <2>3, <2>4, StType
  <2>6. QED
    BY <2>1, <2>5
<1>9. CASE q.p.is = "SB"
  <2>1. Fits(St("SB_IAC", v, sb, e, o, a))
    BY <1>1, StType
  <2>2. Fits(St("SB", v, Kept(sb, b), e, o, a))
    BY <1>1, <1>5, StType
  <2> HIDE DEF Fits
  <2>3. Fits(Step(q, b))
    BY <1>1, <1>9, <2>1, <2>2, StepIs
  <2>4. QED
    BY <2>3 DEF Fits
<1>10. CASE q.p.is = "SB_IAC"
  <2>1. Fits(St("NORMAL", v, <<>>, e, o, a)) /\ Fits(St("NORMAL", v, <<>>, e, o, asked))
    BY <1>1, <1>2, <1>4, StType
  <2>2. Fits(St("SB", v, Kept(sb, b), e, o, a))
    BY <1>1, <1>5, StType
  <2>3. CASE b = "SE"
    <3> DEFINE g == IF IsSend(sb) THEN asked ELSE a
    <3>1. g \in {asked, a}
      OBVIOUS
    <3>2. Step(q, b) = St("NORMAL", v, <<>>, e, o, g)
      BY <1>1, <1>3, <1>10, <2>3
    <3> HIDE DEF g, Fits
    <3>3. Fits(St("NORMAL", v, <<>>, e, o, g))
      BY <2>1, <3>1
    <3>4. QED
      BY <3>2, <3>3 DEF Fits
  <2>4. CASE b # "SE"
    <3> HIDE DEF Fits
    <3>1. Fits(Step(q, b))
      BY <1>1, <1>10, <2>1, <2>2, <2>4, StepIs
    <3>2. QED
      BY <3>1 DEF Fits
  <2>5. QED
    BY <2>3, <2>4
<1>11. QED
  BY <1>1, <1>6, <1>7, <1>8, <1>9, <1>10

\* It does not matter what was handed on before.
LEMMA StepAfter ==
    ASSUME NEW q \in States, NEW b \in Symbols, NEW o1 \in Seq(Symbols), NEW a1 \in Seq(Answered)
    PROVE  Step(After(o1, a1, q), b) = After(o1, a1, Step(q, b))
<1> DEFINE v == q.p.verb
           sb == q.p.sb
           e == q.p.echo
           o == q.out
           a == q.back
           o2 == o1 \o o
           a2 == a1 \o a
<1>1. /\ q = St(q.p.is, v, sb, e, o, a) /\ q.p.is \in {"NORMAL", "IAC", "VERB", "SB", "SB_IAC"}
      /\ o \in Seq(Symbols) /\ a \in Seq(Answered) /\ (q.p.is = "VERB" => v \in Verbs)
  BY StShape
<1>2. After(o1, a1, q) = St(q.p.is, v, sb, e, o2, a2)
  <2> HIDE DEF v, sb, e, o, a
  <2>1. q.p = [is |-> q.p.is, verb |-> v, sb |-> sb, echo |-> e]
    BY <1>1 DEF St, v, sb, e
  <2>2. QED
    BY <2>1 DEF After, St, o, a
<1>3. Append(o2, b) = o1 \o Append(o, b)
  <2> HIDE DEF o
  <2>1. <<b>> \in Seq(Symbols) /\ o1 \o o \in Seq(Symbols)
    BY <1>1
  <2>2. (o1 \o o) \o <<b>> = o1 \o (o \o <<b>>)
    BY <1>1, <2>1, ConcatAssociative
  <2>3. Append(o1 \o o, b) = (o1 \o o) \o <<b>> /\ Append(o, b) = o \o <<b>>
    BY <1>1, <2>1
  <2>4. QED
    BY <2>2, <2>3
<1>4. \A x \in Seq(Answered) : a2 \o x = a1 \o (a \o x)
  <2> SUFFICES ASSUME NEW x \in Seq(Answered) PROVE a2 \o x = a1 \o (a \o x)
    OBVIOUS
  <2> HIDE DEF a
  <2>1. QED
    BY <1>1, ConcatAssociative
<1>5. \A is, w, c, f, x, y : After(o1, a1, St(is, w, c, f, x, y)) = St(is, w, c, f, o1 \o x, a1 \o y)
  BY DEF After, St
<1>6. <<<<"SB", "TTYPE">>>> \in Seq(Answered)
  <2>1. <<"SB", "TTYPE">> \in Answered
    BY DEF Answered, Symbols, Options
  <2>2. QED
    BY <2>1
<1> DEFINE req == <<<<"SB", "TTYPE">>>>
<1>7. a2 \o req = a1 \o (a \o req)
  BY <1>4, <1>6
<1>8. CASE q.p.is = "NORMAL"
  <2> HIDE DEF v, sb, e, o, a, req
  <2>1. o2 = o1 \o o /\ a2 = a1 \o a
    OBVIOUS
  <2> HIDE DEF o2, a2
  <2>2. CASE b = "IAC"
    BY <1>1, <1>2, <1>5, <1>8, <2>1, <2>2, StepIs
  <2>3. CASE b # "IAC"
    <3>1. Step(q, b) = St("NORMAL", v, sb, e, Append(o, b), a)
      BY <1>1, <1>8, <2>3, StepIs
    <3>2. Step(After(o1, a1, q), b) = St("NORMAL", v, sb, e, Append(o2, b), a2)
      BY <1>2, <1>8, <2>3, StepIs
    <3>3. After(o1, a1, St("NORMAL", v, sb, e, Append(o, b), a)) = St("NORMAL", v, sb, e, o1 \o Append(o, b), a1 \o a)
      BY <1>5
    <3>4. QED
      BY <1>3, <2>1, <3>1, <3>2, <3>3
  <2>4. QED
    BY <2>2, <2>3
<1>9. CASE q.p.is = "IAC"
  <2> HIDE DEF v, sb, e, o, a, req
  <2>1. o2 = o1 \o o /\ a2 = a1 \o a
    OBVIOUS
  <2> HIDE DEF o2, a2
  <2>2. CASE b = "IAC"
    <3>1. Step(q, b) = St("NORMAL", v, sb, e, Append(o, b), a)
      BY <1>1, <1>9, <2>2, StepIs
    <3>2. Step(After(o1, a1, q), b) = St("NORMAL", v, sb, e, Append(o2, b), a2)
      BY <1>2, <1>9, <2>2, StepIs
    <3>3. After(o1, a1, St("NORMAL", v, sb, e, Append(o, b), a)) = St("NORMAL", v, sb, e, o1 \o Append(o, b), a1 \o a)
      BY <1>5
    <3>4. QED
      BY <1>3, <2>1, <3>1, <3>2, <3>3
  <2>3. CASE b \in Verbs
    BY <1>1, <1>2, <1>5, <1>9, <2>1, <2>3, StepIs
  <2>4. CASE b = "SB"
    BY <1>1, <1>2, <1>5, <1>9, <2>1, <2>4, StepIs
  <2>5. CASE b \notin Verbs \cup {"IAC", "SB"}
    BY <1>1, <1>2, <1>5, <1>9, <2>1, <2>5, StepIs
  <2>6. QED
    BY <2>2, <2>3, <2>4, <2>5
<1>10. CASE q.p.is = "VERB"
  <2>1. Answers(v, b) \in Seq(Answered)
    BY <1>1, <1>10, AnswersType
  <2>2. a2 \o Answers(v, b) = a1 \o (a \o Answers(v, b))
    BY <1>4, <2>1
  <2> HIDE DEF v, sb, e, o, a, req
  <2>3. o2 = o1 \o o /\ a2 = a1 \o a
    OBVIOUS
  <2> HIDE DEF o2, a2
  <2>4. Step(q, b) = St("NORMAL", v, sb, EchoAfter(v, b, e), o, a \o Answers(v, b))
    BY <1>1, <1>10, StepIs
  <2>5. Step(After(o1, a1, q), b) = St("NORMAL", v, sb, EchoAfter(v, b, e), o2, a2 \o Answers(v, b))
    BY <1>2, <1>10, StepIs
  <2>6. After(o1, a1, St("NORMAL", v, sb, EchoAfter(v, b, e), o, a \o Answers(v, b)))
        = St("NORMAL", v, sb, EchoAfter(v, b, e), o1 \o o, a1 \o (a \o Answers(v, b)))
    BY <1>5
  <2>7. QED
    BY <2>2, <2>3, <2>4, <2>5, <2>6
<1>11. CASE q.p.is = "SB"
  <2> HIDE DEF v, sb, e, o, a, req
  <2>1. o2 = o1 \o o /\ a2 = a1 \o a
    OBVIOUS
  <2> HIDE DEF o2, a2
  <2>2. CASE b = "IAC"
    BY <1>1, <1>2, <1>5, <1>11, <2>1, <2>2, StepIs
  <2>3. CASE b # "IAC"
    BY <1>1, <1>2, <1>5, <1>11, <2>1, <2>3, StepIs
  <2>4. QED
    BY <2>2, <2>3
<1>12. CASE q.p.is = "SB_IAC"
  <2>0. b = "SE" => /\ Step(q, b) = St("NORMAL", v, <<>>, e, o, IF IsSend(sb) THEN a \o req ELSE a)
                    /\ Step(After(o1, a1, q), b) = St("NORMAL", v, <<>>, e, o2, IF IsSend(sb) THEN a2 \o req ELSE a2)
    <3> HIDE DEF v, sb, e, o, a, o2, a2
    <3>1. QED
      BY <1>1, <1>2, <1>12, StepIs
  <2> HIDE DEF v, sb, e, o, a, req
  <2>1. o2 = o1 \o o /\ a2 = a1 \o a
    OBVIOUS
  <2> HIDE DEF o2, a2
  <2>2. CASE b = "IAC"
    BY <1>1, <1>2, <1>5, <1>12, <2>1, <2>2, StepIs
  <2>3. CASE b = "SE"
    BY <1>5, <1>7, <2>0, <2>1, <2>3
  <2>4. CASE b \notin {"SE", "IAC"}
    BY <1>1, <1>2, <1>5, <1>12, <2>1, <2>4, StepIs
  <2>5. QED
    BY <2>2, <2>3, <2>4
<1>13. QED
  BY <1>1, <1>8, <1>9, <1>10, <1>11, <1>12

\* The same of a whole sequence of bytes.
LEMMA ParsedType == ASSUME NEW q \in States, NEW bytes \in Seq(Symbols) PROVE Parsed(q, bytes) \in States
<1> DEFINE n == Len(bytes)
<1>1. n \in Nat /\ n = Len(bytes) /\ \A i \in 0 .. n : i < n => bytes[i + 1] \in Symbols
  OBVIOUS
<1> HIDE DEF n
<1>2. PICK g : Trace(g, q, bytes, n)
  BY <1>1, TraceExists
<1>3. g[0] = q /\ \A i \in 0 .. n : i < n => g[i + 1] = Step(g[i], bytes[i + 1])
  BY <1>1, <1>2, TraceIs
<1> DEFINE T == {i \in 0 .. n : g[i] \in States}
<1>4. 0 \in T
  BY <1>1, <1>3
<1>5. ASSUME NEW i \in 0 .. n, i \in T, i < n PROVE i + 1 \in T
  <2>1. g[i + 1] \in States
    BY <1>1, <1>3, <1>5, StepType
  <2>2. QED
    BY <1>1, <1>5, <2>1
<1> HIDE DEF T
<1>6. n \in 0 .. n /\ n \in T
  BY <1>1, <1>4, <1>5, CountsUp
<1>7. Parsed(q, bytes) = g[n]
  BY <1>1, <1>2, ParsedIs
<1>8. QED
  BY <1>6, <1>7 DEF T

LEMMA ParsedAfter ==
    ASSUME NEW q \in States, NEW bytes \in Seq(Symbols), NEW o \in Seq(Symbols), NEW a \in Seq(Answered)
    PROVE  Parsed(After(o, a, q), bytes) = After(o, a, Parsed(q, bytes))
<1> DEFINE n == Len(bytes)
           r == After(o, a, q)
<1>1. n \in Nat /\ n = Len(bytes) /\ \A i \in 0 .. n : i < n => bytes[i + 1] \in Symbols
  OBVIOUS
<1> HIDE DEF n, r
<1>2. PICK g : Trace(g, q, bytes, n)
  BY <1>1, TraceExists
<1>3. PICK h : Trace(h, r, bytes, n)
  BY <1>1, TraceExists
<1>4. /\ g[0] = q /\ \A i \in 0 .. n : i < n => g[i + 1] = Step(g[i], bytes[i + 1])
      /\ h[0] = r /\ \A i \in 0 .. n : i < n => h[i + 1] = Step(h[i], bytes[i + 1])
  <2>1. g[0] = q /\ \A i \in 0 .. n : i < n => g[i + 1] = Step(g[i], bytes[i + 1])
    BY <1>1, <1>2, TraceIs
  <2>2. h[0] = r /\ \A i \in 0 .. n : i < n => h[i + 1] = Step(h[i], bytes[i + 1])
    BY <1>1, <1>3, TraceIs
  <2>3. QED
    BY <2>1, <2>2
<1> DEFINE T == {i \in 0 .. n : g[i] \in States /\ h[i] = After(o, a, g[i])}
<1>5. 0 \in T
  BY <1>1, <1>4 DEF r
<1>6. ASSUME NEW i \in 0 .. n, i \in T, i < n PROVE i + 1 \in T
  <2>1. g[i + 1] \in States
    BY <1>1, <1>4, <1>6, StepType
  <2>2. h[i + 1] = After(o, a, g[i + 1])
    BY <1>1, <1>4, <1>6, StepAfter
  <2>3. QED
    BY <1>1, <1>6, <2>1, <2>2
<1> HIDE DEF T
<1>7. n \in 0 .. n /\ n \in T
  <2>1. \A i \in 0 .. n : i \in T /\ i < n => i + 1 \in T
    BY <1>6
  <2>2. \A i \in 0 .. n : i \in T
    BY <1>1, <1>5, <2>1, CountsUp
  <2>3. QED
    BY <1>1, <2>2
<1>8. Parsed(q, bytes) = g[n] /\ Parsed(r, bytes) = h[n]
  BY <1>1, <1>2, <1>3, ParsedIs
<1>9. QED
  BY <1>7, <1>8 DEF T, r

\* The units the server sends, to a parser between two units.
LEMMA ParsedMore ==
    ASSUME NEW bytes \in Seq(Symbols), NEW b \in Symbols, NEW q, NEW more, more = Append(bytes, b)
    PROVE  Parsed(q, more) = Step(Parsed(q, bytes), b)
<1>1. <<b>> \in Seq(Symbols) /\ more = bytes \o <<b>>
  OBVIOUS
<1>2. Parsed(q, bytes \o <<b>>) = Parsed(Parsed(q, bytes), <<b>>)
  BY <1>1, ParsedJoined
<1>3. QED
  BY <1>1, <1>2, ParsedOne

LEMMA ParsedVerb ==
    ASSUME NEW q, NEW v, NEW sb, NEW e, NEW o, NEW a, q = St("NORMAL", v, sb, e, o, a),
           NEW verb \in Verbs, NEW opt \in Options
    PROVE  Parsed(q, <<"IAC", verb, opt>>)
           = St("NORMAL", verb, sb, EchoAfter(verb, opt, e), o, a \o Answers(verb, opt))
<1>1. {"IAC", verb, opt} \subseteq Symbols
  BY DEF Symbols
<1>2. <<"IAC">> \in Seq(Symbols) /\ <<"IAC", verb>> \in Seq(Symbols)
  BY <1>1
<1>3. <<"IAC", verb>> = Append(<<"IAC">>, verb) /\ <<"IAC", verb, opt>> = Append(<<"IAC", verb>>, opt)
  OBVIOUS
<1>4. Parsed(q, <<"IAC">>) = St("IAC", v, sb, e, o, a)
  BY ParsedOne, StepIs
<1>5. Parsed(q, <<"IAC", verb>>) = St("VERB", verb, sb, e, o, a)
  <2>1. Parsed(q, <<"IAC", verb>>) = Step(Parsed(q, <<"IAC">>), verb)
    BY <1>1, <1>2, <1>3, ParsedMore
  <2>2. QED
    BY <1>4, <2>1, StepIs
<1>6. Parsed(q, <<"IAC", verb, opt>>) = Step(Parsed(q, <<"IAC", verb>>), opt)
  BY <1>1, <1>2, <1>3, ParsedMore
<1>7. QED
  BY <1>5, <1>6, StepIs

LEMMA ParsedData ==
    ASSUME NEW q, NEW v, NEW sb, NEW e, NEW o, NEW a, q = St("NORMAL", v, sb, e, o, a)
    PROVE  /\ \A b : b # "IAC" => Parsed(q, <<b>>) = St("NORMAL", v, sb, e, Append(o, b), a)
           /\ Parsed(q, <<"IAC", "IAC">>) = St("NORMAL", v, sb, e, Append(o, "IAC"), a)
           /\ Parsed(q, <<"IAC", "NOP">>) = q
<1>1. \A b : b # "IAC" => Parsed(q, <<b>>) = St("NORMAL", v, sb, e, Append(o, b), a)
  <2> SUFFICES ASSUME NEW b, b # "IAC" PROVE Parsed(q, <<b>>) = St("NORMAL", v, sb, e, Append(o, b), a)
    OBVIOUS
  <2>1. Parsed(q, <<b>>) = Step(q, b)
    BY ParsedOne
  <2>2. QED
    BY <2>1, StepIs
<1>2. Parsed(q, <<"IAC">>) = St("IAC", v, sb, e, o, a)
  BY ParsedOne, StepIs
<1>3. {"IAC", "NOP"} \subseteq Symbols /\ <<"IAC">> \in Seq(Symbols)
  BY DEF Symbols
<1>4. <<"IAC", "IAC">> = Append(<<"IAC">>, "IAC") /\ <<"IAC", "NOP">> = Append(<<"IAC">>, "NOP")
  OBVIOUS
<1>5. /\ Parsed(q, <<"IAC", "IAC">>) = Step(St("IAC", v, sb, e, o, a), "IAC")
      /\ Parsed(q, <<"IAC", "NOP">>) = Step(St("IAC", v, sb, e, o, a), "NOP")
  <2>1. Parsed(q, <<"IAC", "IAC">>) = Step(Parsed(q, <<"IAC">>), "IAC")
    BY <1>3, <1>4, ParsedMore
  <2>2. Parsed(q, <<"IAC", "NOP">>) = Step(Parsed(q, <<"IAC">>), "NOP")
    BY <1>3, <1>4, ParsedMore
  <2>3. QED
    BY <1>2, <2>1, <2>2
<1>6. "NOP" \notin Verbs \cup {"IAC", "SB"}
  BY DEF Verbs
<1>7. QED
  BY <1>1, <1>5, <1>6, StepIs

\* The body of a subnegotiation.
LEMMA KeptIs ==
    /\ \A b \in Symbols : Kept(<<>>, b) = <<b>>
    /\ Kept(<<"TTYPE">>, "SEND") = <<"TTYPE", "SEND">>
    /\ \A sb \in Seq(Symbols), b \in Symbols : Kept(sb, b) \in Seq(Symbols) /\ (sb # <<>> => Kept(sb, b) # <<>> /\ Kept(sb, b)[1] = sb[1])
<1>1. SbMax \in Nat /\ SbMax >= 2
  BY ParserAssumption
<1>2. \A b \in Symbols : Kept(<<>>, b) = <<b>>
  BY <1>1 DEF Kept
<1>3. Kept(<<"TTYPE">>, "SEND") = <<"TTYPE", "SEND">>
  <2>1. Len(<<"TTYPE">>) = 1
    OBVIOUS
  <2>2. <<"TTYPE", "SEND">> = Append(<<"TTYPE">>, "SEND")
    OBVIOUS
  <2>3. Len(<<"TTYPE">>) < SbMax
    BY <1>1, <2>1
  <2>4. QED
    BY <2>2, <2>3 DEF Kept
<1>4. ASSUME NEW sb \in Seq(Symbols), NEW b \in Symbols
      PROVE  Kept(sb, b) \in Seq(Symbols) /\ (sb # <<>> => Kept(sb, b) # <<>> /\ Kept(sb, b)[1] = sb[1])
  <2>1. Append(sb, b) \in Seq(Symbols)
    OBVIOUS
  <2>2. Len(Append(sb, b)) = Len(sb) + 1 /\ Len(sb) \in Nat
    OBVIOUS
  <2>3. Append(sb, b) # <<>>
    BY <2>2
  <2>4. sb # <<>> => Append(sb, b)[1] = sb[1]
    OBVIOUS
  <2>5. QED
    BY <2>1, <2>3, <2>4 DEF Kept
<1>5. QED
  BY <1>2, <1>3, <1>4

LEMMA ParsedSend ==
    ASSUME NEW q, NEW v, NEW sb, NEW e, NEW o, NEW a, q = St("NORMAL", v, sb, e, o, a)
    PROVE  Parsed(q, <<"IAC", "SB", "TTYPE", "SEND", "IAC", "SE">>)
           = St("NORMAL", v, <<>>, e, o, a \o <<<<"SB", "TTYPE">>>>)
<1> DEFINE u1 == <<"IAC">>
           u2 == <<"IAC", "SB">>
           u3 == <<"IAC", "SB", "TTYPE">>
           u4 == <<"IAC", "SB", "TTYPE", "SEND">>
           u5 == <<"IAC", "SB", "TTYPE", "SEND", "IAC">>
           u6 == <<"IAC", "SB", "TTYPE", "SEND", "IAC", "SE">>
<1>1. {"IAC", "SB", "TTYPE", "SEND", "SE"} \subseteq Symbols
  BY DEF Symbols, Options
<1>2. u1 \in Seq(Symbols) /\ u2 \in Seq(Symbols) /\ u3 \in Seq(Symbols) /\ u4 \in Seq(Symbols) /\ u5 \in Seq(Symbols)
  BY <1>1
<1>3. /\ u2 = Append(u1, "SB") /\ u3 = Append(u2, "TTYPE") /\ u4 = Append(u3, "SEND")
      /\ u5 = Append(u4, "IAC") /\ u6 = Append(u5, "SE")
  OBVIOUS
<1>4. Parsed(q, u1) = St("IAC", v, sb, e, o, a)
  BY ParsedOne, StepIs
<1> HIDE DEF u1, u2, u3, u4, u5, u6
<1>5. Parsed(q, u2) = St("SB", v, <<>>, e, o, a)
  <2>1. Parsed(q, u2) = Step(Parsed(q, u1), "SB")
    <3>1. u1 \in Seq(Symbols) /\ u2 = Append(u1, "SB") /\ "SB" \in Symbols
      BY <1>1, <1>2, <1>3
    <3>2. QED
      BY <3>1, ParsedMore
  <2>2. QED
    BY <1>4, <2>1, StepIs
<1>6. Parsed(q, u3) = St("SB", v, <<"TTYPE">>, e, o, a)
  <2>1. Parsed(q, u3) = Step(Parsed(q, u2), "TTYPE")
    <3>1. u2 \in Seq(Symbols) /\ u3 = Append(u2, "TTYPE") /\ "TTYPE" \in Symbols
      BY <1>1, <1>2, <1>3
    <3>2. QED
      BY <3>1, ParsedMore
  <2>2. QED
    BY <1>1, <1>5, <2>1, StepIs, KeptIs
<1>7. Parsed(q, u4) = St("SB", v, <<"TTYPE", "SEND">>, e, o, a)
  <2>1. Parsed(q, u4) = Step(Parsed(q, u3), "SEND")
    <3>1. u3 \in Seq(Symbols) /\ u4 = Append(u3, "SEND") /\ "SEND" \in Symbols
      BY <1>1, <1>2, <1>3
    <3>2. QED
      BY <3>1, ParsedMore
  <2>2. QED
    BY <1>6, <2>1, StepIs, KeptIs
<1>8. Parsed(q, u5) = St("SB_IAC", v, <<"TTYPE", "SEND">>, e, o, a)
  <2>1. Parsed(q, u5) = Step(Parsed(q, u4), "IAC")
    <3>1. u4 \in Seq(Symbols) /\ u5 = Append(u4, "IAC") /\ "IAC" \in Symbols
      BY <1>1, <1>2, <1>3
    <3>2. QED
      BY <3>1, ParsedMore
  <2>2. QED
    BY <1>7, <2>1, StepIs
<1>9. IsSend(<<"TTYPE", "SEND">>)
  BY DEF IsSend
<1>10. Parsed(q, u6) = St("NORMAL", v, <<>>, e, o, a \o <<<<"SB", "TTYPE">>>>)
  <2>1. Parsed(q, u6) = Step(Parsed(q, u5), "SE")
    <3>1. u5 \in Seq(Symbols) /\ u6 = Append(u5, "SE") /\ "SE" \in Symbols
      BY <1>1, <1>2, <1>3
    <3>2. QED
      BY <3>1, ParsedMore
  <2> DEFINE asked == a \o <<<<"SB", "TTYPE">>>>
  <2>2. Step(St("SB_IAC", v, <<"TTYPE", "SEND">>, e, o, a), "SE")
        = St("NORMAL", v, <<>>, e, o, IF IsSend(<<"TTYPE", "SEND">>) THEN asked ELSE a)
    BY StepIs
  <2> HIDE DEF asked
  <2>3. Parsed(q, u6) = St("NORMAL", v, <<>>, e, o, asked)
    BY <1>8, <1>9, <2>1, <2>2
  <2>4. QED
    BY <2>3 DEF asked
<1>11. QED
  BY <1>10 DEF u6

\* A body the parser does not know, longer than sb_buf or not, is skipped.
LEMMA ParsedOther ==
    ASSUME NEW q, NEW v, NEW sb, NEW e, NEW o, NEW a, q = St("NORMAL", v, sb, e, o, a)
    PROVE  Parsed(q, <<"IAC", "SB", "OTHER", "IAC", "IAC", "SE", "d", "IAC", "SE">>)
           = St("NORMAL", v, <<>>, e, o, a)
<1> DEFINE u1 == <<"IAC">>
           u2 == <<"IAC", "SB">>
           u3 == <<"IAC", "SB", "OTHER">>
           u4 == <<"IAC", "SB", "OTHER", "IAC">>
           u5 == <<"IAC", "SB", "OTHER", "IAC", "IAC">>
           u6 == <<"IAC", "SB", "OTHER", "IAC", "IAC", "SE">>
           u7 == <<"IAC", "SB", "OTHER", "IAC", "IAC", "SE", "d">>
           u8 == <<"IAC", "SB", "OTHER", "IAC", "IAC", "SE", "d", "IAC">>
           u9 == <<"IAC", "SB", "OTHER", "IAC", "IAC", "SE", "d", "IAC", "SE">>
           c1 == <<"OTHER">>
           c2 == Kept(c1, "IAC")
           c3 == Kept(c2, "SE")
           c4 == Kept(c3, "d")
<1>1. {"IAC", "OTHER", "SB", "SE", "d"} \subseteq Symbols
  BY DEF Symbols, Options, Verbs
<1>2. /\ u1 \in Seq(Symbols)
      /\ u2 \in Seq(Symbols)
      /\ u3 \in Seq(Symbols)
      /\ u4 \in Seq(Symbols)
      /\ u5 \in Seq(Symbols)
      /\ u6 \in Seq(Symbols)
      /\ u7 \in Seq(Symbols)
      /\ u8 \in Seq(Symbols)
  BY <1>1
<1>3. /\ u2 = Append(u1, "SB")
      /\ u3 = Append(u2, "OTHER")
      /\ u4 = Append(u3, "IAC")
      /\ u5 = Append(u4, "IAC")
      /\ u6 = Append(u5, "SE")
      /\ u7 = Append(u6, "d")
      /\ u8 = Append(u7, "IAC")
      /\ u9 = Append(u8, "SE")
  OBVIOUS
<1>4. Parsed(q, u1) = St("IAC", v, sb, e, o, a)
  BY ParsedOne, StepIs
<1>0. /\ Kept(<<>>, "OTHER") = c1 /\ Kept(c1, "IAC") = c2 /\ Kept(c2, "SE") = c3 /\ Kept(c3, "d") = c4
      /\ ~IsSend(c4) /\ "OTHER" # "IAC" /\ "SE" # "IAC" /\ "d" # "IAC"
  <2>1. Kept(<<>>, "OTHER") = c1
    BY <1>1, KeptIs
  <2>2. c1 \in Seq(Symbols) /\ c1 # <<>> /\ c1[1] = "OTHER"
    BY <1>1
  <2> HIDE DEF c1
  <2>3. c2 \in Seq(Symbols) /\ c2 # <<>> /\ c2[1] = "OTHER"
    BY <1>1, <2>2, KeptIs
  <2> HIDE DEF c2
  <2>4. c3 \in Seq(Symbols) /\ c3 # <<>> /\ c3[1] = "OTHER"
    BY <1>1, <2>3, KeptIs
  <2> HIDE DEF c3
  <2>5. c4 \in Seq(Symbols) /\ c4 # <<>> /\ c4[1] = "OTHER"
    BY <1>1, <2>4, KeptIs
  <2>6. ~IsSend(c4)
    BY <2>5 DEF IsSend
  <2>7. QED
    BY <2>1, <2>6 DEF c2, c3, c4
<1> HIDE DEF c1, c2, c3, c4
<1> HIDE DEF u1, u2, u3, u4, u5, u6, u7, u8, u9
<1>5. Parsed(q, u2) = St("SB", v, <<>>, e, o, a)
  <2>1. Parsed(q, u2) = Step(Parsed(q, u1), "SB")
    <3>1. u1 \in Seq(Symbols) /\ u2 = Append(u1, "SB") /\ "SB" \in Symbols
      BY <1>1, <1>2, <1>3
    <3>2. QED
      BY <3>1, ParsedMore
  <2>2. QED
    BY <1>0, <1>4, <2>1, StepIs
<1>6. Parsed(q, u3) = St("SB", v, c1, e, o, a)
  <2>1. Parsed(q, u3) = Step(Parsed(q, u2), "OTHER")
    <3>1. u2 \in Seq(Symbols) /\ u3 = Append(u2, "OTHER") /\ "OTHER" \in Symbols
      BY <1>1, <1>2, <1>3
    <3>2. QED
      BY <3>1, ParsedMore
  <2>2. QED
    BY <1>0, <1>5, <2>1, StepIs
<1>7. Parsed(q, u4) = St("SB_IAC", v, c1, e, o, a)
  <2>1. Parsed(q, u4) = Step(Parsed(q, u3), "IAC")
    <3>1. u3 \in Seq(Symbols) /\ u4 = Append(u3, "IAC") /\ "IAC" \in Symbols
      BY <1>1, <1>2, <1>3
    <3>2. QED
      BY <3>1, ParsedMore
  <2>2. QED
    BY <1>0, <1>6, <2>1, StepIs
<1>8. Parsed(q, u5) = St("SB", v, c2, e, o, a)
  <2>1. Parsed(q, u5) = Step(Parsed(q, u4), "IAC")
    <3>1. u4 \in Seq(Symbols) /\ u5 = Append(u4, "IAC") /\ "IAC" \in Symbols
      BY <1>1, <1>2, <1>3
    <3>2. QED
      BY <3>1, ParsedMore
  <2>2. QED
    BY <1>0, <1>7, <2>1, StepIs
<1>9. Parsed(q, u6) = St("SB", v, c3, e, o, a)
  <2>1. Parsed(q, u6) = Step(Parsed(q, u5), "SE")
    <3>1. u5 \in Seq(Symbols) /\ u6 = Append(u5, "SE") /\ "SE" \in Symbols
      BY <1>1, <1>2, <1>3
    <3>2. QED
      BY <3>1, ParsedMore
  <2>2. QED
    BY <1>0, <1>8, <2>1, StepIs
<1>10. Parsed(q, u7) = St("SB", v, c4, e, o, a)
  <2>1. Parsed(q, u7) = Step(Parsed(q, u6), "d")
    <3>1. u6 \in Seq(Symbols) /\ u7 = Append(u6, "d") /\ "d" \in Symbols
      BY <1>1, <1>2, <1>3
    <3>2. QED
      BY <3>1, ParsedMore
  <2>2. QED
    BY <1>0, <1>9, <2>1, StepIs
<1>11. Parsed(q, u8) = St("SB_IAC", v, c4, e, o, a)
  <2>1. Parsed(q, u8) = Step(Parsed(q, u7), "IAC")
    <3>1. u7 \in Seq(Symbols) /\ u8 = Append(u7, "IAC") /\ "IAC" \in Symbols
      BY <1>1, <1>2, <1>3
    <3>2. QED
      BY <3>1, ParsedMore
  <2>2. QED
    BY <1>0, <1>10, <2>1, StepIs
<1>12. Parsed(q, u9) = St("NORMAL", v, <<>>, e, o, a)
  <2>1. Parsed(q, u9) = Step(Parsed(q, u8), "SE")
    <3>1. u8 \in Seq(Symbols) /\ u9 = Append(u8, "SE") /\ "SE" \in Symbols
      BY <1>1, <1>2, <1>3
    <3>2. QED
      BY <3>1, ParsedMore
  <2>2. QED
    BY <1>0, <1>11, <2>1, StepIs
<1>13. QED
  BY <1>12 DEF u9

\* The command that breaks a subnegotiation off leaves its option in the payload.
LEMMA ParsedBroken ==
    ASSUME NEW q, NEW v, NEW sb, NEW e, NEW o, NEW a, q = St("NORMAL", v, sb, e, o, a)
    PROVE  Parsed(q, <<"IAC", "SB", "OTHER", "d", "IAC", "WILL", "ECHO">>)
           = St("NORMAL", v, <<>>, e, Append(o, "ECHO"), a)
<1> DEFINE u1 == <<"IAC">>
           u2 == <<"IAC", "SB">>
           u3 == <<"IAC", "SB", "OTHER">>
           u4 == <<"IAC", "SB", "OTHER", "d">>
           u5 == <<"IAC", "SB", "OTHER", "d", "IAC">>
           u6 == <<"IAC", "SB", "OTHER", "d", "IAC", "WILL">>
           u7 == <<"IAC", "SB", "OTHER", "d", "IAC", "WILL", "ECHO">>
           c1 == <<"OTHER">>
           c2 == Kept(c1, "d")
<1>1. {"ECHO", "IAC", "OTHER", "SB", "WILL", "d"} \subseteq Symbols
  BY DEF Symbols, Options, Verbs
<1>2. /\ u1 \in Seq(Symbols)
      /\ u2 \in Seq(Symbols)
      /\ u3 \in Seq(Symbols)
      /\ u4 \in Seq(Symbols)
      /\ u5 \in Seq(Symbols)
      /\ u6 \in Seq(Symbols)
  BY <1>1
<1>3. /\ u2 = Append(u1, "SB")
      /\ u3 = Append(u2, "OTHER")
      /\ u4 = Append(u3, "d")
      /\ u5 = Append(u4, "IAC")
      /\ u6 = Append(u5, "WILL")
      /\ u7 = Append(u6, "ECHO")
  OBVIOUS
<1>4. Parsed(q, u1) = St("IAC", v, sb, e, o, a)
  BY ParsedOne, StepIs
<1>0. Kept(<<>>, "OTHER") = c1 /\ Kept(c1, "d") = c2 /\ "OTHER" # "IAC" /\ "d" # "IAC" /\ "WILL" \notin {"SE", "IAC"} /\ "ECHO" # "IAC"
  BY <1>1, KeptIs
<1> HIDE DEF c1, c2
<1> HIDE DEF u1, u2, u3, u4, u5, u6, u7
<1>5. Parsed(q, u2) = St("SB", v, <<>>, e, o, a)
  <2>1. Parsed(q, u2) = Step(Parsed(q, u1), "SB")
    <3>1. u1 \in Seq(Symbols) /\ u2 = Append(u1, "SB") /\ "SB" \in Symbols
      BY <1>1, <1>2, <1>3
    <3>2. QED
      BY <3>1, ParsedMore
  <2>2. QED
    BY <1>0, <1>4, <2>1, StepIs
<1>6. Parsed(q, u3) = St("SB", v, c1, e, o, a)
  <2>1. Parsed(q, u3) = Step(Parsed(q, u2), "OTHER")
    <3>1. u2 \in Seq(Symbols) /\ u3 = Append(u2, "OTHER") /\ "OTHER" \in Symbols
      BY <1>1, <1>2, <1>3
    <3>2. QED
      BY <3>1, ParsedMore
  <2>2. QED
    BY <1>0, <1>5, <2>1, StepIs
<1>7. Parsed(q, u4) = St("SB", v, c2, e, o, a)
  <2>1. Parsed(q, u4) = Step(Parsed(q, u3), "d")
    <3>1. u3 \in Seq(Symbols) /\ u4 = Append(u3, "d") /\ "d" \in Symbols
      BY <1>1, <1>2, <1>3
    <3>2. QED
      BY <3>1, ParsedMore
  <2>2. QED
    BY <1>0, <1>6, <2>1, StepIs
<1>8. Parsed(q, u5) = St("SB_IAC", v, c2, e, o, a)
  <2>1. Parsed(q, u5) = Step(Parsed(q, u4), "IAC")
    <3>1. u4 \in Seq(Symbols) /\ u5 = Append(u4, "IAC") /\ "IAC" \in Symbols
      BY <1>1, <1>2, <1>3
    <3>2. QED
      BY <3>1, ParsedMore
  <2>2. QED
    BY <1>0, <1>7, <2>1, StepIs
<1>9. Parsed(q, u6) = St("NORMAL", v, <<>>, e, o, a)
  <2>1. Parsed(q, u6) = Step(Parsed(q, u5), "WILL")
    <3>1. u5 \in Seq(Symbols) /\ u6 = Append(u5, "WILL") /\ "WILL" \in Symbols
      BY <1>1, <1>2, <1>3
    <3>2. QED
      BY <3>1, ParsedMore
  <2>2. QED
    BY <1>0, <1>8, <2>1, StepIs
<1>10. Parsed(q, u7) = St("NORMAL", v, <<>>, e, Append(o, "ECHO"), a)
  <2>1. Parsed(q, u7) = Step(Parsed(q, u6), "ECHO")
    <3>1. u6 \in Seq(Symbols) /\ u7 = Append(u6, "ECHO") /\ "ECHO" \in Symbols
      BY <1>1, <1>2, <1>3
    <3>2. QED
      BY <3>1, ParsedMore
  <2>2. QED
    BY <1>0, <1>9, <2>1, StepIs
<1>11. QED
  BY <1>10 DEF u7

-------------------------------------------------------------------------------
(* The negotiation.  What counts is the parser's state once all that is on  *)
(* its way has arrived, with the answers it will have given by then.        *)

Statuses == {"off", "offered", "on"}
Proper ==
    ({"DO"} \X Accepted_Will) \cup ({"WILL"} \X Accepted_Do) \cup ({"DONT", "WONT"} \X Options)
    \cup ({"SB"} \X {"NAWS", "TTYPE"})
EchoAnswers == {<<"DO", "ECHO">>, <<"DONT", "ECHO">>}
Request == <<"SB", "TTYPE">>

Pending(answers, verbs, o) == \E i \in DOMAIN answers : answers[i][1] \in verbs /\ answers[i][2] = o
LastEcho(answers, e) ==
    \E i \in DOMAIN answers : /\ answers[i] \in EchoAnswers /\ (answers[i][1] = "DO" <=> e)
                              /\ \A j \in DOMAIN answers : answers[j] \in EchoAnswers => j <= i
NoEcho(answers) == \A i \in DOMAIN answers : answers[i] \notin EchoAnswers
Requests(answers) == {i \in DOMAIN answers : answers[i] = Request}
Asked(answers) == Cardinality(Requests(answers))

LEMMA ProperFacts ==
    /\ Proper \subseteq Answered
    /\ \A x \in Proper : /\ x[1] \in {"DO", "DONT", "WILL", "WONT", "SB"} /\ x[2] \in Options
                         /\ x = <<x[1], x[2]>>
                         /\ (x[1] = "DO" => x[2] \in Accepted_Will) /\ (x[1] = "WILL" => x[2] \in Accepted_Do)
    /\ \A o \in Options : {<<"DONT", o>>, <<"WONT", o>>} \subseteq Proper
    /\ \A o \in Accepted_Will : <<"DO", o>> \in Proper
    /\ \A o \in Accepted_Do : <<"WILL", o>> \in Proper
    /\ {<<"SB", "NAWS">>, Request} \subseteq Proper
BY DEF Proper, Answered, Symbols, Verbs, Options, Accepted_Will, Accepted_Do, Request

\* One answer more.
LEMMA AnswerMore ==
    ASSUME NEW answers \in Seq(Proper), NEW x \in Proper
    PROVE  /\ Append(answers, x) \in Seq(Proper)
           /\ \A verbs, o : Pending(answers, verbs, o) \/ (x[1] \in verbs /\ x[2] = o) => Pending(Append(answers, x), verbs, o)
           /\ x \in EchoAnswers => LastEcho(Append(answers, x), x[1] = "DO")
           /\ x \notin EchoAnswers => /\ \A e : LastEcho(answers, e) => LastEcho(Append(answers, x), e)
                                      /\ NoEcho(answers) => NoEcho(Append(answers, x))
           /\ Asked(answers) \in Nat
           /\ Asked(Append(answers, x)) = IF x = Request THEN Asked(answers) + 1 ELSE Asked(answers)
<1> DEFINE n == Len(answers)
           more == Append(answers, x)
<1>1. /\ n \in Nat /\ more \in Seq(Proper) /\ DOMAIN answers = 1 .. n /\ DOMAIN more = 1 .. n + 1
      /\ more[n + 1] = x /\ \A i \in 1 .. n : more[i] = answers[i]
  OBVIOUS
<1> HIDE DEF n, more
<1>2. n + 1 \in 1 .. n + 1 /\ n + 1 \notin 1 .. n /\ 1 .. n + 1 = 1 .. n \cup {n + 1}
  BY <1>1
<1>3. ASSUME NEW verbs, NEW o, Pending(answers, verbs, o) \/ (x[1] \in verbs /\ x[2] = o)
      PROVE  Pending(more, verbs, o)
  BY <1>1, <1>2, <1>3 DEF Pending
<1>4. ASSUME x \in EchoAnswers PROVE LastEcho(more, x[1] = "DO")
  <2>1. \A j \in 1 .. n + 1 : j <= n + 1
    BY <1>1
  <2>2. QED
    BY <1>1, <1>2, <1>4, <2>1 DEF LastEcho
<1>5. ASSUME x \notin EchoAnswers, NEW e, LastEcho(answers, e) PROVE LastEcho(more, e)
  BY <1>1, <1>2, <1>5 DEF LastEcho
<1>6. ASSUME x \notin EchoAnswers, NoEcho(answers) PROVE NoEcho(more)
  BY <1>1, <1>2, <1>6 DEF NoEcho
<1>7. /\ Asked(answers) \in Nat
      /\ Asked(more) = IF x = Request THEN Asked(answers) + 1 ELSE Asked(answers)
  <2>1. Requests(more) = Requests(answers) \cup (IF x = Request THEN {n + 1} ELSE {})
    BY <1>1, <1>2 DEF Requests
  <2>2. n + 1 \notin Requests(answers)
    BY <1>1, <1>2 DEF Requests
  <2>3. IsFiniteSet(Requests(answers))
    <3>1. IsFiniteSet(1 .. n)
      BY <1>1, FS_Interval
    <3>2. Requests(answers) \subseteq 1 .. n
      BY <1>1 DEF Requests
    <3>3. QED
      BY <3>1, <3>2, FS_Subset
  <2>4. CASE x = Request
    BY <2>1, <2>2, <2>3, <2>4, FS_AddElement, FS_CardinalityType DEF Asked
  <2>5. CASE x # Request
    BY <2>1, <2>3, <2>5, FS_CardinalityType DEF Asked
  <2>6. QED
    BY <2>4, <2>5
<1>8. QED
  BY <1>1, <1>3, <1>4, <1>5, <1>6, <1>7 DEF more

\* And the first one read.
LEMMA AnswerRead ==
    ASSUME NEW behind \in Seq(Answered), NEW x \in Answered, <<x>> \o behind \in Seq(Proper)
    PROVE  /\ x \in Proper /\ behind \in Seq(Proper)
           /\ \A verbs, o : Pending(<<x>> \o behind, verbs, o) => Pending(behind, verbs, o) \/ (x[1] \in verbs /\ x[2] = o)
           /\ \A e : LastEcho(<<x>> \o behind, e) =>
                  LastEcho(behind, e) \/ (NoEcho(behind) /\ x \in EchoAnswers /\ (x[1] = "DO" <=> e))
           /\ NoEcho(<<x>> \o behind) => NoEcho(behind) /\ x \notin EchoAnswers
           /\ Asked(behind) \in Nat
           /\ Asked(<<x>> \o behind) = IF x = Request THEN Asked(behind) + 1 ELSE Asked(behind)
<1> DEFINE n == Len(behind)
           all == <<x>> \o behind
<1>1. /\ n \in Nat /\ all \in Seq(Proper) /\ DOMAIN behind = 1 .. n /\ DOMAIN all = 1 .. n + 1
      /\ all[1] = x /\ \A i \in 1 .. n : all[i + 1] = behind[i]
  OBVIOUS
<1> HIDE DEF n, all
<1>2. /\ \A i \in 1 .. n + 1 : i = 1 \/ \E j \in 1 .. n : i = j + 1
      /\ \A i \in 1 .. n : i + 1 \in 1 .. n + 1 /\ i + 1 # 1
      /\ 1 \in 1 .. n + 1
  <2>1. ASSUME NEW i \in 1 .. n + 1, i # 1 PROVE \E j \in 1 .. n : i = j + 1
    <3>1. i - 1 \in 1 .. n /\ i = (i - 1) + 1
      BY <1>1, <2>1
    <3>2. QED
      BY <3>1
  <2>2. (\A i \in 1 .. n : i + 1 \in 1 .. n + 1 /\ i + 1 # 1) /\ 1 \in 1 .. n + 1
    BY <1>1
  <2>3. QED
    BY <2>1, <2>2
<1>3. x \in Proper /\ behind \in Seq(Proper)
  <2>1. \A i \in 1 .. n + 1 : all[i] \in Proper
    BY <1>1
  <2>2. x \in Proper /\ \A i \in 1 .. n : behind[i] \in Proper
    BY <1>1, <1>2, <2>1
  <2>3. QED
    BY <1>1, <2>2
<1>4. ASSUME NEW verbs, NEW o, Pending(all, verbs, o) PROVE Pending(behind, verbs, o) \/ (x[1] \in verbs /\ x[2] = o)
  <2>1. PICK i \in 1 .. n + 1 : all[i][1] \in verbs /\ all[i][2] = o
    BY <1>1, <1>4 DEF Pending
  <2>2. CASE i = 1
    BY <1>1, <2>1, <2>2
  <2>3. CASE i # 1
    <3>1. PICK j \in 1 .. n : i = j + 1
      BY <1>2, <2>3
    <3>2. behind[j] = all[i]
      BY <1>1, <3>1
    <3>3. QED
      BY <1>1, <2>1, <3>2 DEF Pending
  <2>4. QED
    BY <2>2, <2>3
<1>5. ASSUME NEW e, LastEcho(all, e)
      PROVE  LastEcho(behind, e) \/ (NoEcho(behind) /\ x \in EchoAnswers /\ (x[1] = "DO" <=> e))
  <2>1. PICK i \in 1 .. n + 1 : /\ all[i] \in EchoAnswers /\ (all[i][1] = "DO" <=> e)
                                /\ \A j \in 1 .. n + 1 : all[j] \in EchoAnswers => j <= i
    BY <1>1, <1>5 DEF LastEcho
  <2>2. CASE i = 1
    <3>1. ASSUME NEW j \in 1 .. n, behind[j] \in EchoAnswers PROVE FALSE
      <4>1. j + 1 <= i
        BY <1>1, <1>2, <2>1, <3>1
      <4>2. QED
        BY <1>1, <2>2, <4>1
    <3>2. NoEcho(behind)
      BY <1>1, <3>1 DEF NoEcho
    <3>3. QED
      BY <1>1, <2>1, <2>2, <3>2
  <2>3. CASE i # 1
    <3>1. PICK m \in 1 .. n : i = m + 1
      BY <1>2, <2>3
    <3>2. ASSUME NEW j \in 1 .. n, behind[j] \in EchoAnswers PROVE j <= m
      <4>1. j + 1 <= i
        BY <1>1, <1>2, <2>1, <3>2
      <4>2. QED
        BY <1>1, <3>1, <4>1
    <3>3. behind[m] = all[i]
      BY <1>1, <3>1
    <3>4. LastEcho(behind, e)
      BY <1>1, <2>1, <3>2, <3>3 DEF LastEcho
    <3>5. QED
      BY <3>4
  <2>4. QED
    BY <2>2, <2>3
<1>6. ASSUME NoEcho(all) PROVE NoEcho(behind) /\ x \notin EchoAnswers
  BY <1>1, <1>2, <1>6 DEF NoEcho
<1>7. /\ Asked(behind) \in Nat
      /\ Asked(all) = IF x = Request THEN Asked(behind) + 1 ELSE Asked(behind)
  <2> DEFINE A == Requests(behind)
             B == Requests(all) \ {1}
             up == [i \in A |-> i + 1]
  <2>0. A = {i \in 1 .. n : behind[i] = Request} /\ Requests(all) = {i \in 1 .. n + 1 : all[i] = Request}
    BY <1>1 DEF Requests
  <2>1. /\ \A i \in A : i \in 1 .. n /\ i + 1 \in B /\ i \in Int
        /\ \A j \in B : \E i \in A : j = i + 1
    <3>1. ASSUME NEW i \in A PROVE i \in 1 .. n /\ i + 1 \in B /\ i \in Int
      <4>1. i \in 1 .. n /\ behind[i] = Request
        BY <2>0
      <4>2. i + 1 \in 1 .. n + 1 /\ i + 1 # 1 /\ all[i + 1] = Request
        BY <1>1, <1>2, <4>1
      <4>3. QED
        BY <2>0, <4>1, <4>2
    <3>2. ASSUME NEW j \in B PROVE \E i \in A : j = i + 1
      <4>1. j \in 1 .. n + 1 /\ all[j] = Request /\ j # 1
        BY <2>0
      <4>2. PICK i \in 1 .. n : j = i + 1
        BY <1>2, <4>1
      <4>3. behind[i] = Request
        BY <1>1, <4>1, <4>2
      <4>4. QED
        BY <2>0, <4>2, <4>3
    <3>3. QED
      BY <3>1, <3>2
  <2>2. IsFiniteSet(Requests(all)) /\ IsFiniteSet(A)
    <3>1. IsFiniteSet(1 .. n) /\ IsFiniteSet(1 .. n + 1)
      BY <1>1, FS_Interval
    <3>2. Requests(all) \subseteq 1 .. n + 1 /\ A \subseteq 1 .. n
      BY <1>1 DEF Requests
    <3>3. QED
      BY <3>1, <3>2, FS_Subset
  <2>3. up \in Bijection(A, B)
    <3>1. up \in [A -> B]
      BY <2>1
    <3>2. \A i, j \in A : up[i] = up[j] => i = j
      BY <2>1
    <3>3. \A j \in B : \E i \in A : up[i] = j
      BY <2>1
    <3>4. QED
      BY <3>1, <3>2, <3>3, Fun_IsBij
  <2> HIDE DEF A, B, up
  <2>4. Cardinality(A) = Cardinality(B)
    BY <2>2, <2>3, FS_Bijection DEF ExistsBijection
  <2>5. CASE x = Request
    <3>1. 1 \in Requests(all)
      BY <1>1, <1>2, <2>5 DEF Requests
    <3>2. Cardinality(B) = Cardinality(Requests(all)) - 1
      BY <2>2, <3>1, FS_RemoveElement DEF B
    <3>3. Cardinality(Requests(all)) \in Nat /\ Cardinality(A) \in Nat
      BY <2>2, FS_CardinalityType
    <3>4. QED
      BY <2>4, <2>5, <3>2, <3>3 DEF A, Asked
  <2>6. CASE x # Request
    <3>1. 1 \notin Requests(all)
      BY <1>1, <2>6 DEF Requests
    <3>2. B = Requests(all)
      BY <3>1 DEF B
    <3>3. Cardinality(A) \in Nat
      BY <2>2, FS_CardinalityType
    <3>4. QED
      BY <2>4, <2>6, <3>2, <3>3 DEF A, Asked
  <2>7. QED
    BY <2>5, <2>6
<1>8. QED
  BY <1>3, <1>4, <1>5, <1>6, <1>7 DEF all

\* The last answer on the echo says what the flag does; with none, the server does.
EchoDue(answers, e, on) == LastEcho(answers, e) \/ (NoEcho(answers) /\ (e <=> on))

\* A command more: its answer is pending, and nothing else is lost or settled.
Upon(more, answers, verb, opt, e) ==
    /\ more \in Seq(Proper)
    /\ \A verbs, o : Pending(answers, verbs, o) => Pending(more, verbs, o)
    /\ verb \in {"WILL", "WONT"} => Pending(more, {"DO", "DONT"}, opt)
    /\ verb \in {"DO", "DONT"} => Pending(more, {"WILL", "WONT"}, opt)
    /\ \A on : EchoDue(answers, e, on) => EchoDue(more, EchoAfter(verb, opt, e), on)
    /\ verb \in {"WILL", "WONT"} /\ opt = "ECHO" => \A on : EchoDue(more, EchoAfter(verb, opt, e), on)
    /\ Asked(more) = Asked(answers)

LEMMA AnswersMore ==
    ASSUME NEW answers \in Seq(Proper), NEW verb \in Verbs, NEW opt \in Options, NEW e \in BOOLEAN
    PROVE  Upon(answers \o Answers(verb, opt), answers, verb, opt, e)
<1> DEFINE more == answers \o Answers(verb, opt)
<1> DEFINE x == Answers(verb, opt)[1]
           one == Append(answers, x)
           naws == <<"SB", "NAWS">>
           two == Append(one, naws)
<1>1. /\ x \in Proper /\ x[2] = opt /\ x # Request
      /\ verb \in {"WILL", "WONT"} => x[1] \in {"DO", "DONT"} /\ (opt = "ECHO" => (x[1] = "DO" <=> verb = "WILL"))
      /\ verb \in {"DO", "DONT"} => x[1] \in {"WILL", "WONT"}
  <2>1. CASE verb = "WILL"
    <3>1. x = <<IF opt \in Accepted_Will THEN "DO" ELSE "DONT", opt>>
      BY <2>1 DEF Answers
    <3> HIDE DEF x
    <3>2. QED
      BY <2>1, <3>1, ProperFacts DEF Accepted_Will, Request
  <2>2. CASE verb = "DO"
    <3>1. x = <<IF opt \in Accepted_Do THEN "WILL" ELSE "WONT", opt>>
      BY <2>2 DEF Answers
    <3> HIDE DEF x
    <3>2. QED
      BY <2>2, <3>1, ProperFacts DEF Accepted_Do, Request
  <2>3. CASE verb = "WONT"
    <3>1. x = <<"DONT", opt>>
      BY <2>3 DEF Answers
    <3> HIDE DEF x
    <3>2. QED
      BY <2>3, <3>1, ProperFacts DEF Request
  <2>4. CASE verb = "DONT"
    <3>1. x = <<"WONT", opt>>
      BY <2>4 DEF Answers
    <3> HIDE DEF x
    <3>2. QED
      BY <2>4, <3>1, ProperFacts DEF Request
  <2>5. QED
    BY <2>1, <2>2, <2>3, <2>4 DEF Verbs
<1>2. naws \in Proper /\ naws # Request /\ naws \notin EchoAnswers
  BY ProperFacts DEF Request, EchoAnswers
<1>3. more = one \/ more = two
  <2>1. Answers(verb, opt) = <<x>> \/ Answers(verb, opt) = <<x>> \o <<naws>>
    <3>1. CASE verb = "DO"
      <4> DEFINE y == <<IF opt \in Accepted_Do THEN "WILL" ELSE "WONT", opt>>
      <4>1. Answers(verb, opt) = <<y>> \o IF opt = "NAWS" THEN <<naws>> ELSE <<>>
        BY <3>1 DEF Answers
      <4> HIDE DEF y, naws
      <4>2. <<y>> \o <<>> = <<y>> /\ (<<y>> \o <<naws>>)[1] = y
        OBVIOUS
      <4>3. Answers(verb, opt) = <<y>> \/ Answers(verb, opt) = <<y>> \o <<naws>>
        BY <4>1, <4>2
      <4>4. x = y
        BY <4>2, <4>3
      <4>5. QED
        BY <4>3, <4>4
    <3>2. CASE verb # "DO"
      <4>1. \E y : Answers(verb, opt) = <<y>>
        BY <3>2 DEF Answers, Verbs
      <4>2. QED
        BY <4>1
    <3>3. QED
      BY <3>1, <3>2
  <2> HIDE DEF x, naws
  <2>2. answers \o <<x>> = one /\ answers \o (<<x>> \o <<naws>>) = two
    BY <1>1, <1>2
  <2>3. QED
    BY <2>1, <2>2
<1>4. x \in EchoAnswers <=> verb \in {"WILL", "WONT"} /\ opt = "ECHO"
  <2>1. verb \in {"WILL", "WONT", "DO", "DONT"}
    BY DEF Verbs
  <2>2. x = <<x[1], x[2]>>
    BY <1>1, ProperFacts
  <2> HIDE DEF x
  <2>3. x \in EchoAnswers <=> x[1] \in {"DO", "DONT"} /\ x[2] = "ECHO"
    BY <2>2 DEF EchoAnswers
  <2>4. QED
    BY <1>1, <2>1, <2>3
<1> HIDE DEF x, naws
<1> DEFINE f == EchoAfter(verb, opt, e)
<1>5. /\ x \in EchoAnswers => f = (x[1] = "DO")
      /\ x \notin EchoAnswers => f = e
  BY <1>1, <1>4 DEF EchoAfter
<1> DEFINE Fine(a) == /\ a \in Seq(Proper)
                      /\ \A verbs, o : Pending(answers, verbs, o) => Pending(a, verbs, o)
                      /\ \A verbs : x[1] \in verbs => Pending(a, verbs, opt)
                      /\ \A on : EchoDue(answers, e, on) => EchoDue(a, f, on)
                      /\ x \in EchoAnswers => LastEcho(a, f)
                      /\ Asked(a) = Asked(answers)
<1> HIDE DEF f
<1>6. Fine(one)
  <2>1. /\ one \in Seq(Proper)
        /\ \A verbs, o : Pending(answers, verbs, o) \/ (x[1] \in verbs /\ x[2] = o) => Pending(one, verbs, o)
        /\ x \in EchoAnswers => LastEcho(one, x[1] = "DO")
        /\ x \notin EchoAnswers => /\ \A d : LastEcho(answers, d) => LastEcho(one, d)
                                   /\ NoEcho(answers) => NoEcho(one)
        /\ Asked(one) = IF x = Request THEN Asked(answers) + 1 ELSE Asked(answers)
    BY <1>1, AnswerMore
  <2> HIDE DEF one
  <2>2. x \in EchoAnswers => LastEcho(one, f)
    BY <1>5, <2>1
  <2>3. ASSUME NEW on, EchoDue(answers, e, on) PROVE EchoDue(one, f, on)
    <3>1. CASE x \in EchoAnswers
      BY <2>2, <3>1 DEF EchoDue
    <3>2. CASE x \notin EchoAnswers
      <4>1. f = e
        BY <1>5, <3>2
      <4>2. QED
        BY <2>1, <2>3, <3>2, <4>1 DEF EchoDue
    <3>3. QED
      BY <3>1, <3>2
  <2>4. QED
    BY <1>1, <2>1, <2>2, <2>3
<1>7. Fine(two)
  <2>1. one \in Seq(Proper)
    BY <1>6
  <2> HIDE DEF one
  <2>2. /\ two \in Seq(Proper)
        /\ \A verbs, o : Pending(one, verbs, o) => Pending(two, verbs, o)
        /\ \A d : LastEcho(one, d) => LastEcho(two, d)
        /\ NoEcho(one) => NoEcho(two)
        /\ Asked(two) = Asked(one)
    <3>1. /\ two \in Seq(Proper)
          /\ \A verbs, o : Pending(one, verbs, o) \/ (naws[1] \in verbs /\ naws[2] = o) => Pending(two, verbs, o)
          /\ naws \notin EchoAnswers => /\ \A d : LastEcho(one, d) => LastEcho(two, d)
                                        /\ NoEcho(one) => NoEcho(two)
          /\ Asked(two) = IF naws = Request THEN Asked(one) + 1 ELSE Asked(one)
      BY <1>2, <2>1, AnswerMore
    <3> HIDE DEF two
    <3>2. QED
      BY <1>2, <3>1
  <2> HIDE DEF two
  <2>3. ASSUME NEW on, EchoDue(one, f, on) PROVE EchoDue(two, f, on)
    BY <2>2, <2>3 DEF EchoDue
  <2>4. QED
    BY <1>6, <2>2, <2>3
<1>8. Fine(more)
  <2> HIDE DEF Fine, one, two
  <2>1. QED
    BY <1>3, <1>6, <1>7
<1>9. /\ more \in Seq(Proper)
      /\ \A verbs, o : Pending(answers, verbs, o) => Pending(more, verbs, o)
      /\ Asked(more) = Asked(answers)
  BY <1>8
<1>10. verb \in {"WILL", "WONT"} => Pending(more, {"DO", "DONT"}, opt)
  BY <1>1, <1>8
<1>11. verb \in {"DO", "DONT"} => Pending(more, {"WILL", "WONT"}, opt)
  BY <1>1, <1>8
<1>12. /\ \A on : EchoDue(answers, e, on) => EchoDue(more, f, on)
       /\ x \in EchoAnswers => LastEcho(more, f)
  BY <1>8
<1>13. verb \in {"WILL", "WONT"} /\ opt = "ECHO" => \A on : EchoDue(more, f, on)
  BY <1>4, <1>12 DEF EchoDue
<1>14. QED
  BY <1>9, <1>10, <1>11, <1>12, <1>13 DEF f, Upon

LEMMA StFields ==
    ASSUME NEW is, NEW v, NEW sb, NEW e, NEW o, NEW a, NEW q, q = St(is, v, sb, e, o, a)
    PROVE  q.p.is = is /\ q.p.echo = e /\ q.out = o /\ q.back = a
BY DEF St

\* What has arrived once a command has.
LEMMA VerbArrived ==
    ASSUME NEW q \in States, q.p.is = "NORMAL", q.back \in Seq(Proper), NEW verb \in Verbs, NEW opt \in Options,
           NEW r, r = Parsed(q, <<"IAC", verb, opt>>)
    PROVE  /\ r.p.is = "NORMAL" /\ r.out = q.out /\ r.p.echo = EchoAfter(verb, opt, q.p.echo)
           /\ Upon(r.back, q.back, verb, opt, q.p.echo)
<1> DEFINE answers == q.back
           e == q.p.echo
           f == EchoAfter(verb, opt, e)
           more == answers \o Answers(verb, opt)
<1>1. q = St("NORMAL", q.p.verb, q.p.sb, e, q.out, answers) /\ e \in BOOLEAN /\ answers \in Seq(Proper)
  BY StShape
<1>2. r = St("NORMAL", verb, q.p.sb, f, q.out, more)
  BY <1>1, ParsedVerb
<1> HIDE DEF answers, e
<1>3. Upon(more, answers, verb, opt, e)
  BY <1>1, AnswersMore
<1> HIDE DEF f, more
<1>4. r.p.is = "NORMAL" /\ r.out = q.out /\ r.p.echo = f /\ r.back = more
  BY <1>2, StFields
<1>5. QED
  BY <1>3, <1>4 DEF answers, e, f

\* The parser now, and once all that is on its way has arrived.
Here == [p |-> p, out |-> out, back |-> back]
End == Parsed(Here, wire)

\* What the server believes agrees with what q has handed on, is and will answer;
\* of the options in owedTh and owedOu a command that settles them is still to arrive.
Promised(q, said, th, ou, owedTh, owedOu) ==
    /\ q.out = said
    /\ \A o \in Options :
        /\ th[o] = "offered" => o \in owedTh \/ Pending(q.back, {"DO", "DONT"}, o)
        /\ ou[o] = "offered" => o \in owedOu \/ Pending(q.back, {"WILL", "WONT"}, o)
        /\ th[o] = "on" => o \in Accepted_Will
        /\ ou[o] = "on" => o \in Accepted_Do
    /\ "ECHO" \in owedTh \/ EchoDue(q.back, q.p.echo, th["ECHO"] = "on")

ParserTypes ==
    /\ Here \in States /\ wire \in Seq(Symbols) /\ meant \in Seq(Symbols) /\ broken \in BOOLEAN
    /\ theirs \in [Options -> Statuses] /\ ours \in [Options -> Statuses]

ParserInv ==
    /\ ParserTypes
    /\ End.p.is = "NORMAL" /\ End.back \in Seq(Proper) /\ Asked(End.back) = sends
    /\ ~broken => Promised(End, meant, theirs, ours, {}, {})

LEMMA ThatCommand ==
    ASSUME NEW q, NEW r, NEW said, NEW th, NEW ou, NEW verb, NEW opt,
           r.out = q.out, r.p.echo = EchoAfter(verb, opt, q.p.echo), Upon(r.back, q.back, verb, opt, q.p.echo),
           \/ verb \in {"WILL", "WONT"} /\ Promised(q, said, th, ou, {opt}, {})
           \/ verb \in {"DO", "DONT"} /\ Promised(q, said, th, ou, {}, {opt})
    PROVE  Promised(r, said, th, ou, {}, {})
<1>1. /\ \A verbs, o : Pending(q.back, verbs, o) => Pending(r.back, verbs, o)
      /\ verb \in {"WILL", "WONT"} => Pending(r.back, {"DO", "DONT"}, opt)
      /\ verb \in {"DO", "DONT"} => Pending(r.back, {"WILL", "WONT"}, opt)
      /\ \A on : EchoDue(q.back, q.p.echo, on) => EchoDue(r.back, r.p.echo, on)
      /\ verb \in {"WILL", "WONT"} /\ opt = "ECHO" => \A on : EchoDue(r.back, r.p.echo, on)
  BY DEF Upon
<1>2. r.out = said
  BY DEF Promised
<1>3. EchoDue(r.back, r.p.echo, th["ECHO"] = "on")
  BY <1>1 DEF Promised
<1>4. ASSUME NEW o \in Options
      PROVE  /\ th[o] = "offered" => Pending(r.back, {"DO", "DONT"}, o)
             /\ ou[o] = "offered" => Pending(r.back, {"WILL", "WONT"}, o)
             /\ th[o] = "on" => o \in Accepted_Will
             /\ ou[o] = "on" => o \in Accepted_Do
  BY <1>1 DEF Promised
<1>5. QED
  BY <1>2, <1>3, <1>4 DEF Promised

\* What is sent after the behind arrives after the behind.
LEMMA Arrives ==
    ASSUME ParserTypes, NEW u \in Seq(Symbols), wire' = wire \o u, UNCHANGED <<p, out, back>>
    PROVE  Here' \in States /\ wire' \in Seq(Symbols) /\ End \in States /\ End' = Parsed(End, u)
<1>1. Here \in States /\ wire \in Seq(Symbols) /\ Here' = Here
  BY DEF ParserTypes, Here
<1>2. Parsed(Here, wire \o u) = Parsed(Parsed(Here, wire), u)
  BY <1>1, ParsedJoined
<1>3. Parsed(Here, wire) \in States
  BY <1>1, ParsedType
<1>4. End' = Parsed(Here', wire') /\ End = Parsed(Here, wire)
  BY DEF End
<1>5. QED
  BY <1>1, <1>2, <1>3, <1>4

LEMMA CommandArrives ==
    ASSUME ParserTypes, End.p.is = "NORMAL", End.back \in Seq(Proper), NEW verb \in Verbs, NEW opt \in Options,
           wire' = wire \o <<"IAC", verb, opt>>, UNCHANGED <<p, out, back>>
    PROVE  /\ Here' \in States /\ wire' \in Seq(Symbols) /\ End'.p.is = "NORMAL" /\ End'.out = End.out
           /\ End'.p.echo = EchoAfter(verb, opt, End.p.echo) /\ Upon(End'.back, End.back, verb, opt, End.p.echo)
<1>1. <<"IAC", verb, opt>> \in Seq(Symbols)
  <2>1. "IAC" \in Symbols /\ verb \in Symbols /\ opt \in Symbols
    BY DEF Symbols
  <2>2. QED
    BY <2>1
<1>2. Here' \in States /\ wire' \in Seq(Symbols) /\ End \in States /\ End' = Parsed(End, <<"IAC", verb, opt>>)
  BY <1>1, Arrives
<1>3. QED
  BY <1>2, VerbArrived

LEMMA ParserInvInit == ParserInit => ParserInv
<1> SUFFICES ASSUME ParserInit PROVE ParserInv
  OBVIOUS
<1>1. Here = St("NORMAL", "none", <<>>, FALSE, <<>>, <<>>) /\ End = Here
  BY ParsedNone DEF ParserInit, Here, End, St
<1>2. Here \in States
  <2>0. <<>> \in Seq(Symbols) /\ <<>> \in Seq(Answered) /\ FALSE \in BOOLEAN
    OBVIOUS
  <2>1. St("NORMAL", "none", <<>>, FALSE, <<>>, <<>>) \in States
    BY <2>0, StType
  <2>2. QED
    BY <1>1, <2>1
<1>3. End.p.is = "NORMAL" /\ End.p.echo = FALSE /\ End.out = <<>> /\ End.back = <<>>
  <2>1. /\ St("NORMAL", "none", <<>>, FALSE, <<>>, <<>>).p.is = "NORMAL"
        /\ St("NORMAL", "none", <<>>, FALSE, <<>>, <<>>).p.echo = FALSE
        /\ St("NORMAL", "none", <<>>, FALSE, <<>>, <<>>).out = <<>>
        /\ St("NORMAL", "none", <<>>, FALSE, <<>>, <<>>).back = <<>>
    BY DEF St
  <2>2. QED
    BY <1>1, <2>1
<1>4. Asked(<<>>) = 0 /\ NoEcho(<<>>) /\ <<>> \in Seq(Proper)
  <2>1. Requests(<<>>) = {}
    BY DEF Requests
  <2>2. QED
    BY <2>1, FS_EmptySet DEF Asked, NoEcho
<1>5. theirs \in [Options -> Statuses] /\ ours \in [Options -> Statuses] /\ \A o \in Options : theirs[o] = "off" /\ ours[o] = "off"
  BY DEF ParserInit, Statuses
<1>6. Promised(End, meant, theirs, ours, {}, {})
  <2>1. EchoDue(<<>>, FALSE, theirs["ECHO"] = "on")
    BY <1>4, <1>5 DEF EchoDue, Options
  <2>2. meant = <<>>
    BY DEF ParserInit
  <2>3. QED
    BY <1>3, <1>5, <2>1, <2>2 DEF Promised
<1>7. wire \in Seq(Symbols) /\ meant \in Seq(Symbols) /\ broken \in BOOLEAN /\ sends = 0
  <2>1. <<>> \in Seq(Symbols) /\ wire = <<>> /\ meant = <<>> /\ broken = FALSE /\ sends = 0
    BY DEF ParserInit
  <2>2. QED
    BY <2>1
<1>8. QED
  BY <1>2, <1>3, <1>4, <1>5, <1>6, <1>7 DEF ParserInv, ParserTypes

\* A byte the server sends as payload.
LEMMA DataArrives ==
    ASSUME ParserInv, ServerData PROVE ParserInv'
<1>1. PICK b \in {"d", "WILL", "SB", "IAC"} :
        wire' = wire \o (IF b = "IAC" THEN <<"IAC", "IAC">> ELSE <<b>>) /\ meant' = Append(meant, b)
  BY DEF ServerData, Puts
<1> DEFINE u == IF b = "IAC" THEN <<"IAC", "IAC">> ELSE <<b>>
<1>2. ParserTypes /\ UNCHANGED <<p, out, back, theirs, ours, sends, broken>>
  BY DEF ParserInv, ServerData
<1>3. b \in Symbols
  BY DEF Symbols, Verbs
<1>4. u \in Seq(Symbols)
  BY <1>3
<1> HIDE DEF u
<1>5. Here' \in States /\ wire' \in Seq(Symbols) /\ End \in States /\ End' = Parsed(End, u)
  BY <1>1, <1>2, <1>4, Arrives DEF u
<1> DEFINE v == End.p.verb
           sb == End.p.sb
           e == End.p.echo
           o == End.out
           a == End.back
<1>6. End = St("NORMAL", v, sb, e, o, a)
  BY <1>5, StShape DEF ParserInv
<1> HIDE DEF v, sb, e, o, a
<1>7. End' = St("NORMAL", v, sb, e, Append(o, b), a)
  BY <1>5, <1>6, ParsedData DEF u
<1>8. /\ End.p.is = "NORMAL" /\ End.p.echo = e /\ End.out = o /\ End.back = a
      /\ End'.p.is = "NORMAL" /\ End'.p.echo = e /\ End'.out = Append(o, b) /\ End'.back = a
  <2>1. End.p.is = "NORMAL" /\ End.p.echo = e /\ End.out = o /\ End.back = a
    BY <1>6, StFields
  <2> DEFINE o2 == Append(o, b)
  <2>2. End' = St("NORMAL", v, sb, e, o2, a)
    BY <1>7
  <2> HIDE DEF o2
  <2>3. End'.p.is = "NORMAL" /\ End'.p.echo = e /\ End'.out = o2 /\ End'.back = a
    BY <2>2, StFields
  <2>4. QED
    BY <2>1, <2>3 DEF o2
<1>9. ParserTypes'
  BY <1>1, <1>2, <1>3, <1>5 DEF ParserTypes
<1>10. ~broken' => Promised(End', meant', theirs', ours', {}, {})
  BY <1>1, <1>2, <1>8 DEF ParserInv, Promised
<1>11. QED
  BY <1>2, <1>8, <1>9, <1>10 DEF ParserInv

LEMMA OfferArrives ==
    ASSUME ParserInv, ServerOffers PROVE ParserInv'
<1>1. PICK o \in {"ECHO", "OTHER"}, verb \in {"WILL", "WONT"} :
        wire' = wire \o <<"IAC", verb, o>> /\ theirs' = [theirs EXCEPT ![o] = IF verb = "WILL" THEN "offered" ELSE "off"]
  BY DEF ServerOffers, Puts
<1>2. ParserTypes /\ UNCHANGED <<p, out, back, meant, ours, sends, broken>> /\ o \in Options /\ verb \in Verbs
  BY DEF ParserInv, ServerOffers, Options, Verbs
<1>3. /\ Here' \in States /\ wire' \in Seq(Symbols) /\ End'.p.is = "NORMAL" /\ End'.out = End.out
      /\ End'.p.echo = EchoAfter(verb, o, End.p.echo) /\ Upon(End'.back, End.back, verb, o, End.p.echo)
  BY <1>1, <1>2, CommandArrives DEF ParserInv
<1>4. theirs' \in [Options -> Statuses] /\ \A q \in Options : theirs'[q] = IF q = o THEN IF verb = "WILL" THEN "offered" ELSE "off" ELSE theirs[q]
  BY <1>1, <1>2 DEF ParserTypes, Statuses
<1>5. ParserTypes'
  BY <1>2, <1>3, <1>4 DEF ParserTypes
<1>6. ASSUME ~broken PROVE Promised(End', meant', theirs', ours', {}, {})
  <2>1. Promised(End, meant, theirs, ours, {}, {})
    BY <1>6 DEF ParserInv
  <2>2. Promised(End, meant, theirs', ours, {o}, {})
    BY <1>4, <2>1 DEF Promised, Options
  <2>3. Promised(End', meant, theirs', ours, {}, {})
    BY <1>3, <2>2, ThatCommand
  <2>4. QED
    BY <1>2, <2>3
<1>7. End'.back \in Seq(Proper) /\ Asked(End'.back) = sends'
  BY <1>2, <1>3 DEF ParserInv, Upon
<1>8. QED
  BY <1>2, <1>3, <1>5, <1>6, <1>7 DEF ParserInv

LEMMA AskArrives ==
    ASSUME ParserInv, ServerAsks PROVE ParserInv'
<1>1. PICK o \in {"NAWS", "TTYPE", "OTHER"}, verb \in {"DO", "DONT"} :
        wire' = wire \o <<"IAC", verb, o>> /\ ours' = [ours EXCEPT ![o] = IF verb = "DO" THEN "offered" ELSE "off"]
  BY DEF ServerAsks, Puts
<1>2. ParserTypes /\ UNCHANGED <<p, out, back, meant, theirs, sends, broken>> /\ o \in Options /\ verb \in Verbs
  BY DEF ParserInv, ServerAsks, Options, Verbs
<1>3. /\ Here' \in States /\ wire' \in Seq(Symbols) /\ End'.p.is = "NORMAL" /\ End'.out = End.out
      /\ End'.p.echo = EchoAfter(verb, o, End.p.echo) /\ Upon(End'.back, End.back, verb, o, End.p.echo)
  BY <1>1, <1>2, CommandArrives DEF ParserInv
<1>4. ours' \in [Options -> Statuses] /\ \A q \in Options : ours'[q] = IF q = o THEN IF verb = "DO" THEN "offered" ELSE "off" ELSE ours[q]
  BY <1>1, <1>2 DEF ParserTypes, Statuses
<1>5. ParserTypes'
  BY <1>2, <1>3, <1>4 DEF ParserTypes
<1>6. ASSUME ~broken PROVE Promised(End', meant', theirs', ours', {}, {})
  <2>1. Promised(End, meant, theirs, ours, {}, {})
    BY <1>6 DEF ParserInv
  <2>2. Promised(End, meant, theirs, ours', {}, {o})
    BY <1>4, <2>1 DEF Promised, Options
  <2>3. Promised(End', meant, theirs, ours', {}, {})
    BY <1>3, <2>2, ThatCommand
  <2>4. QED
    BY <1>2, <2>3
<1>7. End'.back \in Seq(Proper) /\ Asked(End'.back) = sends'
  BY <1>2, <1>3 DEF ParserInv, Upon
<1>8. QED
  BY <1>2, <1>3, <1>5, <1>6, <1>7 DEF ParserInv

\* Of the subnegotiations only a request for the terminal type is answered.
LEMMA SubArrives ==
    ASSUME ParserInv, ServerSubnegotiates PROVE ParserInv'
<1> DEFINE send == <<"IAC", "SB", "TTYPE", "SEND", "IAC", "SE">>
           other == <<"IAC", "SB", "OTHER", "IAC", "IAC", "SE", "d", "IAC", "SE">>
           nop == <<"IAC", "NOP">>
<1>1. PICK u \in {send, other, nop} : wire' = wire \o u /\ sends' = IF u = send THEN sends + 1 ELSE sends
  <2>1. other # send /\ nop # send
    <3>1. Len(send) = 6 /\ Len(other) = 9 /\ Len(nop) = 2
      OBVIOUS
    <3>2. QED
      BY <3>1
  <2>2. (wire' = wire \o send /\ sends' = sends + 1) \/ (wire' = wire \o other /\ sends' = sends) \/ (wire' = wire \o nop /\ sends' = sends)
    BY DEF ServerSubnegotiates, Puts
  <2> HIDE DEF send, other, nop
  <2>3. QED
    BY <2>1, <2>2
<1>2. ParserTypes /\ UNCHANGED <<p, out, back, meant, theirs, ours, broken>>
  BY DEF ParserInv, ServerSubnegotiates
<1>3. u \in Seq(Symbols)
  <2>1. {"IAC", "SB", "TTYPE", "SEND", "SE", "OTHER", "d", "NOP"} \subseteq Symbols
    BY DEF Symbols, Options
  <2>2. send \in Seq(Symbols) /\ other \in Seq(Symbols) /\ nop \in Seq(Symbols)
    BY <2>1
  <2>3. QED
    BY <2>2
<1>4. Here' \in States /\ wire' \in Seq(Symbols) /\ End \in States /\ End' = Parsed(End, u)
  BY <1>1, <1>2, <1>3, Arrives
<1> DEFINE v == End.p.verb
           sb == End.p.sb
           e == End.p.echo
           o == End.out
           a == End.back
           b == IF u = send THEN Append(a, Request) ELSE a
<1>5. End = St("NORMAL", v, sb, e, o, a)
  BY <1>4, StShape DEF ParserInv
<1> HIDE DEF v, sb, e, o, a
<1>6. a \in Seq(Proper) /\ a = End.back
  BY DEF ParserInv, a
<1>7. \E w : End' = St("NORMAL", v, w, e, o, b)
  <2>1. CASE u = send
    <3>1. Parsed(End, send) = St("NORMAL", v, <<>>, e, o, a \o <<<<"SB", "TTYPE">>>>)
      BY <1>5, ParsedSend
    <3>2. a \o <<<<"SB", "TTYPE">>>> = b
      BY <1>6, <2>1 DEF Request
    <3>3. QED
      BY <1>4, <2>1, <3>1, <3>2
  <2>2. CASE u = other /\ u # send
    <3>1. Parsed(End, other) = St("NORMAL", v, <<>>, e, o, a)
      BY <1>5, ParsedOther
    <3>2. QED
      BY <1>4, <2>2, <3>1
  <2>3. CASE u = nop /\ u # send
    <3>1. Parsed(End, nop) = End
      BY <1>5, ParsedData
    <3>2. QED
      BY <1>4, <1>5, <2>3, <3>1
  <2>4. QED
    BY <2>1, <2>2, <2>3
<1>8. End'.p.is = "NORMAL" /\ End'.p.echo = e /\ End'.out = o /\ End'.back = b /\ End.p.echo = e /\ End.out = o
  BY <1>5, <1>7, StFields
<1>9. /\ b \in Seq(Proper)
      /\ \A verbs, opt : Pending(a, verbs, opt) => Pending(b, verbs, opt)
      /\ \A on : EchoDue(a, e, on) => EchoDue(b, e, on)
      /\ Asked(b) = IF u = send THEN Asked(a) + 1 ELSE Asked(a)
  <2>1. CASE u = send
    <3> DEFINE c == Append(a, Request)
    <3>1. Request \in Proper /\ Request \notin EchoAnswers
      BY ProperFacts DEF Request, EchoAnswers
    <3>2. /\ c \in Seq(Proper)
          /\ \A verbs, opt : Pending(a, verbs, opt) => Pending(c, verbs, opt)
          /\ \A d : LastEcho(a, d) => LastEcho(c, d)
          /\ NoEcho(a) => NoEcho(c)
          /\ Asked(c) = Asked(a) + 1
      BY <1>6, <3>1, AnswerMore
    <3>3. b = c
      BY <2>1
    <3> HIDE DEF b, c
    <3>4. QED
      BY <2>1, <3>2, <3>3 DEF EchoDue
  <2>2. CASE u # send
    <3>1. b = a
      BY <2>2
    <3> HIDE DEF b
    <3>2. QED
      BY <1>6, <2>2, <3>1
  <2>3. QED
    BY <2>1, <2>2
<1> HIDE DEF b, send
<1>10. ~broken' => Promised(End', meant', theirs', ours', {}, {})
  BY <1>2, <1>6, <1>8, <1>9 DEF ParserInv, Promised
<1>11. ParserTypes'
  BY <1>2, <1>4 DEF ParserTypes
<1>12. Asked(End'.back) = sends'
  BY <1>1, <1>6, <1>8, <1>9 DEF ParserInv
<1>13. QED
  BY <1>8, <1>9, <1>10, <1>11, <1>12 DEF ParserInv

LEMMA BreakArrives ==
    ASSUME ParserInv, ServerInterrupts PROVE ParserInv'
<1> DEFINE u == <<"IAC", "SB", "OTHER", "d", "IAC", "WILL", "ECHO">>
<1>1. /\ ParserTypes /\ UNCHANGED <<p, out, back, meant, ours, sends>> /\ wire' = wire \o u /\ broken' = TRUE
      /\ theirs' = [theirs EXCEPT !["ECHO"] = "offered"]
  BY DEF ParserInv, ServerInterrupts, Puts
<1>2. u \in Seq(Symbols)
  <2>1. {"IAC", "SB", "OTHER", "d", "WILL", "ECHO"} \subseteq Symbols
    BY DEF Symbols, Options, Verbs
  <2>2. QED
    BY <2>1
<1> HIDE DEF u
<1>3. Here' \in States /\ wire' \in Seq(Symbols) /\ End \in States /\ End' = Parsed(End, u)
  BY <1>1, <1>2, Arrives
<1> DEFINE v == End.p.verb
           sb == End.p.sb
           e == End.p.echo
           o == End.out
           a == End.back
<1>4. End = St("NORMAL", v, sb, e, o, a) /\ a = End.back
  BY <1>3, StShape DEF ParserInv
<1> HIDE DEF v, sb, e, o, a
<1> DEFINE o2 == Append(o, "ECHO")
<1>5. End' = St("NORMAL", v, <<>>, e, o2, a)
  BY <1>3, <1>4, ParsedBroken DEF u
<1> HIDE DEF o2
<1>6. End'.p.is = "NORMAL" /\ End'.back = End.back
  BY <1>4, <1>5, StFields
<1>7. theirs' \in [Options -> Statuses]
  BY <1>1 DEF ParserTypes, Statuses
<1>8. ParserTypes'
  BY <1>1, <1>3, <1>7 DEF ParserTypes
<1>9. ~(~broken')
  BY <1>1
<1>10. QED
  BY <1>1, <1>6, <1>8, <1>9 DEF ParserInv

\* A chunk moves the parser on the way it was going.
LEMMA ChunkKept ==
    ASSUME ParserInv, ParseChunk PROVE ParserInv'
<1>1. PICK k \in 1 .. RecvBuf :
        /\ k <= Len(wire) /\ wire' = SubSeq(wire, k + 1, Len(wire))
        /\ p' = Parsed(Here, SubSeq(wire, 1, k)).p /\ out' = Parsed(Here, SubSeq(wire, 1, k)).out
        /\ back' = Parsed(Here, SubSeq(wire, 1, k)).back
  BY DEF ParseChunk, Resume, Here
<1>2. ParserTypes /\ UNCHANGED <<meant, theirs, ours, sends, broken>>
  BY DEF ParserInv, ParseChunk
<1> DEFINE u == SubSeq(wire, 1, k)
           w == SubSeq(wire, k + 1, Len(wire))
<1>3. k \in 1 .. Len(wire) /\ wire \in Seq(Symbols) /\ Here \in States
  BY <1>1, <1>2, ParserAssumption DEF ParserTypes
<1>4. u \in Seq(Symbols) /\ w \in Seq(Symbols)
  BY <1>3
<1>5. wire = u \o w
  BY <1>3
<1> HIDE DEF u, w
<1>6. Parsed(Here, u) \in States
  BY <1>3, <1>4, ParsedType
<1>7. Here' = Parsed(Here, u)
  <2>1. \A q \in States : q = [p |-> q.p, out |-> q.out, back |-> q.back]
    BY DEF States
  <2>2. QED
    BY <1>1, <1>6, <2>1 DEF Here, u
<1>8. Parsed(Here, u \o w) = Parsed(Parsed(Here, u), w)
  BY <1>4, ParsedJoined
<1>9. End' = End
  <2>1. wire' = w
    BY <1>1 DEF w
  <2>2. QED
    BY <1>5, <1>7, <1>8, <2>1 DEF End
<1>10. ParserTypes'
  BY <1>1, <1>2, <1>4, <1>6, <1>7 DEF ParserTypes, w
<1>11. ~broken' => Promised(End', meant', theirs', ours', {}, {})
  BY <1>2, <1>9 DEF ParserInv
<1>12. QED
  BY <1>2, <1>9, <1>10, <1>11 DEF ParserInv

\* An answer read: the ones behind it do not depend on it.
LEMMA AnswerTaken ==
    ASSUME ParserInv, back # <<>>, NEW G, G = Parsed([p |-> p, out |-> out, back |-> Tail(back)], wire)
    PROVE  /\ [p |-> p, out |-> out, back |-> Tail(back)] \in States /\ G \in States
           /\ Head(back) \in Answered
           /\ G.p = End.p /\ G.out = End.out /\ End.back = <<Head(back)>> \o G.back
<1> DEFINE q == [p |-> p, out |-> out, back |-> Tail(back)]
           x == Head(back)
<1>1. Here \in States /\ wire \in Seq(Symbols)
  BY DEF ParserInv, ParserTypes
<1>2. p \in Parsers /\ out \in Seq(Symbols) /\ back \in Seq(Answered) /\ (p.is = "VERB" => p.verb \in Verbs)
  BY <1>1 DEF Here, States
<1>3. x \in Answered /\ Tail(back) \in Seq(Answered) /\ back = <<x>> \o Tail(back) /\ out = <<>> \o out
  BY <1>2
<1>4. q \in States
  BY <1>2, <1>3 DEF States
<1>5. Here = After(<<>>, <<x>>, q)
  BY <1>3 DEF Here, After
<1>6. G \in States /\ G.out \in Seq(Symbols) /\ G = Parsed(q, wire)
  <2>1. G \in States
    BY <1>1, <1>4, ParsedType
  <2>2. QED
    BY <2>1 DEF States
<1> HIDE DEF q, x
<1>7. End = After(<<>>, <<x>>, G)
  <2>1. <<>> \in Seq(Symbols) /\ <<x>> \in Seq(Answered)
    BY <1>3
  <2>2. Parsed(After(<<>>, <<x>>, q), wire) = After(<<>>, <<x>>, Parsed(q, wire))
    BY <1>1, <1>4, <2>1, ParsedAfter
  <2>3. QED
    BY <1>5, <1>6, <2>2 DEF End
<1>8. End.p = G.p /\ End.out = <<>> \o G.out /\ End.back = <<x>> \o G.back
  BY <1>7 DEF After
<1>9. <<>> \o G.out = G.out
  BY <1>6
<1>10. QED
  BY <1>3, <1>4, <1>6, <1>8, <1>9 DEF q, x

\* It settles what was offered; where it contradicts the server, a command answers it.
LEMMA Settled ==
    ASSUME NEW th, NEW o \in Options, NEW yes \in BOOLEAN, th \in [Options -> Statuses],
           NEW after, after = [th EXCEPT ![o] = Settle(@, yes)]
    PROVE  /\ after \in [Options -> Statuses]
           /\ \A other \in Options : other # o => after[other] = th[other]
           /\ after[o] # "offered" /\ (after[o] = "on" => yes)
           /\ ~Contradicts(th[o], yes) => (after[o] = "on" <=> yes)
<1>1. /\ after \in [Options -> Statuses] /\ after[o] = Settle(th[o], yes)
      /\ \A other \in Options : other # o => after[other] = th[other]
  BY DEF Settle, Statuses
<1>2. th[o] \in {"off", "offered", "on"}
  BY DEF Statuses
<1>3. QED
  BY <1>1, <1>2 DEF Settle, Contradicts

LEMMA ReadKept ==
    ASSUME ParserInv, ServerReads PROVE ParserInv'
<1> DEFINE now == [p |-> p, out |-> out, back |-> Tail(back)]
           G == Parsed(now, wire)
           x == Head(back)
           verb == x[1]
           o == x[2]
           behind == G.back
<1>1. /\ back # <<>> /\ back' = Tail(back) /\ UNCHANGED <<p, out, meant, broken>> /\ Here' = now
      /\ ParserTypes /\ End.p.is = "NORMAL" /\ End.back \in Seq(Proper) /\ Asked(End.back) = sends
  BY DEF ServerReads, ParserInv, Here
<1>2. /\ now \in States /\ G \in States /\ x \in Answered
      /\ G.p = End.p /\ G.out = End.out /\ End.back = <<x>> \o behind
  BY <1>1, AnswerTaken
<1>3. G = Parsed(now, wire)
  OBVIOUS
<1>4. \/ /\ verb \in {"DO", "DONT"}
         /\ theirs' = [theirs EXCEPT ![o] = Settle(@, verb = "DO")]
         /\ wire' = IF Contradicts(theirs[o], verb = "DO") THEN wire \o <<"IAC", "WONT", o>> ELSE wire
         /\ UNCHANGED <<ours, sends>>
      \/ /\ verb \in {"WILL", "WONT"}
         /\ ours' = [ours EXCEPT ![o] = Settle(@, verb = "WILL")]
         /\ wire' = IF Contradicts(ours[o], verb = "WILL") THEN wire \o <<"IAC", "DONT", o>> ELSE wire
         /\ UNCHANGED <<theirs, sends>>
      \/ /\ verb \notin {"DO", "DONT", "WILL", "WONT"}
         /\ sends' = IF o = "TTYPE" THEN sends - 1 ELSE sends
         /\ UNCHANGED <<theirs, ours, wire>>
  BY DEF ServerReads
<1> HIDE DEF now, G, x, behind
<1>5. behind \in Seq(Answered) /\ behind = G.back
  BY <1>2 DEF States, behind
<1>6. /\ x \in Proper /\ behind \in Seq(Proper)
      /\ \A verbs, q : Pending(<<x>> \o behind, verbs, q) => Pending(behind, verbs, q) \/ (x[1] \in verbs /\ x[2] = q)
      /\ \A e : LastEcho(<<x>> \o behind, e) =>
             LastEcho(behind, e) \/ (NoEcho(behind) /\ x \in EchoAnswers /\ (x[1] = "DO" <=> e))
      /\ NoEcho(<<x>> \o behind) => NoEcho(behind) /\ x \notin EchoAnswers
      /\ Asked(behind) \in Nat
      /\ Asked(<<x>> \o behind) = IF x = Request THEN Asked(behind) + 1 ELSE Asked(behind)
  <2>1. <<x>> \o behind \in Seq(Proper)
    BY <1>1, <1>2
  <2>2. QED
    BY <1>2, <1>5, <2>1, AnswerRead
<1>7. /\ verb \in {"DO", "DONT", "WILL", "WONT", "SB"} /\ o \in Options /\ x = <<verb, o>>
      /\ (verb = "DO" => o \in Accepted_Will) /\ (verb = "WILL" => o \in Accepted_Do)
  BY <1>6, ProperFacts
<1>8. (x = Request <=> verb = "SB" /\ o = "TTYPE") /\ (x \in EchoAnswers <=> verb \in {"DO", "DONT"} /\ o = "ECHO")
  BY <1>7 DEF Request, EchoAnswers
<1> HIDE DEF verb, o
<1>9. theirs \in [Options -> Statuses] /\ ours \in [Options -> Statuses] /\ wire \in Seq(Symbols)
  BY <1>1 DEF ParserTypes
<1>10. /\ \A verbs, q : Pending(End.back, verbs, q) => Pending(behind, verbs, q) \/ (verb \in verbs /\ o = q)
       /\ ~broken => Promised(End, meant, theirs, ours, {}, {})
  BY <1>2, <1>6 DEF ParserInv, verb, o
<1>11. ASSUME NEW on, EchoDue(End.back, End.p.echo, on), ~(verb \in {"DO", "DONT"} /\ o = "ECHO")
       PROVE  EchoDue(behind, G.p.echo, on)
  BY <1>2, <1>6, <1>8, <1>11 DEF EchoDue
<1>12. ASSUME NEW on, EchoDue(End.back, End.p.echo, on), verb \in {"DO", "DONT"} /\ o = "ECHO"
       PROVE  EchoDue(behind, G.p.echo, verb = "DO")
  BY <1>2, <1>6, <1>8, <1>12 DEF EchoDue, verb
\* The state the parser ends in, whatever the server adds.
<1>13. ASSUME wire' = wire PROVE End' = G /\ wire' \in Seq(Symbols)
  BY <1>1, <1>3, <1>9, <1>13 DEF End
<1>14. ASSUME NEW c \in {"WONT", "DONT"}, wire' = wire \o <<"IAC", c, o>>
       PROVE  /\ wire' \in Seq(Symbols) /\ End'.p.is = "NORMAL" /\ End'.out = G.out
              /\ End'.p.echo = EchoAfter(c, o, G.p.echo) /\ Upon(End'.back, behind, c, o, G.p.echo)
  <2> DEFINE u == <<"IAC", c, o>>
  <2>1. u \in Seq(Symbols) /\ c \in Verbs
    <3>1. "IAC" \in Symbols /\ c \in Symbols /\ o \in Symbols /\ c \in Verbs
      BY <1>7 DEF Symbols, Verbs
    <3>2. QED
      BY <3>1
  <2>2. wire \o u \in Seq(Symbols)
    BY <1>9, <2>1
  <2>3. Parsed(now, wire \o u) = Parsed(Parsed(now, wire), u)
    BY <1>9, <2>1, ParsedJoined
  <2>4. End' = Parsed(G, u)
    BY <1>1, <1>3, <1>14, <2>3 DEF End
  <2>5. G.p.is = "NORMAL" /\ G.back \in Seq(Proper)
    BY <1>1, <1>2, <1>5, <1>6
  <2>6. /\ End'.p.is = "NORMAL" /\ End'.out = G.out /\ End'.p.echo = EchoAfter(c, o, G.p.echo)
        /\ Upon(End'.back, G.back, c, o, G.p.echo)
    BY <1>2, <1>7, <2>1, <2>4, <2>5, VerbArrived
  <2>7. QED
    BY <1>5, <1>14, <2>2, <2>6
<1>15. CASE verb \in {"DO", "DONT"}
  <2>1. /\ theirs' = [theirs EXCEPT ![o] = Settle(@, verb = "DO")] /\ UNCHANGED <<ours, sends>>
        /\ wire' = IF Contradicts(theirs[o], verb = "DO") THEN wire \o <<"IAC", "WONT", o>> ELSE wire
    BY <1>4, <1>15
  <2> DEFINE yes == verb = "DO"
  <2>2. /\ theirs' \in [Options -> Statuses] /\ \A q \in Options : q # o => theirs'[q] = theirs[q]
        /\ theirs'[o] # "offered" /\ (theirs'[o] = "on" => yes)
        /\ ~Contradicts(theirs[o], yes) => (theirs'[o] = "on" <=> yes)
    <3>1. yes \in BOOLEAN /\ theirs' = [theirs EXCEPT ![o] = Settle(@, yes)]
      BY <2>1
    <3> HIDE DEF yes
    <3>2. QED
      BY <1>7, <1>9, <3>1, Settled
  <2> DEFINE owedTh == IF Contradicts(theirs[o], yes) THEN {o} ELSE {}
  <2>3. ASSUME ~broken PROVE Promised(G, meant, theirs', ours, owedTh, {})
    <3>1. /\ End.out = meant /\ EchoDue(End.back, End.p.echo, theirs["ECHO"] = "on")
          /\ \A q \in Options :
              /\ theirs[q] = "offered" => Pending(End.back, {"DO", "DONT"}, q)
              /\ ours[q] = "offered" => Pending(End.back, {"WILL", "WONT"}, q)
              /\ theirs[q] = "on" => q \in Accepted_Will
              /\ ours[q] = "on" => q \in Accepted_Do
      BY <1>10, <2>3 DEF Promised
    <3>2. ASSUME NEW q \in Options
          PROVE  /\ theirs'[q] = "offered" => Pending(G.back, {"DO", "DONT"}, q)
                 /\ ours[q] = "offered" => Pending(G.back, {"WILL", "WONT"}, q)
                 /\ theirs'[q] = "on" => q \in Accepted_Will
                 /\ ours[q] = "on" => q \in Accepted_Do
      BY <1>5, <1>7, <1>10, <1>15, <2>2, <3>1
    <3>3. "ECHO" \in owedTh \/ EchoDue(G.back, G.p.echo, theirs'["ECHO"] = "on")
      <4>1. CASE o = "ECHO" /\ ~Contradicts(theirs[o], yes)
        <5>1. (theirs'["ECHO"] = "on") = (verb = "DO")
          BY <2>2, <4>1
        <5>2. EchoDue(behind, G.p.echo, verb = "DO")
          BY <1>12, <1>15, <3>1, <4>1
        <5>3. QED
          BY <1>5, <5>1, <5>2
      <4>2. CASE o # "ECHO"
        <5>1. theirs'["ECHO"] = theirs["ECHO"]
          BY <2>2, <4>2 DEF Options
        <5>2. EchoDue(behind, G.p.echo, theirs["ECHO"] = "on")
          BY <1>11, <3>1, <4>2
        <5>3. QED
          BY <1>5, <5>1, <5>2
      <4>3. QED
        BY <4>1, <4>2
    <3>4. QED
      BY <1>2, <3>1, <3>2, <3>3 DEF Promised
  <2>4. Asked(behind) = sends
    BY <1>1, <1>2, <1>6, <1>8, <1>15
  <2>5. CASE ~Contradicts(theirs[o], yes)
    <3>1. wire' = wire
      BY <2>1, <2>5
    <3>2. End' = G /\ wire' \in Seq(Symbols)
      BY <1>13, <3>1
    <3>3. ~broken' => Promised(End', meant', theirs', ours', {}, {})
      BY <1>1, <2>1, <2>3, <2>5, <3>2
    <3>4. ParserTypes'
      BY <1>1, <1>2, <2>1, <2>2, <3>2 DEF ParserTypes
    <3>5. QED
      BY <1>1, <1>2, <1>5, <1>6, <2>1, <2>4, <3>2, <3>3, <3>4 DEF ParserInv
  <2>6. CASE Contradicts(theirs[o], yes)
    <3>1. /\ wire' \in Seq(Symbols) /\ End'.p.is = "NORMAL" /\ End'.out = G.out
          /\ End'.p.echo = EchoAfter("WONT", o, G.p.echo) /\ Upon(End'.back, G.back, "WONT", o, G.p.echo)
      BY <1>5, <1>14, <2>1, <2>6
    <3>2. ASSUME ~broken PROVE Promised(End', meant, theirs', ours, {}, {})
      <4>1. Promised(G, meant, theirs', ours, {o}, {})
        BY <2>3, <2>6, <3>2
      <4>2. QED
        BY <3>1, <4>1, ThatCommand
    <3>3. ~broken' => Promised(End', meant', theirs', ours', {}, {})
      BY <1>1, <2>1, <3>2
    <3>4. ParserTypes'
      BY <1>1, <1>2, <2>1, <2>2, <3>1 DEF ParserTypes
    <3>5. End'.back \in Seq(Proper) /\ Asked(End'.back) = sends'
      BY <1>5, <2>1, <2>4, <3>1 DEF Upon
    <3>6. QED
      BY <3>1, <3>3, <3>4, <3>5 DEF ParserInv
  <2>7. QED
    BY <2>5, <2>6
<1>16. CASE verb \in {"WILL", "WONT"}
  <2>1. /\ ours' = [ours EXCEPT ![o] = Settle(@, verb = "WILL")] /\ UNCHANGED <<theirs, sends>>
        /\ wire' = IF Contradicts(ours[o], verb = "WILL") THEN wire \o <<"IAC", "DONT", o>> ELSE wire
    BY <1>4, <1>16
  <2> DEFINE yes == verb = "WILL"
  <2>2. /\ ours' \in [Options -> Statuses] /\ \A q \in Options : q # o => ours'[q] = ours[q]
        /\ ours'[o] # "offered" /\ (ours'[o] = "on" => yes)
    <3>1. yes \in BOOLEAN /\ ours' = [ours EXCEPT ![o] = Settle(@, yes)]
      BY <2>1
    <3> HIDE DEF yes
    <3>2. QED
      BY <1>7, <1>9, <3>1, Settled
  <2> DEFINE owedOu == IF Contradicts(ours[o], yes) THEN {o} ELSE {}
  <2>3. ASSUME ~broken PROVE Promised(G, meant, theirs, ours', {}, owedOu)
    <3>1. /\ End.out = meant /\ EchoDue(End.back, End.p.echo, theirs["ECHO"] = "on")
          /\ \A q \in Options :
              /\ theirs[q] = "offered" => Pending(End.back, {"DO", "DONT"}, q)
              /\ ours[q] = "offered" => Pending(End.back, {"WILL", "WONT"}, q)
              /\ theirs[q] = "on" => q \in Accepted_Will
              /\ ours[q] = "on" => q \in Accepted_Do
      BY <1>10, <2>3 DEF Promised
    <3>2. ASSUME NEW q \in Options
          PROVE  /\ theirs[q] = "offered" => Pending(G.back, {"DO", "DONT"}, q)
                 /\ ours'[q] = "offered" => Pending(G.back, {"WILL", "WONT"}, q)
                 /\ theirs[q] = "on" => q \in Accepted_Will
                 /\ ours'[q] = "on" => q \in Accepted_Do
      BY <1>5, <1>7, <1>10, <1>16, <2>2, <3>1
    <3>3. EchoDue(G.back, G.p.echo, theirs["ECHO"] = "on")
      BY <1>5, <1>11, <1>16, <3>1
    <3>4. QED
      BY <1>2, <3>1, <3>2, <3>3 DEF Promised
  <2>4. Asked(behind) = sends
    BY <1>1, <1>2, <1>6, <1>8, <1>16
  <2>5. CASE ~Contradicts(ours[o], yes)
    <3>1. wire' = wire
      BY <2>1, <2>5
    <3>2. End' = G /\ wire' \in Seq(Symbols)
      BY <1>13, <3>1
    <3>3. ~broken' => Promised(End', meant', theirs', ours', {}, {})
      BY <1>1, <2>1, <2>3, <2>5, <3>2
    <3>4. ParserTypes'
      BY <1>1, <1>2, <2>1, <2>2, <3>2 DEF ParserTypes
    <3>5. QED
      BY <1>1, <1>2, <1>5, <1>6, <2>1, <2>4, <3>2, <3>3, <3>4 DEF ParserInv
  <2>6. CASE Contradicts(ours[o], yes)
    <3>1. /\ wire' \in Seq(Symbols) /\ End'.p.is = "NORMAL" /\ End'.out = G.out
          /\ End'.p.echo = EchoAfter("DONT", o, G.p.echo) /\ Upon(End'.back, G.back, "DONT", o, G.p.echo)
      BY <1>5, <1>14, <2>1, <2>6
    <3>2. ASSUME ~broken PROVE Promised(End', meant, theirs, ours', {}, {})
      <4>1. Promised(G, meant, theirs, ours', {}, {o})
        BY <2>3, <2>6, <3>2
      <4>2. QED
        BY <3>1, <4>1, ThatCommand
    <3>3. ~broken' => Promised(End', meant', theirs', ours', {}, {})
      BY <1>1, <2>1, <3>2
    <3>4. ParserTypes'
      BY <1>1, <1>2, <2>1, <2>2, <3>1 DEF ParserTypes
    <3>5. End'.back \in Seq(Proper) /\ Asked(End'.back) = sends'
      BY <1>5, <2>1, <2>4, <3>1 DEF Upon
    <3>6. QED
      BY <3>1, <3>3, <3>4, <3>5 DEF ParserInv
  <2>7. QED
    BY <2>5, <2>6
<1>17. CASE verb = "SB"
  <2>1. sends' = (IF o = "TTYPE" THEN sends - 1 ELSE sends) /\ UNCHANGED <<theirs, ours, wire>>
    BY <1>4, <1>17
  <2>2. End' = G /\ wire' \in Seq(Symbols)
    BY <1>13, <2>1
  <2>3. ASSUME ~broken PROVE Promised(G, meant, theirs, ours, {}, {})
    <3>1. /\ End.out = meant /\ EchoDue(End.back, End.p.echo, theirs["ECHO"] = "on")
          /\ \A q \in Options :
              /\ theirs[q] = "offered" => Pending(End.back, {"DO", "DONT"}, q)
              /\ ours[q] = "offered" => Pending(End.back, {"WILL", "WONT"}, q)
              /\ theirs[q] = "on" => q \in Accepted_Will
              /\ ours[q] = "on" => q \in Accepted_Do
      BY <1>10, <2>3 DEF Promised
    <3>2. EchoDue(G.back, G.p.echo, theirs["ECHO"] = "on")
      BY <1>5, <1>11, <1>17, <3>1
    <3>3. \A q \in Options : /\ theirs[q] = "offered" => Pending(G.back, {"DO", "DONT"}, q)
                             /\ ours[q] = "offered" => Pending(G.back, {"WILL", "WONT"}, q)
      BY <1>5, <1>10, <1>17, <3>1
    <3>4. QED
      BY <1>2, <3>1, <3>2, <3>3 DEF Promised
  <2>4. Asked(behind) = sends'
    BY <1>1, <1>2, <1>6, <1>8, <1>17, <2>1
  <2>5. ~broken' => Promised(End', meant', theirs', ours', {}, {})
    BY <1>1, <2>1, <2>2, <2>3
  <2>6. ParserTypes'
    BY <1>1, <1>2, <2>1, <2>2 DEF ParserTypes
  <2>7. QED
    BY <1>1, <1>2, <1>5, <1>6, <2>2, <2>4, <2>5, <2>6 DEF ParserInv
<1>18. QED
  BY <1>7, <1>15, <1>16, <1>17

LEMMA ParserInvStep == ParserInv /\ [ParserNext]_parserVars => ParserInv'
<1> SUFFICES ASSUME ParserInv, [ParserNext]_parserVars PROVE ParserInv'
  OBVIOUS
<1>1. CASE ParseChunk
  BY <1>1, ChunkKept
<1>2. CASE ServerData
  BY <1>2, DataArrives
<1>3. CASE ServerOffers
  BY <1>3, OfferArrives
<1>4. CASE ServerAsks
  BY <1>4, AskArrives
<1>5. CASE ServerSubnegotiates
  BY <1>5, SubArrives
<1>6. CASE ServerInterrupts
  BY <1>6, BreakArrives
<1>7. CASE ServerReads
  BY <1>7, ReadKept
<1>8. CASE UNCHANGED parserVars
  <2>1. UNCHANGED <<p, out, back, wire, meant, theirs, ours, sends, broken>>
    BY <1>8 DEF parserVars
  <2>2. End' = End /\ Here' = Here
    BY <2>1 DEF End, Here
  <2>3. ParserTypes'
    BY <2>1, <2>2 DEF ParserInv, ParserTypes
  <2>4. QED
    BY <2>1, <2>2, <2>3 DEF ParserInv
<1>9. QED
  BY <1>1, <1>2, <1>3, <1>4, <1>5, <1>6, <1>7, <1>8 DEF ParserNext, Server

\* What has been handed on does not depend on what is still to come.
LEMMA ParserInvPayload == ParserInv => PayloadExact
<1> SUFFICES ASSUME ParserInv, ~broken PROVE IsPrefix(out, meant) /\ (wire = <<>> => out = meant)
  BY DEF PayloadExact
<1> DEFINE fresh == [p |-> p, out |-> <<>>, back |-> back]
           more == Parsed(fresh, wire).out
<1>1. Here \in States /\ wire \in Seq(Symbols) /\ End.out = meant
  BY DEF ParserInv, ParserTypes, Promised
<1>2. p \in Parsers /\ out \in Seq(Symbols) /\ back \in Seq(Answered) /\ (p.is = "VERB" => p.verb \in Verbs)
  BY <1>1 DEF Here, States
<1>3. fresh \in States
  BY <1>2 DEF States
<1>4. Here = After(out, <<>>, fresh)
  <2>1. out \o <<>> = out /\ <<>> \o back = back
    BY <1>2
  <2>2. QED
    BY <2>1 DEF Here, After
<1> HIDE DEF fresh
<1>5. Parsed(fresh, wire) \in States
  BY <1>1, <1>3, ParsedType
<1>6. more \in Seq(Symbols)
  BY <1>5 DEF States
<1>7. meant = out \o more
  <2>1. <<>> \in Seq(Answered)
    OBVIOUS
  <2>2. End = After(out, <<>>, Parsed(fresh, wire))
    BY <1>1, <1>2, <1>3, <1>4, <2>1, ParsedAfter DEF End
  <2>3. End.out = out \o more
    BY <2>2 DEF After
  <2>4. QED
    BY <1>1, <2>3
<1> HIDE DEF more
<1>8. IsPrefix(out, meant)
  <2>1. Len(out) \in Nat /\ Len(meant) = Len(out) + Len(more) /\ Len(more) \in Nat
    BY <1>2, <1>6, <1>7
  <2>2. SubSeq(meant, 1, Len(out)) = out /\ SubSeq(out, 1, Len(out)) = out
    BY <1>2, <1>6, <1>7
  <2>3. Len(out) <= Len(meant)
    BY <2>1
  <2>4. QED
    BY <2>2, <2>3 DEF IsPrefix
<1>9. ASSUME wire = <<>> PROVE out = meant
  <2>1. End = Here
    BY <1>9, ParsedNone DEF End
  <2>2. QED
    BY <1>1, <2>1 DEF Here
<1>10. QED
  BY <1>8, <1>9

LEMMA ParserInvSettled == ParserInv => OptionsSettled
<1> SUFFICES ASSUME ParserInv, Quiet PROVE OptionsSettled
  BY DEF OptionsSettled
<1>1. End = Here /\ back = <<>> /\ Here.back = back /\ Here.p = p
  BY ParsedNone DEF Quiet, End, Here
<1>2. End.back = <<>> /\ End.p.echo = p.echo
  BY <1>1
<1>3. Requests(<<>>) = {} /\ ~LastEcho(<<>>, theirs["ECHO"] = "on") /\ ~LastEcho(<<>>, p.echo) /\ \A verbs, o : ~Pending(<<>>, verbs, o)
  BY DEF Requests, LastEcho, Pending
<1>4. sends = 0
  BY <1>2, <1>3, FS_EmptySet DEF ParserInv, Asked
<1>5. ASSUME ~broken
      PROVE  /\ p.echo <=> theirs["ECHO"] = "on"
             /\ \A o \in Options :
                  /\ theirs[o] \in (IF o \in {"ECHO", "SGA"} THEN {"off", "on"} ELSE {"off"})
                  /\ ours[o] \in (IF o \in {"TTYPE", "NAWS", "SGA"} THEN {"off", "on"} ELSE {"off"})
  <2>1. Promised(End, meant, theirs, ours, {}, {}) /\ theirs \in [Options -> Statuses] /\ ours \in [Options -> Statuses]
    BY <1>5 DEF ParserInv, ParserTypes
  <2>2. p.echo <=> theirs["ECHO"] = "on"
    BY <1>2, <1>3, <2>1 DEF Promised, EchoDue
  <2>3. ASSUME NEW o \in Options
        PROVE  /\ theirs[o] \in (IF o \in {"ECHO", "SGA"} THEN {"off", "on"} ELSE {"off"})
               /\ ours[o] \in (IF o \in {"TTYPE", "NAWS", "SGA"} THEN {"off", "on"} ELSE {"off"})
    <3>1. theirs[o] \in {"off", "offered", "on"} /\ ours[o] \in {"off", "offered", "on"}
      BY <2>1 DEF Statuses
    <3>2. /\ theirs[o] # "offered" /\ ours[o] # "offered"
          /\ (theirs[o] = "on" => o \in Accepted_Will) /\ (ours[o] = "on" => o \in Accepted_Do)
      BY <1>2, <1>3, <2>1 DEF Promised
    <3>3. QED
      BY <3>1, <3>2 DEF Accepted_Will, Accepted_Do
  <2>4. QED
    BY <2>2, <2>3
<1>6. QED
  BY <1>4, <1>5 DEF OptionsSettled

\* parse_chunk (telnet_proto.c:146-237): wherever recv() cuts the stream, what is
\* handed on is the payload the server meant, in order and without a byte of its
\* commands, for any sb_buf that holds a terminal-type request and any chunk.
THEOREM TelnetPayloadExact == ParserSpec => []PayloadExact
<1>1. ParserInit => ParserInv
  BY ParserInvInit
<1>2. ParserInv /\ [ParserNext]_parserVars => ParserInv'
  BY ParserInvStep
<1>3. ParserInv => PayloadExact
  BY ParserInvPayload
<1>4. QED
  BY <1>1, <1>2, <1>3, PTL DEF ParserSpec

\* The answers and server_echo (telnet_proto.c:178-205): with a server that answers
\* only a change, a quiet negotiation has left nothing half open and no request
\* unanswered, whatever answers and commands crossed on the way.
THEOREM TelnetOptionsSettled == ParserSpec => []OptionsSettled
<1>1. ParserInit => ParserInv
  BY ParserInvInit
<1>2. ParserInv /\ [ParserNext]_parserVars => ParserInv'
  BY ParserInvStep
<1>3. ParserInv => OptionsSettled
  BY ParserInvSettled
<1>4. QED
  BY <1>1, <1>2, <1>3, PTL DEF ParserSpec
===============================================================================
