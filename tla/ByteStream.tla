------------------------------ MODULE ByteStream ------------------------------
(***************************************************************************)
(* What a Zmodem session promises about the payload bytes handed to it     *)
(* (src/src/zmodem_recv.h): the bytes it accepted are consumed in the      *)
(* order they were accepted, each of them once, and whatever the Zmodem    *)
(* conversation did not consume is handed back, in order and whole, as the *)
(* tail of the result, unless the copy cannot be allocated.  ZmodemRing    *)
(* implements it with a ring shared by two threads.                        *)
(***************************************************************************)
EXTENDS Naturals, Sequences

VARIABLES
    queue,      \* bytes accepted and not yet consumed
    consumed,   \* bytes the conversation has taken, in the order it took them
    handed,     \* bytes given back with the result
    closed      \* the result has been given

streamVars == <<queue, consumed, handed, closed>>

Init ==
    /\ queue = << >>
    /\ consumed = << >>
    /\ handed = << >>
    /\ closed = FALSE

(* Some more bytes are accepted behind those already waiting. *)
Accept ==
    /\ ~closed
    /\ Len(queue') >= Len(queue)
    /\ \A i \in 1 .. Len(queue) : queue'[i] = queue[i]
    /\ UNCHANGED <<consumed, handed, closed>>

(* The conversation takes the oldest waiting byte. *)
Consume ==
    /\ ~closed
    /\ queue # << >>
    /\ consumed' = Append(consumed, Head(queue))
    /\ queue' = Tail(queue)
    /\ UNCHANGED <<handed, closed>>

(* The session ends and gives back everything it did not take, or, when    *)
(* there is no memory for it, nothing.                                     *)
HandBack ==
    /\ ~closed
    /\ closed' = TRUE
    /\ handed' \in {queue, << >>}
    /\ queue' = << >>
    /\ UNCHANGED consumed

Next == Accept \/ Consume \/ HandBack

Spec == Init /\ [][Next]_streamVars
===============================================================================
