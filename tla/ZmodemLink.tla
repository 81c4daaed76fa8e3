------------------------------ MODULE ZmodemLink ------------------------------
(***************************************************************************)
(* ZmodemSession at the end of a wire with a well-behaved sender of one    *)
(* file at the other.  The sender is not part of the source tree: it is    *)
(* modelled from the frames zmr_thread answers and the answers it sends    *)
(* (src/src/zmodem_recv.c).  It streams, rewinds when it is sent a         *)
(* position, and takes a ZRINIT after its ZEOF for the acceptance of the   *)
(* file.  On its way an item may be damaged, or lost where a full ring     *)
(* dropped exactly its bytes; replies travel undamaged and in order.       *)
(***************************************************************************)
EXTENDS ZmodemSession

CONSTANTS
    FileLen,        \* blocks of the file
    MaxWire,        \* bound: items under way
    MaxFaults,      \* bound: items damaged or lost
    MayLose         \* whether an item may vanish without a trace

ASSUME LinkAssumption ==
    /\ FileLen \in Nat \ {0} /\ FileLen <= Ceiling
    /\ Vals = 1 .. FileLen
    /\ MaxWire \in Nat /\ MaxFaults \in Nat /\ MayLose \in BOOLEAN

VARIABLES
    wire,       \* items on their way to the receiver
    back,       \* replies on their way to the sender
    mode, spos, \* the sender: what it does next, and its place in the file
    faults

linkVars == <<vars, wire, back, mode, spos, faults>>
Source == [i \in 1 .. FileLen |-> i]

LinkInit ==
    /\ Init /\ sendFailed = FALSE
    /\ wire = << >> /\ back = <<reply>>
    /\ mode = "init" /\ spos = 0 /\ faults = 0

-------------------------------------------------------------------------------
(* An item is put on the wire whole, damaged, or not at all. *)
Put(item) ==
    /\ Len(wire) < MaxWire
    /\ \/ wire' = Append(wire, item) /\ UNCHANGED faults
       \/ /\ faults < MaxFaults /\ item.kind \in {"hdr", "block"}
          /\ faults' = faults + 1
          /\ \/ wire' = Append(wire, [item EXCEPT !.good = FALSE])
             \/ MayLose /\ UNCHANGED wire

(* What the sender puts next in each mode, and the mode that follows. *)
PutNext ==
    /\ \/ mode = "offer" /\ mode' = "offerinfo" /\ Put(Hdr("file", 0, TRUE)) /\ UNCHANGED spos
       \/ mode = "offerinfo" /\ mode' = "offered" /\ Put(Block("W", << >>, 0, TRUE)) /\ UNCHANGED spos
       \/ mode = "data" /\ mode' = "stream" /\ Put(Hdr("data", spos, TRUE)) /\ UNCHANGED spos
       \/ /\ mode = "stream"
          /\ Put(Block(IF spos + 1 >= FileLen THEN "E" ELSE "G",
                       IF spos < FileLen THEN <<spos + 1>> ELSE << >>, 0, TRUE))
          /\ spos' = IF spos < FileLen THEN spos + 1 ELSE spos
          /\ mode' = IF spos + 1 >= FileLen THEN "eof" ELSE "stream"
       \/ mode = "cutshort" /\ mode' = "data" /\ Put(Block("E", << >>, 0, TRUE)) /\ UNCHANGED spos
       \/ mode = "eof" /\ mode' = "eofsent" /\ Put(Hdr("eof", spos, TRUE)) /\ UNCHANGED spos
       \/ mode = "fin" /\ mode' = "finsent" /\ Put(Hdr("fin", 0, TRUE)) /\ UNCHANGED spos
       \/ mode = "over" /\ mode' = "out" /\ Put(LetterO) /\ UNCHANGED spos
       \/ mode = "out" /\ mode' = "gone" /\ Put(LetterO) /\ UNCHANGED spos
    /\ UNCHANGED <<vars, back>>

(* How a reply moves the sender. *)
ModeAfter(r) ==
    CASE r.type = "rinit" /\ mode = "init" -> "offer"
      [] r.type = "rinit" /\ mode = "eofsent" -> "fin"
      [] r.type = "rpos" /\ mode = "stream" -> "cutshort"
      [] r.type = "rpos" /\ mode \in {"offered", "data", "cutshort", "eof", "eofsent"} ->
            IF mode = "cutshort" THEN mode ELSE "data"
      [] r.type = "nak" /\ mode \in {"offered"} -> "offer"
      [] r.type = "nak" /\ mode = "finsent" -> "fin"
      [] r.type = "fin" /\ mode = "finsent" -> "over"
      [] r.type = "can" -> "gone"
      [] OTHER -> mode

ReadReply ==
    /\ back # << >>
    /\ back' = Tail(back)
    /\ mode' = ModeAfter(Head(back))
    /\ spos' = IF Head(back).type = "rpos" /\ mode \in {"offered", "data", "stream", "cutshort", "eof", "eofsent"}
               THEN Head(back).pos ELSE spos
    /\ UNCHANGED <<vars, wire, faults>>

-------------------------------------------------------------------------------
(* The receiver's steps, and its reply on the way back. *)
Answered ==
    /\ ~sendFailed'
    /\ back' = IF reply'.type = "none" THEN back ELSE Append(back, reply')
    /\ UNCHANGED <<mode, spos, faults>>

Loop == (Top \/ DataTop) /\ Answered /\ UNCHANGED wire

TakeItem ==
    /\ wire # << >>
    /\ Receive(Head(wire)) /\ Answered
    /\ wire' = Tail(wire)

(* Thirty seconds of silence: nothing is under way in either direction and *)
(* the sender waits for a reply. *)
Silence ==
    /\ wire = << >> /\ back = << >>
    /\ mode \in {"init", "offered", "eofsent", "finsent", "gone"}
    /\ Receive(Quiet) /\ Answered
    /\ UNCHANGED wire

LinkNext == PutNext \/ ReadReply \/ Loop \/ TakeItem \/ Silence

LinkSpec == LinkInit /\ [][LinkNext]_linkVars

(* Both ends keep running. *)
LinkFairness ==
    /\ WF_linkVars(PutNext) /\ WF_linkVars(ReadReply)
    /\ WF_linkVars(Loop \/ TakeItem \/ Silence)

LinkFairSpec == LinkSpec /\ LinkFairness
-------------------------------------------------------------------------------
(* Properties *)

Files == {s \in 1 .. Slots : disk[s].kind = "ours"}
IsPrefixOfSource(data) == \A i \in 1 .. Len(data) : data[i] = i

(* Damage never corrupts: whatever has been written is the beginning of    *)
(* the file, however many items were damaged and resent.                   *)
PrefixOnly == \A s \in Files : Len(disk[s].data) <= FileLen /\ IsPrefixOfSource(disk[s].data)

(* What is written is the source's; and without damage only the disk can   *)
(* make a transfer fail, and success is the whole file.                    *)
SourceArrives ==
    /\ PrefixOnly
    /\ phase = "ended" /\ faults = 0 =>
           status = "io" \/ (status = "ok" /\ disk[path].data = Source)

(* However much was damaged, the conversation comes to an end. *)
LinkEnds == <>(phase = "ended")

(* Claims of the comments that the code does not keep.                     *)

(* "ZMR_OK: file received and closed" (zmodem_recv.h:50)                   *)
OkMeansWhole == phase = "ended" /\ status = "ok" => disk[path].data = Source

(* "Dropped bytes fail a CRC and cost one ZRPOS retry, which is the        *)
(* recoverable failure, not a corrupted file." (zmodem_recv.c:262)         *)
DropNeverCorrupts == PrefixOnly
===============================================================================
