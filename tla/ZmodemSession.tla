---------------------------- MODULE ZmodemSession ----------------------------
(***************************************************************************)
(* The conversation of one Zmodem receive session: zmr_thread of           *)
(* src/src/zmodem_recv.c, with what the vendored core (third_party/mbzm)   *)
(* makes of the byte stream between two of its decisions.                  *)
(*                                                                         *)
(* The far end is anybody: in every state it may present any item next.    *)
(* An item is a header, a data subpacket (a block), the CAN sequence of a  *)
(* sender that gives up, one byte of text, or silence for longer than the  *)
(* idle timeout.  Headers and blocks may be damaged, which their CRC       *)
(* shows.  A position counts blocks, a block's payload being its values.   *)
(***************************************************************************)
EXTENDS Integers, Sequences, FiniteSetsExt

CONSTANTS
    MaxErrors,      \* ZMR_MAX_ERRORS
    Ceiling,        \* ZMR_MAX_BYTES, in blocks
    Slots,          \* the names build_unique_path tries for one offered name
    Vals            \* payload values a block may carry

ASSUME SessionAssumption ==
    /\ MaxErrors \in Nat /\ Ceiling \in Nat
    /\ Slots \in Nat \ {0}

VARIABLES
    phase,          \* where the worker is
    cancel,         \* cancel_request
    pending,        \* the read under way when the cancel came may still complete
    sendFailed,     \* send_failed
    errors, status, received, open, sawFile,
    path,           \* slot of z->path, 0 when it is empty
    junk,           \* the subpacket being read already holds foreign bytes
    oo,             \* bytes read after ZFIN
    disk,           \* slot -> what lies under that name
    reply,          \* what the worker sent in the last step
    badRun,         \* history: damaged blocks since the last good one
    quit,           \* history: the sender's CAN sequence arrived undamaged
    eaten,          \* history: text bytes read as if they were "OO"
    ended,          \* history: slots whose end of file was read
    late            \* history: blocks written after a cancel was asked for

connVars == <<cancel, pending, sendFailed>>
fileVars == <<received, open, sawFile, path>>
histVars == <<badRun, quit, eaten, ended, late>>
vars == <<phase, connVars, errors, status, fileVars, junk, oo, disk, reply, histVars>>

Absent == [kind |-> "absent", data |-> << >>]
Theirs == [kind |-> "theirs", data |-> << >>]   \* there before the session
Ours(data) == [kind |-> "ours", data |-> data]

(* Items, as the sender presents them. *)
Hdr(type, pos, good) == [kind |-> "hdr", type |-> type, pos |-> pos, good |-> good]
Block(end, data, size, good) ==
    [kind |-> "block", end |-> end, data |-> data, size |-> size, good |-> good]
Can == [kind |-> "can"]
CutByCan == [kind |-> "cut"]        \* a binary header broken off by a CAN sequence
Text == [kind |-> "text"]
LetterO == [kind |-> "O"]
Quiet == [kind |-> "quiet"]

Init ==
    /\ phase = "top" /\ cancel = FALSE /\ pending = FALSE /\ sendFailed \in BOOLEAN
    /\ errors = 0 /\ status = "protocol" /\ received = 0
    /\ open = FALSE /\ sawFile = FALSE /\ path = 0
    /\ junk = FALSE /\ oo = 0
    /\ disk \in [1 .. Slots -> {Absent, Theirs}]
    /\ reply = [type |-> "rinit", pos |-> 0]
    /\ badRun = 0 /\ quit = FALSE /\ eaten = 0 /\ ended = {} /\ late = 0

-------------------------------------------------------------------------------
(* Replies and endings *)

(* The flag zmodem_recv_cancel raises, as the worker polls it. *)
Asked_Never == FALSE
Asked == cancel

(* A reply leaves in one write, which the transport may refuse. *)
Send(type, pos) ==
    /\ reply' = [type |-> type, pos |-> pos]
    /\ sendFailed' \in {sendFailed, TRUE}

Silent == reply' = [type |-> "none", pos |-> 0] /\ UNCHANGED sendFailed

(* The loop is left with an outcome: the file is closed and, unless the    *)
(* outcome is success, whatever path names is deleted and path is cleared. *)
End_KeepPartial(outcome, p, d) ==
    /\ phase' = "ended" /\ status' = outcome
    /\ open' = FALSE
    /\ path' = IF outcome = "ok" THEN p ELSE 0
    /\ disk' = d
End(outcome, p, d) ==
    /\ phase' = "ended" /\ status' = outcome
    /\ open' = FALSE
    /\ path' = IF outcome = "ok" THEN p ELSE 0
    /\ disk' = IF outcome # "ok" /\ p # 0 THEN [d EXCEPT ![p] = Absent] ELSE d

EndHere(outcome) ==
    /\ End(outcome, path, disk)
    /\ UNCHANGED <<received, sawFile>>

(* zmr_own_cancel: a stop the user asked for is not blamed on the sender.  *)
Blame_SenderFirst(outcome) == outcome
Blame(outcome) == IF Asked THEN "cancelled" ELSE outcome

(* zsend_cancel goes with the stops that are ours. *)
Stop(outcome) ==
    /\ EndHere(Blame(outcome))
    /\ IF Asked THEN Send("can", 0) ELSE Silent

Goto(p) == phase' = p /\ UNCHANGED <<status, disk, fileVars>>

(* One more protocol error: give up past the limit, else answer and go on. *)
Complain_NoLimit(type, pos, count) ==
    /\ errors' = count + 1
    /\ Goto("top") /\ Send(type, pos)
Complain(type, pos, count) ==
    /\ errors' = count + 1
    /\ IF count + 1 > MaxErrors
       THEN EndHere("protocol") /\ Silent
       ELSE Goto("top") /\ Send(type, pos)

-------------------------------------------------------------------------------
(* The head of the loop, and a header read by zm_await_header *)

Cancel ==
    /\ phase # "ended" /\ ~cancel
    /\ cancel' = TRUE
    /\ pending' = (phase \notin {"top", "dtop"})
    /\ reply' = [type |-> "none", pos |-> 0]
    /\ UNCHANGED <<phase, sendFailed, errors, status, fileVars, junk, oo, disk, histVars>>

Top ==
    /\ phase = "top"
    /\ IF Asked THEN EndHere("cancelled") /\ Send("can", 0)
       ELSE IF sendFailed THEN EndHere("aborted") /\ Silent
       ELSE Goto("await") /\ Silent
    /\ UNCHANGED <<cancel, pending, errors, junk, oo, histVars>>

(* zm_await_header fails: a damaged header, or a stray block, whose frame  *)
(* end is taken for a header's introducer.                                 *)
AwaitBad(item) ==
    /\ phase = "await"
    /\ item.kind \in {"hdr", "block"}
    /\ item.kind = "hdr" => ~item.good
    /\ IF open THEN Complain("rpos", received, errors) ELSE Complain("nak", 0, errors)
    /\ UNCHANGED <<cancel, junk, oo, histVars>>

(* Silence ends the wait for a header; so does a hex header damaged into   *)
(* the value that zm_read_hex_header takes for the end of the stream.      *)
AwaitClosed(item) ==
    /\ phase = "await"
    /\ item = Quiet \/ (item.kind = "hdr" /\ ~item.good)
    /\ Stop("timeout")
    /\ UNCHANGED <<cancel, errors, junk, oo, histVars>>

(* Only inside a binary header is the sender's CAN sequence noticed. *)
AwaitCancelled(item) ==
    /\ phase = "await"
    /\ item = CutByCan
    /\ Stop("aborted")
    /\ quit' = TRUE
    /\ UNCHANGED <<cancel, errors, junk, oo, badRun, eaten, ended, late>>

(* Text between headers is skipped, and so is the sender's CAN sequence:   *)
(* zm_await_header goes on after any error in place of the frame type.     *)
AwaitSkip(item) ==
    /\ phase = "await"
    /\ item.kind \in {"text", "O", "can"}
    /\ quit' = (quit \/ item = Can)
    /\ Silent
    /\ UNCHANGED <<phase, cancel, errors, status, fileVars, junk, oo, disk, badRun, eaten, ended, late>>

(* A good header resets the error count. *)
Header(item, types) ==
    /\ phase = "await"
    /\ item.kind = "hdr" /\ item.good /\ item.type \in types

HdrRefused(item) ==
    /\ Header(item, {"command", "compl"})
    /\ errors' = 0
    /\ EndHere("refused") /\ Send("can", 0)
    /\ UNCHANGED <<cancel, junk, oo, histVars>>

(* ZRQINIT, ZCHALLENGE and ZFREECOUNT are answered on the spot. *)
HdrAnswered(item) ==
    /\ Header(item, {"rqinit", "challenge", "freecount"})
    /\ errors' = 0
    /\ Goto("top")
    /\ CASE item.type = "rqinit" -> Send("rinit", 0)
         [] item.type = "challenge" -> Send("ack", item.pos)
         [] item.type = "freecount" -> Send("ack", Ceiling)
    /\ UNCHANGED <<cancel, junk, oo, histVars>>

(* ZSINIT and ZFILE announce a block of their own, ZDATA blocks to come    *)
(* unless there is no file or the position is not the receiver's.          *)
HdrBlockFollows(item) ==
    /\ Header(item, {"sinit", "file"})
    /\ errors' = 0 /\ junk' = FALSE
    /\ Goto(item.type) /\ Silent
    /\ UNCHANGED <<cancel, oo, histVars>>

InStep_Unchecked(pos) == TRUE
InStep(pos) == pos = received

HdrData(item) ==
    /\ Header(item, {"data"})
    /\ errors' = 0 /\ junk' = FALSE
    /\ IF ~open THEN Goto("top") /\ Send("rpos", 0)
       ELSE IF ~InStep(item.pos) THEN Goto("top") /\ Send("rpos", received)
       ELSE Goto("dtop") /\ Silent
    /\ UNCHANGED <<cancel, oo, histVars>>

(* ZEOF: flush, which may fail, and ask for the next file. *)
HdrEof(item) ==
    /\ Header(item, {"eof"})
    /\ errors' = 0
    /\ \/ open /\ EndHere("io") /\ Silent /\ UNCHANGED ended
       \/ /\ Goto("top") /\ Send("rinit", 0)
          /\ ended' = IF open THEN ended \cup {path} ELSE ended
    /\ UNCHANGED <<cancel, junk, oo, badRun, quit, eaten, late>>

HdrFin(item) ==
    /\ Header(item, {"fin"})
    /\ errors' = 0 /\ oo' = 0
    /\ Goto("oo") /\ Send("fin", 0)
    /\ UNCHANGED <<cancel, junk, histVars>>

HdrGivesUp(item) ==
    /\ Header(item, {"skip", "abort", "err", "zcan"})
    /\ errors' = 0
    /\ EndHere("aborted") /\ Silent
    /\ UNCHANGED <<cancel, junk, oo, histVars>>

HdrUnknown(item) ==
    /\ Header(item, {"unknown"})
    /\ Complain("nak", 0, 0)
    /\ UNCHANGED <<cancel, junk, oo, histVars>>

-------------------------------------------------------------------------------
(* A block read by zm_read_data_block: the payload of ZSINIT or ZFILE, or  *)
(* data.  Foreign bytes before a frame end spoil the block that ends there.*)

Reading == phase \in {"sinit", "file", "data"}

(* Bytes of something else, or a block whose frame end was destroyed. *)
ReadJunk(item) ==
    /\ Reading
    /\ item.kind \in {"hdr", "text", "O", "block"}
    /\ item.kind = "block" => ~item.good
    /\ junk' = TRUE
    /\ Silent
    /\ UNCHANGED <<phase, cancel, errors, status, fileVars, oo, disk, histVars>>

(* The sender's CAN sequence in the middle of a block. *)
ReadCancelled(item) ==
    /\ Reading
    /\ item \in {Can, CutByCan}
    /\ Stop("aborted")
    /\ quit' = TRUE
    /\ UNCHANGED <<cancel, errors, junk, oo, badRun, eaten, ended, late>>

Sound(item) == item.kind = "block" /\ item.good /\ ~junk
Spoilt(item) == item.kind = "block" /\ (~item.good \/ junk)

(* The attention string is acknowledged whatever came. *)
SinitRead(item) ==
    /\ phase = "sinit"
    /\ item.kind = "block" \/ item = Quiet
    /\ Goto("top") /\ Send("ack", 0)
    /\ UNCHANGED <<cancel, errors, junk, oo, histVars>>

(* A ZFILE payload that does not decode; silence counts as one. *)
FileSpoilt(item) ==
    /\ phase = "file"
    /\ Spoilt(item) \/ item = Quiet
    /\ Complain("nak", 0, errors)
    /\ UNCHANGED <<cancel, junk, oo, histVars>>

FileTooBig(item) ==
    /\ phase = "file"
    /\ Sound(item) /\ item.size > Ceiling
    /\ EndHere("too_big") /\ Send("can", 0)
    /\ UNCHANGED <<cancel, errors, junk, oo, histVars>>

(* build_unique_path: the first name not taken, or none of them. *)
FreeSlots == {s \in 1 .. Slots : disk[s] = Absent}
FirstFree_Overwrite == 1
FirstFree == CHOOSE s \in FreeSlots : \A t \in FreeSlots : s <= t

(* The file before is closed as it stands and a new one is created. *)
FileOpened(item) ==
    /\ phase = "file"
    /\ Sound(item) /\ item.size <= Ceiling
    /\ FreeSlots # {}
    /\ received' = 0 /\ open' = TRUE /\ sawFile' = TRUE
    /\ path' = FirstFree
    /\ disk' = [disk EXCEPT ![FirstFree] = Ours(<< >>)]
    /\ phase' = "top" /\ UNCHANGED status
    /\ Send("rpos", 0)
    /\ UNCHANGED <<cancel, errors, junk, oo, histVars>>

(* No name is free, path then holding the last one tried, or the file      *)
(* cannot be created.                                                      *)
FileNotOpened(item) ==
    /\ phase = "file"
    /\ Sound(item) /\ item.size <= Ceiling
    /\ received' = 0
    /\ End("io", IF FreeSlots = {} THEN Slots ELSE FirstFree, disk)
    /\ Send("can", 0)
    /\ UNCHANGED <<cancel, sawFile, errors, junk, oo, histVars>>

-------------------------------------------------------------------------------
(* Data *)

(* The head of the data loop. *)
DataTop ==
    /\ phase = "dtop"
    /\ IF Asked THEN EndHere("cancelled") /\ Send("can", 0)
       ELSE Goto("data") /\ Silent
    /\ junk' = FALSE
    /\ UNCHANGED <<cancel, pending, errors, oo, histVars>>

DataQuiet_WaitsOn(item) ==
    /\ phase = "data"
    /\ item = Quiet
    /\ Goto("dtop") /\ Silent
    /\ UNCHANGED <<cancel, errors, junk, oo, histVars>>
DataQuiet(item) ==
    /\ phase = "data"
    /\ item = Quiet
    /\ Stop("timeout")
    /\ UNCHANGED <<cancel, errors, junk, oo, histVars>>

(* Nothing of a damaged block is written; the sender is put back. *)
DataSpoilt(item) ==
    /\ phase = "data"
    /\ Spoilt(item)
    /\ Complain("rpos", received, errors)
    /\ badRun' = IF badRun > MaxErrors THEN badRun ELSE badRun + 1
    /\ UNCHANGED <<cancel, junk, oo, quit, eaten, ended, late>>

Fits_OffByOne(n) == received <= Ceiling
Fits(n) == received + n <= Ceiling

(* A sound block that does not fit, or that the disk refuses. *)
DataRefused(item) ==
    /\ phase = "data"
    /\ Sound(item)
    /\ errors' = 0 /\ badRun' = 0
    /\ \/ ~Fits(Len(item.data)) /\ EndHere("too_big")
       \/ Fits(Len(item.data)) /\ item.data # << >> /\ EndHere("io")
    /\ Send("can", 0)
    /\ UNCHANGED <<cancel, junk, oo, quit, eaten, ended, late>>

(* A sound block is written; its frame end says what follows. *)
DataWritten(item) ==
    /\ phase = "data"
    /\ Sound(item)
    /\ Fits(Len(item.data))
    /\ errors' = 0 /\ badRun' = 0
    /\ received' = received + Len(item.data)
    /\ disk' = [disk EXCEPT ![path].data = @ \o item.data]
    /\ phase' = IF item.end \in {"G", "Q"} THEN "dtop" ELSE "top"
    /\ IF item.end \in {"Q", "W"} THEN Send("ack", received') ELSE Silent
    /\ late' = IF cancel /\ late < 2 THEN late + 1 ELSE late
    /\ UNCHANGED <<cancel, status, open, sawFile, path, junk, oo, quit, eaten, ended>>

-------------------------------------------------------------------------------
(* After ZFIN: up to two bytes are read in case they are "OO". *)

FinOutcome_Always == "ok"
FinOutcome_WantsClosed == IF sawFile /\ ~open THEN "ok" ELSE "protocol"
FinOutcome == IF sawFile /\ open THEN "ok" ELSE "protocol"

FirstO(item) ==
    /\ phase = "oo" /\ oo = 0
    /\ item = LetterO
    /\ oo' = 1
    /\ Silent
    /\ UNCHANGED <<phase, cancel, errors, status, fileVars, junk, disk, histVars>>

FinDone(item) ==
    /\ phase = "oo"
    /\ item = LetterO => oo = 1
    /\ EndHere(FinOutcome) /\ Silent
    /\ eaten' = IF item.kind = "text" THEN 1 ELSE eaten
    /\ UNCHANGED <<cancel, errors, junk, oo, badRun, quit, ended, late>>

-------------------------------------------------------------------------------
(* zm_recv returns CANCELLED once the user has asked: whatever was being   *)
(* read is given up.  After ZFIN that only ends the wait for "OO".         *)
Interrupted ==
    /\ Asked /\ phase \notin {"top", "dtop", "ended"}
    /\ IF phase = "oo" THEN EndHere(FinOutcome) /\ Silent ELSE Stop("timeout")
    /\ pending' = FALSE
    /\ UNCHANGED <<cancel, errors, junk, oo, histVars>>

(* An item is read to its end; after a cancel only one already under way.  *)
Conversation(item) ==
    \/ AwaitBad(item) \/ AwaitClosed(item) \/ AwaitCancelled(item) \/ AwaitSkip(item)
    \/ HdrRefused(item) \/ HdrAnswered(item) \/ HdrBlockFollows(item) \/ HdrData(item)
    \/ HdrEof(item) \/ HdrFin(item) \/ HdrGivesUp(item) \/ HdrUnknown(item)
    \/ ReadJunk(item) \/ ReadCancelled(item) \/ SinitRead(item)
    \/ FileSpoilt(item) \/ FileTooBig(item) \/ FileOpened(item) \/ FileNotOpened(item)
    \/ DataQuiet(item) \/ DataSpoilt(item) \/ DataRefused(item) \/ DataWritten(item)
    \/ FirstO(item) \/ FinDone(item)

Receive(item) ==
    /\ Asked => pending
    /\ pending' = FALSE
    /\ Conversation(item)

HdrTypes == {"command", "compl", "rqinit", "sinit", "challenge", "freecount", "file",
             "data", "eof", "fin", "skip", "abort", "err", "zcan", "unknown"}

(* Everything a sender may present; positions up to one past the ceiling,  *)
(* offered sizes up to one past it.                                        *)
Items ==
    {Hdr(t, 0, TRUE) : t \in HdrTypes \ {"data"}}
    \cup {Hdr("data", n, TRUE) : n \in 0 .. Ceiling + 1}
    \cup {Hdr("unknown", 0, FALSE)}
    \cup {Block(e, d, 0, TRUE) : e \in {"E", "G", "Q", "W"},
                                 d \in {<< >>} \cup {<<v>> : v \in Vals}}
    \cup {Block("W", << >>, Ceiling + 1, TRUE), Block("E", << >>, 0, FALSE)}
    \cup {Can, CutByCan, Text, LetterO, Quiet}

Worker == Top \/ DataTop \/ Interrupted \/ \E item \in Items : Receive(item)

Next == Cancel \/ Worker

Spec == Init /\ [][Next]_vars

(* The worker thread runs; a read that a cancel interrupts returns.        *)
Fairness == WF_vars(Worker)

FairSpec == Spec /\ Fairness

-------------------------------------------------------------------------------
(* Properties *)

File == [kind : {"absent", "theirs", "ours"}, data : Seq(Vals)]

(* Every variable stays in its range. *)
TypeOK ==
    /\ phase \in {"top", "await", "sinit", "file", "dtop", "data", "oo", "ended"}
    /\ cancel \in BOOLEAN /\ pending \in BOOLEAN /\ sendFailed \in BOOLEAN
    /\ errors \in 0 .. MaxErrors + 1
    /\ status \in {"ok", "cancelled", "refused", "too_big", "io", "protocol", "timeout", "aborted"}
    /\ received \in 0 .. Ceiling
    /\ open \in BOOLEAN /\ sawFile \in BOOLEAN /\ path \in 0 .. Slots
    /\ junk \in BOOLEAN /\ oo \in 0 .. 1
    /\ disk \in [1 .. Slots -> File]
    /\ badRun \in 0 .. MaxErrors + 1 /\ quit \in BOOLEAN /\ eaten \in 0 .. 1
    /\ ended \subseteq 1 .. Slots /\ late \in 0 .. 2

(* What the sender is told is where the file really stands: every position *)
(* sent with a file open is the number of blocks on disk, success is       *)
(* reported of a file that is there with what was received, and no file    *)
(* outgrows the ceiling (zmodem_recv.c:888).                               *)
PositionsAreReal ==
    /\ open => disk[path].kind = "ours" /\ Len(disk[path].data) = received
    /\ open /\ reply.type = "rpos" => reply.pos = received
    /\ phase = "ended" /\ status = "ok" =>
          path # 0 /\ disk[path].kind = "ours" /\ Len(disk[path].data) = received
    /\ \A s \in 1 .. Slots : Len(disk[s].data) <= Ceiling

(* A transfer that fails with a file open removes that file, unless what   *)
(* failed was the offer of the next one (zmodem_recv.c:991); and files      *)
(* that were there before are not written to.                              *)
FilesAccountedFor ==
    /\ [][phase' = "ended" /\ status' # "ok" /\ open /\ phase # "file"
            => disk'[path] = Absent]_vars
    /\ [][\A s \in 1 .. Slots : disk[s] = Theirs => disk'[s].kind # "ours"]_vars

(* A cancelled session ends, the worker cannot be kept busy; at most the   *)
(* block whose last byte was already under way is written until then; and  *)
(* the stop is never reported as a quiet sender (zmr_own_cancel,           *)
(* zmodem_recv.c:562).                                                     *)
CancelObeyed ==
    /\ [](late <= 1) /\ (cancel ~> phase = "ended")
    /\ [][status # status' /\ status' = "timeout" => ~cancel]_vars

(* Claims of the comments that the code does not keep.                     *)

(* "The ceiling is on the session total, not just on one file."            *)
(* (zmodem_recv.c:59)                                                      *)
SessionCeiling == MapThenSumSet(LAMBDA s : Len(disk[s].data), 1 .. Slots) <= Ceiling

(* "How many consecutive protocol errors we absorb before giving up", and  *)
(* the message "Too many bad blocks; gave up." (zmodem_recv.c:125 and 879) *)
BadBlocksBounded == badRun <= MaxErrors

(* "ZMR_TIMEOUT: the sender went quiet": a sender that cancels is not one  *)
(* that went quiet. (zmodem_recv.h:57)                                     *)
SenderCancelReported == phase = "ended" /\ status = "timeout" => ~quit

(* "Never overwrites a file that is already there", nor removes it.        *)
(* (zmodem_recv.c:480)                                                     *)
TheirsKept == [][\A s \in 1 .. Slots : disk[s] = Theirs => disk'[s] = Theirs]_vars

(* A transfer that did not finish leaves no half-written file behind.      *)
(* (zmodem_recv.c:991)                                                     *)
NoPartialLeft ==
    phase = "ended" /\ status # "ok" =>
        \A s \in 1 .. Slots : disk[s].kind = "ours" => s \in ended

(* Bytes after the conversation "must be handed on, not dropped".          *)
(* (zmodem_recv.h:75)                                                      *)
TailKept == eaten = 0
===============================================================================
