--------------------------- MODULE ZmodemLink_proofs ---------------------------
(* Machine-checked theorem about ZmodemLink: one file of any length over a    *)
(* wire that damages any of its items, for any error limit and any room.      *)
EXTENDS ZmodemSession_proofs, ZmodemLink

-------------------------------------------------------------------------------
(* What is on the wire is what the sender puts there, damaged or not; what    *)
(* comes back is what the worker of zmr_thread may say.                       *)

Chunks == {<< >>} \cup {<<v>> : v \in 1 .. FileLen}
SentHdrs == [kind : {"hdr"}, type : {"file", "data", "eof", "fin"}, pos : 0 .. FileLen, good : BOOLEAN]
SentBlocks == [kind : {"block"}, end : {"E", "G", "W"}, data : Chunks, size : {0}, good : BOOLEAN]
SentItems == SentHdrs \cup SentBlocks \cup {LetterO}
Replies == [type : {"none", "rinit", "rpos", "nak", "ack", "fin", "can"}, pos : Nat]

(* x ends where block u does, and the next block after x is u + 1.           *)
Leads(x, u) ==
    \/ x.kind = "hdr" /\ x.type = "data" /\ x.pos = u
    \/ x.kind = "block" /\ x.data = <<u>>

(* A block that is not empty is number n.                                    *)
IsNext(x, n) == x.kind = "block" => \A v \in 1 .. FileLen : x.data = <<v>> => v = n

(* Every block lies behind the one before it or behind its header, damaged   *)
(* or not, and the next one the sender streams is behind the last.           *)
InOrder ==
    /\ \A i \in 1 .. Len(wire) : i + 1 \in 1 .. Len(wire) =>
           \A v \in 1 .. FileLen : wire[i + 1].kind = "block" /\ wire[i + 1].data = <<v>> => Leads(wire[i], v - 1)
    /\ mode = "stream" /\ wire # << >> => Leads(wire[Len(wire)], spos)

(* A receiver that will write the next sound block will write the right one. *)
Clean == phase = "dtop" \/ (phase = "data" /\ ~junk)
RightNext ==
    Clean => /\ wire # << >> => IsNext(wire[1], received + 1)
             /\ wire = << >> /\ mode = "stream" => spos = received

DiskOk(d) == \A s \in 1 .. Slots : d[s].kind = "ours" =>
                 Len(d[s].data) <= FileLen /\ \A i \in 1 .. Len(d[s].data) : d[s].data[i] = i

LinkTypes ==
    /\ wire \in Seq(SentItems) /\ spos \in 0 .. FileLen /\ received \in 0 .. FileLen
    /\ back \in Seq(Replies) /\ \A i \in 1 .. Len(back) : back[i].type = "rpos" => back[i].pos \in 0 .. FileLen

(* The invariant behind PrefixOnly.                                           *)
PrefixInv == SessionInv /\ LinkTypes /\ InOrder /\ RightNext /\ DiskOk(disk)

-------------------------------------------------------------------------------
LEMMA LinkConstants == FileLen \in Nat \ {0} /\ FileLen <= Ceiling /\ Vals = 1 .. FileLen /\ Ceiling \in Nat
  BY LinkAssumption, SessionAssumption

LEMMA SentIs ==
    ASSUME NEW x \in SentItems
    PROVE  /\ x.kind \in {"hdr", "block", "O"}
           /\ x.kind = "hdr" => x \in SentHdrs
           /\ x.kind = "block" => x \in SentBlocks /\ x.data \in Chunks
           /\ x.kind = "O" => x = LetterO
  <1>1. LetterO.kind = "O"
    BY DEF LetterO
  <1>2. \A y \in SentHdrs : y.kind = "hdr"
    BY DEF SentHdrs
  <1>3. \A y \in SentBlocks : y.kind = "block" /\ y.data \in Chunks
    BY DEF SentBlocks
  <1> QED
    BY <1>1, <1>2, <1>3 DEF SentItems

LEMMA ChunkIs ==
    ASSUME NEW d \in Chunks
    PROVE  /\ d \in Seq(Vals) /\ (d = << >> \/ \E v \in 1 .. FileLen : d = <<v>>)
  <1>1. Vals = 1 .. FileLen
    BY LinkConstants
  <1>2. << >> \in Seq(Vals)
    OBVIOUS
  <1>3. \A v \in Vals : <<v>> \in Seq(Vals)
    OBVIOUS
  <1> QED
    BY <1>1, <1>2, <1>3 DEF Chunks

LEMMA LinkStart == LinkInit => PrefixInv
  <1> SUFFICES ASSUME LinkInit PROVE PrefixInv
    OBVIOUS
  <1>1. SessionInv
    BY SessionInit DEF LinkInit
  <1>2. wire = << >> /\ back = <<reply>> /\ mode = "init" /\ spos = 0 /\ received = 0 /\ phase = "top"
        /\ reply = [type |-> "rinit", pos |-> 0]
    BY DEF LinkInit, Init
  <1>3. LinkTypes
    <2>1. << >> \in Seq(SentItems) /\ 0 \in 0 .. FileLen
      BY LinkConstants
    <2>2. reply \in Replies
      BY <1>2 DEF Replies
    <2>3. <<reply>> \in Seq(Replies) /\ Len(<<reply>>) = 1 /\ <<reply>>[1] = reply
      BY <2>2
    <2>4. reply.type # "rpos"
      BY <1>2
    <2>5. \A i \in 1 .. Len(back) : back[i].type = "rpos" => back[i].pos \in 0 .. FileLen
      BY <1>2, <2>3, <2>4
    <2> QED
      BY <1>2, <2>1, <2>3, <2>5 DEF LinkTypes
  <1>4. InOrder /\ RightNext
    BY <1>2 DEF InOrder, RightNext, Clean
  <1>5. DiskOk(disk)
    <2>1. disk \in [1 .. Slots -> {Absent, Theirs}]
      BY DEF LinkInit, Init
    <2>2. \A s \in 1 .. Slots : disk[s].kind # "ours"
      BY <2>1 DEF Absent, Theirs
    <2> QED
      BY <2>2 DEF DiskOk
  <1> QED
    BY <1>1, <1>3, <1>4, <1>5 DEF PrefixInv

\* The sender puts x at the end.
LEMMA PutKeeps ==
    ASSUME PrefixInv, UNCHANGED <<vars, back>>, NEW x \in SentItems, wire' = Append(wire, x), spos' \in 0 .. FileLen,
           x.kind = "block" => \A v \in 1 .. FileLen : x.data = <<v>> => mode = "stream" /\ v = spos + 1,
           mode' = "stream" => Leads(x, spos')
    PROVE  PrefixInv'
  <1>1. UNCHANGED <<phase, status, received, open, sawFile, path, junk, disk, reply>>
    BY DEF vars, fileVars
  <1>2. wire \in Seq(SentItems) /\ spos \in 0 .. FileLen
    BY DEF PrefixInv, LinkTypes
  <1>3. /\ wire' \in Seq(SentItems) /\ Len(wire) \in Nat /\ Len(wire') = Len(wire) + 1
        /\ \A i \in 1 .. Len(wire) : wire'[i] = wire[i]
        /\ wire'[Len(wire) + 1] = x
    BY <1>2
  <1>4. wire = << >> <=> Len(wire) = 0
    BY <1>2
  <1>5. SessionInv'
    BY <1>1 DEF PrefixInv, SessionInv, Ranges
  <1>6. LinkTypes'
    BY <1>1, <1>3 DEF PrefixInv, LinkTypes
  <1>7. InOrder'
    <2>1. ASSUME NEW i \in 1 .. Len(wire'), i + 1 \in 1 .. Len(wire'), NEW v \in 1 .. FileLen,
                 wire'[i + 1].kind = "block", wire'[i + 1].data = <<v>>
          PROVE  Leads(wire'[i], v - 1)
      <3>1. i \in 1 .. Len(wire) /\ wire'[i] = wire[i]
        BY <1>3, <2>1
      <3>2. CASE i + 1 \in 1 .. Len(wire)
        BY <1>3, <2>1, <3>1, <3>2 DEF PrefixInv, InOrder
      <3>3. CASE i = Len(wire)
        <4>1. wire'[i + 1] = x
          BY <1>3, <3>3
        <4>2. mode = "stream" /\ v = spos + 1
          BY <2>1, <4>1
        <4>3. wire # << >> /\ v - 1 = spos
          BY <1>2, <1>4, <3>1, <4>2
        <4>4. Leads(wire[Len(wire)], spos)
          BY <4>2, <4>3 DEF PrefixInv, InOrder
        <4> QED
          BY <3>1, <3>3, <4>3, <4>4
      <3> QED
        BY <1>3, <2>1, <3>1, <3>2, <3>3
    <2>2. mode' = "stream" => Leads(wire'[Len(wire')], spos')
      BY <1>3
    <2> QED
      BY <2>1, <2>2 DEF InOrder
  <1>8. RightNext'
    <2> SUFFICES ASSUME Clean' PROVE wire' # << >> /\ IsNext(wire'[1], received' + 1)
      BY DEF RightNext
    <2>1. Clean
      BY <1>1 DEF Clean
    <2>2. wire' # << >>
      BY <1>3
    <2>3. CASE wire # << >>
      BY <1>1, <1>3, <1>4, <2>1, <2>3 DEF PrefixInv, RightNext
    <2>4. CASE wire = << >>
      <3>1. wire'[1] = x
        BY <1>3, <1>4, <2>4
      <3>2. mode = "stream" => spos = received
        BY <2>1, <2>4 DEF PrefixInv, RightNext
      <3> QED
        BY <1>1, <3>1, <3>2 DEF IsNext
    <2> QED
      BY <2>2, <2>3, <2>4
  <1>9. DiskOk(disk)'
    BY <1>1 DEF PrefixInv, DiskOk
  <1> QED
    BY <1>5, <1>6, <1>7, <1>8, <1>9 DEF PrefixInv

\* Where nothing is swallowed, an item is on the wire in its place, damaged or not.
LEMMA PutIs ==
    ASSUME ~MayLose, NEW item \in SentItems, Put(item)
    PROVE  \E x \in SentItems : /\ wire' = Append(wire, x) /\ x.kind = item.kind
                                /\ x.kind = "block" => x.data = item.data
                                /\ x.kind = "hdr" => x.type = item.type /\ x.pos = item.pos
  <1>1. CASE wire' = Append(wire, item)
    BY <1>1
  <1>2. CASE wire' = Append(wire, [item EXCEPT !.good = FALSE]) /\ item.kind \in {"hdr", "block"}
    <2>1. CASE item.kind = "hdr"
      <3>1. item \in SentHdrs
        BY <2>1, SentIs
      <3>2. [item EXCEPT !.good = FALSE] \in SentHdrs
        BY <3>1 DEF SentHdrs
      <3>3. [item EXCEPT !.good = FALSE].kind = "hdr" /\ [item EXCEPT !.good = FALSE].type = item.type
            /\ [item EXCEPT !.good = FALSE].pos = item.pos
        BY <3>1 DEF SentHdrs
      <3> QED
        BY <1>2, <2>1, <3>2, <3>3 DEF SentItems
    <2>2. CASE item.kind = "block"
      <3>1. item \in SentBlocks
        BY <2>2, SentIs
      <3>2. [item EXCEPT !.good = FALSE] \in SentBlocks
        BY <3>1 DEF SentBlocks
      <3>3. [item EXCEPT !.good = FALSE].kind = "block" /\ [item EXCEPT !.good = FALSE].data = item.data
        BY <3>1 DEF SentBlocks
      <3> QED
        BY <1>2, <2>2, <3>2, <3>3 DEF SentItems
    <2> QED
      BY <1>2, <2>1, <2>2
  <1> QED
    BY <1>1, <1>2 DEF Put

LEMMA SentHdr ==
    ASSUME NEW t \in {"file", "data", "eof", "fin"}, NEW n \in 0 .. FileLen
    PROVE  Hdr(t, n, TRUE) \in SentItems /\ Hdr(t, n, TRUE).kind = "hdr" /\ Hdr(t, n, TRUE).type = t
           /\ Hdr(t, n, TRUE).pos = n
  BY DEF Hdr, SentItems, SentHdrs

LEMMA SentBlock ==
    ASSUME NEW e \in {"E", "G", "W"}, NEW d \in Chunks
    PROVE  Block(e, d, 0, TRUE) \in SentItems /\ Block(e, d, 0, TRUE).kind = "block" /\ Block(e, d, 0, TRUE).data = d
  BY DEF Block, SentItems, SentBlocks

(* The sender's steps keep the invariant.                                     *)
LEMMA PutNextKeeps == ASSUME ~MayLose, PrefixInv, PutNext PROVE PrefixInv'
  <1>1. UNCHANGED <<vars, back>>
    BY DEF PutNext
  <1>2. spos \in 0 .. FileLen /\ FileLen \in Nat /\ 0 \in 0 .. FileLen
    BY LinkConstants DEF PrefixInv, LinkTypes
  <1>3. << >> \in Chunks /\ \A v \in 1 .. FileLen : <<v>> \in Chunks /\ <<v>> # << >>
    BY DEF Chunks
  <1>4. ASSUME NEW item \in SentItems, Put(item), item.kind = "block" => item.data = << >>,
               UNCHANGED spos, mode' # "stream"
        PROVE  PrefixInv'
    <2>1. PICK x \in SentItems : wire' = Append(wire, x) /\ (x.kind = "block" => x.data = << >>)
      BY <1>4, PutIs
    <2> QED
      BY <1>1, <1>2, <1>3, <1>4, <2>1, PutKeeps
  <1>5. CASE \/ mode = "offer" /\ mode' = "offerinfo" /\ Put(Hdr("file", 0, TRUE)) /\ UNCHANGED spos
             \/ mode = "eof" /\ mode' = "eofsent" /\ Put(Hdr("eof", spos, TRUE)) /\ UNCHANGED spos
             \/ mode = "fin" /\ mode' = "finsent" /\ Put(Hdr("fin", 0, TRUE)) /\ UNCHANGED spos
    <2>1. PICK t \in {"file", "eof", "fin"}, n \in {0, spos} :
              Put(Hdr(t, n, TRUE)) /\ UNCHANGED spos /\ mode' # "stream"
      BY <1>5
    <2> DEFINE item == Hdr(t, n, TRUE)
    <2>2. n \in 0 .. FileLen /\ t \in {"file", "data", "eof", "fin"}
      BY <1>2
    <2>3. item \in SentItems /\ item.kind = "hdr"
      BY <2>2 DEF Hdr, SentItems, SentHdrs
    <2>4. Put(item)
      BY <2>1
    <2> HIDE DEF item
    <2> QED
      BY <1>4, <2>1, <2>3, <2>4
  <1>6. CASE \/ mode = "offerinfo" /\ mode' = "offered" /\ Put(Block("W", << >>, 0, TRUE)) /\ UNCHANGED spos
             \/ mode = "cutshort" /\ mode' = "data" /\ Put(Block("E", << >>, 0, TRUE)) /\ UNCHANGED spos
    <2>1. PICK e \in {"W", "E"} : Put(Block(e, << >>, 0, TRUE)) /\ UNCHANGED spos /\ mode' # "stream"
      BY <1>6
    <2> DEFINE item == Block(e, << >>, 0, TRUE)
    <2>2. item \in SentItems /\ item.data = << >>
      BY <1>3, SentBlock
    <2>3. Put(item)
      BY <2>1
    <2> HIDE DEF item
    <2> QED
      BY <1>4, <2>1, <2>2, <2>3
  <1>7. CASE \/ mode = "over" /\ mode' = "out" /\ Put(LetterO) /\ UNCHANGED spos
             \/ mode = "out" /\ mode' = "gone" /\ Put(LetterO) /\ UNCHANGED spos
    <2>1. LetterO \in SentItems /\ LetterO.kind = "O"
      BY DEF SentItems, LetterO
    <2> QED
      BY <1>4, <1>7, <2>1
  <1>8. CASE mode = "data" /\ mode' = "stream" /\ Put(Hdr("data", spos, TRUE)) /\ UNCHANGED spos
    <2> DEFINE item == Hdr("data", spos, TRUE)
    <2>1. item \in SentItems /\ item.kind = "hdr" /\ item.type = "data" /\ item.pos = spos
      BY <1>2, SentHdr
    <2>2. Put(item)
      BY <1>8
    <2> HIDE DEF item
    <2>3. PICK x \in SentItems : wire' = Append(wire, x) /\ x.kind = "hdr" /\ x.type = "data" /\ x.pos = spos
      BY <2>1, <2>2, PutIs
    <2>4. Leads(x, spos') /\ spos' \in 0 .. FileLen
      BY <1>2, <1>8, <2>3 DEF Leads
    <2> QED
      BY <1>1, <2>3, <2>4, PutKeeps
  <1>9. CASE /\ mode = "stream"
             /\ Put(Block(IF spos + 1 >= FileLen THEN "E" ELSE "G",
                          IF spos < FileLen THEN <<spos + 1>> ELSE << >>, 0, TRUE))
             /\ spos' = IF spos < FileLen THEN spos + 1 ELSE spos
             /\ mode' = IF spos + 1 >= FileLen THEN "eof" ELSE "stream"
    <2> DEFINE d == IF spos < FileLen THEN <<spos + 1>> ELSE << >>
               e == IF spos + 1 >= FileLen THEN "E" ELSE "G"
               item == Block(e, d, 0, TRUE)
    <2>1. d \in Chunks /\ e \in {"E", "G", "W"}
      BY <1>2, <1>3
    <2> HIDE DEF d, e
    <2>2. item \in SentItems /\ item.kind = "block" /\ item.data = d
      BY <2>1, SentBlock
    <2>3. Put(item)
      BY <1>9 DEF d, e
    <2> HIDE DEF item
    <2>4. PICK x \in SentItems : wire' = Append(wire, x) /\ x.kind = "block" /\ x.data = d
      BY <2>2, <2>3, PutIs
    <2>5. \A v \in 1 .. FileLen : d = <<v>> => v = spos + 1
      BY <1>3 DEF d
    <2>6. spos' \in 0 .. FileLen
      BY <1>2, <1>9
    <2>7. mode' = "stream" => d = <<spos'>>
      BY <1>2, <1>9 DEF d
    <2>8. mode' = "stream" => Leads(x, spos')
      BY <2>4, <2>7 DEF Leads
    <2> QED
      BY <1>1, <1>9, <2>4, <2>5, <2>6, <2>8, PutKeeps
  <1> QED
    BY <1>5, <1>6, <1>7, <1>8, <1>9 DEF PutNext

LEMMA ReadReplyKeeps == ASSUME PrefixInv, ReadReply PROVE PrefixInv'
  <1>1. UNCHANGED <<phase, status, received, open, sawFile, path, junk, disk, reply, wire>> /\ back # << >> /\ back' = Tail(back)
    BY DEF ReadReply, vars, fileVars
  <1>2. back \in Seq(Replies) /\ \A i \in 1 .. Len(back) : back[i].type = "rpos" => back[i].pos \in 0 .. FileLen
    BY DEF PrefixInv, LinkTypes
  <1>3. /\ back' \in Seq(Replies) /\ \A i \in 1 .. Len(back') : i + 1 \in 1 .. Len(back) /\ back'[i] = back[i + 1]
        /\ Head(back) = back[1] /\ 1 \in 1 .. Len(back)
    BY <1>1, <1>2
  <1>4. \A i \in 1 .. Len(back') : back'[i].type = "rpos" => back'[i].pos \in 0 .. FileLen
    BY <1>2, <1>3
  <1>5. spos' \in 0 .. FileLen
    BY <1>2, <1>3 DEF ReadReply, PrefixInv, LinkTypes
  <1>6. LinkTypes'
    BY <1>1, <1>3, <1>4, <1>5 DEF PrefixInv, LinkTypes
  <1>7. mode' = "stream" => mode = "stream" /\ spos' = spos
    <2>1. ModeAfter(Head(back)) = "stream" => mode = "stream" /\ Head(back).type # "rpos"
      BY DEF ModeAfter
    <2> QED
      BY <2>1 DEF ReadReply
  <1>8. InOrder'
    BY <1>1, <1>7 DEF PrefixInv, InOrder
  <1>9. RightNext'
    BY <1>1, <1>7 DEF PrefixInv, RightNext, Clean
  <1>10. SessionInv' /\ DiskOk(disk)'
    BY <1>1 DEF PrefixInv, SessionInv, Ranges, DiskOk
  <1> QED
    BY <1>6, <1>8, <1>9, <1>10 DEF PrefixInv

-------------------------------------------------------------------------------
(* What the worker makes of an item, for the link: what it says, and when it  *)
(* goes on reading data.                                                      *)

\* What a worker that reads the link may say.
Said == \/ Silent \/ \E type \in {"rinit", "rpos", "nak", "ack", "fin", "can"} : Send(type, 0)
        \/ Send("rpos", received) \/ Send("ack", received')

LEMMA LinkItem ==
    ASSUME NEW item \in SentItems \cup {Quiet}
    PROVE  /\ item.kind = "hdr" => item.type \in {"file", "data", "eof", "fin"} /\ item.pos \in 0 .. FileLen
           /\ item.kind = "block" => item.data \in Chunks
           /\ item.kind \in {"hdr", "block", "O", "quiet"}
  <1>1. Quiet.kind = "quiet"
    BY DEF Quiet
  <1>2. \A y \in SentHdrs : y.type \in {"file", "data", "eof", "fin"} /\ y.pos \in 0 .. FileLen
    BY DEF SentHdrs
  <1> QED
    BY <1>1, <1>2, SentIs

LEMMA ComplainSays ==
    ASSUME NEW type \in {"nak", "rpos"}, NEW pos, NEW count, pos = 0 \/ (type = "rpos" /\ pos = received),
           Complain(type, pos, count)
    PROVE  Said /\ phase' \in {"ended", "top"}
  BY DEF Complain, Said, Goto, EndHere, End

LEMMA StopSays ==
    ASSUME NEW outcome, Stop(outcome)
    PROVE  Said /\ phase' = "ended"
  BY DEF Stop, Said, EndHere, End

\* Where the reading of an item leaves the worker in the data loop.
LEMMA ReadingSays ==
    ASSUME NEW item \in SentItems \cup {Quiet}, Conversation(item)
    PROVE  /\ Said
           /\ Clean' => \/ item.kind = "hdr" /\ item.type = "data" /\ item.pos = received /\ received' = received
                       \/ DataWritten(item)
  <1>1. CASE AwaitBad(item) \/ FileSpoilt(item) \/ DataSpoilt(item)
    <2>1. \E count : Complain("rpos", received, count) \/ Complain("nak", 0, count)
      <3>1. CASE AwaitBad(item)
        BY <3>1 DEF AwaitBad
      <3>2. CASE FileSpoilt(item) \/ DataSpoilt(item)
        BY <3>2 DEF FileSpoilt, DataSpoilt
      <3> QED
        BY <1>1, <3>1, <3>2
    <2> QED
      BY <2>1, ComplainSays DEF Clean
  <1>2. CASE HdrUnknown(item) \/ HdrRefused(item) \/ HdrGivesUp(item) \/ HdrAnswered(item)
    BY <1>2, LinkItem DEF HdrUnknown, HdrRefused, HdrGivesUp, HdrAnswered, Header
  <1>3. CASE AwaitClosed(item) \/ AwaitCancelled(item) \/ ReadCancelled(item) \/ DataQuiet(item)
    <2>1. \E outcome : Stop(outcome)
      BY <1>3 DEF AwaitClosed, AwaitCancelled, ReadCancelled, DataQuiet
    <2> QED
      BY <2>1, StopSays DEF Clean
  <1>4. CASE AwaitSkip(item) \/ FirstO(item)
    BY <1>4 DEF AwaitSkip, FirstO, Said, Clean
  <1>5. CASE HdrBlockFollows(item)
    BY <1>5 DEF HdrBlockFollows, Header, Goto, Said, Clean
  <1>6. CASE HdrData(item)
    BY <1>6 DEF HdrData, InStep, Header, Goto, Said, Clean, fileVars
  <1>7. CASE HdrEof(item)
    BY <1>7 DEF HdrEof, EndHere, End, Goto, Said, Clean
  <1>8. CASE HdrFin(item) \/ SinitRead(item)
    BY <1>8 DEF HdrFin, SinitRead, Goto, Said, Clean
  <1>9. CASE ReadJunk(item)
    BY <1>9 DEF ReadJunk, Reading, Said, Clean
  <1>10. CASE FileTooBig(item) \/ DataRefused(item) \/ FinDone(item)
    BY <1>10 DEF FileTooBig, DataRefused, FinDone, EndHere, End, Said, Clean
  <1>11. CASE FileOpened(item) \/ FileNotOpened(item)
    BY <1>11 DEF FileOpened, FileNotOpened, End, Said, Clean
  <1>12. CASE DataWritten(item)
    BY <1>12 DEF DataWritten, Said
  <1> QED
    BY <1>1, <1>2, <1>3, <1>4, <1>5, <1>6, <1>7, <1>8, <1>9, <1>10, <1>11, <1>12 DEF Conversation

\* A sound block that is in order leaves the disk as it should be.
LEMMA WrittenInOrder ==
    ASSUME PrefixInv, NEW item \in SentItems \cup {Quiet}, DataWritten(item),
           Clean => IsNext(item, received + 1)
    PROVE  /\ DiskOk(disk)' /\ received' \in 0 .. FileLen
           /\ \A u \in 0 .. FileLen : Leads(item, u) => u = received'
  <1>1. item.kind = "block" /\ item.data \in Chunks /\ Clean /\ phase = "data"
    BY LinkItem DEF DataWritten, Sound, Clean
  <1>2. /\ received' = received + Len(item.data)
        /\ disk' = [disk EXCEPT ![path].data = @ \o item.data]
    BY DEF DataWritten
  <1>3. /\ disk \in [1 .. Slots -> File] /\ path \in 1 .. Slots /\ disk[path].kind = "ours"
        /\ Len(disk[path].data) = received /\ received \in 0 .. FileLen
    BY <1>1 DEF PrefixInv, SessionInv, Ranges, Holds, LinkTypes
  <1>4. disk[path].data \in Seq(Vals) /\ disk[path].kind = "ours"
    BY <1>3 DEF File
  <1>5. item.data \in Seq(Vals) /\ (item.data = << >> \/ \E v \in 1 .. FileLen : item.data = <<v>>)
    BY <1>1, ChunkIs
  <1>6. \A v \in 1 .. FileLen : item.data = <<v>> => v = received + 1
    BY <1>1 DEF IsNext
  <1> DEFINE old == disk[path].data
             new == old \o item.data
  <1>7. /\ new \in Seq(Vals) /\ Len(new) = received + Len(item.data) /\ Len(item.data) \in Nat
        /\ \A i \in 1 .. Len(old) : new[i] = old[i]
        /\ \A i \in 1 .. Len(item.data) : new[Len(old) + i] = item.data[i]
    <2> DEFINE x == disk[path].data
               y == item.data
    <2>1. x \in Seq(Vals) /\ y \in Seq(Vals) /\ Len(x) = received
      BY <1>3, <1>4, <1>5
    <2> HIDE DEF x, y
    <2>2. /\ x \o y \in Seq(Vals) /\ Len(x \o y) = Len(x) + Len(y) /\ Len(x) \in Nat /\ Len(y) \in Nat
          /\ \A i \in 1 .. Len(x) : (x \o y)[i] = x[i]
          /\ \A i \in 1 .. Len(y) : (x \o y)[Len(x) + i] = y[i]
      BY <2>1
    <2> QED
      BY <2>1, <2>2 DEF x, y
  <1>8. \A i \in 1 .. received : old[i] = i
    BY <1>3 DEF PrefixInv, DiskOk
  <1>9. Len(old) = received
    BY <1>3
  <1>10. received' \in 0 .. FileLen /\ \A i \in 1 .. received' : new[i] = i
    <2> HIDE DEF old, new
    <2>1. CASE item.data = << >>
      BY <1>2, <1>3, <1>7, <1>8, <1>9, <2>1
    <2>2. CASE item.data # << >>
      <3>1. PICK v \in 1 .. FileLen : item.data = <<v>>
        BY <1>5, <2>2
      <3>2. v = received + 1 /\ Len(item.data) = 1 /\ item.data[1] = v
        BY <1>6, <3>1
      <3>3. new[received + 1] = received + 1
        <4>1. 1 \in 1 .. Len(item.data)
          BY <3>2
        <4> QED
          BY <1>7, <1>9, <3>2, <4>1
      <3>4. received' = received + 1 /\ received' \in 0 .. FileLen
        BY <1>2, <1>3, <3>1, <3>2
      <3> QED
        BY <1>3, <1>7, <1>8, <1>9, <3>3, <3>4
    <2> QED
      BY <2>1, <2>2
  <1>11. /\ \A s \in 1 .. Slots : s # path => disk'[s] = disk[s]
         /\ disk'[path].data = new
    <2>1. disk[path] = [kind |-> "ours", data |-> old]
      BY <1>3 DEF File
    <2>2. disk' = [disk EXCEPT ![path] = [disk[path] EXCEPT !.data = new]]
      BY <1>2
    <2>3. \E o : disk[path] = [kind |-> "ours", data |-> o]
      BY <2>1
    <2> HIDE DEF new
    <2>4. [disk[path] EXCEPT !.data = new].data = new
      BY <2>3
    <2>5. disk'[path] = [disk[path] EXCEPT !.data = new] /\ \A s \in 1 .. Slots : s # path => disk'[s] = disk[s]
      BY <1>3, <2>2
    <2> QED
      BY <2>4, <2>5
  <1> HIDE DEF new
  <1>12. DiskOk(disk)'
    <2>1. Len(new) = received'
      BY <1>2, <1>7
    <2> QED
      BY <1>10, <1>11, <2>1 DEF PrefixInv, DiskOk
  <1>13. ASSUME NEW u \in 0 .. FileLen, Leads(item, u) PROVE u = received'
    <2>1. item.data = <<u>>
      BY <1>1, <1>13 DEF Leads
    <2>2. PICK v \in 1 .. FileLen : item.data = <<v>>
      BY <1>5, <2>1
    <2>3. u = v /\ v = received + 1 /\ Len(item.data) = 1
      BY <1>6, <2>1, <2>2
    <2> QED
      BY <1>2, <2>3
  <1> QED
    BY <1>10, <1>12, <1>13

\* Deleting a name, or creating one, never harms.
LEMMA DiskKept ==
    ASSUME PrefixInv, Stays \/ Ends \/ \E item : FileOpened(item) \/ FileNotOpened(item)
    PROVE  DiskOk(disk)' /\ received' \in 0 .. FileLen
  <1>1. disk \in [1 .. Slots -> File] /\ DiskOk(disk) /\ received \in 0 .. FileLen /\ 0 \in 0 .. FileLen
    BY LinkConstants DEF PrefixInv, SessionInv, Ranges, LinkTypes
  <1>2. Absent.kind # "ours" /\ Ours(<< >>).data = << >> /\ Len(<< >>) = 0 /\ 0 <= FileLen
    BY LinkConstants DEF Absent, Ours
  <1>3. ASSUME NEW p \in 1 .. Slots, NEW f \in {Absent, Ours(<< >>)}, disk' = [disk EXCEPT ![p] = f]
        PROVE  DiskOk(disk)'
    <2>1. disk'[p] = f /\ \A s \in 1 .. Slots : s # p => disk'[s] = disk[s]
      BY <1>1, <1>3
    <2> QED
      BY <1>1, <1>2, <1>3, <2>1 DEF DiskOk
  <1>4. CASE Stays
    BY <1>1, <1>4 DEF Stays, fileVars
  <1>5. CASE Ends
    <2>1. received' = received /\ (disk' = disk \/ (path # 0 /\ disk' = [disk EXCEPT ![path] = Absent]))
      BY <1>5, EndsEffect DEF PrefixInv
    <2>2. path \in 0 .. Slots
      BY DEF PrefixInv, SessionInv, Ranges
    <2>3. path # 0 => path \in 1 .. Slots
      BY <2>2, SessionAssumption
    <2> QED
      BY <1>1, <1>3, <2>1, <2>3
  <1>6. CASE \E item : FileOpened(item)
    <2>1. FreeSlots # {} /\ received' = 0 /\ disk' = [disk EXCEPT ![FirstFree] = Ours(<< >>)]
      BY <1>6 DEF FileOpened
    <2> QED
      BY <1>1, <1>3, <2>1, FirstFreeIsFree
  <1>7. CASE \E item : FileNotOpened(item)
    <2> DEFINE p == IF FreeSlots = {} THEN Slots ELSE FirstFree
    <2>1. p \in 1 .. Slots
      BY FirstFreeIsFree, SessionAssumption
    <2> HIDE DEF p
    <2>2. End("io", p, disk) /\ received' = 0
      BY <1>7 DEF FileNotOpened, p
    <2>3. disk' = [disk EXCEPT ![p] = Absent]
      BY <2>1, <2>2 DEF End
    <2> QED
      BY <1>1, <1>3, <2>1, <2>2, <2>3
  <1> QED
    BY <1>4, <1>5, <1>6, <1>7

-------------------------------------------------------------------------------
(* The receiver's steps keep the invariant.                                   *)

BackOk == back \in Seq(Replies) /\ \A i \in 1 .. Len(back) : back[i].type = "rpos" => back[i].pos \in 0 .. FileLen

LEMMA BackKeeps ==
    ASSUME PrefixInv, Answered, Said, received' \in 0 .. FileLen
    PROVE  BackOk'
  <1>1. back \in Seq(Replies) /\ \A i \in 1 .. Len(back) : back[i].type = "rpos" => back[i].pos \in 0 .. FileLen
    BY DEF PrefixInv, LinkTypes
  <1>2. received \in 0 .. FileLen /\ 0 \in 0 .. FileLen /\ FileLen \in Nat
    BY LinkConstants DEF PrefixInv, LinkTypes
  <1>3. reply' \in Replies /\ (reply'.type = "rpos" => reply'.pos \in 0 .. FileLen)
    <2>1. CASE Silent
      BY <2>1 DEF Silent, Replies
    <2>2. ASSUME NEW type \in {"rinit", "rpos", "nak", "ack", "fin", "can"}, NEW pos \in 0 .. FileLen, Send(type, pos)
          PROVE  reply' \in Replies /\ (reply'.type = "rpos" => reply'.pos \in 0 .. FileLen)
      BY <1>2, <2>2 DEF Send, Replies
    <2> QED
      BY <1>2, <2>1, <2>2 DEF Said
  <1>4. CASE back' = back
    BY <1>1, <1>4 DEF BackOk
  <1>5. CASE back' = Append(back, reply')
    <2>1. /\ back' \in Seq(Replies) /\ Len(back') = Len(back) + 1 /\ Len(back) \in Nat
          /\ \A i \in 1 .. Len(back) : back'[i] = back[i]
          /\ back'[Len(back) + 1] = reply'
      BY <1>1, <1>3, <1>5
    <2> QED
      BY <1>1, <1>3, <2>1 DEF BackOk
  <1> QED
    BY <1>4, <1>5 DEF Answered

\* An item is read: what is on disk stays the beginning of the file, and the
\* worker reads on only where the item was in step.
LEMMA ItemRead ==
    ASSUME PrefixInv, NEW item \in SentItems \cup {Quiet}, Conversation(item), Answered,
           Clean => IsNext(item, received + 1)
    PROVE  /\ SessionInv' /\ DiskOk(disk)' /\ received' \in 0 .. FileLen /\ BackOk'
           /\ Clean' => item # Quiet /\ \A u \in 0 .. FileLen : Leads(item, u) => u = received'
  <1>1. SessionInv
    BY DEF PrefixInv
  <1>2. /\ Said
        /\ Clean' => \/ item.kind = "hdr" /\ item.type = "data" /\ item.pos = received /\ received' = received
                    \/ DataWritten(item)
    BY ReadingSays
  <1>3. Stays \/ Ends \/ FileOpened(item) \/ FileNotOpened(item) \/ DataWritten(item)
    BY <1>1, ConversationSteps
  <1>4. DataWritten(item) => item.data \in Seq(Vals) /\ item.kind = "block"
    <2>1. DataWritten(item) => item.kind = "block"
      BY DEF DataWritten, Sound
    <2> QED
      BY <2>1, LinkItem, ChunkIs
  <1>5. SessionInv'
    BY <1>1, <1>3, <1>4, StaysKeep, EndsKeep, OpenedKeeps, NotOpenedKeeps, WrittenKeeps
  <1>6. DiskOk(disk)' /\ received' \in 0 .. FileLen
    BY <1>3, DiskKept, WrittenInOrder
  <1>7. ASSUME Clean' PROVE item # Quiet /\ \A u \in 0 .. FileLen : Leads(item, u) => u = received'
    <2>1. CASE item.kind = "hdr" /\ item.type = "data" /\ item.pos = received /\ received' = received
      BY <2>1 DEF Leads, Quiet
    <2>2. CASE DataWritten(item)
      <3>1. item # Quiet
        BY <1>4, <2>2 DEF Quiet
      <3> QED
        BY <2>2, <3>1, WrittenInOrder
    <2> QED
      BY <1>2, <1>7, <2>1, <2>2
  <1> QED
    BY <1>2, <1>5, <1>6, <1>7, BackKeeps

LEMMA SilenceKeeps == ASSUME PrefixInv, Silence PROVE PrefixInv'
  <1>1. wire = << >> /\ wire' = wire /\ Conversation(Quiet) /\ Answered /\ UNCHANGED <<mode, spos>>
    BY DEF Silence, Receive, Answered
  <1>2. Clean => IsNext(Quiet, received + 1)
    BY DEF IsNext, Quiet
  <1>3. /\ SessionInv' /\ DiskOk(disk)' /\ received' \in 0 .. FileLen /\ BackOk' /\ ~Clean'
    BY <1>1, <1>2, ItemRead
  <1>4. LinkTypes'
    BY <1>1, <1>3 DEF PrefixInv, LinkTypes, BackOk
  <1>5. InOrder'
    BY <1>1 DEF PrefixInv, InOrder
  <1> QED
    BY <1>3, <1>4, <1>5 DEF PrefixInv, RightNext

LEMMA TakeItemKeeps == ASSUME PrefixInv, TakeItem PROVE PrefixInv'
  <1>1. wire # << >> /\ wire' = Tail(wire) /\ Conversation(Head(wire)) /\ Answered /\ UNCHANGED <<mode, spos>>
    BY DEF TakeItem, Receive, Answered
  <1>2. wire \in Seq(SentItems) /\ spos \in 0 .. FileLen /\ FileLen \in Nat
    BY LinkConstants DEF PrefixInv, LinkTypes
  <1>3. /\ wire' \in Seq(SentItems) /\ Len(wire) \in Nat /\ Len(wire') = Len(wire) - 1 /\ Len(wire) >= 1
        /\ \A i \in 1 .. Len(wire') : wire'[i] = wire[i + 1] /\ i + 1 \in 1 .. Len(wire)
        /\ Head(wire) = wire[1] /\ wire[1] \in SentItems
        /\ wire' = << >> <=> Len(wire') = 0
    <2>1. Len(wire) \in Nat /\ Len(wire) >= 1 /\ Head(wire) = wire[1] /\ wire[1] \in SentItems
      BY <1>1, <1>2
    <2>2. wire' \in Seq(SentItems) /\ Len(wire') = Len(wire) - 1
      BY <1>1, <1>2
    <2>3. \A i \in 1 .. Len(wire') : wire'[i] = wire[i + 1]
      BY <1>1, <1>2
    <2>4. \A i \in 1 .. Len(wire') : i + 1 \in 1 .. Len(wire)
      BY <2>1, <2>2
    <2>5. wire' = << >> <=> Len(wire') = 0
      BY <2>2
    <2> QED
      BY <2>1, <2>2, <2>3, <2>4, <2>5
  <1> DEFINE item == Head(wire)
  <1>4. Clean => IsNext(item, received + 1)
    BY <1>1, <1>3 DEF PrefixInv, RightNext
  <1>5. item \in SentItems \cup {Quiet} /\ item = wire[1] /\ Conversation(item)
    BY <1>1, <1>3
  <1> HIDE DEF item
  <1>6. /\ SessionInv' /\ DiskOk(disk)' /\ received' \in 0 .. FileLen /\ BackOk'
        /\ Clean' => \A u \in 0 .. FileLen : Leads(item, u) => u = received'
    BY <1>1, <1>4, <1>5, ItemRead
  <1>7. LinkTypes'
    BY <1>1, <1>2, <1>3, <1>6 DEF LinkTypes, BackOk
  <1>8. InOrder'
    <2>1. ASSUME NEW i \in 1 .. Len(wire'), i + 1 \in 1 .. Len(wire'), NEW v \in 1 .. FileLen,
                 wire'[i + 1].kind = "block", wire'[i + 1].data = <<v>>
          PROVE  Leads(wire'[i], v - 1)
      <3>1. wire'[i] = wire[i + 1] /\ wire'[i + 1] = wire[i + 1 + 1] /\ i + 1 \in 1 .. Len(wire) /\ i + 1 + 1 \in 1 .. Len(wire)
        BY <1>3, <2>1
      <3> QED
        BY <2>1, <3>1 DEF PrefixInv, InOrder
    <2>2. mode' = "stream" /\ wire' # << >> => Leads(wire'[Len(wire')], spos')
      <3> SUFFICES ASSUME mode' = "stream", wire' # << >> PROVE Leads(wire'[Len(wire')], spos')
        OBVIOUS
      <3>1. Len(wire') \in 1 .. Len(wire') /\ Len(wire') + 1 = Len(wire)
        BY <1>3
      <3>2. wire'[Len(wire')] = wire[Len(wire)]
        BY <1>3, <3>1
      <3> QED
        BY <1>1, <3>2 DEF PrefixInv, InOrder
    <2> QED
      BY <2>1, <2>2 DEF InOrder
  <1>9. RightNext'
    <2> SUFFICES ASSUME Clean'
                 PROVE  /\ wire' # << >> => IsNext(wire'[1], received' + 1)
                        /\ wire' = << >> /\ mode' = "stream" => spos' = received'
      BY DEF RightNext
    <2>1. \A u \in 0 .. FileLen : Leads(wire[1], u) => u = received'
      BY <1>5, <1>6
    <2>2. ASSUME wire' # << >>, wire'[1].kind = "block", NEW v \in 1 .. FileLen, wire'[1].data = <<v>>
          PROVE  v = received' + 1
      <3>1. 1 + 1 \in 1 .. Len(wire) /\ wire'[1] = wire[1 + 1] /\ 1 \in 1 .. Len(wire)
        BY <1>3, <2>2
      <3>2. Leads(wire[1], v - 1)
        BY <2>2, <3>1 DEF PrefixInv, InOrder
      <3>3. v - 1 \in 0 .. FileLen
        BY <1>2
      <3>4. v - 1 = received'
        BY <2>1, <3>2, <3>3
      <3>5. v \in Int
        BY <1>2
      <3> HIDE DEF item
      <3> QED
        BY <3>4, <3>5
    <2>3. ASSUME wire' = << >>, mode' = "stream" PROVE spos' = received'
      <3>1. Len(wire) = 1 /\ mode = "stream" /\ spos' = spos
        BY <1>1, <1>3, <2>3
      <3>2. Leads(wire[1], spos)
        BY <1>1, <3>1 DEF PrefixInv, InOrder
      <3> QED
        BY <1>2, <2>1, <3>1, <3>2
    <2> QED
      BY <2>2, <2>3 DEF IsNext
  <1> QED
    BY <1>6, <1>7, <1>8, <1>9 DEF PrefixInv

LEMMA LoopKeeps == ASSUME PrefixInv, Loop PROVE PrefixInv'
  <1>1. UNCHANGED <<wire, mode, spos>> /\ Answered /\ SessionInv
    BY DEF Loop, Answered, PrefixInv
  <1>2. CASE Top
    <2>1. phase # "ended" /\ (EndHere("cancelled") \/ EndHere("aborted") \/ (Goto("await") /\ Silent))
      BY <1>2 DEF Top
    <2>2. (Stays \/ Ends) /\ phase' \in {"await", "ended"}
      BY <2>1 DEF Ends, Goto, Silent, Stays, EndHere, End
    <2>3. Said
      BY <1>2 DEF Top, Said
    <2>4. DiskOk(disk)' /\ received' \in 0 .. FileLen /\ SessionInv'
      BY <1>1, <2>2, DiskKept, StaysKeep, EndsKeep
    <2>5. LinkTypes' /\ InOrder' /\ RightNext'
      BY <1>1, <2>2, <2>3, <2>4, BackKeeps DEF PrefixInv, LinkTypes, BackOk, InOrder, RightNext, Clean
    <2> QED
      BY <2>4, <2>5 DEF PrefixInv
  <1>3. CASE DataTop
    <2>1. phase = "dtop" /\ (EndHere("cancelled") \/ (Goto("data") /\ Silent))
      BY <1>3 DEF DataTop
    <2>2. Stays \/ Ends
      BY <1>1, <2>1 DEF Ends, Goto, Silent, Stays, SessionInv
    <2>3. Said
      BY <1>3 DEF DataTop, Said
    <2>4. DiskOk(disk)' /\ received' \in 0 .. FileLen /\ SessionInv'
      BY <1>1, <2>2, DiskKept, StaysKeep, EndsKeep
    <2>5. Clean /\ received' = received
      BY <2>1 DEF Clean, EndHere, Goto, fileVars
    <2>6. RightNext'
      BY <1>1, <2>5 DEF PrefixInv, RightNext
    <2>7. LinkTypes' /\ InOrder'
      BY <1>1, <2>3, <2>4, BackKeeps DEF PrefixInv, LinkTypes, BackOk, InOrder
    <2> QED
      BY <2>4, <2>6, <2>7 DEF PrefixInv
  <1> QED
    BY <1>2, <1>3 DEF Loop

LEMMA PrefixStep == ASSUME ~MayLose, PrefixInv, [LinkNext]_linkVars PROVE PrefixInv'
  <1>1. CASE UNCHANGED linkVars
    <2>1. UNCHANGED <<phase, status, received, open, sawFile, path, junk, disk, reply, wire, back, mode, spos>>
      BY <1>1 DEF linkVars, vars, fileVars
    <2> QED
      BY <2>1 DEF PrefixInv, SessionInv, Ranges, LinkTypes, InOrder, RightNext, Clean, DiskOk
  <1> QED
    BY <1>1, PutNextKeeps, ReadReplyKeeps, LoopKeeps, TakeItemKeeps, SilenceKeeps DEF LinkNext

-------------------------------------------------------------------------------
(* Without damage.  The items of a transfer that nothing disturbs, in order:  *)
(* the invariant says how far along it the sender and the receiver are, and   *)
(* that a reply under way is the one the sender waits for.                    *)
Script(k) ==
    IF k = 1 THEN Hdr("file", 0, TRUE)
    ELSE IF k = 2 THEN Block("W", << >>, 0, TRUE)
    ELSE IF k = 3 THEN Hdr("data", 0, TRUE)
    ELSE IF k = FileLen + 4 THEN Hdr("eof", FileLen, TRUE)
    ELSE IF k = FileLen + 5 THEN Hdr("fin", 0, TRUE)
    ELSE IF k > FileLen + 5 THEN LetterO
    ELSE Block(IF k = FileLen + 3 THEN "E" ELSE "G", <<k - 3>>, 0, TRUE)

\* The sender has put n items of it and read r replies.
SenderAt(n, r) ==
    \/ mode = "init" /\ n = 0 /\ r = 0
    \/ mode = "offer" /\ n = 0 /\ r = 1
    \/ mode = "offerinfo" /\ n = 1 /\ r = 1
    \/ mode = "offered" /\ n = 2 /\ r = 1
    \/ mode = "data" /\ spos = 0 /\ n = 2 /\ r = 2
    \/ mode = "stream" /\ spos \in 0 .. FileLen - 1 /\ n = spos + 3 /\ r = 2
    \/ mode = "eof" /\ spos = FileLen /\ n = FileLen + 3 /\ r = 2
    \/ mode = "eofsent" /\ n = FileLen + 4 /\ r = 2
    \/ mode = "fin" /\ n = FileLen + 4 /\ r = 3
    \/ mode = "finsent" /\ n = FileLen + 5 /\ r = 3
    \/ mode = "over" /\ n = FileLen + 5 /\ r = 4
    \/ mode = "out" /\ n = FileLen + 6 /\ r = 4
    \/ mode = "gone" /\ n = FileLen + 7 /\ r = 4

\* The receiver has taken g items of it.
ReceiverAt(g) ==
    /\ g \in {0, 2, FileLen + 3, FileLen + 4} => phase \in {"top", "await"}
    /\ g = 1 => phase = "file"
    /\ g \in 3 .. FileLen + 2 => phase \in {"dtop", "data"}
    /\ g \in {FileLen + 5, FileLen + 6} => phase = "oo"
    /\ g = FileLen + 7 => phase = "ended" /\ status = "ok"
    /\ g \in 2 .. FileLen + 6 => open /\ sawFile
    /\ g = 1 \/ g \in 3 .. FileLen + 2 => ~junk
    /\ g = 2 => received = 0
    /\ g \in 3 .. FileLen + 2 => received = g - 3
    /\ g >= FileLen + 3 => received = FileLen
    /\ g = FileLen + 5 => oo = 0
    /\ g = FileLen + 6 => oo = 1

\* The replies it has given by then, the first one before anything came.
Given(g) == IF g < 2 THEN 1 ELSE IF g < FileLen + 4 THEN 2 ELSE IF g = FileLen + 4 THEN 3 ELSE 4
NoAnswer == [type |-> "none", pos |-> 0]
Answer(r) == [type |-> IF r = 2 THEN "rpos" ELSE IF r = 4 THEN "fin" ELSE "rinit", pos |-> 0]

OnScript(g, n, r) ==
    /\ g <= n
    /\ SenderAt(n, r) /\ ReceiverAt(g)
    /\ Len(wire) = n - g /\ \A i \in 1 .. Len(wire) : wire[i] = Script(g + i)
    /\ Given(g) \in {r, r + 1}
    /\ back = (IF Given(g) = r THEN << >> ELSE <<Answer(r + 1)>>)
Calm == \E g \in 0 .. FileLen + 7, n \in 0 .. FileLen + 7, r \in 0 .. 4 : OnScript(g, n, r)

CalmInv ==
    /\ faults \in Nat /\ ~cancel /\ ~sendFailed
    /\ faults = 0 => Calm \/ (phase = "ended" /\ status = "io")

-------------------------------------------------------------------------------
(* The sender's steps along the script.                                       *)
LEMMA ScriptIs ==
    /\ Script(1) = Hdr("file", 0, TRUE) /\ Script(2) = Block("W", << >>, 0, TRUE) /\ Script(3) = Hdr("data", 0, TRUE)
    /\ \A k \in 4 .. FileLen + 3 : Script(k) = Block(IF k = FileLen + 3 THEN "E" ELSE "G", <<k - 3>>, 0, TRUE)
    /\ Script(FileLen + 4) = Hdr("eof", FileLen, TRUE) /\ Script(FileLen + 5) = Hdr("fin", 0, TRUE)
    /\ Script(FileLen + 6) = LetterO /\ Script(FileLen + 7) = LetterO
  <1>1. FileLen \in Nat /\ FileLen >= 1
    BY LinkConstants
  <1>2. \A k \in 4 .. FileLen + 3 : ~(k > FileLen + 5) /\ k \notin {1, 2, 3, FileLen + 4, FileLen + 5}
    BY <1>1
  <1>3. \A k \in {FileLen + 4, FileLen + 5, FileLen + 6, FileLen + 7} : k \notin {1, 2, 3}
    BY <1>1
  <1>4. FileLen + 6 \notin {FileLen + 4, FileLen + 5} /\ FileLen + 7 \notin {FileLen + 4, FileLen + 5} /\ FileLen + 4 # FileLen + 5
        /\ FileLen + 6 > FileLen + 5 /\ FileLen + 7 > FileLen + 5
    BY <1>1
  <1> QED
    BY <1>2, <1>3, <1>4 DEF Script

LEMMA SenderPlace ==
    ASSUME NEW n, NEW r, SenderAt(n, r)
    PROVE  /\ n \in 0 .. FileLen + 7 /\ r \in 0 .. 4
           /\ r = 0 => n = 0
           /\ r = 1 => n <= 2
           /\ r = 2 => n >= 2 /\ n <= FileLen + 4
           /\ r = 3 => n >= FileLen + 4 /\ n <= FileLen + 5
           /\ r = 4 => n >= FileLen + 5
  BY LinkConstants DEF SenderAt

LEMMA PutOnScript ==
    ASSUME NEW n, NEW r, SenderAt(n, r), PutNext, faults \in Nat, faults' = faults
    PROVE  SenderAt(n + 1, r)' /\ wire' = Append(wire, Script(n + 1)) /\ n <= FileLen + 6 /\ UNCHANGED <<vars, back>>
  <1>1. FileLen \in Nat /\ FileLen >= 1
    BY LinkConstants
  <1>2. ASSUME NEW item, Put(item) PROVE wire' = Append(wire, item)
    BY <1>2 DEF Put
  <1>3. UNCHANGED <<vars, back>>
    BY DEF PutNext
  <1>4. CASE mode = "offer" /\ mode' = "offerinfo" /\ Put(Hdr("file", 0, TRUE)) /\ UNCHANGED spos
    <2>1. n = 0 /\ r = 1 /\ n + 1 = 1
      BY <1>1, <1>4 DEF SenderAt
    <2>2. Put(Script(n + 1))
      BY <1>4, <2>1, ScriptIs
    <2>3. SenderAt(n + 1, r)'
      BY <1>1, <1>4, <2>1 DEF SenderAt
    <2>4. n <= FileLen + 6
      BY <1>1, <2>1
    <2> QED
      BY <1>2, <1>3, <2>2, <2>3, <2>4
  <1>5. CASE mode = "offerinfo" /\ mode' = "offered" /\ Put(Block("W", << >>, 0, TRUE)) /\ UNCHANGED spos
    <2>1. n = 1 /\ r = 1 /\ n + 1 = 2
      BY <1>1, <1>5 DEF SenderAt
    <2>2. Put(Script(n + 1))
      BY <1>5, <2>1, ScriptIs
    <2>3. SenderAt(n + 1, r)'
      BY <1>1, <1>5, <2>1 DEF SenderAt
    <2>4. n <= FileLen + 6
      BY <1>1, <2>1
    <2> QED
      BY <1>2, <1>3, <2>2, <2>3, <2>4
  <1>6. CASE mode = "data" /\ mode' = "stream" /\ Put(Hdr("data", spos, TRUE)) /\ UNCHANGED spos
    <2>1. n = 2 /\ r = 2 /\ n + 1 = 3 /\ spos = 0
      BY <1>1, <1>6 DEF SenderAt
    <2>2. Put(Script(n + 1))
      BY <1>6, <2>1, ScriptIs
    <2>3. SenderAt(n + 1, r)'
      BY <1>1, <1>6, <2>1 DEF SenderAt
    <2>4. n <= FileLen + 6
      BY <1>1, <2>1
    <2> QED
      BY <1>2, <1>3, <2>2, <2>3, <2>4
  <1>7. CASE /\ mode = "stream"
             /\ Put(Block(IF spos + 1 >= FileLen THEN "E" ELSE "G",
                          IF spos < FileLen THEN <<spos + 1>> ELSE << >>, 0, TRUE))
             /\ spos' = IF spos < FileLen THEN spos + 1 ELSE spos
             /\ mode' = IF spos + 1 >= FileLen THEN "eof" ELSE "stream"
    <2>1. spos \in 0 .. FileLen - 1 /\ n = spos + 3 /\ r = 2
      BY <1>7 DEF SenderAt
    <2>2. spos < FileLen /\ spos' = spos + 1 /\ (spos + 1 >= FileLen <=> n + 1 = FileLen + 3) /\ spos + 1 = n + 1 - 3
      BY <1>1, <1>7, <2>1
    <2>3. n + 1 \in 4 .. FileLen + 3
      BY <1>1, <2>1
    <2>4. PICK k \in 4 .. FileLen + 3 : k = n + 1
      BY <2>3
    <2>5. Script(k) = Block(IF k = FileLen + 3 THEN "E" ELSE "G", <<k - 3>>, 0, TRUE)
      BY ScriptIs
    <2>6. k - 3 = spos + 1 /\ (spos + 1 >= FileLen <=> k = FileLen + 3)
      BY <1>1, <2>1, <2>4
    <2>7. Put(Script(k))
      BY <1>7, <2>2, <2>5, <2>6
    <2>8. wire' = Append(wire, Script(k))
      BY <1>2, <2>7
    <2>9. SenderAt(n + 1, r)'
      BY <1>1, <1>7, <2>1, <2>2 DEF SenderAt
    <2> QED
      BY <1>1, <1>3, <2>1, <2>4, <2>8, <2>9
  <1>8. CASE mode = "cutshort"
    BY <1>8 DEF SenderAt
  <1>9. CASE mode = "eof" /\ mode' = "eofsent" /\ Put(Hdr("eof", spos, TRUE)) /\ UNCHANGED spos
    <2>1. n = FileLen + 3 /\ r = 2 /\ n + 1 = FileLen + 4 /\ spos = FileLen
      BY <1>1, <1>9 DEF SenderAt
    <2>2. Put(Script(n + 1))
      BY <1>9, <2>1, ScriptIs
    <2>3. SenderAt(n + 1, r)'
      BY <1>1, <1>9, <2>1 DEF SenderAt
    <2>4. n <= FileLen + 6
      BY <1>1, <2>1
    <2> QED
      BY <1>2, <1>3, <2>2, <2>3, <2>4
  <1>10. CASE mode = "fin" /\ mode' = "finsent" /\ Put(Hdr("fin", 0, TRUE)) /\ UNCHANGED spos
    <2>1. n = FileLen + 4 /\ r = 3 /\ n + 1 = FileLen + 5
      BY <1>1, <1>10 DEF SenderAt
    <2>2. Put(Script(n + 1))
      BY <1>10, <2>1, ScriptIs
    <2>3. SenderAt(n + 1, r)'
      BY <1>1, <1>10, <2>1 DEF SenderAt
    <2>4. n <= FileLen + 6
      BY <1>1, <2>1
    <2> QED
      BY <1>2, <1>3, <2>2, <2>3, <2>4
  <1>11. CASE mode = "over" /\ mode' = "out" /\ Put(LetterO) /\ UNCHANGED spos
    <2>1. n = FileLen + 5 /\ r = 4 /\ n + 1 = FileLen + 6
      BY <1>1, <1>11 DEF SenderAt
    <2>2. Put(Script(n + 1))
      BY <1>11, <2>1, ScriptIs
    <2>3. SenderAt(n + 1, r)'
      BY <1>1, <1>11, <2>1 DEF SenderAt
    <2>4. n <= FileLen + 6
      BY <1>1, <2>1
    <2> QED
      BY <1>2, <1>3, <2>2, <2>3, <2>4
  <1>12. CASE mode = "out" /\ mode' = "gone" /\ Put(LetterO) /\ UNCHANGED spos
    <2>1. n = FileLen + 6 /\ r = 4 /\ n + 1 = FileLen + 7
      BY <1>1, <1>12 DEF SenderAt
    <2>2. Put(Script(n + 1))
      BY <1>12, <2>1, ScriptIs
    <2>3. SenderAt(n + 1, r)'
      BY <1>1, <1>12, <2>1 DEF SenderAt
    <2>4. n <= FileLen + 6
      BY <1>1, <2>1
    <2> QED
      BY <1>2, <1>3, <2>2, <2>3, <2>4
  <1> QED
    BY <1>4, <1>5, <1>6, <1>7, <1>8, <1>9, <1>10, <1>11, <1>12 DEF PutNext

LEMMA AnswerTakes ==
    ASSUME NEW n, NEW r, SenderAt(n, r), ReadReply, back = <<Answer(r + 1)>>, r < 4,
           r = 1 => n = 2, r = 2 => n = FileLen + 4, r = 3 => n = FileLen + 5
    PROVE  SenderAt(n, r + 1)' /\ back' = << >> /\ UNCHANGED <<vars, wire, faults>>
  <1>1. FileLen \in Nat /\ FileLen >= 1
    BY LinkConstants
  <1>2. Head(back) = Answer(r + 1) /\ back' = << >> /\ UNCHANGED <<vars, wire, faults>>
    BY DEF ReadReply
  <1>3. mode' = ModeAfter(Answer(r + 1))
    BY <1>2 DEF ReadReply
  <1>4. spos' = IF Answer(r + 1).type = "rpos" /\ mode \in {"offered", "data", "stream", "cutshort", "eof", "eofsent"}
                THEN Answer(r + 1).pos ELSE spos
    BY <1>2 DEF ReadReply
  <1>5. CASE mode = "init"
    <2>1. r = 0 /\ n = 0 /\ Answer(r + 1).type = "rinit"
      BY <1>5 DEF SenderAt, Answer
    <2> QED
      BY <1>2, <1>3, <1>5, <2>1 DEF SenderAt, ModeAfter
  <1>6. CASE mode = "offered"
    <2>1. r = 1 /\ n = 2 /\ Answer(r + 1).type = "rpos" /\ Answer(r + 1).pos = 0
      BY <1>6 DEF SenderAt, Answer
    <2> QED
      BY <1>2, <1>3, <1>4, <1>6, <2>1 DEF SenderAt, ModeAfter
  <1>7. CASE mode = "eofsent"
    <2>1. r = 2 /\ n = FileLen + 4 /\ Answer(r + 1).type = "rinit"
      BY <1>7 DEF SenderAt, Answer
    <2> QED
      BY <1>1, <1>2, <1>3, <1>7, <2>1 DEF SenderAt, ModeAfter
  <1>8. CASE mode = "finsent"
    <2>1. r = 3 /\ n = FileLen + 5 /\ Answer(r + 1).type = "fin"
      BY <1>8 DEF SenderAt, Answer
    <2> QED
      BY <1>1, <1>2, <1>3, <1>8, <2>1 DEF SenderAt, ModeAfter
  <1> QED
    BY <1>1, <1>5, <1>6, <1>7, <1>8 DEF SenderAt

-------------------------------------------------------------------------------
(* What the worker makes of the items of the script.                          *)

\* Which handlers there are where the worker stands.
LEMMA HandlersHere ==
    ASSUME NEW item, Conversation(item)
    PROVE  /\ phase \notin {"top", "dtop", "ended"}
           /\ phase = "file" => \/ ReadJunk(item) \/ ReadCancelled(item) \/ FileSpoilt(item) \/ FileTooBig(item)
                                \/ FileOpened(item) \/ FileNotOpened(item)
           /\ phase = "data" => \/ ReadJunk(item) \/ ReadCancelled(item) \/ DataQuiet(item) \/ DataSpoilt(item)
                                \/ DataRefused(item) \/ DataWritten(item)
           /\ phase = "oo" => FirstO(item) \/ FinDone(item)
           /\ phase = "await" => \/ AwaitBad(item) \/ AwaitClosed(item) \/ AwaitCancelled(item) \/ AwaitSkip(item)
                                 \/ HdrRefused(item) \/ HdrAnswered(item) \/ HdrBlockFollows(item) \/ HdrData(item)
                                 \/ HdrEof(item) \/ HdrFin(item) \/ HdrGivesUp(item) \/ HdrUnknown(item)
  <1>1. CASE \/ AwaitBad(item) \/ AwaitClosed(item) \/ AwaitCancelled(item) \/ AwaitSkip(item)
             \/ HdrRefused(item) \/ HdrAnswered(item) \/ HdrBlockFollows(item) \/ HdrData(item)
             \/ HdrEof(item) \/ HdrFin(item) \/ HdrGivesUp(item) \/ HdrUnknown(item)
    <2>1. phase = "await"
      BY <1>1 DEF AwaitBad, AwaitClosed, AwaitCancelled, AwaitSkip, Header, HdrRefused, HdrAnswered, HdrBlockFollows,
         HdrData, HdrEof, HdrFin, HdrGivesUp, HdrUnknown
    <2> QED
      BY <1>1, <2>1
  <1>2. CASE ReadJunk(item) \/ ReadCancelled(item)
    <2>1. phase \in {"sinit", "file", "data"}
      BY <1>2 DEF ReadJunk, ReadCancelled, Reading
    <2> QED
      BY <1>2, <2>1
  <1>3. CASE SinitRead(item)
    BY <1>3 DEF SinitRead
  <1>4. CASE FileSpoilt(item) \/ FileTooBig(item) \/ FileOpened(item) \/ FileNotOpened(item)
    <2>1. phase = "file"
      BY <1>4 DEF FileSpoilt, FileTooBig, FileOpened, FileNotOpened
    <2> QED
      BY <1>4, <2>1
  <1>5. CASE DataQuiet(item) \/ DataSpoilt(item) \/ DataRefused(item) \/ DataWritten(item)
    <2>1. phase = "data"
      BY <1>5 DEF DataQuiet, DataSpoilt, DataRefused, DataWritten
    <2> QED
      BY <1>5, <2>1
  <1>6. CASE FirstO(item) \/ FinDone(item)
    <2>1. phase = "oo"
      BY <1>6 DEF FirstO, FinDone
    <2> QED
      BY <1>6, <2>1
  <1> QED
    BY <1>1, <1>2, <1>3, <1>4, <1>5, <1>6 DEF Conversation

\* A header of the script has one handler.
LEMMA HeaderTaken ==
    ASSUME NEW item, item.kind = "hdr", item.good = TRUE, item.type \in {"file", "data", "eof", "fin"},
           phase \in {"top", "await"}, Conversation(item)
    PROVE  /\ item.type = "file" => HdrBlockFollows(item)
           /\ item.type = "data" => HdrData(item)
           /\ item.type = "eof" => HdrEof(item)
           /\ item.type = "fin" => HdrFin(item)
  <1>1. item # Quiet /\ item # CutByCan
    BY DEF Quiet, CutByCan
  <1>2. \/ AwaitBad(item) \/ AwaitClosed(item) \/ AwaitCancelled(item) \/ AwaitSkip(item)
        \/ HdrRefused(item) \/ HdrAnswered(item) \/ HdrBlockFollows(item) \/ HdrData(item)
        \/ HdrEof(item) \/ HdrFin(item) \/ HdrGivesUp(item) \/ HdrUnknown(item)
    BY HandlersHere
  <1>3. ~ (AwaitBad(item) \/ AwaitClosed(item) \/ AwaitCancelled(item) \/ AwaitSkip(item))
    BY <1>1 DEF AwaitBad, AwaitClosed, AwaitCancelled, AwaitSkip
  <1>4. ~ (HdrRefused(item) \/ HdrAnswered(item) \/ HdrGivesUp(item) \/ HdrUnknown(item))
    BY <1>1 DEF HdrRefused, HdrAnswered, HdrGivesUp, HdrUnknown, Header
  <1>5. HdrBlockFollows(item) => item.type = "file"
    BY <1>1 DEF HdrBlockFollows, Header
  <1>6. HdrData(item) => item.type = "data"
    BY <1>1 DEF HdrData, Header
  <1>7. HdrEof(item) => item.type = "eof"
    BY <1>1 DEF HdrEof, Header
  <1>8. HdrFin(item) => item.type = "fin"
    BY <1>1 DEF HdrFin, Header
  <1> QED
    BY <1>2, <1>3, <1>4, <1>5, <1>6, <1>7, <1>8

IoEnd == phase' = "ended" /\ status' = "io"

LEMMA OfferTaken ==
    ASSUME phase = "file", ~junk, Conversation(Block("W", << >>, 0, TRUE))
    PROVE  IoEnd \/ (/\ phase' = "top" /\ open' = TRUE /\ sawFile' = TRUE /\ received' = 0
                     /\ reply' = [type |-> "rpos", pos |-> 0])
  <1> DEFINE item == Block("W", << >>, 0, TRUE)
  <1>1. item.kind = "block" /\ item.good = TRUE /\ item.size = 0 /\ item # Quiet /\ item # CutByCan /\ item # Can
    BY DEF Block, Quiet, CutByCan, Can
  <1>2. Conversation(item)
    OBVIOUS
  <1> HIDE DEF item
  <1>3. \/ ReadJunk(item) \/ ReadCancelled(item) \/ FileSpoilt(item) \/ FileTooBig(item)
        \/ FileOpened(item) \/ FileNotOpened(item)
    BY <1>2, HandlersHere
  <1>4. ~ (ReadJunk(item) \/ ReadCancelled(item) \/ FileSpoilt(item))
    BY <1>1 DEF ReadJunk, ReadCancelled, FileSpoilt, Spoilt
  <1>5. ~ FileTooBig(item)
    BY <1>1, LinkConstants DEF FileTooBig
  <1>6. CASE FileOpened(item)
    BY <1>6 DEF FileOpened, Send
  <1>7. CASE FileNotOpened(item)
    BY <1>7 DEF FileNotOpened, End, IoEnd
  <1> QED
    BY <1>3, <1>4, <1>5, <1>6, <1>7

LEMMA BlockTaken ==
    ASSUME NEW end \in {"G", "E"}, NEW v, received \in Nat, received + 1 <= FileLen, phase \in {"dtop", "data"}, ~junk,
           Conversation(Block(end, <<v>>, 0, TRUE))
    PROVE  IoEnd \/ (/\ phase' = (IF end = "G" THEN "dtop" ELSE "top") /\ received' = received + 1 /\ junk' = junk
                     /\ UNCHANGED <<open, sawFile>> /\ reply' = NoAnswer)
  <1> DEFINE item == Block(end, <<v>>, 0, TRUE)
  <1>1. /\ item.kind = "block" /\ item.good = TRUE /\ item # Quiet /\ item # CutByCan /\ item # Can
        /\ item.data = <<v>> /\ item.end = end
    BY DEF Block, Quiet, CutByCan, Can
  <1>2. Conversation(item)
    OBVIOUS
  <1> HIDE DEF item
  <1>3. \/ ReadJunk(item) \/ ReadCancelled(item) \/ DataQuiet(item) \/ DataSpoilt(item)
        \/ DataRefused(item) \/ DataWritten(item)
    BY <1>2, HandlersHere
  <1>4. ~ (ReadJunk(item) \/ ReadCancelled(item) \/ DataQuiet(item) \/ DataSpoilt(item))
    BY <1>1 DEF ReadJunk, ReadCancelled, DataQuiet, DataSpoilt, Spoilt
  <1>5. Len(item.data) = 1 /\ Fits(Len(item.data))
    BY <1>1, LinkConstants DEF Fits
  <1>6. CASE DataRefused(item)
    BY <1>5, <1>6 DEF DataRefused, EndHere, End, IoEnd
  <1>7. CASE DataWritten(item)
    BY <1>1, <1>5, <1>7 DEF DataWritten, Silent, NoAnswer
  <1> QED
    BY <1>3, <1>4, <1>6, <1>7

LEMMA LetterTaken ==
    ASSUME phase = "oo", Conversation(LetterO), open, sawFile, open \in BOOLEAN, sawFile \in BOOLEAN
    PROVE  /\ received' = received /\ reply' = NoAnswer
           /\ oo = 0 => phase' = "oo" /\ oo' = 1 /\ open' = open /\ sawFile' = sawFile
           /\ oo = 1 => phase' = "ended" /\ status' = "ok"
  <1>1. FirstO(LetterO) \/ FinDone(LetterO)
    BY HandlersHere
  <1>2. CASE FirstO(LetterO)
    BY <1>2 DEF FirstO, fileVars, Silent, NoAnswer
  <1>3. CASE FinDone(LetterO)
    BY <1>3 DEF FinDone, FinOutcome, EndHere, End, Silent, NoAnswer
  <1> QED
    BY <1>1, <1>2, <1>3

\* What the worker says when it takes item g of the script.
Says(g) == IF g = 2 \/ g = FileLen + 4 \/ g = FileLen + 5 THEN Answer(Given(g)) ELSE NoAnswer

LEMMA ItemTaken ==
    ASSUME SessionInv, NEW g \in 0 .. FileLen + 6, NEW k \in Int, k = g + 1, ReceiverAt(g), Conversation(Script(k))
    PROVE  IoEnd \/ (ReceiverAt(k)' /\ reply' = Says(k))
  <1>1. FileLen \in Nat /\ FileLen >= 1 /\ open \in BOOLEAN /\ sawFile \in BOOLEAN /\ received \in Nat
    BY LinkConstants DEF SessionInv, Ranges
  <1>2. CASE g = 0
    <2>1. k = 1
      BY <1>1, <1>2
    <2>2. Script(k) = Hdr("file", 0, TRUE)
      BY <2>1, ScriptIs
    <2>3. phase \in {"top", "await"}
      BY <1>1, <1>2 DEF ReceiverAt
    <2> DEFINE item == Hdr("file", 0, TRUE)
    <2>4. Conversation(item)
      BY <2>2
    <2>5. item.kind = "hdr" /\ item.good = TRUE /\ item.type = "file"
      BY DEF Hdr
    <2> HIDE DEF item
    <2>6. HdrBlockFollows(item)
      BY <2>3, <2>4, <2>5, HeaderTaken
    <2>7. HdrBlockFollows(Hdr("file", 0, TRUE))
      BY <2>3, <2>6 DEF item
    <2>8. phase' = "file" /\ ~junk' /\ reply' = NoAnswer
      BY <2>7 DEF HdrBlockFollows, Goto, Silent, NoAnswer, Hdr
    <2> QED
      BY <1>1, <1>2, <2>1, <2>8 DEF ReceiverAt, Says
  <1>3. CASE g = 1
    <2>1. IoEnd \/ (/\ phase' = "top" /\ open' = TRUE /\ sawFile' = TRUE /\ received' = 0
                    /\ reply' = [type |-> "rpos", pos |-> 0])
      <3>1. Conversation(Block("W", << >>, 0, TRUE))
        <4>1. k = 2
          BY <1>3
        <4>2. Script(k) = Block("W", << >>, 0, TRUE)
          BY <4>1, ScriptIs
        <4> QED
          BY <4>2
      <3>2. phase = "file" /\ ~junk
        BY <1>3 DEF ReceiverAt
      <3> QED
        BY <3>1, <3>2, OfferTaken
    <2> QED
      BY <1>1, <1>3, <2>1 DEF ReceiverAt, Says, Given, Answer
  <1>4. CASE g = 2
    <2>1. k = 3
      BY <1>1, <1>4
    <2>2. Script(k) = Hdr("data", 0, TRUE)
      BY <2>1, ScriptIs
    <2>3. phase \in {"top", "await"} /\ open /\ received = 0 /\ sawFile
      BY <1>1, <1>4 DEF ReceiverAt
    <2> DEFINE item == Hdr("data", 0, TRUE)
    <2>4. Conversation(item)
      BY <2>2
    <2>5. item.kind = "hdr" /\ item.good = TRUE /\ item.type = "data"
      BY DEF Hdr
    <2> HIDE DEF item
    <2>6. HdrData(item)
      BY <2>3, <2>4, <2>5, HeaderTaken
    <2>7. HdrData(Hdr("data", 0, TRUE)) /\ open /\ received = 0 /\ sawFile
      BY <2>3, <2>6 DEF item
    <2>8. phase' = "dtop" /\ ~junk' /\ reply' = NoAnswer /\ UNCHANGED <<open, received, sawFile>>
      BY <2>7 DEF HdrData, Goto, Silent, NoAnswer, InStep, Hdr, fileVars
    <2> QED
      BY <1>1, <1>4, <2>1, <2>7, <2>8 DEF ReceiverAt, Says
  <1>5. CASE g \in 3 .. FileLen + 2
    <2> DEFINE end == IF k = FileLen + 3 THEN "E" ELSE "G"
    <2>1. received = g - 3 /\ phase \in {"dtop", "data"} /\ ~junk /\ open /\ sawFile
      BY <1>1, <1>5 DEF ReceiverAt
    <2>2. k \in 4 .. FileLen + 3 /\ received = k - 4
      BY <1>1, <1>5, <2>1
    <2>3. Script(k) = Block(IF k = FileLen + 3 THEN "E" ELSE "G", <<k - 3>>, 0, TRUE)
      BY <2>2, ScriptIs
    <2>4. Conversation(Block(end, <<k - 3>>, 0, TRUE)) /\ end \in {"G", "E"}
      BY <2>2, <2>3
    <2>5. received + 1 <= FileLen
      BY <1>1, <1>5, <2>1
    <2> HIDE DEF end
    <2>6. IoEnd \/ (/\ phase' = (IF end = "G" THEN "dtop" ELSE "top") /\ received' = received + 1 /\ junk' = junk
                    /\ UNCHANGED <<open, sawFile>> /\ reply' = NoAnswer)
      BY <1>1, <2>1, <2>4, <2>5, BlockTaken
    <2>7. CASE k = FileLen + 3
      <3>1. /\ k \notin {0, 1, 2, FileLen + 4, FileLen + 5, FileLen + 6, FileLen + 7} /\ ~ (k \in 3 .. FileLen + 2)
        BY <1>1, <2>2, <2>7
      <3>2. IoEnd \/ received' = FileLen
        BY <1>1, <2>2, <2>6, <2>7
      <3> QED
        BY <2>1, <2>6, <2>7, <3>1, <3>2 DEF ReceiverAt, Says, end
    <2>8. CASE k \in 4 .. FileLen + 2
      <3>1. /\ k \notin {0, 1, 2, FileLen + 3, FileLen + 4, FileLen + 5, FileLen + 6, FileLen + 7} /\ ~ (k >= FileLen + 3)
            /\ k \in 3 .. FileLen + 2
        BY <1>1, <2>2, <2>8
      <3>2. IoEnd \/ received' = k - 3
        BY <1>1, <2>2, <2>6
      <3> QED
        BY <2>1, <2>6, <3>1, <3>2 DEF ReceiverAt, Says, end
    <2> QED
      BY <1>1, <2>2, <2>7, <2>8
  <1>6. CASE g = FileLen + 3
    <2>1. k = FileLen + 4
      BY <1>1, <1>6
    <2>2. Script(k) = Hdr("eof", FileLen, TRUE)
      BY <2>1, ScriptIs
    <2>3. phase \in {"top", "await"} /\ open /\ sawFile /\ received = FileLen
      BY <1>1, <1>6 DEF ReceiverAt
    <2> DEFINE item == Hdr("eof", FileLen, TRUE)
    <2>4. Conversation(item)
      BY <2>2
    <2>5. item.kind = "hdr" /\ item.good = TRUE /\ item.type = "eof"
      BY DEF Hdr
    <2> HIDE DEF item
    <2>6. HdrEof(item)
      BY <2>3, <2>4, <2>5, HeaderTaken
    <2>7. HdrEof(Hdr("eof", FileLen, TRUE)) /\ open /\ sawFile /\ received = FileLen
      BY <2>3, <2>6 DEF item
    <2>8. IoEnd \/ (phase' = "top" /\ UNCHANGED <<open, sawFile, received>> /\ reply' = [type |-> "rinit", pos |-> 0])
      BY <2>7 DEF HdrEof, EndHere, End, IoEnd, Goto, Send, fileVars
    <2>9. k \notin {0, 1, 2, FileLen + 3, FileLen + 5, FileLen + 6, FileLen + 7} /\ ~ (k \in 3 .. FileLen + 2) /\ k \in 2 .. FileLen + 6
      BY <1>1, <2>1
    <2>10. Given(k) = 3
      BY <1>1, <2>1 DEF Given
    <2>11. Says(k) = [type |-> "rinit", pos |-> 0]
      BY <2>1, <2>10 DEF Says, Answer
    <2> QED
      BY <2>1, <2>7, <2>8, <2>9, <2>11 DEF ReceiverAt
  <1>7. CASE g = FileLen + 4
    <2>1. k = FileLen + 5
      BY <1>1, <1>7
    <2>2. Script(k) = Hdr("fin", 0, TRUE)
      BY <2>1, ScriptIs
    <2>3. phase \in {"top", "await"} /\ open /\ sawFile /\ received = FileLen
      BY <1>1, <1>7 DEF ReceiverAt
    <2> DEFINE item == Hdr("fin", 0, TRUE)
    <2>4. Conversation(item)
      BY <2>2
    <2>5. item.kind = "hdr" /\ item.good = TRUE /\ item.type = "fin"
      BY DEF Hdr
    <2> HIDE DEF item
    <2>6. HdrFin(item)
      BY <2>3, <2>4, <2>5, HeaderTaken
    <2>7. HdrFin(Hdr("fin", 0, TRUE)) /\ open /\ sawFile /\ received = FileLen
      BY <2>3, <2>6 DEF item
    <2>8. phase' = "oo" /\ oo' = 0 /\ UNCHANGED <<open, sawFile, received>> /\ reply' = [type |-> "fin", pos |-> 0]
      BY <2>7 DEF HdrFin, Goto, Send, fileVars
    <2> QED
      BY <1>1, <1>7, <2>1, <2>7, <2>8 DEF ReceiverAt, Says, Given, Answer
  <1>8. CASE g \in {FileLen + 5, FileLen + 6}
    <2>1. phase = "oo" /\ open /\ sawFile /\ received = FileLen
      BY <1>1, <1>8 DEF ReceiverAt
    <2>2. Conversation(LetterO)
      <3>1. k \in {FileLen + 6, FileLen + 7}
        BY <1>1, <1>8
      <3>2. Script(k) = LetterO
        BY <3>1, ScriptIs
      <3> QED
        BY <3>2
    <2>3. /\ received' = received /\ reply' = NoAnswer
          /\ oo = 0 => phase' = "oo" /\ oo' = 1 /\ open' = open /\ sawFile' = sawFile
          /\ oo = 1 => phase' = "ended" /\ status' = "ok"
      BY <1>1, <2>1, <2>2, LetterTaken
    <2>4. CASE g = FileLen + 5
      BY <1>1, <2>1, <2>3, <2>4 DEF ReceiverAt, Says
    <2>5. CASE g = FileLen + 6
      BY <1>1, <2>1, <2>3, <2>5 DEF ReceiverAt, Says
    <2> QED
      BY <1>8, <2>4, <2>5
  <1> QED
    BY <1>1, <1>2, <1>3, <1>4, <1>5, <1>6, <1>7, <1>8

-------------------------------------------------------------------------------
(* The steps of a transfer that nothing disturbs.                             *)

LEMMA GivenIs ==
    ASSUME NEW g \in Int
    PROVE  /\ g < 2 => Given(g) = 1
           /\ g \in 2 .. FileLen + 3 => Given(g) = 2
           /\ g = FileLen + 4 => Given(g) = 3
           /\ g > FileLen + 4 => Given(g) = 4
  BY LinkConstants DEF Given

LEMMA CalmPut ==
    ASSUME PrefixInv, NEW g \in 0 .. FileLen + 7, NEW n \in 0 .. FileLen + 7, NEW r \in 0 .. 4, OnScript(g, n, r),
           PutNext, faults \in Nat, faults' = faults
    PROVE  Calm'
  <1>1. FileLen \in Nat
    BY LinkConstants
  <1>2. SenderAt(n, r)
    BY DEF OnScript
  <1>3. SenderAt(n + 1, r)' /\ wire' = Append(wire, Script(n + 1)) /\ n <= FileLen + 6 /\ UNCHANGED <<vars, back>>
    BY <1>2, PutOnScript
  <1> DEFINE m == n + 1
             x == Script(m)
  <1>4. m \in 0 .. FileLen + 7 /\ m = n + 1 /\ g <= m
    BY <1>1, <1>3 DEF OnScript
  <1>5. SenderAt(m, r)' /\ wire' = Append(wire, x)
    BY <1>3
  <1> HIDE DEF m, x
  <1>6. wire \in Seq(SentItems) /\ Len(wire) = n - g /\ \A i \in 1 .. Len(wire) : wire[i] = Script(g + i)
    BY DEF PrefixInv, LinkTypes, OnScript
  <1>7. /\ Len(wire') = Len(wire) + 1 /\ \A i \in 1 .. Len(wire) : wire'[i] = wire[i]
        /\ wire'[Len(wire) + 1] = x
    BY <1>5, <1>6
  <1>8. Len(wire') = m - g
    BY <1>4, <1>6, <1>7
  <1>9. ASSUME NEW i \in 1 .. Len(wire') PROVE wire'[i] = Script(g + i)
    <2>1. CASE i \in 1 .. Len(wire)
      BY <1>6, <1>7, <2>1
    <2>2. CASE i = Len(wire) + 1
      <3>1. g + i = m
        BY <1>4, <1>6, <2>2
      <3> QED
        BY <1>7, <2>2, <3>1 DEF x
    <2> QED
      BY <1>6, <1>7, <2>1, <2>2
  <1>10. UNCHANGED <<phase, status, open, sawFile, junk, received, oo, back>>
    BY <1>3 DEF vars, fileVars
  <1>11. ReceiverAt(g)' /\ Given(g) \in {r, r + 1} /\ back' = (IF Given(g) = r THEN << >> ELSE <<Answer(r + 1)>>)
    BY <1>10 DEF OnScript, ReceiverAt
  <1>12. OnScript(g, m, r)'
    BY <1>4, <1>5, <1>8, <1>9, <1>11 DEF OnScript
  <1> QED
    BY <1>4, <1>12 DEF Calm

LEMMA CalmRead ==
    ASSUME NEW g \in 0 .. FileLen + 7, NEW n \in 0 .. FileLen + 7, NEW r \in 0 .. 4, OnScript(g, n, r), ReadReply
    PROVE  Calm'
  <1>1. FileLen \in Nat
    BY LinkConstants
  <1>2. SenderAt(n, r) /\ g <= n
    BY DEF OnScript
  <1>3. back # << >>
    BY DEF ReadReply
  <1>4. Given(g) = r + 1 /\ back = <<Answer(r + 1)>>
    BY <1>3 DEF OnScript
  <1>5. r < 4 /\ (r = 1 => n = 2) /\ (r = 2 => n = FileLen + 4) /\ (r = 3 => n = FileLen + 5)
    BY <1>1, <1>2, <1>4, GivenIs, SenderPlace
  <1>6. SenderAt(n, r + 1)' /\ back' = << >> /\ UNCHANGED <<vars, wire, faults>>
    BY <1>2, <1>4, <1>5, AnswerTakes
  <1> DEFINE q == r + 1
  <1>7. q \in 0 .. 4 /\ Given(g) = q /\ SenderAt(n, q)'
    BY <1>4, <1>5, <1>6
  <1> HIDE DEF q
  <1>8. UNCHANGED <<phase, status, open, sawFile, junk, received, oo, wire>>
    BY <1>6 DEF vars, fileVars
  <1>9. ReceiverAt(g)' /\ Len(wire') = n - g /\ \A i \in 1 .. Len(wire') : wire'[i] = Script(g + i)
    BY <1>8 DEF OnScript, ReceiverAt
  <1>10. OnScript(g, n, q)'
    BY <1>2, <1>6, <1>7, <1>9 DEF OnScript
  <1> QED
    BY <1>7, <1>10 DEF Calm

LEMMA CalmLoop ==
    ASSUME NEW g \in 0 .. FileLen + 7, NEW n \in 0 .. FileLen + 7, NEW r \in 0 .. 4, OnScript(g, n, r), Loop,
           ~cancel, ~sendFailed
    PROVE  Calm' /\ cancel' = cancel
  <1>1. FileLen \in Nat /\ FileLen >= 1
    BY LinkConstants
  <1>2. ReceiverAt(g)
    BY DEF OnScript
  <1>3. CASE Top
    <2>1. phase = "top" /\ Goto("await") /\ Silent /\ UNCHANGED <<cancel, junk, oo>>
      BY <1>3 DEF Top, Asked
    <2>2. g \in {0, 2, FileLen + 3, FileLen + 4}
      BY <1>1, <1>2, <2>1 DEF ReceiverAt
    <2>3. g # 1 /\ g \notin 3 .. FileLen + 2 /\ g \notin {FileLen + 5, FileLen + 6} /\ g # FileLen + 7
      BY <1>1, <2>2
    <2>4. phase' = "await" /\ UNCHANGED <<status, open, sawFile, received, junk, oo, cancel>> /\ reply'.type = "none"
      BY <2>1 DEF Goto, Silent, fileVars
    <2>5. ReceiverAt(g)'
      BY <1>2, <2>3, <2>4 DEF ReceiverAt
    <2> QED
      BY <2>4, <2>5 DEF Loop, Answered, OnScript, Calm, SenderAt
  <1>4. CASE DataTop
    <2>1. phase = "dtop" /\ Goto("data") /\ Silent /\ junk' = FALSE /\ UNCHANGED <<cancel, oo>>
      BY <1>4 DEF DataTop, Asked
    <2>2. g \in 3 .. FileLen + 2
      BY <1>1, <1>2, <2>1 DEF ReceiverAt
    <2>3. g # 1 /\ g \notin {0, 2, FileLen + 3, FileLen + 4} /\ g \notin {FileLen + 5, FileLen + 6} /\ g # FileLen + 7
      BY <1>1, <2>2
    <2>4. phase' = "data" /\ UNCHANGED <<status, open, sawFile, received, oo, cancel>> /\ ~junk' /\ reply'.type = "none"
      BY <2>1 DEF Goto, Silent, fileVars
    <2>5. ReceiverAt(g)'
      BY <1>2, <2>3, <2>4 DEF ReceiverAt
    <2> QED
      BY <2>4, <2>5 DEF Loop, Answered, OnScript, Calm, SenderAt
  <1> QED
    BY <1>3, <1>4 DEF Loop

\* Nobody ever waits for thirty seconds: one end always has something to do.
LEMMA NoSilence ==
    ASSUME NEW g \in 0 .. FileLen + 7, NEW n \in 0 .. FileLen + 7, NEW r \in 0 .. 4, OnScript(g, n, r)
    PROVE  ~Silence
  <1> SUFFICES ASSUME Silence PROVE FALSE
    OBVIOUS
  <1>1. FileLen \in Nat /\ FileLen >= 1
    BY LinkConstants
  <1>2. wire = << >> /\ back = << >> /\ mode \in {"init", "offered", "eofsent", "finsent", "gone"} /\ Conversation(Quiet)
    BY DEF Silence, Receive
  <1>3. n = g /\ Given(g) = r /\ SenderAt(n, r)
    BY <1>2 DEF OnScript
  <1>4. CASE mode = "gone"
    <2>1. g = FileLen + 7
      BY <1>3, <1>4 DEF SenderAt
    <2>2. phase = "ended"
      BY <2>1 DEF OnScript, ReceiverAt
    <2> QED
      BY <1>2, <2>2, HandlersHere
  <1>5. CASE mode \in {"init", "offered", "eofsent", "finsent"}
    <2>1. \/ g = 0 /\ r = 0
          \/ g = 2 /\ r = 1
          \/ g = FileLen + 4 /\ r = 2
          \/ g = FileLen + 5 /\ r = 3
      BY <1>3, <1>5 DEF SenderAt
    <2> QED
      BY <1>1, <1>3, <2>1, GivenIs
  <1> QED
    BY <1>2, <1>4, <1>5

\* The worker takes the next item of the script, unless its disk refuses.
LEMMA CalmTake ==
    ASSUME PrefixInv, NEW g \in 0 .. FileLen + 7, NEW n \in 0 .. FileLen + 7, NEW r \in 0 .. 4, OnScript(g, n, r), TakeItem
    PROVE  Calm' \/ IoEnd
  <1>1. FileLen \in Nat /\ FileLen >= 1 /\ SessionInv
    BY LinkConstants DEF PrefixInv
  <1>2. wire # << >> /\ wire' = Tail(wire) /\ Conversation(Head(wire)) /\ Answered /\ UNCHANGED <<mode, spos>>
    BY DEF TakeItem, Receive, Answered
  <1>3. wire \in Seq(SentItems) /\ Len(wire) = n - g /\ \A i \in 1 .. Len(wire) : wire[i] = Script(g + i)
    BY DEF PrefixInv, LinkTypes, OnScript
  <1>4. Len(wire) \in Nat /\ Len(wire) >= 1 /\ Head(wire) = wire[1] /\ Len(wire') = Len(wire) - 1
    BY <1>2, <1>3
  <1>5. \A i \in 1 .. Len(wire') : wire'[i] = wire[i + 1]
    BY <1>2, <1>3
  <1>6. PICK k \in 0 .. FileLen + 7 : k = g + 1 /\ k <= n /\ g \in 0 .. FileLen + 6
    BY <1>1, <1>3, <1>4
  <1>7. Conversation(Script(k))
    BY <1>2, <1>3, <1>4, <1>6
  <1>8. ReceiverAt(g) /\ SenderAt(n, r)
    BY DEF OnScript
  <1>9. IoEnd \/ (ReceiverAt(k)' /\ reply' = Says(k))
    BY <1>1, <1>6, <1>7, <1>8, ItemTaken
  <1>10. SUFFICES ASSUME ReceiverAt(k)', reply' = Says(k) PROVE Calm'
    BY <1>9
  <1>11. Len(wire') = n - k
    BY <1>3, <1>4, <1>6
  <1>12. ASSUME NEW i \in 1 .. Len(wire') PROVE wire'[i] = Script(k + i)
    <2>1. i + 1 \in 1 .. Len(wire) /\ g + (i + 1) = k + i
      BY <1>4, <1>6
    <2> QED
      BY <1>3, <1>5, <2>1
  <1>13. SenderAt(n, r)'
    BY <1>2, <1>8 DEF SenderAt
  <1>14. Given(g) \in {r, r + 1} /\ back = (IF Given(g) = r THEN << >> ELSE <<Answer(r + 1)>>)
    BY DEF OnScript
  <1>15. Given(k) \in {r, r + 1} /\ back' = (IF Given(k) = r THEN << >> ELSE <<Answer(r + 1)>>)
    <2>1. CASE k \in {2, FileLen + 4, FileLen + 5}
      <3>1. Given(g) = r /\ Given(k) = r + 1
        BY <1>1, <1>6, <1>8, <1>14, <2>1, GivenIs, SenderPlace
      <3>2. reply' = Answer(r + 1)
        BY <1>10, <2>1, <3>1 DEF Says
      <3>3. reply'.type # "none"
        BY <3>2 DEF Answer
      <3>4. back = << >> /\ back' = Append(back, reply')
        BY <1>2, <1>14, <3>1, <3>3 DEF Answered
      <3>5. back' = <<Answer(r + 1)>>
        BY <3>2, <3>4
      <3> QED
        BY <3>1, <3>5
    <2>2. CASE k \notin {2, FileLen + 4, FileLen + 5}
      <3>1. Given(k) = Given(g)
        BY <1>1, <1>6, <2>2, GivenIs
      <3>2. reply'.type = "none"
        BY <1>10, <2>2 DEF Says, NoAnswer
      <3> QED
        BY <1>2, <1>14, <3>1, <3>2 DEF Answered
    <2> QED
      BY <2>1, <2>2
  <1>16. OnScript(k, n, r)'
    BY <1>6, <1>10, <1>11, <1>12, <1>13, <1>15 DEF OnScript
  <1> QED
    BY <1>6, <1>16 DEF Calm

LEMMA CalmStart == LinkInit => CalmInv
  <1> SUFFICES ASSUME LinkInit PROVE CalmInv
    OBVIOUS
  <1>1. /\ wire = << >> /\ back = <<reply>> /\ mode = "init" /\ phase = "top" /\ faults = 0
        /\ reply = [type |-> "rinit", pos |-> 0] /\ sendFailed = FALSE
    BY DEF LinkInit, Init
  <1>2. cancel = FALSE
    BY DEF LinkInit, Init
  <1>3. FileLen \in Nat /\ FileLen >= 1
    BY LinkConstants
  <1>4. SenderAt(0, 0)
    BY <1>1 DEF SenderAt
  <1>5. ReceiverAt(0)
    BY <1>1, <1>3 DEF ReceiverAt
  <1>6. Given(0) = 1 /\ Answer(0 + 1) = reply
    BY <1>1 DEF Given, Answer
  <1>7. OnScript(0, 0, 0)
    BY <1>1, <1>4, <1>5, <1>6 DEF OnScript
  <1>8. 0 \in 0 .. FileLen + 7 /\ 0 \in 0 .. 4
    BY <1>3
  <1> QED
    BY <1>1, <1>2, <1>7, <1>8 DEF CalmInv, Calm

LEMMA FaultsGrow ==
    ASSUME LinkNext, faults \in Nat
    PROVE  faults' \in {faults, faults + 1}
  <1>1. \A item : Put(item) => faults' \in {faults, faults + 1}
    BY DEF Put
  <1>2. PutNext => \E item : Put(item)
    BY DEF PutNext
  <1> QED
    BY <1>1, <1>2 DEF LinkNext, ReadReply, Loop, TakeItem, Silence, Answered

LEMMA NobodyCancels ==
    ASSUME LinkNext, ~cancel, ~sendFailed
    PROVE  ~cancel' /\ ~sendFailed'
  <1>1. CASE PutNext \/ ReadReply
    <2>1. UNCHANGED vars
      BY <1>1 DEF PutNext, ReadReply
    <2>2. UNCHANGED <<cancel, sendFailed>>
      BY <2>1 DEF vars, connVars
    <2> QED
      BY <2>2
  <1>2. CASE Loop
    BY <1>2 DEF Loop, Top, DataTop, Answered
  <1>3. CASE TakeItem \/ Silence
    <2>1. PICK item : Conversation(item)
      BY <1>3 DEF TakeItem, Silence, Receive
    <2>2. cancel' = cancel
      BY <2>1, LateConversation
    <2> QED
      BY <1>3, <2>2 DEF TakeItem, Silence, Answered
  <1> QED
    BY <1>1, <1>2, <1>3 DEF LinkNext

LEMMA CalmStep == ASSUME PrefixInv, CalmInv, [LinkNext]_linkVars PROVE CalmInv'
  <1>1. CASE UNCHANGED linkVars
    <2>1. UNCHANGED <<phase, status, open, sawFile, junk, received, oo, cancel, sendFailed, wire, back, mode, spos, faults>>
      BY <1>1 DEF linkVars, vars, connVars, fileVars
    <2> QED
      BY <2>1 DEF CalmInv, Calm, OnScript, SenderAt, ReceiverAt
  <1>2. CASE LinkNext
    <2>1. faults' \in Nat /\ ~cancel' /\ ~sendFailed'
      BY <1>2, FaultsGrow, NobodyCancels DEF CalmInv
    <2>2. ASSUME faults' = 0 PROVE Calm' \/ IoEnd
      <3>1. faults = 0 /\ faults' = faults
        BY <1>2, <2>2, FaultsGrow DEF CalmInv
      <3>2. CASE Calm
        <4>1. PICK g \in 0 .. FileLen + 7, n \in 0 .. FileLen + 7, r \in 0 .. 4 : OnScript(g, n, r)
          BY <3>2 DEF Calm
        <4>2. CASE PutNext
          BY <3>1, <4>1, <4>2, CalmPut DEF CalmInv
        <4>3. CASE ReadReply
          BY <4>1, <4>3, CalmRead
        <4>4. CASE Loop
          BY <4>1, <4>4, CalmLoop DEF CalmInv
        <4>5. CASE TakeItem
          BY <4>1, <4>5, CalmTake
        <4>6. CASE Silence
          BY <4>1, <4>6, NoSilence
        <4> QED
          BY <1>2, <4>2, <4>3, <4>4, <4>5, <4>6 DEF LinkNext
      <3>3. CASE phase = "ended" /\ status = "io"
        <4>1. ~ (Loop \/ TakeItem \/ Silence)
          <5>1. ~ (Top \/ DataTop)
            BY <3>3 DEF Top, DataTop
          <5>2. \A item : ~ Conversation(item)
            BY <3>3, HandlersHere
          <5> QED
            BY <5>1, <5>2 DEF Loop, TakeItem, Silence, Receive
        <4>2. UNCHANGED <<phase, status>>
          BY <1>2, <4>1 DEF LinkNext, PutNext, ReadReply, vars
        <4> QED
          BY <3>3, <4>2 DEF IoEnd
      <3> QED
        BY <3>1, <3>2, <3>3 DEF CalmInv
    <2> QED
      BY <2>1, <2>2 DEF CalmInv, IoEnd
  <1> QED
    BY <1>1, <1>2

LEMMA LinkSafe == PrefixInv /\ CalmInv => SourceArrives
  <1> SUFFICES ASSUME PrefixInv, CalmInv PROVE SourceArrives
    OBVIOUS
  <1>0. FileLen \in Nat /\ FileLen >= 1
    BY LinkConstants
  <1>1. PrefixOnly
    BY DEF PrefixInv, DiskOk, PrefixOnly, Files, IsPrefixOfSource
  <1>2. ASSUME phase = "ended", faults = 0, status # "io" PROVE status = "ok" /\ disk[path].data = Source
    <2>1. PICK g \in 0 .. FileLen + 7, n \in 0 .. FileLen + 7, r \in 0 .. 4 : OnScript(g, n, r)
      BY <1>2 DEF CalmInv, Calm
    <2>2. g = FileLen + 7
      BY <1>0, <1>2, <2>1 DEF OnScript, ReceiverAt
    <2>3. status = "ok" /\ received = FileLen
      BY <1>0, <2>1, <2>2 DEF OnScript, ReceiverAt
    <2>4. disk[path].kind = "ours" /\ Len(disk[path].data) = FileLen /\ path # 0
      BY <1>2, <2>3 DEF PrefixInv, SessionInv, Holds
    <2>5. path \in 1 .. Slots /\ disk \in [1 .. Slots -> File]
      BY <2>4, SessionAssumption DEF PrefixInv, SessionInv, Ranges
    <2>6. \A i \in 1 .. FileLen : disk[path].data[i] = i
      BY <2>4, <2>5 DEF PrefixInv, DiskOk
    <2>7. disk[path].data \in Seq(Vals)
      BY <2>5 DEF File
    <2> DEFINE d == disk[path].data
    <2>8. d \in Seq(Vals) /\ Len(d) = FileLen /\ \A i \in 1 .. FileLen : d[i] = i
      BY <2>4, <2>6, <2>7
    <2> HIDE DEF d
    <2>9. d = [i \in 1 .. FileLen |-> i]
      BY <2>8
    <2> QED
      BY <2>3, <2>9 DEF d, Source
  <1> QED
    BY <1>1, <1>2 DEF SourceArrives

(* Over a wire that damages what it likes but swallows nothing, whatever has  *)
(* been written is the beginning of the file (zmr_thread, zmodem_recv.c:839   *)
(* and 872); and where nothing was damaged only the disk can make the         *)
(* transfer fail, success being the whole file.  An item that is swallowed    *)
(* may corrupt the file: DropNeverCorrupts does not hold.                     *)
THEOREM LinkSourceArrives == ASSUME ~MayLose PROVE LinkSpec => []SourceArrives
  <1> DEFINE I == PrefixInv /\ CalmInv
  <1>1. LinkInit => I
    BY LinkStart, CalmStart
  <1>2. I /\ [LinkNext]_linkVars => I'
    BY PrefixStep, CalmStep
  <1>3. I => SourceArrives
    BY LinkSafe
  <1> HIDE DEF I
  <1> QED
    BY <1>1, <1>2, <1>3, PTL DEF LinkSpec
===============================================================================
