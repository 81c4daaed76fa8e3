------------------------- MODULE ZmodemSession_proofs -------------------------
(* Machine-checked theorems about ZmodemSession: one receive session against  *)
(* a sender that may present anything, for any error limit, any ceiling, any  *)
(* number of candidate names and any payload.                                 *)
EXTENDS ZmodemSession, SequenceTheorems, WellFoundedInduction, TLAPS

-------------------------------------------------------------------------------
(* The invariant.  The worker is in the data loop only with a file open, and  *)
(* the open file is one of ours that holds exactly what was received.         *)

Ranges ==
    /\ open \in BOOLEAN /\ sawFile \in BOOLEAN
    /\ received \in 0 .. Ceiling
    /\ path \in 0 .. Slots
    /\ disk \in [1 .. Slots -> File]

(* The file under name p is ours and n blocks long.                           *)
Holds(d, p, n) == p # 0 /\ d[p].kind = "ours" /\ Len(d[p].data) = n

SessionInv ==
    /\ Ranges
    /\ phase \in {"dtop", "data"} => open
    /\ open => Holds(disk, path, received)
    /\ open /\ reply.type = "rpos" => reply.pos = received
    /\ phase = "ended" /\ status = "ok" => Holds(disk, path, received)
    /\ \A s \in 1 .. Slots : Len(disk[s].data) <= Ceiling

LEMMA EmptyFile ==
    /\ Absent \in File /\ Theirs \in File /\ Ours(<< >>) \in File
    /\ Len(Absent.data) = 0 /\ Len(Theirs.data) = 0 /\ Len(Ours(<< >>).data) = 0
    /\ Ours(<< >>).kind = "ours"
  <1>1. << >> \in Seq(Vals) /\ Len(<< >>) = 0
    OBVIOUS
  <1> QED
    BY <1>1 DEF Absent, Theirs, Ours, File

(* The payload of a block that is presented.                                  *)
LEMMA ItemData ==
    ASSUME NEW item \in Items, item.kind = "block"
    PROVE  item.data \in Seq(Vals)
  <1>1. << >> \in Seq(Vals)
    OBVIOUS
  <1>2. \A v \in Vals : <<v>> \in Seq(Vals)
    OBVIOUS
  <1>3. \A t, n, g : Hdr(t, n, g).kind = "hdr"
    BY DEF Hdr
  <1>4. /\ Can.kind = "can" /\ CutByCan.kind = "cut" /\ Text.kind = "text" /\ LetterO.kind = "O"
        /\ Quiet.kind = "quiet"
    BY DEF Can, CutByCan, Text, LetterO, Quiet
  <1> DEFINE Payloads == {<< >>} \cup {<<v>> : v \in Vals}
             Heads == {Hdr(t, 0, TRUE) : t \in HdrTypes \ {"data"}}
             Data == {Hdr("data", n, TRUE) : n \in 0 .. Ceiling + 1}
             Blocks == {Block(e, d, 0, TRUE) : e \in {"E", "G", "Q", "W"}, d \in Payloads}
  <1>5. Items = Heads \cup Data \cup {Hdr("unknown", 0, FALSE)} \cup Blocks
                  \cup {Block("W", << >>, Ceiling + 1, TRUE), Block("E", << >>, 0, FALSE)}
                  \cup {Can, CutByCan, Text, LetterO, Quiet}
    BY DEF Items
  <1>6. \A i \in Heads \cup Data \cup {Hdr("unknown", 0, FALSE)} : i.kind = "hdr"
    BY <1>3
  <1>7. \A i \in {Can, CutByCan, Text, LetterO, Quiet} : i.kind # "block"
    BY <1>4
  <1>8. \A i \in Blocks : i.data \in Payloads
    <2> HIDE DEF Payloads
    <2> QED
      BY DEF Block
  <1>9. \A i \in {Block("W", << >>, Ceiling + 1, TRUE), Block("E", << >>, 0, FALSE)} : i.data = << >>
    BY DEF Block
  <1>10. Payloads \subseteq Seq(Vals)
    BY <1>1, <1>2
  <1> HIDE DEF Payloads, Heads, Data, Blocks
  <1> QED
    BY <1>1, <1>5, <1>6, <1>7, <1>8, <1>9, <1>10

(* A set of natural numbers that is not empty has a least element.            *)
LEMMA LeastOf ==
    ASSUME NEW T \in SUBSET Nat, T # {}
    PROVE  \E s \in T : \A t \in T : s <= t
  <1> DEFINE R == {ss \in Nat \X Nat : ss[1] < ss[2]}
  <1>1. IsWellFoundedOn(R, Nat)
    BY NatLessThanWellFounded, Zenon DEF OpToRel
  <1> HIDE DEF R
  <1>2. PICK s \in T : \A t \in T : ~ (<<t, s>> \in R)
    BY <1>1, WFMin
  <1>3. \A t \in T : t \in Nat /\ s \in Nat /\ ~ (t < s)
    BY <1>2 DEF R
  <1> QED
    BY <1>2, <1>3

(* build_unique_path finds a name that is free, where there is one.           *)
LEMMA FirstFreeIsFree ==
    ASSUME FreeSlots # {}
    PROVE  FirstFree \in 1 .. Slots /\ disk[FirstFree] = Absent
  <1>1. FreeSlots \in SUBSET Nat
    BY SessionAssumption DEF FreeSlots
  <1>2. PICK s \in FreeSlots : \A t \in FreeSlots : s <= t
    BY <1>1, LeastOf
  <1>3. FirstFree \in FreeSlots
    BY <1>2 DEF FirstFree
  <1> QED
    BY <1>3 DEF FreeSlots

LEMMA SessionInit == Init => SessionInv
  <1> SUFFICES ASSUME Init PROVE SessionInv
    OBVIOUS
  <1>1. /\ phase = "top" /\ received = 0 /\ open = FALSE /\ sawFile = FALSE /\ path = 0
        /\ disk \in [1 .. Slots -> {Absent, Theirs}]
    BY DEF Init
  <1>2. disk \in [1 .. Slots -> File]
    BY <1>1, EmptyFile
  <1>3. Ranges
    <2>1. 0 \in 0 .. Ceiling /\ 0 \in 0 .. Slots
      BY SessionAssumption
    <2> QED
      BY <1>1, <1>2, <2>1 DEF Ranges
  <1>4. \A s \in 1 .. Slots : Len(disk[s].data) <= Ceiling
    BY <1>1, EmptyFile, SessionAssumption
  <1> QED
    BY <1>1, <1>3, <1>4 DEF SessionInv

-------------------------------------------------------------------------------
(* What a step does to the file: nothing, the end of it, or one of the three  *)
(* steps that touch the disk otherwise.                                       *)

Stays ==
    /\ UNCHANGED <<fileVars, disk, status>>
    /\ phase' # "ended"
    /\ phase' \in {"dtop", "data"} => open
    /\ open /\ reply'.type = "rpos" => reply'.pos = received

Ends ==
    /\ \E outcome : EndHere(outcome) /\ (outcome = "ok" => sawFile /\ open)
    /\ phase # "ended"

LEMMA StopEnds ==
    ASSUME NEW outcome, outcome # "ok", Stop(outcome), phase # "ended"
    PROVE  Ends
  <1>1. Blame(outcome) # "ok"
    BY DEF Blame
  <1> QED
    BY <1>1 DEF Stop, Ends

LEMMA ComplainStays ==
    ASSUME NEW type, NEW pos, NEW count, Complain(type, pos, count), phase # "ended",
           open /\ type = "rpos" => pos = received
    PROVE  Stays \/ Ends
  <1>1. CASE EndHere("protocol")
    BY <1>1 DEF Ends
  <1>2. CASE Goto("top") /\ Send(type, pos)
    BY <1>2 DEF Goto, Send, Stays
  <1> QED
    BY <1>1, <1>2 DEF Complain

LEMMA ConversationSteps ==
    ASSUME SessionInv, NEW item, Conversation(item)
    PROVE  Stays \/ Ends \/ FileOpened(item) \/ FileNotOpened(item) \/ DataWritten(item)
  <1>1. CASE AwaitBad(item)
    <2>1. CASE open
      BY <1>1, <2>1, ComplainStays DEF AwaitBad
    <2>2. CASE ~open
      BY <1>1, <2>2, ComplainStays DEF AwaitBad
    <2> QED
      BY <2>1, <2>2
  <1>2. CASE AwaitClosed(item) \/ AwaitCancelled(item) \/ ReadCancelled(item) \/ DataQuiet(item)
    <2>1. phase # "ended" /\ (Stop("timeout") \/ Stop("aborted"))
      BY <1>2 DEF AwaitClosed, AwaitCancelled, ReadCancelled, DataQuiet, Reading
    <2> QED
      BY <2>1, StopEnds
  <1>3. CASE AwaitSkip(item) \/ ReadJunk(item) \/ FirstO(item)
    <2>1. /\ phase' = phase /\ phase # "ended" /\ UNCHANGED <<fileVars, disk, status>>
          /\ reply' = [type |-> "none", pos |-> 0]
      BY <1>3 DEF AwaitSkip, ReadJunk, FirstO, Silent, Reading
    <2> QED
      BY <2>1 DEF Stays, SessionInv
  <1>4. CASE HdrRefused(item) \/ HdrGivesUp(item) \/ FileTooBig(item)
    BY <1>4 DEF HdrRefused, HdrGivesUp, FileTooBig, Header, Ends
  <1>5. CASE HdrAnswered(item)
    <2>1. Goto("top")
      BY <1>5 DEF HdrAnswered
    <2>2. \E type \in {"rinit", "ack"}, pos \in {0, item.pos, Ceiling} : Send(type, pos)
      <3>1. item.type \in {"rqinit", "challenge", "freecount"}
        BY <1>5 DEF HdrAnswered, Header
      <3>2. CASE item.type = "rqinit"
        BY <1>5, <3>2 DEF HdrAnswered
      <3>3. CASE item.type = "challenge"
        BY <1>5, <3>3 DEF HdrAnswered
      <3>4. CASE item.type = "freecount"
        BY <1>5, <3>4 DEF HdrAnswered
      <3> QED
        BY <3>1, <3>2, <3>3, <3>4
    <2> QED
      BY <2>1, <2>2 DEF Stays, Goto, Send
  <1>6. CASE HdrBlockFollows(item)
    <2>1. Goto("sinit") \/ Goto("file")
      BY <1>6 DEF HdrBlockFollows, Header
    <2>2. Silent
      BY <1>6 DEF HdrBlockFollows
    <2> QED
      BY <2>1, <2>2 DEF Stays, Goto, Silent
  <1>7. CASE HdrData(item)
    <2>1. CASE ~open
      <3>1. Goto("top")
        BY <1>7, <2>1 DEF HdrData
      <3> QED
        BY <2>1, <3>1 DEF Goto, Stays
    <2>2. CASE open /\ ~InStep(item.pos)
      <3>1. Goto("top") /\ Send("rpos", received)
        BY <1>7, <2>2 DEF HdrData
      <3> QED
        BY <3>1 DEF Goto, Send, Stays
    <2>3. CASE open /\ InStep(item.pos)
      <3>1. Goto("dtop") /\ Silent
        BY <1>7, <2>3 DEF HdrData
      <3> QED
        BY <2>3, <3>1 DEF Goto, Silent, Stays
    <2> QED
      BY <2>1, <2>2, <2>3
  <1>8. CASE HdrEof(item)
    <2>1. CASE EndHere("io")
      BY <1>8, <2>1 DEF HdrEof, Header, Ends
    <2>2. CASE Goto("top") /\ Send("rinit", 0)
      BY <2>2 DEF Goto, Send, Stays
    <2> QED
      BY <1>8, <2>1, <2>2 DEF HdrEof
  <1>9. CASE HdrFin(item)
    BY <1>9 DEF HdrFin, Goto, Send, Stays
  <1>10. CASE HdrUnknown(item)
    <2>1. phase # "ended" /\ Complain("nak", 0, 0)
      BY <1>10 DEF HdrUnknown, Header
    <2> QED
      BY <2>1, ComplainStays
  <1>11. CASE SinitRead(item)
    BY <1>11 DEF SinitRead, Goto, Send, Stays
  <1>12. CASE FileSpoilt(item)
    BY <1>12, ComplainStays DEF FileSpoilt
  <1>13. CASE DataSpoilt(item)
    BY <1>13, ComplainStays DEF DataSpoilt
  <1>14. CASE DataRefused(item)
    <2>1. phase # "ended" /\ (EndHere("too_big") \/ EndHere("io"))
      BY <1>14 DEF DataRefused
    <2> QED
      BY <2>1 DEF Ends
  <1>15. CASE FinDone(item)
    BY <1>15 DEF FinDone, FinOutcome, Ends
  <1> QED
    BY <1>1, <1>2, <1>3, <1>4, <1>5, <1>6, <1>7, <1>8, <1>9, <1>10, <1>11, <1>12,
       <1>13, <1>14, <1>15 DEF Conversation

LEMMA WorkerSteps ==
    ASSUME SessionInv, Next
    PROVE  Stays \/ Ends \/ \E item : FileOpened(item) \/ FileNotOpened(item) \/ (DataWritten(item) /\ item.data \in Seq(Vals))
  <1>1. CASE Cancel
    BY <1>1 DEF Cancel, Stays, SessionInv
  <1>2. CASE Top
    <2>1. phase # "ended" /\ (EndHere("cancelled") \/ EndHere("aborted") \/ (Goto("await") /\ Silent))
      BY <1>2 DEF Top
    <2> QED
      BY <2>1 DEF Ends, Goto, Silent, Stays
  <1>3. CASE DataTop
    <2>1. phase = "dtop" /\ (EndHere("cancelled") \/ (Goto("data") /\ Silent))
      BY <1>3 DEF DataTop
    <2> QED
      BY <2>1 DEF Ends, Goto, Silent, Stays, SessionInv
  <1>4. CASE Interrupted
    <2>1. phase # "ended" /\ (EndHere(FinOutcome) \/ Stop("timeout"))
      BY <1>4 DEF Interrupted
    <2> QED
      BY <2>1, StopEnds DEF Ends, FinOutcome
  <1>5. ASSUME NEW item \in Items, Receive(item)
        PROVE  Stays \/ Ends \/ FileOpened(item) \/ FileNotOpened(item) \/ (DataWritten(item) /\ item.data \in Seq(Vals))
    <2>1. DataWritten(item) => item.data \in Seq(Vals)
      BY ItemData DEF DataWritten, Sound
    <2> QED
      BY <1>5, <2>1, ConversationSteps DEF Receive
  <1> QED
    BY <1>1, <1>2, <1>3, <1>4, <1>5 DEF Next, Worker

-------------------------------------------------------------------------------
(* The steps that touch the file.                                             *)

(* Where the loop is left: a failure takes the file with it.                  *)
LEMMA EndsEffect ==
    ASSUME SessionInv, Ends
    PROVE  /\ phase' = "ended" /\ open' = FALSE /\ received' = received /\ sawFile' = sawFile
           /\ \/ status' = "ok" /\ path' = path /\ disk' = disk /\ open
              \/ status' # "ok" /\ path' = 0 /\ disk' = (IF path = 0 THEN disk ELSE [disk EXCEPT ![path] = Absent])
  <1>1. PICK outcome : EndHere(outcome) /\ (outcome = "ok" => sawFile /\ open)
    BY DEF Ends
  <1>2. /\ phase' = "ended" /\ status' = outcome /\ open' = FALSE
        /\ received' = received /\ sawFile' = sawFile
    BY <1>1 DEF EndHere, End
  <1>3. CASE outcome = "ok"
    BY <1>1, <1>2, <1>3 DEF EndHere, End
  <1>4. CASE outcome # "ok"
    BY <1>1, <1>2, <1>4 DEF EndHere, End
  <1> QED
    BY <1>2, <1>3, <1>4

(* A name is cleared.                                                         *)
LEMMA Cleared ==
    ASSUME SessionInv, NEW p \in 1 .. Slots
    PROVE  /\ [disk EXCEPT ![p] = Absent] \in [1 .. Slots -> File]
           /\ \A s \in 1 .. Slots : Len([disk EXCEPT ![p] = Absent][s].data) <= Ceiling
           /\ [disk EXCEPT ![p] = Absent][p] = Absent
           /\ \A s \in 1 .. Slots : disk[s] = Theirs => [disk EXCEPT ![p] = Absent][s].kind # "ours"
  <1>1. disk \in [1 .. Slots -> File] /\ \A s \in 1 .. Slots : Len(disk[s].data) <= Ceiling
    BY DEF SessionInv, Ranges
  <1>2. Absent \in File /\ Len(Absent.data) = 0 /\ Ceiling \in Nat /\ Absent.kind # "ours" /\ Theirs.kind # "ours"
    BY EmptyFile, SessionAssumption DEF Absent, Theirs
  <1> HIDE DEF Absent, Theirs
  <1> QED
    BY <1>1, <1>2

LEMMA EndsKeep == SessionInv /\ Ends => SessionInv'
  <1> SUFFICES ASSUME SessionInv, Ends PROVE SessionInv'
    OBVIOUS
  <1>1. /\ phase' = "ended" /\ open' = FALSE /\ received' = received /\ sawFile' = sawFile
        /\ \/ status' = "ok" /\ path' = path /\ disk' = disk /\ open
           \/ status' # "ok" /\ path' = 0 /\ disk' = (IF path = 0 THEN disk ELSE [disk EXCEPT ![path] = Absent])
    BY EndsEffect
  <1>2. CASE disk' = disk /\ path' = path /\ open
    BY <1>1, <1>2 DEF SessionInv, Ranges
  <1>3. CASE status' # "ok" /\ path' = 0 /\ path = 0 /\ disk' = disk
    BY <1>1, <1>3 DEF SessionInv, Ranges
  <1>4. CASE status' # "ok" /\ path' = 0 /\ path # 0 /\ disk' = [disk EXCEPT ![path] = Absent]
    <2>1. path \in 1 .. Slots /\ 0 \in 0 .. Slots
      BY <1>4, SessionAssumption DEF SessionInv, Ranges
    <2>2. disk' \in [1 .. Slots -> File] /\ \A s \in 1 .. Slots : Len(disk'[s].data) <= Ceiling
      BY <1>4, <2>1, Cleared
    <2> QED
      BY <1>1, <1>4, <2>1, <2>2 DEF SessionInv, Ranges
  <1> QED
    BY <1>1, <1>2, <1>3, <1>4

LEMMA StaysKeep == SessionInv /\ Stays => SessionInv'
  <1> SUFFICES ASSUME SessionInv, Stays PROVE SessionInv'
    OBVIOUS
  <1>1. UNCHANGED <<received, open, sawFile, path, disk, status>> /\ phase' # "ended"
    BY DEF Stays, fileVars
  <1> QED
    BY <1>1 DEF SessionInv, Ranges, Stays, Holds

LEMMA OpenedKeeps ==
    ASSUME SessionInv, NEW item, FileOpened(item)
    PROVE  /\ SessionInv'
           /\ \A s \in 1 .. Slots : disk[s] = Theirs => disk'[s].kind # "ours"
           /\ phase' # "ended"
  <1> DEFINE f == Ours(<< >>)
             p == FirstFree
  <1>1. p \in 1 .. Slots /\ disk[p] = Absent
    BY FirstFreeIsFree DEF FileOpened
  <1>2. /\ received' = 0 /\ open' = TRUE /\ sawFile' = TRUE /\ path' = p /\ phase' = "top"
        /\ disk' = [disk EXCEPT ![p] = f] /\ reply' = [type |-> "rpos", pos |-> 0]
    BY DEF FileOpened, Send
  <1>3. f \in File /\ Len(f.data) = 0 /\ f.kind = "ours" /\ Absent # Theirs /\ Theirs.kind # "ours"
    BY EmptyFile DEF Absent, Theirs
  <1>4. disk \in [1 .. Slots -> File] /\ \A s \in 1 .. Slots : Len(disk[s].data) <= Ceiling
    BY DEF SessionInv, Ranges
  <1> HIDE DEF f, p
  <1>5. /\ disk' \in [1 .. Slots -> File] /\ disk'[p] = f
        /\ \A s \in 1 .. Slots : s # p => disk'[s] = disk[s]
    BY <1>1, <1>2, <1>3, <1>4
  <1>6. \A s \in 1 .. Slots : Len(disk'[s].data) <= Ceiling
    BY <1>3, <1>4, <1>5, SessionAssumption
  <1>7. p # 0 /\ p \in 0 .. Slots /\ 0 \in 0 .. Ceiling
    BY <1>1, SessionAssumption
  <1>8. SessionInv'
    BY <1>2, <1>3, <1>5, <1>6, <1>7 DEF SessionInv, Ranges, Holds
  <1>9. \A s \in 1 .. Slots : disk[s] = Theirs => disk'[s].kind # "ours"
    BY <1>1, <1>3, <1>5
  <1> QED
    BY <1>2, <1>8, <1>9

LEMMA NotOpenedKeeps ==
    ASSUME SessionInv, NEW item, FileNotOpened(item)
    PROVE  /\ SessionInv'
           /\ \A s \in 1 .. Slots : disk[s] = Theirs => disk'[s].kind # "ours"
           /\ phase = "file"
  <1> DEFINE p == IF FreeSlots = {} THEN Slots ELSE FirstFree
  <1>1. p \in 1 .. Slots
    BY FirstFreeIsFree, SessionAssumption
  <1> HIDE DEF p
  <1>2. End("io", p, disk) /\ received' = 0 /\ sawFile' = sawFile /\ phase = "file"
    BY DEF FileNotOpened, p
  <1>3. /\ phase' = "ended" /\ status' = "io" /\ open' = FALSE /\ path' = 0
        /\ disk' = [disk EXCEPT ![p] = Absent]
    BY <1>1, <1>2 DEF End
  <1>4. /\ disk' \in [1 .. Slots -> File] /\ \A s \in 1 .. Slots : Len(disk'[s].data) <= Ceiling
        /\ \A s \in 1 .. Slots : disk[s] = Theirs => disk'[s].kind # "ours"
    BY <1>1, <1>3, Cleared
  <1>5. 0 \in 0 .. Slots /\ 0 \in 0 .. Ceiling /\ sawFile \in BOOLEAN
    BY SessionAssumption DEF SessionInv, Ranges
  <1> QED
    BY <1>2, <1>3, <1>4, <1>5 DEF SessionInv, Ranges

LEMMA WrittenKeeps ==
    ASSUME SessionInv, NEW item, item.data \in Seq(Vals), DataWritten(item)
    PROVE  /\ SessionInv'
           /\ \A s \in 1 .. Slots : disk[s] = Theirs => disk'[s].kind # "ours"
           /\ phase' # "ended"
  <1> DEFINE old == disk[path].data
             data == item.data
             n == received + Len(data)
             f == [kind |-> "ours", data |-> old \o data]
  <1>1. open /\ Holds(disk, path, received) /\ path \in 1 .. Slots
    BY DEF DataWritten, SessionInv, Ranges, Holds
  <1>2. /\ disk \in [1 .. Slots -> File] /\ \A s \in 1 .. Slots : Len(disk[s].data) <= Ceiling
        /\ sawFile \in BOOLEAN /\ received \in Nat
    BY SessionAssumption DEF SessionInv, Ranges
  <1>3. disk[path] = [kind |-> "ours", data |-> old] /\ old \in Seq(Vals) /\ Len(old) = received
    BY <1>1, <1>2 DEF File, Holds
  <1>4. data \in Seq(Vals) /\ Len(data) \in Nat
    BY LenProperties
  <1>5. old \o data \in Seq(Vals) /\ Len(old \o data) = n
    BY <1>3, <1>4, ConcatProperties
  <1>6. n \in 0 .. Ceiling
    <2>1. n <= Ceiling
      BY DEF DataWritten, Fits
    <2> QED
      BY <1>2, <1>4, <2>1, SessionAssumption
  <1>7. /\ received' = n /\ open' = open /\ sawFile' = sawFile /\ path' = path /\ status' = status
        /\ disk' = [disk EXCEPT ![path].data = old \o data]
        /\ phase' = (IF item.end \in {"G", "Q"} THEN "dtop" ELSE "top")
        /\ reply'.type \in {"ack", "none"}
    <2>1. /\ received' = n /\ open' = open /\ sawFile' = sawFile /\ path' = path /\ status' = status
          /\ phase' = (IF item.end \in {"G", "Q"} THEN "dtop" ELSE "top")
      BY DEF DataWritten
    <2>2. disk' = [disk EXCEPT ![path].data = old \o data]
      BY DEF DataWritten
    <2>3. reply'.type \in {"ack", "none"}
      <3>1. Send("ack", received') \/ Silent
        BY DEF DataWritten
      <3> QED
        <4>1. CASE Silent
          BY <4>1 DEF Silent
        <4>2. CASE Send("ack", received')
          BY <4>2 DEF Send
        <4> QED
          BY <3>1, <4>1, <4>2
    <2> QED
      BY <2>1, <2>2, <2>3
  <1>8. [disk[path] EXCEPT !.data = old \o data] = f
    <2> DEFINE more == old \o data
    <2>1. \E o : disk[path] = [kind |-> "ours", data |-> o]
      BY <1>3
    <2> HIDE DEF more
    <2>2. [disk[path] EXCEPT !.data = more] = [kind |-> "ours", data |-> more]
      BY <2>1
    <2> QED
      BY <2>2 DEF more
  <1>9. disk' = [disk EXCEPT ![path] = f]
    BY <1>7, <1>8
  <1>10. f \in File /\ f.kind = "ours" /\ Len(f.data) = n
    BY <1>5 DEF File
  <1>11. Theirs # disk[path] /\ Theirs.kind # "ours"
    BY <1>3 DEF Theirs
  <1> HIDE DEF n, f
  <1>12. /\ disk' \in [1 .. Slots -> File] /\ disk'[path] = f
         /\ \A s \in 1 .. Slots : s # path => disk'[s] = disk[s]
    BY <1>1, <1>2, <1>9, <1>10
  <1>13. \A s \in 1 .. Slots : Len(disk'[s].data) <= Ceiling
    BY <1>2, <1>6, <1>10, <1>12
  <1>14. Holds(disk', path', received')
    BY <1>1, <1>7, <1>10, <1>12 DEF Holds
  <1>15. SessionInv'
    <2>1. Ranges'
      BY <1>1, <1>2, <1>6, <1>7, <1>12 DEF Ranges, SessionInv
    <2>2. phase' # "ended" /\ reply'.type # "rpos" /\ open'
      BY <1>1, <1>7
    <2> QED
      BY <1>13, <1>14, <2>1, <2>2 DEF SessionInv
  <1>16. \A s \in 1 .. Slots : disk[s] = Theirs => disk'[s].kind # "ours"
    BY <1>11, <1>12
  <1> QED
    BY <1>7, <1>15, <1>16

LEMMA SessionStep == SessionInv /\ [Next]_vars => SessionInv'
  <1> SUFFICES ASSUME SessionInv, [Next]_vars PROVE SessionInv'
    OBVIOUS
  <1>1. CASE UNCHANGED vars
    BY <1>1 DEF vars, fileVars, SessionInv, Ranges, Holds
  <1>2. CASE Next
    BY <1>2, WorkerSteps, StaysKeep, EndsKeep, OpenedKeeps, NotOpenedKeeps, WrittenKeeps
  <1> QED
    BY <1>1, <1>2

(* Whatever the sender presents and whenever the user cancels: every position *)
(* the worker sends is where the file on disk ends, success is reported of a  *)
(* file that is there whole, and none outgrows the ceiling (zmr_thread,       *)
(* zmodem_recv.c:888).                                                        *)
THEOREM SessionPositionsAreReal == Spec => []PositionsAreReal
  <1>1. SessionInv => PositionsAreReal
    BY DEF SessionInv, Holds, PositionsAreReal
  <1> QED
    BY <1>1, SessionInit, SessionStep, PTL DEF Spec

-------------------------------------------------------------------------------
(* What a step may never do to the files.                                     *)

LEMMA FilesStep ==
    ASSUME SessionInv, Next
    PROVE  /\ phase' = "ended" /\ status' # "ok" /\ open /\ phase # "file" => disk'[path] = Absent
           /\ \A s \in 1 .. Slots : disk[s] = Theirs => disk'[s].kind # "ours"
  <1>1. Theirs.kind # "ours"
    BY DEF Theirs
  <1>2. CASE Stays
    BY <1>1, <1>2 DEF Stays
  <1>3. CASE Ends
    <2>1. \/ status' = "ok" /\ disk' = disk
          \/ disk' = (IF path = 0 THEN disk ELSE [disk EXCEPT ![path] = Absent])
      BY <1>3, EndsEffect
    <2>2. CASE disk' = disk /\ (status' = "ok" \/ path = 0)
      <3>1. open => path # 0
        BY DEF SessionInv, Holds
      <3> QED
        BY <1>1, <2>2, <3>1
    <2>3. CASE path # 0 /\ disk' = [disk EXCEPT ![path] = Absent]
      <3>1. path \in 1 .. Slots
        BY <2>3, SessionAssumption DEF SessionInv, Ranges
      <3> QED
        BY <2>3, <3>1, Cleared
    <2> QED
      BY <2>1, <2>2, <2>3
  <1> QED
    BY <1>2, <1>3, WorkerSteps, OpenedKeeps, NotOpenedKeeps, WrittenKeeps

(* A transfer that fails with its file open takes the file away, unless what  *)
(* failed was the offer of the next one, and nothing ever writes to a file    *)
(* that was there before (zmodem_recv.c:991, build_unique_path).              *)
THEOREM SessionFilesAccountedFor == Spec => FilesAccountedFor
  <1>1. SessionInv /\ [Next]_vars =>
           /\ [phase' = "ended" /\ status' # "ok" /\ open /\ phase # "file" => disk'[path] = Absent]_vars
           /\ [\A s \in 1 .. Slots : disk[s] = Theirs => disk'[s].kind # "ours"]_vars
    BY FilesStep
  <1> QED
    BY <1>1, SessionInit, SessionStep, PTL DEF Spec, FilesAccountedFor

-------------------------------------------------------------------------------
(* After a cancel.  The one read that was under way when it came is the last  *)
(* that can complete.                                                         *)

LastRead ==
    /\ cancel \in BOOLEAN /\ late \in {0, 1}
    /\ late = 1 => cancel /\ ~pending

LEMMA LateConversation ==
    ASSUME NEW item, Conversation(item)
    PROVE  /\ cancel' = cancel
           /\ late' = late \/ late' = (IF cancel /\ late < 2 THEN late + 1 ELSE late)
  <1>1. CASE DataWritten(item)
    BY <1>1 DEF DataWritten
  <1>2. CASE \/ AwaitBad(item) \/ AwaitClosed(item) \/ AwaitCancelled(item) \/ AwaitSkip(item)
             \/ HdrRefused(item) \/ HdrAnswered(item) \/ HdrBlockFollows(item) \/ HdrData(item)
             \/ HdrEof(item) \/ HdrFin(item) \/ HdrGivesUp(item) \/ HdrUnknown(item)
    BY <1>2 DEF AwaitBad, AwaitClosed, AwaitCancelled, AwaitSkip, HdrRefused, HdrAnswered,
       HdrBlockFollows, HdrData, HdrEof, HdrFin, HdrGivesUp, HdrUnknown, histVars
  <1>3. CASE \/ ReadJunk(item) \/ ReadCancelled(item) \/ SinitRead(item)
             \/ FileSpoilt(item) \/ FileTooBig(item) \/ FileOpened(item) \/ FileNotOpened(item)
             \/ DataQuiet(item) \/ DataSpoilt(item) \/ DataRefused(item)
             \/ FirstO(item) \/ FinDone(item)
    BY <1>3 DEF ReadJunk, ReadCancelled, SinitRead, FileSpoilt, FileTooBig, FileOpened, FileNotOpened,
       DataQuiet, DataSpoilt, DataRefused, FirstO, FinDone, histVars
  <1> QED
    BY <1>1, <1>2, <1>3 DEF Conversation

LEMMA LastReadInit == Init => LastRead
  <1> SUFFICES ASSUME Init PROVE LastRead
    OBVIOUS
  <1>1. late = 0
    BY DEF Init
  <1>2. cancel = FALSE
    BY DEF Init
  <1>3. cancel \in BOOLEAN
    BY <1>2
  <1> QED
    BY <1>1, <1>3 DEF LastRead

LEMMA LastReadStep == LastRead /\ [Next]_vars => LastRead'
  <1> SUFFICES ASSUME LastRead, [Next]_vars PROVE LastRead'
    OBVIOUS
  <1> USE DEF LastRead
  <1>1. CASE Cancel
    BY <1>1 DEF Cancel, histVars
  <1>2. CASE Top \/ DataTop
    BY <1>2 DEF Top, DataTop, histVars
  <1>3. CASE Interrupted
    BY <1>3 DEF Interrupted, histVars
  <1>4. ASSUME NEW item \in Items, Receive(item) PROVE LastRead'
    <2>1. /\ cancel => pending
          /\ ~pending'
          /\ Conversation(item)
      BY <1>4 DEF Receive, Asked
    <2>2. late = 0 \/ ~cancel
      BY <2>1
    <2> QED
      BY <2>1, <2>2, LateConversation
  <1>5. CASE UNCHANGED vars
    BY <1>5 DEF vars, connVars, histVars
  <1> QED
    BY <1>1, <1>2, <1>3, <1>4, <1>5 DEF Next, Worker

(* The part of CancelObeyed that is about states: at most the block whose last *)
(* byte was already under way is written after the user's cancel              *)
(* (zmodem_recv_cancel, zm_recv).                                             *)
THEOREM SessionOneLateBlock == Spec => [](late <= 1)
  <1>1. LastRead => late <= 1
    BY DEF LastRead
  <1> QED
    BY <1>1, LastReadInit, LastReadStep, PTL DEF Spec

(* The part of CancelObeyed that is about outcomes: a session that ends because *)
(* the user asked is never reported as a quiet sender (zmr_own_cancel,        *)
(* zmodem_recv.c:562).                                                        *)
THEOREM SessionCancelIsNotBlamed ==
    Spec => [][status # status' /\ status' = "timeout" => ~cancel]_vars
  <1> DEFINE Named == status' = status \/ (status' = "timeout" => ~cancel)
  <1>1. ASSUME Top \/ DataTop PROVE Named
    BY <1>1 DEF Top, DataTop, EndHere, End, Goto
  <1>2. ASSUME NEW o, Stop(o) PROVE Named
    BY <1>2 DEF Stop, Blame, Asked, EndHere, End
  <1>3. ASSUME NEW type, NEW pos, NEW count, Complain(type, pos, count) PROVE Named
    BY <1>3 DEF Complain, EndHere, End, Goto
  <1>4. ASSUME Interrupted PROVE Named
    <2>1. CASE phase = "oo"
      BY <1>4, <2>1 DEF Interrupted, EndHere, End, FinOutcome
    <2>2. CASE phase # "oo"
      BY <1>2, <1>4, <2>2 DEF Interrupted
    <2> QED
      BY <2>1, <2>2
  <1>5. ASSUME NEW item, Conversation(item) PROVE Named
    <2>1. CASE AwaitClosed(item) \/ AwaitCancelled(item) \/ ReadCancelled(item) \/ DataQuiet(item)
      BY <1>2, <2>1 DEF AwaitClosed, AwaitCancelled, ReadCancelled, DataQuiet
    <2>2. CASE AwaitBad(item) \/ HdrUnknown(item) \/ FileSpoilt(item) \/ DataSpoilt(item)
      BY <1>3, <2>2 DEF AwaitBad, HdrUnknown, FileSpoilt, DataSpoilt
    <2>3. CASE \/ AwaitSkip(item) \/ HdrAnswered(item) \/ HdrBlockFollows(item) \/ HdrData(item)
               \/ HdrFin(item) \/ ReadJunk(item) \/ SinitRead(item) \/ FileOpened(item)
               \/ DataWritten(item) \/ FirstO(item)
      BY <2>3 DEF AwaitSkip, HdrAnswered, HdrBlockFollows, HdrData, HdrFin, ReadJunk, SinitRead,
         FileOpened, DataWritten, FirstO, Goto
    <2>4. CASE \/ HdrRefused(item) \/ HdrEof(item) \/ HdrGivesUp(item) \/ FileTooBig(item)
               \/ FileNotOpened(item) \/ DataRefused(item) \/ FinDone(item)
      BY <2>4 DEF HdrRefused, HdrEof, HdrGivesUp, FileTooBig, FileNotOpened, DataRefused, FinDone,
         EndHere, End, Goto, FinOutcome
    <2> QED
      BY <1>5, <2>1, <2>2, <2>3, <2>4 DEF Conversation
  <1>6. ASSUME Next PROVE Named
    BY <1>1, <1>4, <1>5, <1>6 DEF Next, Worker, Receive, Cancel
  <1>7. [Next]_vars => [status # status' /\ status' = "timeout" => ~cancel]_vars
    BY <1>6
  <1> QED
    BY <1>7, PTL DEF Spec

===============================================================================
