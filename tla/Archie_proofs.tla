----------------------------- MODULE Archie_proofs -----------------------------
(* Machine-checked theorems about Archie, for replies and files of any size,  *)
(* any number of searches and any network.                                    *)
EXTENDS Archie, FiniteSetTheorems, WellFoundedInduction, TLAPS

-------------------------------------------------------------------------------
(* What the local file is at each step of ftp_fetch_file: not the code's own  *)
(* until it is opened, then exactly the blocks that were received.            *)
Verdict == IF dl.ok THEN disk = Saved(dl.file, Blocks) ELSE disk \in {Absent, Theirs}

FileFollowsTransfer ==
    \/ dl = NoDownload
    \/ /\ dl = [at |-> dl.at, file |-> dl.file, got |-> dl.got, ok |-> dl.ok]
       /\ dl.got \in 0 .. Blocks
       /\ \/ dl.at \in {"connect", "control", "open"} /\ ~dl.ok /\ dl.got = 0 /\ disk \in {Absent, Theirs}
          \/ dl.at \in {"retr", "data", "reply"} /\ ~dl.ok /\ disk = Saved(dl.file, dl.got)
          \/ dl.at = "done" /\ Verdict

LEMMA FileInit == Init => FileFollowsTransfer
  BY DEF Init, FileFollowsTransfer

(* A transfer that gives up takes its file with it.                           *)
LEMMA GiveUpKeeps ==
    ASSUME FileFollowsTransfer, dl.at \in {"control", "open", "retr", "data", "reply"}, GiveUp
    PROVE  FileFollowsTransfer'
  <1>1. /\ dl = [at |-> dl.at, file |-> dl.file, got |-> dl.got, ok |-> dl.ok]
        /\ dl.got \in 0 .. Blocks /\ ~dl.ok
    BY DEF FileFollowsTransfer, NoDownload
  <1>2. dl' = [at |-> "done", file |-> dl.file, got |-> dl.got, ok |-> dl.ok]
    BY <1>1 DEF GiveUp, Dl
  <1>3. disk' = Absent
    BY DEF GiveUp
  <1> QED
    BY <1>1, <1>2, <1>3 DEF FileFollowsTransfer, Verdict

(* The transfer goes on to its next step with the file as it is.              *)
LEMMA MoveKeeps ==
    ASSUME FileFollowsTransfer, NEW at, Dl(at), UNCHANGED disk,
           \/ dl.at = "connect" /\ at \in {"control", "done"}
           \/ dl.at = "control" /\ at = "open"
           \/ dl.at = "retr" /\ at = "data"
           \/ dl.at = "data" /\ at = "reply"
    PROVE  FileFollowsTransfer'
  <1>1. /\ dl = [at |-> dl.at, file |-> dl.file, got |-> dl.got, ok |-> dl.ok]
        /\ dl.got \in 0 .. Blocks /\ ~dl.ok
    BY DEF FileFollowsTransfer, NoDownload
  <1>2. dl' = [at |-> at, file |-> dl.file, got |-> dl.got, ok |-> dl.ok]
    BY <1>1 DEF Dl
  <1>3. CASE dl.at \in {"connect", "control"}
    <2>1. disk' \in {Absent, Theirs} /\ dl.got = 0
      BY <1>3 DEF FileFollowsTransfer, NoDownload
    <2> QED
      BY <1>1, <1>2, <1>3, <2>1 DEF FileFollowsTransfer, Verdict
  <1>4. CASE dl.at \in {"retr", "data"}
    <2>1. disk' = Saved(dl.file, dl.got)
      BY <1>4 DEF FileFollowsTransfer, NoDownload
    <2> QED
      BY <1>1, <1>2, <1>4, <2>1 DEF FileFollowsTransfer, Saved
  <1> QED
    BY <1>3, <1>4

LEMMA FileStep == FileFollowsTransfer /\ [Next]_vars => FileFollowsTransfer'
  <1> SUFFICES ASSUME FileFollowsTransfer, [Next]_vars PROVE FileFollowsTransfer'
    OBVIOUS
  <1>1. CASE UNCHANGED <<dl, disk>>
    BY <1>1 DEF FileFollowsTransfer, Verdict, Saved
  <1>2. CASE FtpConnect
    BY <1>2, MoveKeeps DEF FtpConnect
  <1>3. CASE FtpControl
    BY <1>3, MoveKeeps, GiveUpKeeps DEF FtpControl
  <1>4. CASE FtpOpenLocal
    <2>1. CASE Dl("retr") /\ disk' = Saved(dl.file, 0)
      <3>1. /\ dl = [at |-> dl.at, file |-> dl.file, got |-> dl.got, ok |-> dl.ok]
            /\ dl.got = 0 /\ dl.got \in 0 .. Blocks /\ ~dl.ok
        BY <1>4 DEF FtpOpenLocal, FileFollowsTransfer, NoDownload
      <3>2. dl' = [at |-> "retr", file |-> dl.file, got |-> dl.got, ok |-> dl.ok]
        BY <2>1, <3>1 DEF Dl
      <3> QED
        BY <2>1, <3>1, <3>2 DEF FileFollowsTransfer, Saved
    <2> QED
      BY <1>4, <2>1, GiveUpKeeps DEF FtpOpenLocal
  <1>5. CASE FtpRetr
    BY <1>5, MoveKeeps, GiveUpKeeps DEF FtpRetr
  <1>6. CASE FtpBlock
    <2>1. CASE dl' = [dl EXCEPT !.got = @ + 1] /\ disk' = [disk EXCEPT !.n = @ + 1]
      <3>1. /\ dl = [at |-> dl.at, file |-> dl.file, got |-> dl.got, ok |-> dl.ok]
            /\ dl.got \in 0 .. Blocks /\ dl.got < Blocks /\ ~dl.ok
            /\ disk = Saved(dl.file, dl.got)
        BY <1>6 DEF FtpBlock, FileFollowsTransfer, NoDownload
      <3>2. /\ dl' = [at |-> "data", file |-> dl.file, got |-> dl.got + 1, ok |-> dl.ok]
            /\ disk' = Saved(dl.file, dl.got + 1)
        BY <1>6, <2>1, <3>1 DEF FtpBlock, Saved
      <3>3. dl.got + 1 \in 0 .. Blocks
        BY <3>1, BlocksAssumption
      <3> QED
        BY <3>1, <3>2, <3>3 DEF FileFollowsTransfer, Saved
    <2> QED
      BY <1>6, <2>1, GiveUpKeeps DEF FtpBlock
  <1>7. CASE FtpDataEnds
    BY <1>7, MoveKeeps DEF FtpDataEnds
  <1>8. CASE FtpReply
    <2>1. PICK reply \in IF dl.got = Blocks THEN {"226", "none"} ELSE {"426", "none"} :
            IF Confirmed(reply) THEN dl' = [dl EXCEPT !.at = "done", !.ok = TRUE] /\ UNCHANGED disk
                                ELSE GiveUp
      BY <1>8 DEF FtpReply
    <2>2. CASE Confirmed(reply)
      <3>1. dl.got = Blocks
        BY <2>2 DEF Confirmed
      <3>2. /\ dl = [at |-> dl.at, file |-> dl.file, got |-> dl.got, ok |-> dl.ok]
            /\ dl.got \in 0 .. Blocks /\ disk = Saved(dl.file, dl.got)
        BY <1>8 DEF FtpReply, FileFollowsTransfer, NoDownload
      <3>3. /\ dl' = [at |-> "done", file |-> dl.file, got |-> dl.got, ok |-> TRUE]
            /\ disk' = Saved(dl.file, Blocks)
        BY <2>1, <2>2, <3>1, <3>2
      <3> QED
        BY <3>2, <3>3 DEF FileFollowsTransfer, Verdict, Saved
    <2>3. CASE ~Confirmed(reply)
      BY <1>8, <2>1, <2>3, GiveUpKeeps DEF FtpReply
    <2> QED
      BY <2>2, <2>3
  <1>9. CASE DownloadPoll
    BY <1>9 DEF DownloadPoll, FileFollowsTransfer
  <1>10. CASE SaveAs
    <2>1. CASE UNCHANGED dlVars
      BY <1>1, <2>1 DEF dlVars
    <2>2. CASE \E f \in HitRead, there \in {Absent, Theirs} :
                  /\ dl' = [at |-> "connect", file |-> f, got |-> 0, ok |-> FALSE]
                  /\ disk' = there
      BY <2>2, BlocksAssumption DEF FileFollowsTransfer
    <2> QED
      BY <1>10, <2>1, <2>2 DEF SaveAs
  <1> QED
    BY <1>1, <1>2, <1>3, <1>4, <1>5, <1>6, <1>7, <1>8, <1>9, <1>10
       DEF Next, QueryWorker, FtpWorker, User, OnSearch, OpenSocket, SendRequest, RecvTimesOut,
           RecvDatagram, Poll, SelectFile, OnDownload, Answer, Lose, dlVars, vars

(* ftp_fetch.c: at any size and over any control connection, a download that  *)
(* is said to be saved is the whole file, and one that failed leaves nothing. *)
THEOREM ArchieDownloadVerdict == Spec => []DownloadVerdict
  <1>1. FileFollowsTransfer => DownloadVerdict
    BY DEF FileFollowsTransfer, DownloadVerdict, Verdict, NoDownload
  <1> QED
    BY <1>1, FileInit, FileStep, PTL DEF Spec

-------------------------------------------------------------------------------
(* The reply to a search, and the answer that is all of it.                   *)
Reply(q) == {Datagram(q, i, Sizes[q]) : i \in 1 .. Sizes[q]}
Whole(q) == [i \in 1 .. Sizes[q] |-> Datagram(q, i, Sizes[q])]
Searches == 1 .. Len(Sizes)

\* What the worker has is some of the reply to its search, each datagram counted once.
Search ==
    /\ searches \in 0 .. Len(Sizes) /\ query \in 0 .. searches
    /\ worker = [at |-> worker.at, attempt |-> worker.attempt, total |-> worker.total, got |-> worker.got, pkts |-> worker.pkts]
    /\ query = 0 => worker.at = "none"
    /\ query # 0 =>
          /\ worker.pkts \subseteq Reply(query) /\ IsFiniteSet(worker.pkts)
          /\ worker.got = Cardinality(worker.pkts)
          /\ worker.total \in {0, Sizes[query]}
          /\ worker.at = "complete" => worker.pkts = Reply(query) /\ worker.total = Sizes[query]

NetIsReplies == \A d \in net : d \in Reply(d.q)

AnswerInv == Search /\ NetIsReplies /\ AnswerIsWhole

-------------------------------------------------------------------------------
LEMMA LeastNumber ==
    ASSUME NEW T \in SUBSET Nat, T # {}
    PROVE  \E s \in T : \A t \in T : s <= t
<1> DEFINE R == {ss \in Nat \X Nat : ss[1] < ss[2]}
<1>1. IsWellFoundedOn(R, Nat)
  BY NatLessThanWellFounded, Zenon DEF OpToRel
<1> HIDE DEF R
<1>2. PICK s \in T : \A t \in T : ~ (<<t, s>> \in R)
  BY <1>1, WFMin
<1>3. \A t \in T : t \in Nat /\ s \in Nat /\ ~ (t < s)
  BY <1>2 DEF R
<1>4. QED
  BY <1>2, <1>3

\* Numbers in order that fill 1 .. n are the numbers themselves.
LEMMA OrderIsOwn ==
    ASSUME NEW n \in Nat, NEW f \in [1 .. n -> 1 .. n], \A i, j \in 1 .. n : i < j => f[i] < f[j]
    PROVE  \A i \in 1 .. n : f[i] = i
<1>1. ASSUME NEW i \in 1 .. n, f[i] < i PROVE FALSE
  <2> DEFINE T == {k \in 1 .. n : f[k] < k}
  <2>1. PICK k \in T : \A t \in T : k <= t
    <3>1. T \in SUBSET Nat /\ T # {}
      BY <1>1
    <3> HIDE DEF T
    <3>2. QED
      BY <3>1, LeastNumber
  <2>2. k \in 1 .. n /\ f[k] < k /\ f[k] \in 1 .. n
    OBVIOUS
  <2>3. k - 1 \in 1 .. n /\ k - 1 < k
    BY <2>2
  <2>4. f[k - 1] < f[k] /\ f[k - 1] \in 1 .. n
    BY <2>2, <2>3
  <2>5. k - 1 \in T
    BY <2>2, <2>3, <2>4
  <2>6. QED
    BY <2>1, <2>2, <2>5
<1>2. ASSUME NEW i \in 1 .. n, f[i] > i PROVE FALSE
  <2> DEFINE T == {d \in 0 .. n - 1 : f[n - d] > n - d}
  <2>1. PICK d \in T : \A t \in T : d <= t
    <3>1. T \in SUBSET Nat
      OBVIOUS
    <3>2. n - i \in T
      BY <1>2
    <3> HIDE DEF T
    <3>3. QED
      BY <3>1, <3>2, LeastNumber
  <2> DEFINE k == n - d
  <2>2. d \in 0 .. n - 1 /\ k \in 1 .. n /\ f[k] > k /\ f[k] \in 1 .. n
    OBVIOUS
  <2>3. k + 1 \in 1 .. n /\ k < k + 1
    BY <2>2
  <2>4. f[k] < f[k + 1] /\ f[k + 1] \in 1 .. n
    BY <2>2, <2>3
  <2>5. d - 1 \in 0 .. n - 1 /\ n - (d - 1) = k + 1
    BY <2>2, <2>3
  <2>6. d - 1 \in T
    BY <2>2, <2>4, <2>5
  <2> HIDE DEF T
  <2>7. d <= d - 1
    BY <2>1, <2>6
  <2>8. QED
    BY <2>2, <2>7
<1>3. QED
  BY <1>1, <1>2

LEMMA ReplySize ==
    ASSUME NEW q \in Searches
    PROVE  /\ Sizes[q] \in Nat
           /\ IsFiniteSet(Reply(q)) /\ Cardinality(Reply(q)) = Sizes[q]
           /\ \A d \in Reply(q) : d.q = q /\ d.tot = Sizes[q] /\ d.seq \in 1 .. Sizes[q] /\ d = Datagram(q, d.seq, Sizes[q])
           /\ \A i \in 1 .. Sizes[q] : Datagram(q, i, Sizes[q]) \in Reply(q) /\ Datagram(q, i, Sizes[q]).seq = i
<1>1. Sizes[q] \in Nat
  BY SizesAssumption DEF Searches
<1> DEFINE n == Sizes[q]
<1>2. /\ \A d \in Reply(q) : d.q = q /\ d.tot = n /\ d.seq \in 1 .. n /\ d = Datagram(q, d.seq, n)
      /\ \A i \in 1 .. n : Datagram(q, i, n) \in Reply(q) /\ Datagram(q, i, n).seq = i
  BY DEF Reply, Datagram
<1>3. Whole(q) \in Bijection(1 .. n, Reply(q))
  <2>1. Whole(q) \in [1 .. n -> Reply(q)]
    BY DEF Whole, Reply
  <2>2. \A i, j \in 1 .. n : Whole(q)[i] = Whole(q)[j] => i = j
    BY <1>2 DEF Whole
  <2>3. \A d \in Reply(q) : \E i \in 1 .. n : Whole(q)[i] = d
    BY DEF Whole, Reply
  <2>4. QED
    BY <2>1, <2>2, <2>3 DEF Bijection, Injection, Surjection, IsInjective
<1>4. ExistsBijection(1 .. n, Reply(q))
  BY <1>3 DEF ExistsBijection
<1>5. IsFiniteSet(Reply(q)) /\ Cardinality(Reply(q)) = n
  <2>1. IsFiniteSet(Reply(q))
    BY <1>1, <1>4, FS_NatBijection
  <2>2. QED
    BY <1>1, <1>4, <2>1, FS_CountingElements
<1>6. QED
  BY <1>1, <1>2, <1>5

\* All of the reply, put together, is the whole answer.
LEMMA BodyIsWhole ==
    ASSUME NEW q \in Searches, NEW w, w.pkts = Reply(q), w.total = Sizes[q]
    PROVE  Body(w) = Whole(q)
<1> DEFINE n == Sizes[q]
           S == [1 .. n -> Reply(q)]
<1>1. /\ n \in Nat /\ Cardinality(Reply(q)) = n
      /\ \A d \in Reply(q) : d.seq \in 1 .. n /\ d = Datagram(q, d.seq, n)
      /\ \A i \in 1 .. n : Datagram(q, i, n) \in Reply(q) /\ Datagram(q, i, n).seq = i
  BY ReplySize
<1>2. {k \in w.pkts : k.seq <= w.total} = Reply(q)
  BY <1>1
<1>3. Body(w) = CHOOSE s \in S : InOrder(s)
  BY <1>1, <1>2 DEF Body
<1>4. Whole(q) \in S /\ InOrder(Whole(q))
  <2>1. Whole(q) \in S /\ \A i \in 1 .. n : Whole(q)[i].seq = i
    BY <1>1 DEF Whole
  <2>2. DOMAIN Whole(q) = 1 .. n
    BY DEF Whole
  <2>3. QED
    BY <2>1, <2>2 DEF InOrder
<1>5. ASSUME NEW s \in S, InOrder(s) PROVE s = Whole(q)
  <2> DEFINE f == [i \in 1 .. n |-> s[i].seq]
  <2>1. f \in [1 .. n -> 1 .. n]
    BY <1>1
  <2>2. \A i, j \in 1 .. n : i < j => f[i] < f[j]
    BY <1>5 DEF InOrder
  <2>3. \A i \in 1 .. n : f[i] = i
    <3> HIDE DEF f, n
    <3>1. QED
      BY <1>1, <2>1, <2>2, OrderIsOwn
  <2>4. \A i \in 1 .. n : s[i] = Datagram(q, i, n)
    BY <1>1, <2>3
  <2>5. QED
    BY <2>4 DEF Whole
<1>6. QED
  BY <1>3, <1>4, <1>5

-------------------------------------------------------------------------------
LEMMA AnswerInit == Init => AnswerInv
<1> SUFFICES ASSUME Init PROVE AnswerInv
  OBVIOUS
<1>1. Len(Sizes) \in Nat
  BY SizesAssumption
<1>2. Search
  BY <1>1 DEF Init, Search
<1>3. QED
  BY <1>2 DEF Init, AnswerInv, NetIsReplies, AnswerIsWhole

\* A datagram of the reply arrives.
LEMMA ReceiveKeeps ==
    ASSUME AnswerInv, RecvDatagram
    PROVE  AnswerInv'
<1>1. PICK d \in net :
        /\ OwnSocket(d)
        /\ \/ net' = net \ {d}
           \/ UNCHANGED net
        /\ LET total == IF worker.total = 0 THEN d.tot ELSE worker.total
               got == IF Missing(d) THEN worker.got + 1 ELSE worker.got
               first == \A k \in worker.pkts : k.seq # d.seq
           IN  worker' = [worker EXCEPT
                   !.total = total, !.got = got,
                   !.pkts = IF first THEN @ \cup {d} ELSE @,
                   !.at = IF Complete(got, total) THEN "complete" ELSE @]
  BY DEF RecvDatagram
<1>2. worker.at = "recv" /\ UNCHANGED <<query, searches, result>>
  BY DEF RecvDatagram
<1>3. query \in Searches /\ query # 0 /\ searches \in 0 .. Len(Sizes) /\ query \in 0 .. searches
  <2>1. query # 0 /\ query \in 0 .. searches /\ searches \in 0 .. Len(Sizes)
    BY <1>2 DEF AnswerInv, Search
  <2>2. QED
    BY <2>1, SizesAssumption DEF Searches
<1> DEFINE n == Sizes[query]
           pkts == worker.pkts \cup {d}
           got == Cardinality(pkts)
<1>4. /\ worker.pkts \subseteq Reply(query) /\ IsFiniteSet(worker.pkts)
      /\ worker.got = Cardinality(worker.pkts) /\ worker.total \in {0, n}
      /\ worker = [at |-> worker.at, attempt |-> worker.attempt, total |-> worker.total, got |-> worker.got, pkts |-> worker.pkts]
  BY <1>3 DEF AnswerInv, Search
<1>5. d \in Reply(query) /\ d.tot = n
  <2>1. d \in Reply(query)
    BY <1>1 DEF AnswerInv, NetIsReplies, OwnSocket
  <2>2. QED
    BY <1>3, <2>1, ReplySize
<1>6. (\A k \in worker.pkts : k.seq # d.seq) <=> d \notin worker.pkts
  <2>1. \A k \in Reply(query) : k = Datagram(query, k.seq, n)
    BY <1>3, ReplySize
  <2>2. QED
    BY <1>4, <1>5, <2>1
<1>7. IsFiniteSet(pkts) /\ got = (IF d \in worker.pkts THEN worker.got ELSE worker.got + 1)
  BY <1>4, FS_AddElement
<1>8. pkts \subseteq Reply(query) /\ got \in Nat /\ n \in Nat /\ (got >= n => pkts = Reply(query))
  <2>1. IsFiniteSet(Reply(query)) /\ Cardinality(Reply(query)) = n /\ n \in Nat
    BY <1>3, ReplySize
  <2>2. pkts \in SUBSET Reply(query)
    BY <1>4, <1>5
  <2> HIDE DEF pkts, n
  <2>3. Cardinality(pkts) <= Cardinality(Reply(query)) /\ (Cardinality(Reply(query)) = Cardinality(pkts) => Reply(query) = pkts)
    BY <2>1, <2>2, FS_Subset
  <2>4. got \in Nat
    BY <1>7, FS_CardinalityType
  <2>5. QED
    BY <2>1, <2>2, <2>3, <2>4
<1>9. worker' = [at |-> IF got >= n THEN "complete" ELSE "recv", attempt |-> worker.attempt,
                 total |-> n, got |-> got, pkts |-> pkts]
  <2>1. (IF worker.total = 0 THEN d.tot ELSE worker.total) = n
    BY <1>4, <1>5
  <2>2. (IF Missing(d) THEN worker.got + 1 ELSE worker.got) = got
    BY <1>6, <1>7 DEF Missing
  <2>3. (IF \A k \in worker.pkts : k.seq # d.seq THEN worker.pkts \cup {d} ELSE worker.pkts) = pkts
    BY <1>6
  <2> HIDE DEF got, pkts, n
  <2>4. worker' = [worker EXCEPT !.total = n, !.got = got, !.pkts = pkts,
                                 !.at = IF got >= n THEN "complete" ELSE @]
    BY <1>1, <2>1, <2>2, <2>3 DEF Complete
  <2>5. QED
    BY <1>2, <1>4, <2>4
<1> HIDE DEF got, pkts, n
<1>10. Search'
  <2>1. worker'.pkts = pkts /\ worker'.got = got /\ worker'.total = n /\ (worker'.at = "complete" => got >= n) /\ worker'.at # "none"
    BY <1>9
  <2>2. worker' = [at |-> worker'.at, attempt |-> worker'.attempt, total |-> worker'.total, got |-> worker'.got, pkts |-> worker'.pkts]
    BY <1>9
  <2>3. worker'.got = Cardinality(worker'.pkts)
    BY <2>1 DEF got
  <2>4. query' = query /\ searches' = searches
    BY <1>2
  <2>5. QED
    BY <1>3, <1>7, <1>8, <2>1, <2>2, <2>3, <2>4 DEF Search, n
<1>11. NetIsReplies'
  BY <1>1 DEF AnswerInv, NetIsReplies
<1>12. AnswerIsWhole'
  BY <1>2 DEF AnswerInv, AnswerIsWhole
<1>13. QED
  BY <1>10, <1>11, <1>12 DEF AnswerInv

\* The search goes on, or fails, with what it has.
LEMMA WorkerGoesOn ==
    ASSUME AnswerInv, NEW at, at \in {"send", "recv", "failed"}, worker.at # "none", UNCHANGED <<query, searches, net, result>>,
           \E attempt : worker' = [worker EXCEPT !.at = at, !.attempt = attempt]
    PROVE  AnswerInv'
<1>1. PICK attempt : worker' = [worker EXCEPT !.at = at, !.attempt = attempt]
  OBVIOUS
<1>2. worker' = [at |-> at, attempt |-> attempt, total |-> worker.total, got |-> worker.got, pkts |-> worker.pkts]
  BY <1>1 DEF AnswerInv, Search
<1>3. Search'
  BY <1>2 DEF AnswerInv, Search
<1>4. QED
  BY <1>3 DEF AnswerInv, NetIsReplies, AnswerIsWhole

\* The result is put on show.
LEMMA PollKeeps ==
    ASSUME AnswerInv, Poll
    PROVE  AnswerInv'
<1>1. /\ query # 0 /\ query' = 0 /\ worker' = [worker EXCEPT !.at = "none"] /\ searches' = searches /\ net' = net
      /\ result' = IF worker.at = "complete"
                   THEN [q |-> query, ok |-> TRUE, hits |-> Body(worker)]
                   ELSE [q |-> query, ok |-> FALSE, hits |-> <<>>]
  BY DEF Poll, netVars
<1>2. Search'
  BY <1>1 DEF AnswerInv, Search
<1>3. AnswerIsWhole'
  <2>1. CASE worker.at = "complete"
    <3>1. query \in Searches
      <4>1. query # 0 /\ query \in 0 .. searches /\ searches \in 0 .. Len(Sizes)
        BY <1>1 DEF AnswerInv, Search
      <4>2. QED
        BY <4>1, SizesAssumption DEF Searches
    <3>2. worker.pkts = Reply(query) /\ worker.total = Sizes[query]
      BY <1>1, <2>1 DEF AnswerInv, Search
    <3>3. Body(worker) = Whole(query)
      BY <3>1, <3>2, BodyIsWhole
    <3>4. QED
      BY <1>1, <2>1, <3>3 DEF AnswerIsWhole, Whole
  <2>2. CASE worker.at # "complete"
    BY <1>1, <2>2 DEF AnswerIsWhole
  <2>3. QED
    BY <2>1, <2>2
<1>4. QED
  BY <1>1, <1>2, <1>3 DEF AnswerInv, NetIsReplies

\* The server, while it answers a repeated request alike.
LEMMA AnswerKeeps ==
    ASSUME Steady, AnswerInv, Answer
    PROVE  AnswerInv'
<1>1. PICK r \in requests :
        \E tot \in IF Steady THEN {Sizes[r[1]]} ELSE {Sizes[r[1]], Sizes[r[1]] + 1} :
            net' = net \cup {Datagram(r[1], seq, tot) : seq \in 1 .. tot}
  BY DEF Answer
<1>2. net' = net \cup Reply(r[1])
  BY <1>1 DEF Reply
<1>3. \A d \in Reply(r[1]) : d \in Reply(d.q)
  BY DEF Reply, Datagram
<1>4. NetIsReplies'
  BY <1>2, <1>3 DEF AnswerInv, NetIsReplies
<1>5. UNCHANGED <<query, searches, worker, result>>
  BY DEF Answer, searchVars
<1>6. QED
  BY <1>4, <1>5 DEF AnswerInv, Search, AnswerIsWhole

LEMMA AnswerStep == ASSUME Steady PROVE AnswerInv /\ [Next]_vars => AnswerInv'
<1> SUFFICES ASSUME AnswerInv, [Next]_vars PROVE AnswerInv'
  OBVIOUS
<1>1. CASE OnSearch
  <2>1. /\ query = 0 /\ searches < Len(Sizes) /\ searches' = searches + 1 /\ query' = searches + 1
        /\ worker' = [at |-> "open", attempt |-> 0, total |-> 0, got |-> 0, pkts |-> {}]
        /\ net' = net /\ result' = result
    BY <1>1 DEF OnSearch, netVars
  <2>2. searches \in Nat /\ Len(Sizes) \in Nat
    BY SizesAssumption DEF AnswerInv, Search
  <2>3. IsFiniteSet({}) /\ Cardinality({}) = 0
    BY FS_EmptySet
  <2>4. searches' \in 0 .. Len(Sizes) /\ query' \in 0 .. searches' /\ query' # 0
    BY <2>1, <2>2
  <2>5. Search'
    BY <2>1, <2>3, <2>4 DEF Search
  <2>6. QED
    BY <2>1, <2>5 DEF AnswerInv, NetIsReplies, AnswerIsWhole
<1>2. CASE OpenSocket
  <2>1. PICK to \in {"send", "failed"} : worker' = [worker EXCEPT !.at = to]
    BY <1>2 DEF OpenSocket
  <2>2. worker' = [worker EXCEPT !.at = to, !.attempt = worker.attempt]
    BY <2>1 DEF AnswerInv, Search
  <2>3. worker.at # "none" /\ UNCHANGED <<query, searches, net, result>>
    BY <1>2 DEF OpenSocket, netVars
  <2>4. QED
    BY <2>1, <2>2, <2>3, WorkerGoesOn
<1>3. CASE SendRequest \/ RecvTimesOut
  <2>1. worker.at \in {"send", "recv"} /\ UNCHANGED <<query, searches, net, result>>
    BY <1>3 DEF SendRequest, RecvTimesOut, netVars
  <2>2. CASE worker' = [worker EXCEPT !.at = "recv"]
    <3>1. worker' = [worker EXCEPT !.at = "recv", !.attempt = worker.attempt]
      BY <2>2 DEF AnswerInv, Search
    <3>2. QED
      BY <2>1, <3>1, WorkerGoesOn
  <2>3. CASE Retry
    <3> DEFINE at == IF worker.attempt < Retries THEN "send" ELSE "failed"
               attempt == worker.attempt + 1
    <3>1. worker' = [worker EXCEPT !.at = at, !.attempt = attempt]
      BY <2>3 DEF Retry, AnswerInv, Search
    <3>2. at \in {"send", "failed"}
      OBVIOUS
    <3> HIDE DEF at, attempt
    <3>3. QED
      BY <2>1, <3>1, <3>2, WorkerGoesOn
  <2>4. QED
    BY <1>3, <2>2, <2>3 DEF SendRequest, RecvTimesOut
<1>4. CASE RecvDatagram
  BY <1>4, ReceiveKeeps
<1>5. CASE Poll
  BY <1>5, PollKeeps
<1>6. CASE Answer
  BY <1>6, AnswerKeeps
<1>7. CASE Lose
  <2>1. net' \subseteq net /\ UNCHANGED <<query, searches, worker, result>>
    BY <1>7 DEF Lose, searchVars
  <2>2. QED
    BY <2>1 DEF AnswerInv, Search, NetIsReplies, AnswerIsWhole
<1>8. ASSUME UNCHANGED <<query, searches, worker, net, result>> PROVE AnswerInv'
  BY <1>8 DEF AnswerInv, Search, NetIsReplies, AnswerIsWhole
<1>9. CASE SelectFile \/ OnDownload \/ SaveAs \/ FtpWorker \/ DownloadPoll
  BY <1>8, <1>9 DEF SelectFile, OnDownload, SaveAs, FtpWorker, FtpConnect, FtpControl, FtpOpenLocal, FtpRetr, FtpBlock,
                    FtpDataEnds, FtpReply, DownloadPoll, Rest, searchVars, netVars
<1>10. CASE UNCHANGED vars
  BY <1>8, <1>10 DEF vars, searchVars, netVars
<1>11. QED
  BY <1>1, <1>2, <1>3, <1>4, <1>5, <1>6, <1>7, <1>9, <1>10 DEF Next, QueryWorker, User

(* While the server answers a repeated request as it answered the first, the  *)
(* hits on show are the whole reply to the search they are shown for, in      *)
(* order and once each (archie_ardp.c:27-31).                                 *)
THEOREM ArchieAnswerIsWhole == ASSUME Steady PROVE Spec => []AnswerIsWhole
<1>1. AnswerInv => AnswerIsWhole
  BY DEF AnswerInv
<1>2. QED
  BY <1>1, AnswerInit, AnswerStep, PTL DEF Spec
===============================================================================
