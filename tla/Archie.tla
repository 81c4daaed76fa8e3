-------------------------------- MODULE Archie --------------------------------
(***************************************************************************)
(* The Archie tab: a search over UDP (src/src/archie_ardp.c) on a worker   *)
(* thread that a timer polls, the list of the files found                  *)
(* (src/src/archie_module.c), and the FTP download of one of them          *)
(* (src/src/ftp_fetch.c) on a second worker.  The Archie server, the       *)
(* network, the FTP server and the user are external.                      *)
(*                                                                         *)
(* A search is a number and a file is the datagram that tells of it.       *)
(***************************************************************************)
EXTENDS Integers, FiniteSets, Sequences, SequencesExt

CONSTANTS
    Sizes,      \* Sizes[q]: datagrams of the reply to search q
    Steady,     \* TRUE: a repeated request is answered alike
    Retries,    \* ARCHIE_RETRIES
    Blocks,     \* blocks of a file
    MaxCopies   \* bound: datagrams the network doubles

ASSUME BlocksAssumption == Blocks \in Nat
ASSUME SizesAssumption == Sizes \in Seq(Nat)

VARIABLES
    query,      \* g_a_query: the search in flight, 0 for none
    searches,   \* searches so far
    worker,     \* archie_query: [at, attempt, total, got, pkts]
    requests,   \* requests under way to the server
    net,        \* datagrams under way to the client
    copies,     \* datagrams doubled so far
    result,     \* g_a_result: [q, ok, hits]
    sel,        \* g_a_selected_hit, 0 for none
    ui,         \* [at, hh]: the Save As box and the hit it is open for
    dl,         \* g_a_dl and its worker: [at, file, got, ok]
    disk,       \* the local file: absent, the user's own, or n blocks of a file
    chosen      \* history: the file the last download was started for

searchVars == <<query, searches, worker>>
netVars == <<requests, net, copies>>
dlVars == <<dl, disk, chosen>>
vars == <<searchVars, netVars, result, sel, ui, dlVars>>

Datagram(q, seq, tot) == [q |-> q, seq |-> seq, tot |-> tot]
Absent == [is |-> "absent", of |-> <<>>, n |-> 0]
Theirs == [is |-> "theirs", of |-> <<>>, n |-> 0]
Saved(file, n) == [is |-> "ours", of |-> <<file>>, n |-> n]
NoDownload == [at |-> "none"]
Loop == [at |-> "loop"]

Init ==
    /\ query = 0 /\ searches = 0
    /\ worker = [at |-> "none", attempt |-> 0, total |-> 0, got |-> 0, pkts |-> {}]
    /\ requests = {} /\ net = {} /\ copies = 0
    /\ result = [q |-> 0, ok |-> FALSE, hits |-> <<>>] /\ sel = 0
    /\ ui = Loop /\ dl = NoDownload /\ disk = Absent /\ chosen = <<>>

-------------------------------------------------------------------------------
(* archie_on_search: one query in flight at a time. *)
OnSearch ==
    /\ ui = Loop /\ query = 0 /\ searches < Len(Sizes)
    /\ searches' = searches + 1 /\ query' = searches + 1
    /\ worker' = [at |-> "open", attempt |-> 0, total |-> 0, got |-> 0, pkts |-> {}]
    /\ UNCHANGED <<netVars, result, sel, ui, dlVars>>

(* archie_query.  The server may not resolve and the socket may not open. *)
OpenSocket ==
    /\ worker.at = "open"
    /\ \E to \in {"send", "failed"} : worker' = [worker EXCEPT !.at = to]
    /\ UNCHANGED <<query, searches, netVars, result, sel, ui, dlVars>>

Retry_NoCount == worker' = [worker EXCEPT !.at = "send"]
Retry == worker' = [worker EXCEPT !.attempt = @ + 1,
                                  !.at = IF worker.attempt < Retries THEN "send" ELSE "failed"]

SendRequest ==
    /\ worker.at = "send"
    /\ \/ /\ worker' = [worker EXCEPT !.at = "recv"]
          /\ requests' = requests \cup {<<query, worker.attempt>>}
       \/ Retry /\ UNCHANGED requests
    /\ UNCHANGED <<query, searches, net, copies, result, sel, ui, dlVars>>

RecvTimesOut ==
    /\ worker.at = "recv" /\ Retry
    /\ UNCHANGED <<query, searches, netVars, result, sel, ui, dlVars>>

(* A datagram arrives on the socket of its own search.  The first one fixes *)
(* the total; one that is there already is not counted again.               *)
OwnSocket_Shared(d) == TRUE
OwnSocket(d) == d.q = query
Missing_Uncounted(d) == TRUE
Missing(d) == \A k \in worker.pkts : k.seq # d.seq
Complete(got, total) == got >= total

RecvDatagram ==
    /\ worker.at = "recv"
    /\ \E d \in net :
          /\ OwnSocket(d)
          /\ \/ net' = net \ {d} /\ UNCHANGED copies
             \/ copies < MaxCopies /\ copies' = copies + 1 /\ UNCHANGED net
          /\ LET total == IF worker.total = 0 THEN d.tot ELSE worker.total
                 got == IF Missing(d) THEN worker.got + 1 ELSE worker.got
                 first == \A k \in worker.pkts : k.seq # d.seq
             IN  worker' = [worker EXCEPT
                     !.total = total, !.got = got,
                     !.pkts = IF first THEN @ \cup {d} ELSE @,
                     !.at = IF Complete(got, total) THEN "complete" ELSE @]
    /\ UNCHANGED <<query, searches, requests, result, sel, ui, dlVars>>

(* The payloads are put together in the order of their numbers, and parsed. *)
InOrder(s) == \A i, j \in DOMAIN s : i < j => s[i].seq < s[j].seq
Body(w) ==
    LET there == {k \in w.pkts : k.seq <= w.total}
    IN  CHOOSE s \in [1 .. Cardinality(there) -> there] : InOrder(s)

(* archie_query_timer_proc, which the Save As box does not hold back: the   *)
(* old hit array is freed, the new one shown without a selection.           *)
Poll ==
    /\ query # 0 /\ worker.at \in {"complete", "failed"}
    /\ query' = 0 /\ worker' = [worker EXCEPT !.at = "none"]
    /\ result' = IF worker.at = "complete"
                 THEN [q |-> query, ok |-> TRUE, hits |-> Body(worker)]
                 ELSE [q |-> query, ok |-> FALSE, hits |-> <<>>]
    /\ sel' = 0
    /\ UNCHANGED <<searches, netVars, ui, dlVars>>

-------------------------------------------------------------------------------
(* A file of the list is selected; archie_on_download opens the Save As box *)
(* for it, and copies the hit once the user has answered.                   *)
SelectFile ==
    /\ ui = Loop
    /\ \E i \in DOMAIN result.hits : sel' = i
    /\ UNCHANGED <<searchVars, netVars, result, ui, dlVars>>

OnDownload ==
    /\ ui = Loop /\ dl = NoDownload /\ sel # 0
    /\ ui' = [at |-> "save", q |-> result.q, hh |-> result.hits[sel]]
    /\ UNCHANGED <<searchVars, netVars, result, sel, dlVars>>

(* The array the box was opened on may be gone: its memory may still hold   *)
(* the hit, or by then one of the new hits.                                  *)
HitRead == IF ui.q = result.q THEN {ui.hh} ELSE {ui.hh} \cup ToSet(result.hits)

SaveAs ==
    /\ ui.at = "save" /\ ui' = Loop
    /\ \/ \E f \in HitRead, there \in {Absent, Theirs} :
             /\ dl' = [at |-> "connect", file |-> f, got |-> 0, ok |-> FALSE]
             /\ disk' = there /\ chosen' = <<ui.hh>>
       \/ UNCHANGED dlVars
    /\ UNCHANGED <<searchVars, netVars, result, sel>>

-------------------------------------------------------------------------------
(* ftp_fetch_file *)
Dl(at) == dl' = [dl EXCEPT !.at = at]
GiveUp_KeepPartial == Dl("done") /\ UNCHANGED disk
GiveUp == Dl("done") /\ disk' = Absent
Rest == UNCHANGED <<searchVars, netVars, result, sel, ui, chosen>>

FtpConnect ==
    /\ dl.at = "connect"
    /\ \E to \in {"control", "done"} : Dl(to) /\ UNCHANGED disk
    /\ Rest

(* The greeting, the log-in, TYPE, PASV and the data connection. *)
FtpControl ==
    /\ dl.at = "control"
    /\ \/ Dl("open") /\ UNCHANGED disk
       \/ GiveUp
    /\ Rest

FtpOpenLocal ==
    /\ dl.at = "open"
    /\ \/ Dl("retr") /\ disk' = Saved(dl.file, 0)
       \/ GiveUp
    /\ Rest

FtpRetr ==
    /\ dl.at = "retr"
    /\ \/ Dl("data") /\ UNCHANGED disk
       \/ GiveUp
    /\ Rest

FtpBlock ==
    /\ dl.at = "data" /\ dl.got < Blocks
    /\ \/ dl' = [dl EXCEPT !.got = @ + 1] /\ disk' = [disk EXCEPT !.n = @ + 1]
       \/ GiveUp
    /\ Rest

(* The data connection closes, at the end of the file or before. *)
FtpDataEnds ==
    /\ dl.at = "data"
    /\ Dl("reply") /\ UNCHANGED disk
    /\ Rest

(* The server confirms only a file it has sent to its end. *)
Confirmed_Unread(reply) == TRUE
Confirmed(reply) == reply = "226"
FtpReply ==
    /\ dl.at = "reply"
    /\ \E reply \in IF dl.got = Blocks THEN {"226", "none"} ELSE {"426", "none"} :
          IF Confirmed(reply) THEN dl' = [dl EXCEPT !.at = "done", !.ok = TRUE] /\ UNCHANGED disk
                              ELSE GiveUp
    /\ Rest

(* archie_dl_timer_proc *)
DownloadPoll ==
    /\ dl.at = "done" /\ dl' = NoDownload
    /\ UNCHANGED <<searchVars, netVars, result, sel, ui, disk, chosen>>

-------------------------------------------------------------------------------
(* The Archie server, which computes its reply anew for every request, and  *)
(* the network, which loses, reorders, delays and doubles datagrams.        *)
Answer ==
    /\ \E r \in requests :
          /\ requests' = requests \ {r}
          /\ \E tot \in IF Steady THEN {Sizes[r[1]]} ELSE {Sizes[r[1]], Sizes[r[1]] + 1} :
                net' = net \cup {Datagram(r[1], seq, tot) : seq \in 1 .. tot}
    /\ UNCHANGED <<searchVars, copies, result, sel, ui, dlVars>>

Lose ==
    /\ \E d \in net : net' = net \ {d}
    /\ UNCHANGED <<searchVars, requests, copies, result, sel, ui, dlVars>>

QueryWorker == OpenSocket \/ SendRequest \/ RecvTimesOut \/ RecvDatagram
FtpWorker == FtpConnect \/ FtpControl \/ FtpOpenLocal \/ FtpRetr \/ FtpBlock \/ FtpDataEnds \/ FtpReply
User == OnSearch \/ SelectFile \/ OnDownload \/ SaveAs
Next == QueryWorker \/ FtpWorker \/ Poll \/ DownloadPoll \/ User \/ Answer \/ Lose

(* The sockets have receive timeouts, so both workers go on; timers fire. *)
Spec == Init /\ [][Next]_vars
        /\ WF_vars(QueryWorker) /\ WF_vars(FtpWorker) /\ WF_vars(Poll) /\ WF_vars(DownloadPoll)

-------------------------------------------------------------------------------
(* archie_ardp.c:27-31: the hits on show are the whole reply to the search  *)
(* they are shown for, in order and once each, whatever the network lost,   *)
(* doubled, reordered or delivered to a later search.                       *)
AnswerIsWhole ==
    result.ok => result.hits = [i \in 1 .. Sizes[result.q] |-> Datagram(result.q, i, Sizes[result.q])]

(* ftp_fetch.c: a download that is said to be saved is the whole file, and   *)
(* one that failed leaves no piece of it.                                    *)
DownloadVerdict ==
    dl.at = "done" =>
        IF dl.ok THEN disk = Saved(dl.file, Blocks) ELSE disk \in {Absent, Theirs}

(* A search and a download always come to an end, and the next can start.   *)
JobsEnd == (query # 0 ~> query = 0) /\ (dl # NoDownload ~> dl = NoDownload)

(* archie_module.c:541, "FTP the selected file": the file that is fetched is *)
(* the one the Save As box was opened for.                                   *)
DownloadIsChosen == dl # NoDownload => <<dl.file>> = chosen

(* archie_ardp.c:30-31, "Completion is the ARDP total-packet count": a reply *)
(* is complete when every datagram up to its total is there, even when the   *)
(* server's answer to a repeated request has another number of datagrams.    *)
NoHole == worker.at = "complete" => {k.seq : k \in worker.pkts} = 1 .. worker.total

(* ftp_fetch.c, "Open the local file only once the transfer is about to      *)
(* start": until then, a file of the user's is left alone.                   *)
TheirsUntilOpened == [][disk = Theirs /\ disk' # Theirs => dl'.at # "done"]_<<dl, disk>>
===============================================================================
