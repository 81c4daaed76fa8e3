----------------------------- MODULE MCReaders -----------------------------
(***************************************************************************)
(* Four tabs that share the UI thread, which finishes one handler before   *)
(* it begins another, and nothing else: the IRC viewer (IrcViewer), the    *)
(* Newspaper (NewspaperTab on WebViewHost), Gopher (GopherTab) and         *)
(* GW-BASIC (GwBasicTab).  A behaviour here is one of the four, chosen in  *)
(* the first state.                                                        *)
(***************************************************************************)
EXTENDS IrcViewer, NewspaperTab, GopherTab, GwBasicTab

CONSTANTS gt113, gt112, gt111

VARIABLE reading     \* "irc", "news", "gopher" or "basic"

allVars == <<vars, newsVars, gopherVars, basicVars, reading>>
Irc(A)    == reading = "irc" /\ A /\ UNCHANGED <<newsVars, gopherVars, basicVars, reading>>
News(A)   == reading = "news" /\ A /\ UNCHANGED <<vars, gopherVars, basicVars, reading>>
Gopher(A) == reading = "gopher" /\ A /\ UNCHANGED <<vars, newsVars, basicVars, reading>>
Basic(A)  == reading = "basic" /\ A /\ UNCHANGED <<vars, newsVars, gopherVars, reading>>

MCInit ==
    /\ Init /\ NewsInit /\ GopherInit /\ BasicInit
    /\ reading \in {"irc", "news", "gopher", "basic"}
MCNext == Irc(Next) \/ News(NewsNext) \/ Gopher(GopherNext) \/ Basic(BasicNext)

\* The fairness of the modules, whose alternatives exclude each other, and what
\* GopherTab assumes of its servers; the properties of NewspaperTab and GwBasicTab
\* here are about states.
UiThread == Irc(Tab) \/ Gopher(GopherDeliver)
Workers  == Irc(Worker) \/ Gopher(GopherWorker)
MCSpec == MCInit /\ [][MCNext]_allVars /\ WF_allVars(UiThread) /\ WF_allVars(Workers)
          /\ WF_allVars(Gopher(ServerCloses))
=============================================================================
