----------------------------- MODULE TelnetParser -----------------------------
(***************************************************************************)
(* The option parser of the telnet transport (src/src/telnet_proto.c),     *)
(* fed the byte stream of a server in chunks that may end anywhere, and    *)
(* the option negotiation it carries on with that server.                  *)
(*                                                                         *)
(* Bytes are symbols.  A data byte may have the value of any command or    *)
(* option: only IAC is special, and data doubles it.  The server is        *)
(* external: it keeps the rule of RFC 854 to answer only a change.         *)
(***************************************************************************)
EXTENDS Integers, Sequences, SequencesExt

CONSTANTS
    SbMax,      \* sizeof sb_buf
    MaxUnits,   \* bound: data bytes and commands the server begins on its own
    RecvBuf     \* RECV_BUF, bytes one recv() returns

\* sb_buf has room for a terminal-type request at least.
ASSUME ParserAssumption ==
    /\ SbMax \in Nat /\ SbMax >= 2
    /\ MaxUnits \in Nat /\ RecvBuf \in Nat \ {0}

Verbs == {"WILL", "WONT", "DO", "DONT"}
Options == {"ECHO", "SGA", "TTYPE", "NAWS", "OTHER"}

VARIABLES
    p,          \* the TelnetProto fields of the parser: [is, verb, sb, echo]
    out,        \* history: payload handed on
    back,       \* answers under way to the server, oldest first
    wire,       \* bytes under way to the parser
    units,      \* commands and data bytes the server has begun
    meant,      \* history: payload the server meant
    theirs,     \* the server's own options: off, offered or on
    ours,       \* the parser's options as the server sees them, likewise
    sends,      \* history: TTYPE SEND requests less TTYPE IS answers
    broken      \* history: a subnegotiation was broken off

parserVars == <<p, out, back, wire, units, meant, theirs, ours, sends, broken>>

Quiet == wire = <<>> /\ back = <<>>

ParserInit ==
    /\ p = [is |-> "NORMAL", verb |-> "none", sb |-> <<>>, echo |-> FALSE]
    /\ out = <<>> /\ back = <<>> /\ wire = <<>> /\ units = 0 /\ meant = <<>>
    /\ theirs = [o \in Options |-> "off"] /\ ours = [o \in Options |-> "off"]
    /\ sends = 0 /\ broken = FALSE

-------------------------------------------------------------------------------
(* parse_chunk.  A step takes [p, out, back] and one byte.                  *)

Goto(s, place) == [s EXCEPT !.p.is = place]
Emit(s, b) == [s EXCEPT !.out = Append(@, b)]
Reply(s, answers) == [s EXCEPT !.back = @ \o answers]

Accepted_Will == {"ECHO", "SGA"}
Accepted_Do == {"TTYPE", "NAWS", "SGA"}

Answers_AgreeToAll(verb, opt) ==
    CASE verb = "WILL" -> <<<<"DO", opt>>>>
      [] verb = "DO"   -> <<<<"WILL", opt>>>>
      [] verb = "WONT" -> <<<<"DONT", opt>>>>
      [] verb = "DONT" -> <<<<"WONT", opt>>>>
Answers_DontIgnored(verb, opt) ==
    CASE verb = "WILL" -> <<<<"DO", opt>>>>
      [] verb \in {"DO", "DONT"} -> <<<<"WILL", opt>>>>
      [] verb = "WONT" -> <<<<"DONT", opt>>>>
Answers(verb, opt) ==
    CASE verb = "WILL" -> <<<<IF opt \in Accepted_Will THEN "DO" ELSE "DONT", opt>>>>
      [] verb = "DO"   -> <<<<IF opt \in Accepted_Do THEN "WILL" ELSE "WONT", opt>>>>
                            \o IF opt = "NAWS" THEN <<<<"SB", "NAWS">>>> ELSE <<>>
      [] verb = "WONT" -> <<<<"DONT", opt>>>>
      [] verb = "DONT" -> <<<<"WONT", opt>>>>

EchoAfter_NoWont(verb, opt, echo) == echo \/ (verb = "WILL" /\ opt = "ECHO")
EchoAfter(verb, opt, echo) ==
    IF opt = "ECHO" /\ verb \in {"WILL", "WONT"} THEN verb = "WILL" ELSE echo

(* A body longer than sb_buf loses its end but not its terminator. *)
SbAppend_NoLimit(s, b) == [s EXCEPT !.p.sb = Append(@, b)]
SbAppend(s, b) == IF Len(s.p.sb) < SbMax THEN [s EXCEPT !.p.sb = Append(@, b)] ELSE s

IsSend_Longer(sb) == Len(sb) > 2 /\ sb[1] = "TTYPE" /\ sb[2] = "SEND"
IsSend(sb) == Len(sb) >= 2 /\ sb[1] = "TTYPE" /\ sb[2] = "SEND"

AfterIac(s, b) ==
    CASE b = "IAC"     -> Goto(Emit(s, "IAC"), "NORMAL")
      [] b \in Verbs   -> [Goto(s, "VERB") EXCEPT !.p.verb = b]
      [] b = "SB"      -> [Goto(s, "SB") EXCEPT !.p.sb = <<>>]
      [] OTHER         -> Goto(s, "NORMAL")

AfterVerb(s, opt) ==
    LET t == Reply(Goto(s, "NORMAL"), Answers(s.p.verb, opt))
    IN  [t EXCEPT !.p.echo = EchoAfter(s.p.verb, opt, @)]

InSb_NoEscape(s, b) == IF b = "SE" THEN Goto(s, "NORMAL") ELSE SbAppend(s, b)
InSb(s, b) == IF b = "IAC" THEN Goto(s, "SB_IAC") ELSE SbAppend(s, b)

AfterSbIac(s, b) ==
    CASE b = "SE"  -> LET t == IF IsSend(s.p.sb) THEN Reply(s, <<<<"SB", "TTYPE">>>>) ELSE s
                      IN  [Goto(t, "NORMAL") EXCEPT !.p.sb = <<>>]
      [] b = "IAC" -> Goto(SbAppend(s, "IAC"), "SB")
      [] OTHER     -> [Goto(s, "NORMAL") EXCEPT !.p.sb = <<>>]

Step(s, b) ==
    CASE s.p.is = "NORMAL" -> IF b = "IAC" THEN Goto(s, "IAC") ELSE Emit(s, b)
      [] s.p.is = "IAC"    -> AfterIac(s, b)
      [] s.p.is = "VERB"   -> AfterVerb(s, b)
      [] s.p.is = "SB"     -> InSb(s, b)
      [] s.p.is = "SB_IAC" -> AfterSbIac(s, b)

(* The bytes of a chunk, one after the other. *)
Parsed(s, bytes) ==
    LET after[i \in 0 .. Len(bytes)] == IF i = 0 THEN s ELSE Step(after[i - 1], bytes[i])
    IN  after[Len(bytes)]

(* The parser's state survives the end of a chunk. *)
Resume_Fresh(q) == [q EXCEPT !.is = "NORMAL"]
Resume(q) == q

ParseChunk ==
    \E k \in 1 .. RecvBuf :
        /\ k <= Len(wire)
        /\ LET s == Parsed([p |-> Resume(p), out |-> out, back |-> back], SubSeq(wire, 1, k))
           IN  p' = s.p /\ out' = s.out /\ back' = s.back
        /\ wire' = SubSeq(wire, k + 1, Len(wire))
        /\ UNCHANGED <<units, meant, theirs, ours, sends, broken>>

-------------------------------------------------------------------------------
(* The server. *)

Puts(bytes) == wire' = wire \o bytes /\ units < MaxUnits /\ units' = units + 1

ServerData ==
    /\ \E b \in {"d", "WILL", "SB", "IAC"} :
          /\ Puts(IF b = "IAC" THEN <<"IAC", "IAC">> ELSE <<b>>)
          /\ meant' = Append(meant, b)
    /\ UNCHANGED <<p, out, back, theirs, ours, sends, broken>>

(* The server offers an option of its own or takes one back. *)
ServerOffers ==
    /\ \E o \in {"ECHO", "OTHER"} :
          \/ theirs[o] = "off" /\ Puts(<<"IAC", "WILL", o>>) /\ theirs' = [theirs EXCEPT ![o] = "offered"]
          \/ theirs[o] = "on" /\ Puts(<<"IAC", "WONT", o>>) /\ theirs' = [theirs EXCEPT ![o] = "off"]
    /\ UNCHANGED <<p, out, back, meant, ours, sends, broken>>

(* It asks the parser to use an option or to leave it. *)
ServerAsks ==
    /\ \E o \in {"NAWS", "TTYPE", "OTHER"} :
          \/ ours[o] = "off" /\ Puts(<<"IAC", "DO", o>>) /\ ours' = [ours EXCEPT ![o] = "offered"]
          \/ ours[o] = "on" /\ Puts(<<"IAC", "DONT", o>>) /\ ours' = [ours EXCEPT ![o] = "off"]
    /\ UNCHANGED <<p, out, back, meant, theirs, sends, broken>>

(* A subnegotiation: a terminal-type request, or a body with a doubled IAC,  *)
(* an SE as data and more bytes than sb_buf holds.  NOP is consumed.         *)
ServerSubnegotiates ==
    /\ \/ ours["TTYPE"] = "on" /\ Puts(<<"IAC", "SB", "TTYPE", "SEND", "IAC", "SE">>) /\ sends' = sends + 1
       \/ Puts(<<"IAC", "SB", "OTHER", "IAC", "IAC", "SE", "d", "IAC", "SE">>) /\ sends' = sends
       \/ Puts(<<"IAC", "NOP">>) /\ sends' = sends
    /\ UNCHANGED <<p, out, back, meant, theirs, ours, broken>>

(* A server that breaks off a subnegotiation for a command, once. *)
ServerInterrupts ==
    /\ ~broken /\ theirs["ECHO"] = "off"
    /\ Puts(<<"IAC", "SB", "OTHER", "d", "IAC", "WILL", "ECHO">>)
    /\ theirs' = [theirs EXCEPT !["ECHO"] = "offered"]
    /\ broken' = TRUE
    /\ UNCHANGED <<p, out, back, meant, ours, sends>>

(* An answer arrives: it settles an offer, turns off what is on, and is      *)
(* ignored or refused where the server has taken the option back already.     *)
Settle(status, yes) == IF status = "off" THEN "off" ELSE IF yes THEN "on" ELSE "off"
Contradicts(status, yes) == (status = "on" /\ ~yes) \/ (status = "off" /\ yes)

ServerReads ==
    /\ back # <<>> /\ back' = Tail(back)
    /\ LET verb == Head(back)[1]
           o == Head(back)[2]
       IN  CASE verb \in {"DO", "DONT"} ->
                    /\ theirs' = [theirs EXCEPT ![o] = Settle(@, verb = "DO")]
                    /\ wire' = IF Contradicts(theirs[o], verb = "DO") THEN wire \o <<"IAC", "WONT", o>> ELSE wire
                    /\ UNCHANGED <<ours, sends>>
             [] verb \in {"WILL", "WONT"} ->
                    /\ ours' = [ours EXCEPT ![o] = Settle(@, verb = "WILL")]
                    /\ wire' = IF Contradicts(ours[o], verb = "WILL") THEN wire \o <<"IAC", "DONT", o>> ELSE wire
                    /\ UNCHANGED <<theirs, sends>>
             [] OTHER ->
                    /\ sends' = IF o = "TTYPE" THEN sends - 1 ELSE sends
                    /\ UNCHANGED <<theirs, ours, wire>>
    /\ UNCHANGED <<p, out, units, meant, broken>>

Server == ServerData \/ ServerOffers \/ ServerAsks \/ ServerSubnegotiates \/ ServerInterrupts
ParserNext == ParseChunk \/ Server \/ ServerReads

(* Bytes that were sent arrive and are read; the server may fall silent. *)
ParserSpec == ParserInit /\ [][ParserNext]_parserVars /\ WF_parserVars(ParseChunk) /\ WF_parserVars(ServerReads)

-------------------------------------------------------------------------------
ParserTypeOK ==
    /\ p.is \in {"NORMAL", "IAC", "VERB", "SB", "SB_IAC"}
    /\ p.verb \in Verbs \cup {"none"} /\ Len(p.sb) <= SbMax /\ p.echo \in BOOLEAN
    /\ units \in 0 .. MaxUnits /\ sends \in 0 .. MaxUnits
    /\ \A o \in Options : {theirs[o], ours[o]} \subseteq {"off", "offered", "on"}

(* telnet_proto.c:141-144: what is handed on is the payload the server meant, *)
(* in order, without a byte of its commands, wherever the chunks were cut;    *)
(* and when everything has arrived it is all of it.  (Here and below: of a    *)
(* server that ends its subnegotiations.)                                     *)
PayloadExact == ~broken => IsPrefix(out, meant) /\ (wire = <<>> => out = meant)

(* Once the negotiation is quiet, exactly the options the parser supports     *)
(* are in use: none is left half open, none it refused is taken to be on; and *)
(* the server_echo flag says what the server does, or the user's typing is    *)
(* doubled or unseen (telnet_proto.h:67-79); and every request for the        *)
(* terminal type has had its one answer.                                      *)
OptionsSettled ==
    /\ Quiet => sends = 0
    /\ Quiet /\ ~broken => (p.echo <=> theirs["ECHO"] = "on") /\ \A o \in Options :
        /\ theirs[o] \in (IF o \in {"ECHO", "SGA"} THEN {"off", "on"} ELSE {"off"})
        /\ ours[o] \in (IF o \in {"TTYPE", "NAWS", "SGA"} THEN {"off", "on"} ELSE {"off"})

(* The parser answers every command, wanted or not; with a server that does  *)
(* not, the negotiation dies out all the same.                                *)
NegotiationEnds == []<>Quiet

(* telnet_proto.c:228, "IAC <other> inside SB -- abandon SB cleanly": the      *)
(* command that broke it off is not taken for payload.                        *)
AbandonedCleanly == wire = <<>> => out = meant
===============================================================================
