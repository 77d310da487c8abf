----------------------------- MODULE LiveBridge -----------------------------
(***************************************************************************)
(* The GMT live bridge: the tap's NDJSON lines come in on stdin, and go    *)
(* out as WebSocket frames to the one GMT window that is connected         *)
(* (bridge_live.py), which takes them apart again (live_client.py).        *)
(*                                                                         *)
(* The bridge is one loop around select(): what was ready is looked at     *)
(* once, and used although the pipe, the backlog and the windows go on     *)
(* meanwhile.  Reads and writes cut the streams anywhere.  A line, and a   *)
(* frame, is two units, so that one can be half there; the answer to the   *)
(* handshake and the hello are a unit each.                                *)
(***************************************************************************)
EXTENDS Naturals, Sequences, SequencesExt

CONSTANTS
    Windows,    \* GMT windows that connect, disconnect and die
    Noise,      \* lines of the tap that are no JSON objects
    MaxLines,   \* bound on the lines of the tap
    MaxLinks,   \* bound on the connections made
    PipeCap,    \* what the pipe holds, in units
    SendCap     \* what the send buffer of a connection holds, in units

Backlog == 2    \* listen(1): a connection more than its argument

ASSUME LiveAssumption ==
    /\ MaxLines \in Nat /\ MaxLinks \in Nat
    /\ PipeCap \in Nat \ {0} /\ SendCap \in Nat \ {0, 1}

VARIABLES
    tapUp, written,   \* the tap runs; units it has written
    pipe,             \* units on their way to stdin
    buf,              \* the bridge's part of a line
    pc, ready,        \* the bridge, and what select() found
    lines,            \* lines read and not yet forwarded
    shaking, conn,    \* the link in its handshake, and the one served; 0: none
    backlog,          \* links not accepted yet
    links,            \* [asked, gone, out, shut] of every link: the request is
                      \*   there, the window closed its end, what is on its way
                      \*   to the window, the bridge closed its end
    made,             \* links made
    win               \* [state, link, raw, got] of every window: raw is what
                      \*   was received and not taken apart, got the rows

tap    == <<tapUp, written, pipe>>
bridge == <<buf, pc, ready, lines, shaking, conn>>
bridgeVars   == <<tap, bridge, backlog, links, made, win>>

Unit(n, h) == [line |-> n, half |-> h]
Row(n)     == <<Unit(n, 1), Unit(n, 2)>>
Accepted   == Unit(0, 1)      \* 101 Switching Protocols
Hello      == Unit(0, 2)

-----------------------------------------------------------------------------
(* The tap *)

TapWrites ==
    /\ tapUp /\ written < 2 * MaxLines /\ Len(pipe) < PipeCap
    /\ pipe' = Append(pipe, Unit((written \div 2) + 1, (written % 2) + 1))
    /\ written' = written + 1
    /\ UNCHANGED <<tapUp, bridge, backlog, links, made, win>>

\* It may be killed in the middle of a line.
TapEnds ==
    /\ tapUp /\ tapUp' = FALSE
    /\ UNCHANGED <<written, pipe, bridge, backlog, links, made, win>>

-----------------------------------------------------------------------------
(* The bridge *)

\* The peer's end of a connection shows as something to read.
Ready ==
    {x \in {"srv", "fd", "conn"} :
        \/ x = "srv" /\ backlog # <<>>
        \/ x = "fd" /\ (pipe # <<>> \/ ~tapUp)
        \/ x = "conn" /\ conn # 0 /\ links[conn].gone}

Select ==
    /\ pc = "select" /\ Ready # {}
    /\ ready' = Ready /\ pc' = "accept"
    /\ UNCHANGED <<tap, buf, lines, shaking, conn, backlog, links, made, win>>

\* Mutant: the bridge waits for a window before it goes on.
AcceptBlocks ==
    /\ pc = "accept"
    /\ IF conn = 0
       THEN /\ backlog # <<>>
            /\ shaking' = Head(backlog) /\ backlog' = Tail(backlog) /\ pc' = "shake"
       ELSE /\ pc' = "client" /\ UNCHANGED <<shaking, backlog>>
    /\ UNCHANGED <<tap, buf, ready, lines, conn, links, made, win>>

Accept ==
    /\ pc = "accept"
    /\ IF conn = 0 /\ "srv" \in ready
       THEN /\ shaking' = Head(backlog) /\ backlog' = Tail(backlog) /\ pc' = "shake"
       ELSE /\ pc' = "client" /\ UNCHANGED <<shaking, backlog>>
    /\ UNCHANGED <<tap, buf, ready, lines, conn, links, made, win>>

Close(ls, l) == [ls EXCEPT ![l].shut = TRUE]

\* The handshake blocks until the request is there or the window gone.
ShakeOk ==
    /\ pc = "shake" /\ links[shaking].asked
    /\ links' = [links EXCEPT ![shaking].out = <<Accepted, Hello>>]
    /\ conn' = shaking /\ shaking' = 0 /\ pc' = "client"
    /\ UNCHANGED <<tap, buf, ready, lines, backlog, made, win>>

ShakeFails ==
    /\ pc = "shake" /\ links[shaking].gone
    /\ links' = Close(links, shaking)
    /\ shaking' = 0 /\ pc' = "client"
    /\ UNCHANGED <<tap, buf, ready, lines, conn, backlog, made, win>>

\* Mutant: an end of the connection is not taken for one.
ClientKept ==
    /\ pc = "client" /\ pc' = "read"
    /\ UNCHANGED <<tap, buf, ready, lines, shaking, conn, backlog, links, made, win>>

\* A window sends nothing after its request, so there is only its end to read.
Client ==
    /\ pc = "client" /\ pc' = "read"
    /\ IF conn # 0 /\ "conn" \in ready
       THEN links' = Close(links, conn) /\ conn' = 0
       ELSE UNCHANGED <<links, conn>>
    /\ UNCHANGED <<tap, buf, ready, lines, shaking, backlog, made, win>>

\* The lines, or frames, that a text which starts with one holds whole, and what is
\* left of it.
Rows(text) == [i \in 1..(Len(text) \div 2) |-> text[2 * i].line]
Rest(text) == SubSeq(text, 2 * (Len(text) \div 2) + 1, Len(text))

\* The whole lines of a chunk are split off, a rest waits in buf.
Read ==
    /\ pc = "read" /\ "fd" \in ready /\ pipe # <<>>
    /\ \E n \in 1..Len(pipe) :
          LET text == buf \o SubSeq(pipe, 1, n)
          IN  /\ lines' = Rows(text) /\ buf' = Rest(text)
              /\ pipe' = SubSeq(pipe, n + 1, Len(pipe))
    /\ ready' = {} /\ pc' = "forward"
    /\ UNCHANGED <<tapUp, written, shaking, conn, backlog, links, made, win>>

\* Everything is closed; who waits in the backlog is reset.
Exit ==
    /\ links' = [l \in DOMAIN links |->
          IF l \in {conn, shaking} \/ l \in ToSet(backlog)
          THEN [links[l] EXCEPT !.shut = TRUE] ELSE links[l]]
    /\ backlog' = <<>> /\ conn' = 0 /\ shaking' = 0 /\ lines' = <<>>
    /\ ready' = {} /\ pc' = "ended"
    /\ UNCHANGED <<tap, buf, made, win>>

\* The end of stdin ends the bridge, unless part of a line waits in buf.
StdinEnds == pc = "read" /\ "fd" \in ready /\ pipe = <<>> /\ buf = <<>> /\ Exit

ReadNothing ==
    /\ pc = "read" /\ pc' = "select" /\ ready' = {}
    /\ "fd" \notin ready \/ (pipe = <<>> /\ buf # <<>>)
    /\ UNCHANGED <<tap, buf, lines, shaking, conn, backlog, links, made, win>>

ForwardDone ==
    /\ pc = "forward" /\ lines = <<>> /\ pc' = "select"
    /\ UNCHANGED <<tap, buf, ready, lines, shaking, conn, backlog, links, made, win>>

\* No object, or nobody to send it to.
Skip ==
    /\ pc = "forward" /\ lines # <<>>
    /\ conn = 0 \/ Head(lines) \in Noise
    /\ lines' = Tail(lines)
    /\ UNCHANGED <<tap, buf, pc, ready, shaking, conn, backlog, links, made, win>>

Sending == pc = "forward" /\ lines # <<>> /\ conn # 0 /\ Head(lines) \notin Noise

Fits == Len(links[conn].out) + 2 <= SendCap

\* What is sent to a window that has gone vanishes, or fails.
SendOk ==
    /\ Sending /\ (links[conn].gone \/ Fits)
    /\ links' = IF links[conn].gone THEN links
                ELSE [links EXCEPT ![conn].out = @ \o Row(Head(lines))]
    /\ lines' = Tail(lines)
    /\ UNCHANGED <<tap, buf, pc, ready, shaking, conn, backlog, made, win>>

\* Mutant: a window that is slow is kept.
SendFailsKept ==
    /\ Sending /\ (links[conn].gone \/ ~Fits)
    /\ links' = IF links[conn].gone THEN links
                ELSE [links EXCEPT ![conn].out =
                         SubSeq(@ \o Row(Head(lines)), 1, SendCap)]
    /\ lines' = Tail(lines)
    /\ UNCHANGED <<tap, buf, pc, ready, shaking, conn, backlog, made, win>>

\* The socket does not block: of a frame that does not fit the beginning is
\* sent, and the window is dropped.
SendFails ==
    /\ Sending /\ (links[conn].gone \/ ~Fits)
    /\ links' = Close(IF links[conn].gone THEN links
                      ELSE [links EXCEPT ![conn].out =
                               SubSeq(@ \o Row(Head(lines)), 1, SendCap)], conn)
    /\ conn' = 0 /\ lines' = Tail(lines)
    /\ UNCHANGED <<tap, buf, pc, ready, shaking, backlog, made, win>>

\* Ctrl+C.
Interrupt == pc # "ended" /\ Exit

Loop ==
    \/ Select \/ Accept \/ ShakeOk \/ ShakeFails \/ Client
    \/ Read \/ StdinEnds \/ ReadNothing \/ ForwardDone \/ Skip \/ SendOk \/ SendFails

-----------------------------------------------------------------------------
(* A window *)

Off   == [state |-> "off", link |-> 0, raw |-> <<>>, got |-> <<>>]
Fresh == [asked |-> FALSE, gone |-> FALSE, out |-> <<>>, shut |-> FALSE]

Connect(w) ==
    /\ win[w].state = "off" /\ pc # "ended"
    /\ made < MaxLinks /\ Len(backlog) < Backlog
    /\ made' = made + 1
    /\ backlog' = Append(backlog, made')
    /\ links' = [links EXCEPT ![made'] = Fresh]
    /\ win' = [win EXCEPT ![w] =
          [state |-> "asking", link |-> made', raw |-> <<>>, got |-> <<>>]]
    /\ UNCHANGED <<tap, bridge>>

\* The window closes its end: on the user's word, because it waited too long,
\* or because its process is gone.
Leave(w) ==
    /\ win[w].state # "off"
    /\ links' = [links EXCEPT ![win[w].link] = [@ EXCEPT !.gone = TRUE, !.out = <<>>]]
    /\ win' = [win EXCEPT ![w] = Off]
    /\ UNCHANGED <<tap, bridge, backlog, made>>

Ask(w) ==
    /\ win[w].state = "asking"
    /\ links' = [links EXCEPT ![win[w].link].asked = TRUE]
    /\ win' = [win EXCEPT ![w].state = "waiting"]
    /\ UNCHANGED <<tap, bridge, backlog, made>>

\* n units arrive; fin: the end of the connection was read as well.
Receive(w, n, fin) ==
    LET l == links[win[w].link] IN
    /\ n <= Len(l.out)
    /\ fin => l.shut /\ n = Len(l.out)
    /\ links' = [links EXCEPT ![win[w].link].out = SubSeq(@, n + 1, Len(@))]
    /\ UNCHANGED <<tap, bridge, backlog, made>>

\* Mutant: what did not make a frame is forgotten.
RawForgotten(w, n, fin) == SubSeq(links[win[w].link].out, 1, n)

\* close() empties the buffer before what came with the end is added to it.
Raw(w, n, fin) ==
    (IF fin THEN <<>> ELSE win[w].raw) \o SubSeq(links[win[w].link].out, 1, n)

Answered(w, n) ==
    /\ win[w].state = "waiting" /\ n > 0 /\ Receive(w, n, FALSE)
    /\ win' = [win EXCEPT ![w].state = "hello",
                          ![w].raw = SubSeq(links[win[w].link].out, 2, n)]

\* The bridge closed during the handshake.
Refused(w) ==
    /\ win[w].state = "waiting" /\ links[win[w].link].out = <<>>
    /\ Receive(w, 0, TRUE)
    /\ win' = [win EXCEPT ![w] = Off]

\* The end may be read together with the hello: the window is then shown as
\* connected, on a link that is closed.  Without a hello it gives up.
Greeted(w, n, fin) ==
    /\ win[w].state = "hello" /\ Receive(w, n, fin)
    /\ LET raw == Raw(w, n, fin)
       IN  win' = IF raw # <<>> /\ Head(raw) = Hello
                  THEN [win EXCEPT ![w].state = IF fin THEN "dead" ELSE "on",
                                   ![w].raw = IF fin THEN <<>> ELSE Tail(raw)]
                  ELSE IF fin THEN [win EXCEPT ![w] = Off]
                  ELSE [win EXCEPT ![w].raw = raw]

\* A text that starts in the middle of a frame is read as if it were its
\* beginning: any part of it may be taken for frames, which hold no rows.
Aligned(text) == text # <<>> => Head(text).half = 1

PollRows(w, n, fin) ==
    /\ win[w].state = "on" /\ Receive(w, n, fin)
    /\ LET raw == Raw(w, n, fin)
       IN  \E skip \in IF Aligned(raw) THEN {0} ELSE 1..Len(raw) :
             LET text == SubSeq(raw, skip + 1, Len(raw)) IN
             /\ Aligned(text)
             /\ win' = [win EXCEPT
                   ![w].state = IF fin THEN "dead" ELSE @,
                   ![w].got = @ \o Rows(text),
                   ![w].raw = IF fin THEN <<>> ELSE Rest(text)]

Arrives(w) ==
    \/ Refused(w)
    \/ \E n \in 0..SendCap : Answered(w, n)
    \/ \E n \in 0..SendCap, fin \in BOOLEAN : Greeted(w, n, fin) \/ PollRows(w, n, fin)

-----------------------------------------------------------------------------
BridgeInit ==
    /\ tapUp = TRUE /\ written = 0 /\ pipe = <<>>
    /\ buf = <<>> /\ pc = "select" /\ ready = {} /\ lines = <<>>
    /\ shaking = 0 /\ conn = 0 /\ backlog = <<>>
    /\ links = [l \in 1..MaxLinks |-> Fresh] /\ made = 0
    /\ win = [w \in Windows |-> Off]

\* The bridge has ended.
Ended == pc = "ended" /\ UNCHANGED bridgeVars

BridgeNext ==
    \/ TapWrites \/ TapEnds
    \/ Loop \/ Interrupt \/ Ended
    \/ \E w \in Windows : Connect(w) \/ Ask(w) \/ Leave(w) \/ Arrives(w)

BridgeSpec == BridgeInit /\ [][BridgeNext]_bridgeVars

\* The bridge's loop goes on, and so does a window in the middle of connect():
\* it sends its request or is gone.
BridgeFairness == WF_bridgeVars(Loop) /\ \A w \in Windows : WF_bridgeVars(Ask(w))

FairSpec == BridgeSpec /\ BridgeFairness

-----------------------------------------------------------------------------
(* Properties *)

BridgeTypeOK ==
    LET units == [line : 0..MaxLines, half : {1, 2}]
        some(n) == UNION {[1..k -> units] : k \in 0..n}
    IN  /\ tapUp \in BOOLEAN /\ written \in 0..(2 * MaxLines)
        /\ pipe \in some(PipeCap) /\ buf \in some(1)
        /\ pc \in {"select", "accept", "shake", "client", "read", "forward", "ended"}
        /\ ready \subseteq {"srv", "fd", "conn"}
        /\ shaking \in 0..made /\ conn \in 0..made /\ made \in 0..MaxLinks
        /\ Len(backlog) <= Backlog
        /\ \A l \in 1..MaxLinks : links[l].out \in some(SendCap)
        /\ \A w \in Windows :
              win[w].state \in {"off", "asking", "waiting", "hello", "on", "dead"}

\* What a window shows are objects of the tap, whole and in order, and as long
\* as the link is up without a hole from the first row on: however chunks,
\* frames, slow windows and the end of the link cut the streams.
RowsAreARun ==
    \A w \in Windows : LET got == win[w].got IN
        /\ \A i \in 1..Len(got) : got[i] \in (1..MaxLines) \ Noise
        /\ \A i \in 1..(Len(got) - 1) :
              /\ got[i] < got[i+1]
              /\ win[w].state = "on" =>
                    \A n \in (got[i] + 1)..(got[i+1] - 1) : n \in Noise

\* A window that has gone, in whatever state, does not keep the place.
PlaceIsFreed ==
    \A l \in 1..MaxLinks :
        (l \in {conn, shaking} /\ links[l].gone) ~> l \notin {conn, shaking}

\* "Only tap stdin EOF (or Ctrl+C) ends the bridge", and the end of a tap that
\* wrote its last line whole does: whatever the windows do, the lines are read.
EofEnds == ~tapUp /\ written % 2 = 0 ~> pc = "ended"

\* The same of a tap that was killed in the middle of a line.
AnyEofEnds == ~tapUp ~> pc = "ended"
=============================================================================
