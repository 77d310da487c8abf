----------------------------- MODULE GmtSession -----------------------------
(***************************************************************************)
(* The session window of the measurement tool GMT: one timeline that is    *)
(* opened from a file or grown from the Live stream, a playhead on it, a   *)
(* recording of the Live stream, and the inject link, over which the frame *)
(* under the playhead is sent to the board.                                *)
(*                                                                         *)
(* Every handler of the window runs to its end on the Qt thread, so one    *)
(* handler is one action.  Handlers call each other, and any send over the *)
(* inject link may raise ConnectionError in the middle of one; so a        *)
(* handler is written as an operator from the state of the window to the   *)
(* set of states it may leave, and handlers compose the way they call each *)
(* other in the code.  Around the window move the board, which executes    *)
(* the commands on the wire and answers, the peers, which may go away, and *)
(* another control client of the board, which may have left it playing.    *)
(*                                                                         *)
(* Frames are numbered from 0.  A frame is injectable (EgoMotion) or not;  *)
(* what is in it does not matter here.  Every Live row is injectable.      *)
(***************************************************************************)
EXTENDS Integers, Sequences, FiniteSets, FiniteSetsExt, SequencesExt

CONSTANTS
    Files,          \* the session files the user may open
    Content,        \* file -> sequence of BOOLEAN: is the frame injectable?
    WindowMax,      \* injectable frames a board window holds
    MaxRows,        \* bound: Live rows in one timeline
    MaxWire,        \* bound: commands on their way to the board
    MaxInbox        \* bound: with so many answers waiting the board adds no more

ASSUME FilesAssumption == Content \in [Files -> Seq(BOOLEAN)]
ASSUME BoundAssumption == /\ WindowMax \in Nat \ {0} /\ MaxRows \in Nat
                          /\ MaxWire \in Nat /\ MaxInbox \in Nat \ {0}

None == "none"
Live == "live"                  \* the source of a Live row
Other == "other"                \* a frame of another client's session
Slots == {"A", "B"}
NoBase == -1
NoLog == [on |-> FALSE, meta |-> FALSE, rows |-> FALSE]
NoHelper == [base |-> [s \in Slots |-> NoBase], next |-> 0]

VARIABLES
    gui,            \* the window; path: a session path is set
    wire,           \* commands to the board
    inbox,          \* answers of the board not yet polled
    board,          \* its two windows, the declared length, playing
    peer            \* the board's end of the inject link is there

vars == <<gui, wire, inbox, board, peer>>

Frames(g) == (IF g.src = None THEN <<>> ELSE Content[g.src])
                \o [i \in 1..g.live |-> TRUE]
Len0(g) == Len(Frames(g))
Injectable(g, i) == Frames(g)[i + 1]
SourceOf(g, i) == IF g.src # None /\ i < Len(Content[g.src]) THEN g.src ELSE Live

\* InjectPanel.wants_playhead_sync
Sync(g) == g.followPh /\ g.conn

\* A board that was just started.
Idle == [win |-> [s \in Slots |-> {}], declared |-> 0, playing |-> FALSE]

Init ==
    /\ gui = [path |-> FALSE, src |-> None, live |-> 0, ready |-> FALSE,
              slider |-> 0, playing |-> FALSE, timer |-> FALSE, follow |-> TRUE,
              ws |-> None, observe |-> FALSE, log |-> NoLog,
              client |-> None, conn |-> FALSE, followPh |-> FALSE,
              helper |-> NoHelper, shown |-> FALSE,
              syncing |-> FALSE, asking |-> FALSE, err |-> FALSE, out |-> <<>>, in |-> <<>>]
    /\ wire = <<>> /\ inbox = <<>> /\ peer = FALSE
    /\ board = Idle

-----------------------------------------------------------------------------
(* The inject link, as the window sees it *)

\* The next statement runs in the states in which no ConnectionError is on its way.
Then(S, F(_)) == UNION {IF g.err THEN {g} ELSE F(g) : g \in S}

\* except ConnectionError
Catch(S, H(_)) == UNION {IF g.err THEN H([g EXCEPT !.err = FALSE]) ELSE {g} : g \in S}

\* InjectCtrlClient.send_cmd: it raises without a socket; a failing send, the peer
\* being gone or its buffer still full after the retry, closes the client.  The retry
\* sends the whole line, also when a part of it has gone out already: the board then
\* reads the part and the line as one, and what is on the wire of such a link is no
\* longer followed.
Cmd(op) == [op |-> op, n |-> 0, slot |-> None, frames |-> {}]
Garbled == <<Cmd("garbled")>>

Send(g, c) ==
    IF g.client # "open"
    THEN {[g EXCEPT !.err = TRUE]}
    ELSE {[g EXCEPT !.out = IF @ = Garbled THEN @ ELSE Append(@, c)],
          [g EXCEPT !.out = Garbled],
          [g EXCEPT !.err = TRUE, !.client = "closed"]}

ConfigureOnly(g) ==
    Then(Send(g, [Cmd("session") EXCEPT !.n = Len0(g)]), LAMBDA s : {[s EXCEPT !.helper = NoHelper]})

\* InjectStreamHelper.configure_session
ConfigureSession(g) ==
    Then(Then(Send(g, [Cmd("session") EXCEPT !.n = Len0(g)]),
              LAMBDA s : Send(s, Cmd("reset"))),
         LAMBDA s : {[s EXCEPT !.helper = NoHelper]})

\* fill_window: the next WindowMax injectable frames from an index on.
FillWindow(g, slot, from) ==
    LET egos == {i \in from..(Len0(g) - 1) : Injectable(g, i)}
        taken == {i \in egos : Cardinality({j \in egos : j < i}) < WindowMax}
        next == IF Cardinality(egos) >= WindowMax THEN Max(taken) + 1 ELSE Len0(g)
        frames == {<<i, SourceOf(g, i)>> : i \in taken}
    IN IF from >= Len0(g)
       THEN {g}
       ELSE Then(Send(g, [op |-> "window", n |-> 0, slot |-> slot, frames |-> frames]),
                 LAMBDA s : {[s EXCEPT !.helper.base[slot] = from, !.helper.next = next]})

EnsureWindows(g, i) ==
    Then(FillWindow(g, "A", i),
         LAMBDA s : IF s.helper.next < Len0(s) THEN FillWindow(s, "B", s.helper.next) ELSE {s})

\* ensure_cover asks the bases it remembers, not what the board holds.
Covered(g, i) ==
    LET bases == {g.helper.base[s] : s \in Slots} \ {NoBase}
    IN bases # {} /\ Min(bases) <= i /\ i < g.helper.next

-----------------------------------------------------------------------------
(* Disconnecting, seeking, looping *)

PlaybackKept(g) == g
PausePlayback(g) == IF g.playing THEN [g EXCEPT !.playing = FALSE, !.timer = FALSE] ELSE g

\* _disconnect_inject: pause the board, stop the playback, forget the link.
DisconnectInject(g) ==
    {[PausePlayback(g) EXCEPT !.client = None, !.helper = NoHelper, !.asking = FALSE,
                              !.conn = FALSE, !.followPh = FALSE, !.shown = FALSE]}

\* InjectPanel.record_result
RecordResult(g) == [g EXCEPT !.shown = @ \/ g.conn]

\* poll_messages at the end of the stream: the socket is closed, and the lines that
\* were read before its end go with the buffer.
PollNothing(g) ==
    IF g.client = "open" /\ ~peer THEN {[g EXCEPT !.client = "closed", !.in = <<>>]} ELSE {g}

\* The board is given the windows around a frame, if it has not got them.
Cover(g, i, P(_)) == IF Covered(g, i) THEN {g} ELSE Then(EnsureWindows(g, i), P)

\* Without a client, when the poll has disconnected, the send is an AttributeError.
SendFrame(g, i, P(_)) ==
    IF g.client = None THEN {g} ELSE Then(Send(g, [Cmd("inject") EXCEPT !.n = i]), P)

\* _inject_seek, polling with P.
InjectSeekWith(g, i, P(_)) ==
    IF g.client # "open" \/ ~Sync(g) \/ g.syncing \/ i >= Len0(g)
    THEN {g}
    ELSE IF ~Injectable(g, i)
    THEN {RecordResult(g)}
    ELSE LET sent == Then(Cover([g EXCEPT !.syncing = TRUE], i, P), LAMBDA s : SendFrame(s, i, P))
         IN {[s EXCEPT !.syncing = FALSE] : s \in Catch(sent, DisconnectInject)}

\* _seek_index: clamp, move the slider without its signal, send the frame.
SeekWith(g, i, P(_)) ==
    LET at == Max({0, Min({i, Len0(g) - 1})})
    IN IF Len0(g) = 0 THEN {g} ELSE InjectSeekWith([g EXCEPT !.slider = at], at, P)

TimerOn(g) == [g EXCEPT !.timer = TRUE]

Redeclare(g, P(_)) ==
    IF g.client # "open" \/ Len0(g) = 0
    THEN {g}
    ELSE Then(Then(ConfigureSession(g), LAMBDA s : EnsureWindows(s, 0)), P)

\* The timer is stopped for the seek and started again from what playing was before it.
SeekToStart(g, P(_)) ==
    IF g.playing THEN {TimerOn(s) : s \in SeekWith([g EXCEPT !.timer = FALSE], 0, P)}
    ELSE SeekWith(g, 0, P)

\* _restart_inject_loop
RestartLoopWith(g, P(_)) ==
    UNION {IF s.err THEN DisconnectInject([s EXCEPT !.err = FALSE]) ELSE SeekToStart(s, P) :
             s \in Redeclare([g EXCEPT !.shown = FALSE], P)}

-----------------------------------------------------------------------------
(* What arrives: _poll_inject_msgs *)

\* _on_inject_need_window
NeedWindow(g, m) ==
    IF g.client = None \/ Len0(g) = 0
    THEN {g}
    ELSE Catch(FillWindow(g, m.slot, m.from), DisconnectInject)

\* _on_inject_eof.  The box "loop at end" may be in either state whenever it is read.
Eof(g) ==
    IF g.asking
    THEN {g}
    ELSE {g} \cup {[s EXCEPT !.asking = FALSE] :
                        s \in RestartLoopWith([g EXCEPT !.asking = TRUE], PollNothing)}

HandleMsg(g, m) ==
    CASE m.op = "published"   -> {RecordResult(g)}
      [] m.op = "need_window" -> NeedWindow(g, m)
      [] m.op = "eof"         -> Eof(g)

\* One poll takes all there is, so the polls nested in its messages find nothing.
HandleAll(g) ==
    LET after[n \in 0..Len(g.in)] ==
            IF n = 0 THEN {[g EXCEPT !.in = <<>>]}
            ELSE UNION {HandleMsg(s, g.in[n]) : s \in after[n - 1]}
    IN after[Len(g.in)]

Poll(g) == IF g.client = "open" /\ peer THEN HandleAll(g) ELSE PollNothing(g)

\* The poll of a link the board has not answered on yet.
PollEarly(g) == {g}

InjectSeek(g, i) == InjectSeekWith(g, i, Poll)
SeekIndex(g, i) == SeekWith(g, i, Poll)
RestartLoop(g) == RestartLoopWith(g, Poll)

-----------------------------------------------------------------------------
(* The playhead *)

\* _on_slider, the handler of valueChanged; setValue emits only on a change.
SetSlider(g, v) ==
    LET last == Len0(g) - 1
        moved == [g EXCEPT !.slider = v]
    IN IF v = g.slider
       THEN {g}
       ELSE IF v < last
       THEN SeekIndex([moved EXCEPT !.follow = FALSE], v)
       ELSE IF g.ws # None /\ ~Sync(g)
       THEN SeekIndex([moved EXCEPT !.follow = TRUE], v)
       ELSE SeekIndex(moved, v)

\* _on_follow_latest_toggled(True)
FollowOn(g) ==
    IF Sync(g) THEN {g}
    ELSE IF g.ws # None /\ Len0(g) > 0
    THEN SeekIndex([g EXCEPT !.follow = TRUE], Len0(g) - 1)
    ELSE {[g EXCEPT !.follow = TRUE]}

JumpEnd(g) ==
    Then(IF Sync(g) \/ g.follow THEN {g} ELSE FollowOn(g),
         LAMBDA s : SetSlider(s, Len0(s) - 1))

TogglePlay(g) ==
    IF Len0(g) = 0 THEN g ELSE [g EXCEPT !.playing = ~@, !.timer = ~g.playing]

\* _on_tick
Tick(g) ==
    IF Len0(g) = 0
    THEN {TogglePlay(g)}
    ELSE IF g.slider < Len0(g) - 1
    THEN SetSlider(g, g.slider + 1)
    ELSE {TogglePlay(g)} \cup (IF g.conn /\ g.client = "open" THEN RestartLoop(g) ELSE {})

-----------------------------------------------------------------------------
(* A handler as an action *)

\* A handler runs from the state of the window with the answers that have arrived and
\* the commands that have not.  What it sends is on the wire, unless the peer or the
\* client is gone.  Behind a garbled line the board's windows are no longer followed.
Run(S) ==
    \E r \in S :
        LET down == r.client # "open"
            sent == IF down \/ ~peer THEN <<>> ELSE r.out
        IN /\ gui' = [r EXCEPT !.err = FALSE, !.out = <<>>, !.in = <<>>]
           /\ wire' = sent /\ Len(sent) <= MaxWire
           /\ inbox' = IF down THEN <<>> ELSE r.in
           /\ board' = IF sent = Garbled THEN [Idle EXCEPT !.playing = board.playing] ELSE board
           /\ UNCHANGED peer

G == [gui EXCEPT !.in = inbox, !.out = wire]

\* A new model: its clock is ready once it has a frame.
Loaded(g, f) == [g EXCEPT !.src = f, !.live = 0, !.slider = 0,
                          !.ready = f # None /\ Content[f] # <<>>]

\* _apply_model: with the link up the session is declared anew and the board's windows
\* are filled anew before the playhead goes to 0.
ApplyModel(g) ==
    LET declare == IF ~g.conn \/ g.client # "open"
                   THEN {g}
                   ELSE Then(ConfigureSession(g),
                             LAMBDA s : IF Len0(s) = 0 THEN {[s EXCEPT !.shown = FALSE]}
                                        ELSE EnsureWindows([s EXCEPT !.shown = FALSE], 0))
    IN UNION {IF s.err THEN DisconnectInject([s EXCEPT !.err = FALSE]) ELSE SeekIndex(s, 0) :
                s \in declare}

LoadFile(g, f) == ApplyModel([Loaded(g, f) EXCEPT !.path = TRUE])

\* _open_session and _load_clip_path.  The path is set before the file is parsed.
OpenSession == \E f \in Files : Run(LoadFile(G, f))
OpenSessionFails == Run({[G EXCEPT !.path = TRUE]})

\* load_project, which offers a session when no path is set.
LoadProject ==
    \/ Run(SeekIndex(G, G.slider))
    \/ /\ ~gui.path
       /\ \E f \in Files :
            Run(Then(SeekIndex(G, G.slider), LAMBDA s : LoadFile(s, f)))

-----------------------------------------------------------------------------
(* Live *)

\* _begin_live_memory_session
MemorySession(g) == ApplyModel([Loaded(g, None) EXCEPT !.log = NoLog, !.path = FALSE])

PreserveOpened(g) == g.path

\* A session that is open, or being injected, must survive the connect.
Preserve(g) == g.path \/ g.conn

\* _connect_live: what it does to the timeline it does before the connect can fail.
ConnectLive ==
    /\ gui.ws = None
    /\ LET keep == Preserve(gui)
           g == [G EXCEPT !.observe = keep, !.follow = @ /\ ~Sync(G) /\ ~keep]
           ready == IF keep THEN {g} ELSE MemorySession(g)
       IN \/ Run({[s EXCEPT !.ws = "open"] : s \in ready})
          \/ Run({[s EXCEPT !.observe = FALSE, !.log = NoLog] : s \in ready})

LiveOffOnly(g) == [g EXCEPT !.ws = None, !.observe = FALSE]
LiveOff(g) == [g EXCEPT !.ws = None, !.observe = FALSE, !.log = NoLog]

\* _disconnect_live
DisconnectLive == gui.ws # None /\ Run({LiveOff(G)})

\* _start_live_record: the new file starts with the clock the window has, if any.  The
\* session path now names the recording.
StartRecord(g) ==
    [g EXCEPT !.log = [on |-> TRUE, meta |-> g.ready, rows |-> FALSE], !.path = TRUE]
StopRecord(g) == [g EXCEPT !.log = NoLog]

\* _on_live_record_toggled; the path chooser may be cancelled.
ToggleRecord ==
    /\ gui.ws # None
    /\ Run({IF gui.log.on THEN StopRecord(G) ELSE StartRecord(G)})

\* _write_live_session_meta_if_needed
EnsureMeta(g) ==
    IF g.ready THEN g ELSE [g EXCEPT !.ready = TRUE, !.log.meta = g.log.on]

\* _append_live_rows: while following, the playhead goes to the row with a seek, or
\* without one if the last was less than 100 ms ago.
AppendRow(g) ==
    LET grown == [g EXCEPT !.live = @ + 1]
        last == Len0(grown) - 1
    IN IF g.follow THEN SeekIndex(grown, last) \cup {[grown EXCEPT !.slider = last]} ELSE {grown}

\* _on_ws_tick with a row: recorded, and appended unless in observe mode.  A Live peer
\* that is gone is a Live without rows: no tick looks whether the socket is closed.
WsTick ==
    /\ gui.ws = "open" /\ gui.live < MaxRows
    /\ LET g == IF gui.observe THEN G ELSE EnsureMeta(G)
           kept == [g EXCEPT !.log.rows = @ \/ g.log.on]
       IN Run(IF g.observe THEN {kept} ELSE AppendRow(kept))

-----------------------------------------------------------------------------
(* Inject *)

\* set_connected, and what _connect_inject does after it.
InjectUp(g) == [g EXCEPT !.conn = TRUE, !.followPh = TRUE]
InjectUpQuiet(g) == [InjectUp(g) EXCEPT !.follow = FALSE]

\* The session is declared, and the frame under the playhead is sent.
InjectConnected(fresh) ==
    UNION {IF s.err THEN {[s EXCEPT !.client = None, !.helper = NoHelper]}
           ELSE InjectSeekWith(InjectUpQuiet(s), s.slider, PollEarly)
             : s \in Then(ConfigureSession(fresh), LAMBDA s : EnsureWindows(s, 0))}

\* _connect_inject: the hello succeeds, and the session is declared to a board another
\* client may have left playing.  A failed hello leaves no trace.
ConnectInject ==
    /\ ~gui.conn /\ Len0(gui) > 0
    /\ \E r \in InjectConnected([gui EXCEPT !.client = "open", !.helper = NoHelper]) :
         /\ gui' = [r EXCEPT !.err = FALSE, !.out = <<>>]
         /\ wire' = (IF r.client = "open" THEN r.out ELSE <<>>) /\ inbox' = <<>>
         /\ peer' = TRUE
         /\ \E p \in BOOLEAN :
                board' = [win |-> [s \in Slots |-> {<<0, Other>>}], declared |-> 0, playing |-> p]

\* The button of _disconnect_inject.
UserDisconnects == gui.conn /\ Run(DisconnectInject(G))

TickPollsOnly(g) == Poll(g)

\* _on_inject_tick: a link found dead is disconnected like by the user.
OnInjectTick(g) == IF g.client = "open" THEN Poll(g) ELSE DisconnectInject(g)
InjectTick == gui.client # None /\ Run(OnInjectTick(G))

\* _on_follow_playhead_toggled.  Without a link the box has no effect, and connecting
\* checks it.
ToggleFollowPlayhead ==
    /\ gui.conn
    /\ LET on == [G EXCEPT !.followPh = TRUE, !.follow = FALSE]
       IN Run(IF gui.followPh THEN {[G EXCEPT !.followPh = FALSE]}
              ELSE IF Len0(gui) > 0 THEN InjectSeek(on, on.slider) ELSE {on})

-----------------------------------------------------------------------------
(* The user at the playhead, and the playback timer *)

ToggleFollow == Run(IF gui.follow THEN {[G EXCEPT !.follow = FALSE]} ELSE FollowOn(G))
UserPlays == Run({TogglePlay(G)})
PlayTick == gui.timer /\ Run(Tick(G))

StepBack ==
    /\ Len0(gui) > 0
    /\ LET g == [G EXCEPT !.follow = FALSE]
       IN Run(IF g.slider > 0 THEN SetSlider(g, g.slider - 1) ELSE {g})
JumpStart == Len0(gui) > 0 /\ Run(SetSlider([G EXCEPT !.follow = FALSE], 0))
UserJumpsToEnd == Len0(gui) > 0 /\ Run(JumpEnd(G))

\* A drag goes through the slider, and so does a step forward.
Drag == \E i \in 0..(Len0(gui) - 1) : i # gui.slider /\ Run(SetSlider(G, i))

\* A click in the order table or in the result table seeks as it is; one in the tags or
\* the variables, _seek_ns, stops following first.
SeekTo ==
    \E i \in 0..(Len0(gui) - 1) :
        \/ Run(SeekIndex(G, i))
        \/ gui.follow /\ Run(SeekIndex([G EXCEPT !.follow = FALSE], i))

-----------------------------------------------------------------------------
(* The board and the peers *)

Listening == peer /\ gui.client = "open"

\* handle_cmd, for the commands GMT sends.
Obey(b, c) ==
    CASE c.op = "session" -> [b EXCEPT !.declared = c.n]
      [] c.op = "reset"   -> [b EXCEPT !.win = [s \in Slots |-> {}], !.playing = FALSE]
      [] c.op = "window"  -> [b EXCEPT !.win[c.slot] = c.frames]
      [] c.op = "inject"  -> [b EXCEPT !.playing = FALSE]
      [] c.op = "garbled" -> b

Obeyed(b, cmds) ==
    LET after[n \in 0..Len(cmds)] == IF n = 0 THEN b ELSE Obey(after[n - 1], cmds[n])
    IN after[Len(cmds)]

\* The board handles every line it has received before it looks at anything else.
BoardHandles ==
    /\ Listening /\ wire \notin {<<>>, Garbled} /\ Len(inbox) < MaxInbox
    /\ board' = Obeyed(board, wire) /\ wire' = <<>>
    /\ inbox' = inbox \o [k \in 1..Cardinality({j \in DOMAIN wire : wire[j].op = "inject"})
                            |-> [op |-> "published"]]
    /\ UNCHANGED <<gui, peer>>

\* Of a garbled line it takes each field where it first finds it, if at all: it may refuse
\* the line, publish a frame or stop the play; what its windows hold is not followed.
BoardGuesses ==
    /\ Listening /\ wire = Garbled /\ Len(inbox) < MaxInbox
    /\ inbox' \in {inbox, Append(inbox, [op |-> "published"])}
    /\ board' \in {board, [board EXCEPT !.playing = FALSE]}
    /\ UNCHANGED <<gui, wire, peer>>

\* try_advance_play, for what another client left playing: a frame of the window; the
\* first frame of the other window, after asking for the freed one; a stop for want of
\* a window; the last frame.
BoardPlays ==
    /\ Listening /\ board.playing /\ Len(inbox) < MaxInbox
    /\ \E s \in Slots :
        LET published == [op |-> "published"]
            need == [op |-> "need_window", slot |-> s, from |-> 1]
        IN \E batch \in {<<published>>, <<need, published>>, <<need>>, <<published, [op |-> "eof"]>>} :
            /\ inbox' = inbox \o batch
            /\ board' = [board EXCEPT !.playing = batch \in {<<published>>, <<need, published>>}]
    /\ UNCHANGED <<gui, wire, peer>>

InjectPeerDies ==
    /\ Listening
    /\ peer' = FALSE /\ wire' = <<>> /\ inbox' = <<>> /\ board' = Idle
    /\ UNCHANGED gui

Next ==
    \/ OpenSession \/ OpenSessionFails \/ LoadProject
    \/ ConnectLive \/ DisconnectLive \/ ToggleRecord \/ WsTick
    \/ ConnectInject \/ UserDisconnects \/ InjectTick \/ ToggleFollowPlayhead
    \/ ToggleFollow \/ UserPlays \/ PlayTick \/ Drag \/ StepBack \/ JumpStart
    \/ UserJumpsToEnd \/ SeekTo
    \/ BoardHandles \/ BoardGuesses \/ BoardPlays \/ InjectPeerDies

\* The inject timer fires every 100 ms for as long as it runs.
Fairness == WF_vars(InjectTick)
Spec == Init /\ [][Next]_vars /\ Fairness

-----------------------------------------------------------------------------
(* Properties *)

\* The window's fields have their types; the playhead is on the timeline through loads,
\* growth and wraps, and nothing of a handler is left over when it has returned.
TypeOK ==
    /\ gui.src \in Files \cup {None} /\ gui.live \in 0..MaxRows
    /\ gui.path \in BOOLEAN /\ gui.ready \in BOOLEAN
    /\ gui.slider \in 0..Max({0, Len0(gui) - 1})
    /\ gui.ws \in {None, "open"} /\ gui.client \in {None, "open", "closed"}
    /\ gui.conn = (gui.client # None)
    /\ gui.client = "open" => gui.helper.next \in 0..Len0(gui)
    /\ ~gui.syncing /\ ~gui.asking
    /\ board.win \in [Slots -> SUBSET ((0..MaxRows + 9) \X (Files \cup {Live, Other}))]

\* "Follow latest" and "follow playhead" are never both in charge of the playhead, through
\* every way of switching either on: buttons, keys, slider, connects and disconnects.
FollowExclusive == ~(Sync(gui) /\ gui.follow)

\* Live leaves a timeline alone that was open, or being injected, when it connected: the
\* frames change only when the user loads a file, when rows are appended outside observe
\* mode, or when a Live connect finds nothing to preserve.
LiveKeepsOut ==
    [][LET loaded == gui'.live = 0 /\ gui'.src \in Files /\ gui'.path
           grown == gui'.src = gui.src /\ gui'.live = gui.live + 1 /\ ~gui.observe
           wiped == ~gui.path /\ ~gui.conn /\ gui.ws = None
       IN <<gui.src, gui.live>>' # <<gui.src, gui.live>> => loaded \/ grown \/ wiped]_gui

\* However the inject link ends, by the button, by a failing send deep in a seek or by a
\* tick that finds it dead, the playback is off with it.
StopsWithLink == [][gui.client # None /\ gui'.client = None => ~gui'.playing]_gui

\* Playback that is on has its timer running, also after a wrap that stopped the timer.
PlayIsDriven == gui.playing => gui.timer

\* ... and playback that is off has no timer running.
TimerOnlyWhilePlaying == gui.timer => gui.playing

\* A recording is open only while Live is connected, and while the timeline is the one
\* Live itself began, the rows in the recording are preceded by a clock line.
RecordingSound ==
    gui.log.on => /\ gui.ws # None
                  /\ gui.log.rows /\ gui.src = None /\ ~gui.observe => gui.log.meta

\* Inject results are shown only while the link is connected: also when the answers behind
\* the one that broke the link are still being handled.
ResultsOnlyWhileConnected == gui.shown => gui.conn

\* With nothing on the way, and no line garbled on this link, the board's windows hold
\* frames of the present timeline under their present numbers, and the board has not been
\* told of more frames than there are.
BoardHoldsSession ==
    Listening /\ wire = <<>> =>
        /\ board.declared <= Len0(gui)
        /\ \A s \in Slots : \A fr \in board.win[s] :
                fr[1] < Len0(gui) /\ fr[2] = SourceOf(gui, fr[1])

\* A link whose peer has gone is taken down.
LossNoticed == (gui.client = "closed" \/ (gui.client = "open" /\ ~peer)) ~> (gui.client = None)
=============================================================================
