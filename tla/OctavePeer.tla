------------------------------ MODULE OctavePeer ------------------------------
(***************************************************************************)
(* The planning half of octave_bridge: the main thread, which asks an      *)
(* Octave process for one plan per perception; the watcher thread, which   *)
(* cleans up after a signal; and the worker that feeds the BEV painter.    *)
(*                                                                         *)
(* The two ways of talking to Octave that differ in kind are modelled: the *)
(* pipe of _StdioPeer, and the four files of _FilePeer with the loop of    *)
(* m_plan_fileloop.m at their other end.  CosimLink has the TCP side.      *)
(*                                                                         *)
(* A view is the number of the perception it was built from; a plan is     *)
(* the number of the view it was computed from.                            *)
(***************************************************************************)
EXTENDS Naturals, FiniteSets, Sequences

CONSTANTS
    Ipc,       \* the values of GF_OCTAVE_IPC to consider, of {"stdio", "file"}
    MaxViews,  \* perceptions handled
    MaxOct,    \* Octave processes started
    MaxTries   \* attempts of plan_tick on an OSError, 4 in the code

ASSUME PeerAssumption ==
    /\ Ipc \subseteq {"stdio", "file"}
    /\ MaxViews \in Nat \ {0} /\ MaxOct \in Nat \ {0} /\ MaxTries \in Nat \ {0}

VARIABLES
    ipc,      \* the kind of peer
    pc,       \* where the main thread is
    view,     \* the view being planned for, 0 for the dummy of the warm-up
    warming,  \* the tick belongs to the start of a peer
    booting,  \* the main thread is still before serve_forever
    tries,    \* attempts made for this view
    using,    \* the Octave the running tick talks to, 0 for none
    answer,   \* the plan the tick returned
    session,  \* _SESSION: the Octave kept for the next plans, 0 for None
    oct,      \* [1..MaxOct -> none | run | dead]
    closed,   \* Octaves whose peer was closed: their stdin is closed too
    ask,      \* [1..MaxOct -> the views written to an Octave and not read]
    said,     \* [1..MaxOct -> the plans an Octave has written and nobody has read]
    file,     \* the four files: in.bin, in_seq.bin, out.bin, out_seq.bin
    seq,      \* _FilePeer._seq
    loop,     \* [1..MaxOct -> place, last, n and vec of m_plan_fileloop]
    stop,     \* STOP
    cleaned,  \* _CLEANED
    srvStop,  \* CosimIoServer._stop
    cleaner,  \* [thread -> its place in _cleanup]
    closing,  \* [thread -> the Octave close_octave has taken from _SESSION]
    bev       \* BevAsync: stop flag, queue, place of the worker

Threads == {"main", "watch"}
octs    == <<oct, closed, ask, said, file, loop>>
tick    == <<view, warming, booting, tries, using, answer, seq>>
ends    == <<stop, cleaned, srvStop, cleaner, closing>>
vars    == <<ipc, pc, tick, session, octs, ends, bev>>

Alive(o) == o # 0 /\ oct[o] = "run"
Started  == {o \in 1..MaxOct : oct[o] # "none"}

Init ==
    /\ ipc \in Ipc
    /\ pc = "session" /\ view = 0 /\ warming = FALSE /\ booting = TRUE
    /\ tries = 0 /\ using = 0 /\ answer = 0 /\ session = 0 /\ seq = 0
    /\ oct = [o \in 1..MaxOct |-> "none"] /\ closed = {}
    /\ ask = [o \in 1..MaxOct |-> <<>>] /\ said = [o \in 1..MaxOct |-> <<>>]
    /\ file = [inBin |-> 0, inSeq |-> 0, outBin |-> 0, outSeq |-> 0]
    /\ loop = [o \in 1..MaxOct |-> [at |-> "boot", last |-> 0, n |-> 0, vec |-> 0]]
    /\ stop = FALSE /\ cleaned = FALSE /\ srvStop = FALSE
    /\ cleaner = [t \in Threads |-> "off"] /\ closing = [t \in Threads |-> 0]
    /\ bev = [stop |-> FALSE, queue |-> <<>>, at |-> "get"]

(***************************************************************************)
(* plan_tick and _session: the peer that is kept, or a new one.            *)
(***************************************************************************)
UseSession ==
    /\ pc = "session" /\ session # 0
    /\ using' = session /\ tries' = 0
    /\ pc' = IF booting THEN "serve" ELSE "write"
    /\ booting' = FALSE
    /\ UNCHANGED <<ipc, view, warming, answer, seq, session, octs, ends, bev>>

\* _start_stdio and _start_file: the files are reset before the process is
\* started, and again by the new peer before its warm-up tick.
StartOctave ==
    /\ pc = "session" /\ session = 0
    /\ \E o \in 1..MaxOct :
          /\ oct[o] = "none" /\ \A p \in 1..o - 1 : oct[p] # "none"
          /\ oct' = [oct EXCEPT ![o] = "run"] /\ using' = o
    /\ file' = IF ipc = "file" THEN [file EXCEPT !.inSeq = 0, !.outSeq = 0] ELSE file
    /\ seq' = 0 /\ tries' = MaxTries - 1 /\ warming' = TRUE /\ pc' = "write"
    /\ UNCHANGED <<ipc, view, booting, answer, session, closed, ask, said, loop, ends, bev>>

\* What is asked: the dummy of the warm-up or the view.
Question == IF warming THEN 0 ELSE view

\* An OSError: the same view is asked again, and the last failure ends the
\* client's session.  In the warm-up the peer is closed (stdio) or forgotten
\* with its process running (file), and the error goes to main.
OsError ==
    IF warming
      THEN /\ pc' = "raise" /\ tries' = tries
      ELSE /\ tries' = tries + 1
           /\ pc' = IF tries + 1 < MaxTries THEN "write" ELSE "serve"

Kill(o) == [oct EXCEPT ![o] = "dead"]

\* Stdio: writing to a closed stdin raises ValueError, to a dead process
\* BrokenPipeError.
WriteStdio ==
    /\ pc = "write" /\ ipc = "stdio"
    /\ IF using \in closed THEN pc' = "raise" /\ UNCHANGED <<tries, ask>>
       ELSE IF Alive(using) THEN /\ ask' = [ask EXCEPT ![using] = Append(@, Question)]
                                 /\ pc' = "read" /\ UNCHANGED tries
       ELSE OsError /\ UNCHANGED ask
    /\ UNCHANGED <<ipc, view, warming, booting, using, answer, seq, session, oct, closed, said, file, loop, ends, bev>>

\* File: in.bin first, then its number.
WriteIn ==
    /\ pc = "write" /\ ipc = "file"
    /\ seq' = seq + 1 /\ file' = [file EXCEPT !.inBin = Question]
    /\ pc' = "number"
    /\ UNCHANGED <<ipc, view, warming, booting, tries, using, answer, session, oct, closed, ask, said, loop, ends, bev>>

WriteNumber ==
    /\ pc = "number"
    /\ file' = [file EXCEPT !.inSeq = seq]
    /\ pc' = "read"
    /\ UNCHANGED <<ipc, tick, session, oct, closed, ask, said, loop, ends, bev>>

\* tick returns.  The warm-up's answer makes the peer the session.
Answered(a) ==
    /\ answer' = a
    /\ IF warming THEN /\ session' = using /\ warming' = FALSE /\ pc' = "session"
                  ELSE /\ pc' = "reply" /\ UNCHANGED <<session, warming>>

ReadStdio ==
    /\ pc = "read" /\ ipc = "stdio" /\ said[using] # <<>>
    /\ Answered(Head(said[using]))
    /\ said' = [said EXCEPT ![using] = Tail(@)]
    /\ UNCHANGED <<ipc, view, booting, tries, using, seq, oct, closed, ask, file, loop, ends, bev>>

\* An empty read is a RuntimeError, which no retry catches.
ReadEof ==
    /\ pc = "read" /\ ipc = "stdio" /\ said[using] = <<>> /\ ~Alive(using)
    /\ pc' = "raise"
    /\ UNCHANGED <<ipc, tick, session, octs, ends, bev>>

\* The warm-up of a pipe gives up after 20 s and closes the peer.
WarmTimeout ==
    /\ pc = "read" /\ ipc = "stdio" /\ warming
    /\ oct' = Kill(using) /\ closed' = closed \cup {using} /\ pc' = "raise"
    /\ UNCHANGED <<ipc, tick, session, ask, said, file, loop, ends, bev>>

SeesAnyNumber(n) == n > 0   \* mutant: any answer will do
SeesNumber(n) == n = seq

PollFile ==
    /\ pc = "read" /\ ipc = "file" /\ Alive(using) /\ SeesNumber(file.outSeq)
    /\ pc' = "out"
    /\ UNCHANGED <<ipc, tick, session, octs, ends, bev>>

ReadOut ==
    /\ pc = "out"
    /\ Answered(file.outBin)
    /\ UNCHANGED <<ipc, view, booting, tries, using, seq, octs, ends, bev>>

\* 5 s without the number: TimeoutError, an OSError.
FileTimeout ==
    /\ pc = "read" /\ ipc = "file"
    /\ OsError
    /\ UNCHANGED <<ipc, view, warming, booting, using, answer, seq, session, octs, ends, bev>>

\* proc.poll() reports that Octave has ended: RuntimeError.
FileExited ==
    /\ pc = "read" /\ ipc = "file" /\ ~Alive(using)
    /\ pc' = "raise"
    /\ UNCHANGED <<ipc, tick, session, octs, ends, bev>>

(***************************************************************************)
(* The server's loop, seen from the planner.                               *)
(***************************************************************************)
\* A perception arrives and on_tick calls plan_tick.
Perception ==
    /\ pc = "serve" /\ ~srvStop /\ view < MaxViews
    /\ view' = view + 1 /\ pc' = "session"
    /\ UNCHANGED <<ipc, warming, booting, tries, using, answer, seq, session, octs, ends, bev>>

\* The plan is sent, and submitted to the painter, which drops it when the
\* period has not passed or an earlier one is waiting.
Reply ==
    /\ pc = "reply"
    /\ pc' = "serve"
    /\ \/ /\ bev.queue = <<>> /\ bev' = [bev EXCEPT !.queue = <<view>>]
       \/ UNCHANGED bev
    /\ UNCHANGED <<ipc, tick, session, octs, ends>>

\* serve_forever returns and main reaches its finally; so does an exception
\* that leaves it.  In the boot main cleans up and returns 1.
LeaveServe ==
    /\ \/ pc = "serve" /\ srvStop
       \/ pc = "raise"
    /\ pc' = "finally"
    /\ cleaner' = [cleaner EXCEPT !["main"] = "enter"]
    /\ UNCHANGED <<ipc, tick, session, octs, closing, stop, cleaned, srvStop, bev>>

\* main returns: the daemon threads go with the process.
MainEnds ==
    /\ pc = "finally" /\ cleaner["main"] = "done"
    /\ pc' = "ended"
    /\ UNCHANGED <<ipc, tick, session, octs, ends, bev>>

(***************************************************************************)
(* _cleanup, by whichever thread comes first.                              *)
(***************************************************************************)
Signal ==
    /\ ~stop /\ pc # "ended"
    /\ stop' = TRUE
    /\ UNCHANGED <<ipc, pc, tick, session, octs, closing, cleaned, srvStop, cleaner, bev>>

\* The watcher is started after the warm-up.
WatchStops ==
    /\ stop /\ ~booting /\ cleaner["watch"] = "off" /\ pc # "ended"
    /\ cleaner' = [cleaner EXCEPT !["watch"] = "enter"]
    /\ UNCHANGED <<ipc, pc, tick, session, octs, closing, stop, cleaned, srvStop, bev>>

Running(t) == t = "watch" => pc # "ended"

\* The flag is tested and then set: both threads can pass the test.
EnterCleanup(t) ==
    /\ cleaner[t] = "enter" /\ Running(t)
    /\ cleaner' = [cleaner EXCEPT ![t] = IF cleaned THEN "done" ELSE "mark"]
    /\ UNCHANGED <<ipc, pc, tick, session, octs, closing, stop, cleaned, srvStop, bev>>

MarkCleaned(t) ==
    /\ cleaner[t] = "mark" /\ Running(t)
    /\ cleaned' = TRUE
    /\ cleaner' = [cleaner EXCEPT ![t] = "bev"]
    /\ UNCHANGED <<ipc, pc, tick, session, octs, closing, stop, srvStop, bev>>

\* BevAsync.stop: the None that wakes the worker does not fit a full queue.
StopBev(t) ==
    /\ cleaner[t] = "bev" /\ Running(t)
    /\ bev' = [bev EXCEPT !.stop = TRUE, !.queue = IF @ = <<>> THEN <<0>> ELSE @]
    /\ cleaner' = [cleaner EXCEPT ![t] = "srv"]
    /\ UNCHANGED <<ipc, pc, tick, session, octs, closing, stop, cleaned, srvStop>>

StopServerUnset(t) ==   \* mutant: the listening socket is closed, _stop not set
    /\ cleaner[t] = "srv" /\ Running(t)
    /\ cleaner' = [cleaner EXCEPT ![t] = "close"]
    /\ UNCHANGED <<ipc, pc, tick, session, octs, closing, stop, cleaned, srvStop, bev>>

StopServer(t) ==
    /\ cleaner[t] = "srv" /\ Running(t)
    /\ srvStop' = (srvStop \/ ~booting)
    /\ cleaner' = [cleaner EXCEPT ![t] = "close"]
    /\ UNCHANGED <<ipc, pc, tick, session, octs, closing, stop, cleaned, bev>>

\* close_octave: the session is forgotten, and then its process killed.
ForgetSession(t) ==
    /\ cleaner[t] = "close" /\ Running(t)
    /\ session' = 0
    /\ closing' = [closing EXCEPT ![t] = session]
    /\ cleaner' = [cleaner EXCEPT ![t] = "kill"]
    /\ UNCHANGED <<ipc, pc, tick, octs, stop, cleaned, srvStop, bev>>

CloseOctave(t) ==
    /\ cleaner[t] = "kill" /\ Running(t)
    /\ IF closing[t] = 0 THEN UNCHANGED <<oct, closed>>
                          ELSE oct' = Kill(closing[t]) /\ closed' = closed \cup {closing[t]}
    /\ cleaner' = [cleaner EXCEPT ![t] = "sweep"]
    /\ UNCHANGED <<ipc, pc, tick, session, ask, said, file, loop, stop, cleaned, srvStop, closing, bev>>

SweepNothing(t) ==   \* mutant: only the session's process is killed
    /\ cleaner[t] = "sweep" /\ Running(t)
    /\ cleaner' = [cleaner EXCEPT ![t] = "done"]
    /\ UNCHANGED <<ipc, pc, tick, session, octs, closing, stop, cleaned, srvStop, bev>>

\* kill_matching("octave-cli"): every Octave there is at that moment.
Sweep(t) ==
    /\ cleaner[t] = "sweep" /\ Running(t)
    /\ oct' = [o \in 1..MaxOct |-> IF oct[o] = "run" THEN "dead" ELSE oct[o]]
    /\ cleaner' = [cleaner EXCEPT ![t] = "done"]
    /\ UNCHANGED <<ipc, pc, tick, session, closed, ask, said, file, loop, closing, stop, cleaned, srvStop, bev>>

Cleanup(t) ==
    \/ EnterCleanup(t) \/ MarkCleaned(t) \/ StopBev(t) \/ StopServer(t)
    \/ ForgetSession(t) \/ CloseOctave(t) \/ Sweep(t)

(***************************************************************************)
(* The worker of BevAsync.                                                 *)
(***************************************************************************)
BevGet ==
    /\ bev.at = "get" /\ pc # "ended"
    /\ \/ bev.stop /\ bev' = [bev EXCEPT !.at = "ended"]
       \/ /\ bev.queue # <<>>
          /\ LET v == Head(bev.queue) IN
               bev' = [bev EXCEPT !.queue = <<>>,
                                  !.at = IF v = 0 THEN "ended" ELSE "feed"]
    /\ UNCHANGED <<ipc, pc, tick, session, octs, ends>>

\* BevFeed.update writes the view to the painter, or raises and is logged.
BevFeed ==
    /\ bev.at = "feed" /\ pc # "ended"
    /\ bev' = [bev EXCEPT !.at = "get"]
    /\ UNCHANGED <<ipc, pc, tick, session, octs, ends>>

(***************************************************************************)
(* Octave.                                                                 *)
(***************************************************************************)
\* m_plan_stdio answers frame by frame, and ends with its input.
StdioLoop(o) ==
    /\ ipc = "stdio" /\ Alive(o)
    /\ \/ /\ ask[o] # <<>>
          /\ said' = [said EXCEPT ![o] = Append(@, Head(ask[o]))]
          /\ ask' = [ask EXCEPT ![o] = Tail(@)]
          /\ UNCHANGED oct
       \/ /\ ask[o] = <<>> /\ (o \in closed \/ pc = "ended")
          /\ oct' = Kill(o) /\ UNCHANGED <<ask, said>>
    /\ UNCHANGED <<ipc, pc, tick, session, closed, file, loop, ends, bev>>

\* m_plan_fileloop, one file access at a time.
FileLoop(o) ==
    /\ ipc = "file" /\ Alive(o)
    /\ LET l == loop[o] IN
         \/ /\ l.at = "boot"
            /\ file' = [file EXCEPT !.outSeq = 0]
            /\ loop' = [loop EXCEPT ![o].at = "wait"]
         \/ /\ l.at = "wait" /\ file.inSeq > l.last
            /\ loop' = [loop EXCEPT ![o].at = "in", ![o].n = file.inSeq]
            /\ UNCHANGED file
         \/ /\ l.at = "in"
            /\ loop' = [loop EXCEPT ![o].at = "out", ![o].vec = file.inBin]
            /\ UNCHANGED file
         \/ /\ l.at = "out"
            /\ file' = [file EXCEPT !.outBin = l.vec]
            /\ loop' = [loop EXCEPT ![o].at = "seq"]
         \/ /\ l.at = "seq"
            /\ file' = [file EXCEPT !.outSeq = l.n]
            /\ loop' = [loop EXCEPT ![o].at = "wait", ![o].last = l.n]
    /\ UNCHANGED <<ipc, pc, tick, session, oct, closed, ask, said, ends, bev>>

OctaveDies ==
    /\ \E o \in 1..MaxOct : Alive(o) /\ oct' = Kill(o)
    /\ UNCHANGED <<ipc, pc, tick, session, closed, ask, said, file, loop, ends, bev>>

Octave == \E o \in 1..MaxOct : StdioLoop(o) \/ FileLoop(o)

Main ==
    \/ UseSession \/ StartOctave \/ WriteStdio \/ WriteIn \/ WriteNumber
    \/ ReadStdio \/ ReadEof \/ PollFile \/ ReadOut \/ FileTimeout \/ FileExited
    \/ Reply \/ LeaveServe \/ MainEnds \/ Cleanup("main")

Watcher == WatchStops \/ Cleanup("watch")
Worker  == BevGet \/ BevFeed

Next == Main \/ Watcher \/ Worker \/ Octave \/ WarmTimeout \/ Perception \/ Signal \/ OctaveDies

Spec == Init /\ [][Next]_vars

(***************************************************************************)
(* Every thread is scheduled, and an Octave that runs answers.             *)
(***************************************************************************)
Fairness == WF_vars(Main) /\ WF_vars(Watcher) /\ WF_vars(Worker) /\ WF_vars(Octave)

FairSpec == Spec /\ Fairness

TypeOK ==
    /\ ipc \in Ipc
    /\ pc \in {"session", "write", "number", "read", "out", "reply", "serve", "raise", "finally", "ended"}
    /\ view \in 0..MaxViews /\ answer \in 0..MaxViews
    /\ warming \in BOOLEAN /\ booting \in BOOLEAN /\ tries \in 0..MaxTries
    /\ using \in 0..MaxOct /\ session \in 0..MaxOct /\ seq \in Nat
    /\ oct \in [1..MaxOct -> {"none", "run", "dead"}] /\ closed \subseteq Started
    /\ \A o \in 1..MaxOct : Len(ask[o]) + Len(said[o]) <= 1
    /\ stop \in BOOLEAN /\ cleaned \in BOOLEAN /\ srvStop \in BOOLEAN
    /\ bev.at \in {"get", "feed", "ended"} /\ Len(bev.queue) <= 1

\* A plan that goes out was computed from the view it is sent for, whatever
\* timed out, was retried or was answered late before.  Once the clean-up has
\* taken the session away, a second Octave started by a plan in flight shares
\* the files with the first for a moment, and the numbers can coincide.
AnswerMatchesQuestion ==
    pc = "reply" /\ Cardinality(Started) = 1 => answer = view

\* While the bridge serves it runs one Octave: only a plan caught in the
\* clean-up starts another, and it is the last.
OneOctaveUnlessCleaning == ~cleaned => Cardinality(Started) <= 1

\* A signal ends the process, with a plan in flight, a peer that is warming up,
\* or an Octave that has just died.
StopEnds == stop ~> pc = "ended"

\* An Octave outlives the bridge only when the process ended under a watcher
\* still cleaning up, or when a plan in flight started it after the clean-up;
\* one whose warm-up failed does not, although _session has lost it.
OrphanHasCause ==
    pc = "ended" /\ (\E o \in 1..MaxOct : Alive(o)) =>
        \/ cleaner["watch"] \in {"mark", "bev", "srv", "close", "kill", "sweep"}
        \/ Cardinality(Started) > 1
=============================================================================
