---------------------------- MODULE DoipSession ----------------------------
(***************************************************************************)
(* The diagnostic connection of the GMT: the OTA/UDS panel (ota_panel.py), *)
(* its worker threads, the DoIP client they share (doip_client.py), and    *)
(* the board's DoIP server and UDS dispatcher behind it.                   *)
(*                                                                         *)
(* The client asks a question and then waits for an acknowledgement (ACK)  *)
(* and for an answer, by frame type only: nothing ties a frame to the      *)
(* question it belongs to.  A wait may time out; the late frames then stay *)
(* in the stream.  The panel's thread asks for itself (keep-alive, DTCs,   *)
(* events) and a worker thread runs the software update.                   *)
(***************************************************************************)
EXTENDS Integers, Sequences, FiniteSets

CONSTANTS
  Configs,       \* the diag.yaml settings tried: [mode, prog, sec]
  Blocks,        \* TransferData blocks of the package
  SeqMax,        \* last block sequence number before it wraps to 0 (0xFF)
  MaxRuns,       \* bound: updates started
  MaxFaults      \* bound: waits that time out, S3 timeouts, links lost, restarts,
                 \* pages read while an update runs

ASSUME DoipAssumption ==
  /\ Configs \subseteq [mode : {"transfer", "routine"}, prog : BOOLEAN, sec : BOOLEAN]
  /\ Configs # {}
  /\ {Blocks, SeqMax, MaxRuns} \subseteq Nat \ {0}
  /\ MaxFaults \in Nat

VARIABLES
  cfg,           \* the settings of the project, the same on both sides
  \* ----- the panel
  client,        \* self._client is set
  worker,        \* self._worker: "none", "connect" or "ota"
  posted,        \* the signal a worker has posted to the panel, or "none"
  timer,         \* self._tp_timer is active
  dialog,        \* the question of _on_dem_clear is on the screen
  result,        \* the status label: "none", "running", "ok" or "err"
  \* ----- the two users of the client, and the worker's place in its list
  call,          \* per thread: the question asked and what it waits for
  step,          \* index of the worker's question in its list; 0: thread over
  \* ----- the connection
  link,          \* "none", "up", or "broken" (the peer is gone)
  rx,            \* frames on their way to the client, its buffer included
  tx,            \* questions the board has not dealt with
  acked,         \* the first of them has had its ACK
  \* ----- the board: UdsDispatcher
  session,       \* "default", "prog" or "ext"
  unlocked,      \* security_unlocked_
  seed,          \* pending_seed_ is not empty
  xfer,          \* the transfer: [on, next, got]
  \* ----- history
  run,           \* number of the last update started
  late,          \* the answer to an earlier update's exit could still come then
  activated,     \* updates whose package the board activated
  trouble,       \* the last update met something that excuses its failure
  faults         \* how many of those there have been

panelVars == <<client, worker, posted, timer, dialog, result>>
boardVars == <<session, unlocked, seed, xfer, activated>>
netVars   == <<link, rx, tx, acked>>
updateVars == <<run, late>>
vars == <<cfg, panelVars, call, step, netVars, boardVars, updateVars, trouble, faults>>

Threads == {"gui", "worker"}

(***************************************************************************)
(* Questions and answers.                                                  *)
(***************************************************************************)
Pages == {"dem", "dump"}

\* Questions the panel's thread asks: the silent keep-alive, the
\* TesterPresent after a failed update, and the DEM and Collector pages.
GuiQuestions == {"keepalive", "still_there"} \cup Pages

\* The questions of a connect worker: activation, then one TesterPresent.
ConnectSteps == <<"route", "present">>

\* The questions of an update, in order: session, security, transfer.
OtaSteps ==
  LET opening == <<"session">> \o (IF cfg.sec THEN <<"seed", "key">> ELSE <<>>)
  IN  opening \o (IF cfg.mode = "routine" THEN <<"routine">>
                  ELSE <<"start">> \o [i \in 1..Blocks |-> "block"] \o <<"exit">>)

WorkerSteps == IF worker = "connect" THEN ConnectSteps ELSE OtaSteps

\* Which block of the package the worker's question number i carries.
BlockOf(steps, i) ==
  IF steps[i] = "block" THEN Cardinality({j \in 1..i : steps[j] = "block"}) ELSE 0

\* The sequence number of a block: 1, 2, ... SeqMax, 0, 1, ...
SeqNo(b) == b % (SeqMax + 1)

Questions == GuiQuestions \cup {"route", "present", "session", "seed", "key",
                                "routine", "start", "block", "exit"}
Answers   == {"present", "session", "seed", "key", "routine_ok", "routine_fail",
              "start", "block", "exit", "dem", "dump", "nrc"}

\* The frame type a wait is over with.
Awaited(wait, f) ==
  CASE wait = "route" -> f = "route"
    [] wait = "ack"   -> f = "ack"
    [] wait = "diag"  -> f \in Answers

\* What a step of the update (or of a connect) accepts as its answer.  Only a
\* seed and a block are compared with what was asked; anything positive does
\* for the rest.
Accepts(q, a) ==
  /\ a # "nrc" \/ q = "present"
  /\ q = "seed" => a = "seed"
  /\ q = "block" => a = "block"

\* mutant: any positive answer to the last question is taken for success
VerdictAny(a) == a # "nrc"

\* The verdict on the last answer: 0x77, or 0x71 with a zero in its fifth byte.
\* The dump of the event ring starts with 0x71 too, and its fifth byte is the
\* high half of the number of events.
VerdictOk(a) ==
  IF cfg.mode = "routine" THEN a \in {"routine_ok", "dump"} ELSE a = "exit"

(***************************************************************************)
(* Calls on the client.                                                    *)
(***************************************************************************)
NoCall  == [q |-> "none", wait |-> "none"]
\* Something goes wrong that excuses the failure of an update.
Fault == faults < MaxFaults /\ faults' = faults + 1 /\ trouble' = TRUE

GuiIdle == call["gui"] = NoCall
Busy    == worker # "none" /\ step # 0

\* transceive: sends a question and starts to wait.  On a broken link the
\* bytes go nowhere.
Ask(th, q, b, r) ==
  /\ call' = [call EXCEPT ![th] = [q |-> q, wait |-> IF q = "route" THEN "route" ELSE "ack"]]
  /\ tx' = IF link' = "up" THEN Append(tx, [q |-> q, blk |-> b, run |-> r, live |-> TRUE])
           ELSE tx

AskStep(i, r) == Ask("worker", WorkerSteps[i], BlockOf(WorkerSteps, i), r)

\* What the board does with the questions of a connection that is gone: those
\* it has received are dealt with and not answered; the others are lost.
Orphaned(kept) ==
  LET old == [i \in DOMAIN tx |-> [tx[i] EXCEPT !.live = FALSE]]
  IN  IF kept THEN old ELSE IF acked THEN <<old[1]>> ELSE <<>>

\* DoipClient.close
CloseClient ==
  /\ link' = "none" /\ rx' = <<>>
  /\ \E kept \in BOOLEAN : tx' = Orphaned(kept)

\* Questions of this connection that the board still has an answer for.
Unanswered == {i \in DOMAIN tx : tx[i].live /\ tx[i].q # "keepalive"}

\* A question asked now would be given the answer to an older one: an ACK to
\* come, or to be read, has an answer behind it.
Misaligned ==
  \/ \E i, j \in DOMAIN rx : i < j /\ rx[i] = "ack" /\ rx[j] \in Answers
  \/ Unanswered # {} /\ \E i \in DOMAIN rx : rx[i] = "ack"
  \/ \E i \in Unanswered : i > 1 \/ ~acked

\* The answer to an update's last question is still to be read.
ExitDue ==
  \/ \E i \in DOMAIN rx : rx[i] = "exit"
  \/ \E i \in Unanswered : tx[i].q = "exit"

\* A transfer that is off; what its counters hold then is reset by the next start.
NoXfer == [on |-> FALSE, next |-> 1, got |-> <<>>]

Init ==
  /\ cfg \in Configs
  /\ client = FALSE /\ worker = "none" /\ posted = "none" /\ timer = FALSE
  /\ dialog = FALSE /\ result = "none"
  /\ call = [th \in Threads |-> NoCall] /\ step = 0
  /\ link = "none" /\ rx = <<>> /\ tx = <<>> /\ acked = FALSE
  /\ session = "default" /\ unlocked = FALSE /\ seed = FALSE /\ xfer = NoXfer
  /\ run = 0 /\ late = FALSE /\ activated = {} /\ trouble = FALSE /\ faults = 0

(***************************************************************************)
(* What a call comes to.  GuiDone: the panel's handler goes on;            *)
(* WorkerGoesOn, WorkerFails: the worker does.                             *)
(***************************************************************************)
\* _disconnect
Disconnect ==
  /\ timer' = FALSE /\ client' = FALSE
  /\ CloseClient

\* mutant: a keep-alive that fails is ignored like a page that fails
GuiDoneQuietly(ok, left) ==
  /\ call' = [call EXCEPT !["gui"] = NoCall]
  /\ IF ok \/ call["gui"].q # "still_there"
     THEN /\ timer' = (timer \/ call["gui"].q = "still_there")
          /\ rx' = left
          /\ UNCHANGED <<client, link, tx>>
     ELSE Disconnect
  /\ UNCHANGED <<worker, posted, step>>

GuiDone(ok, left) ==
  /\ call' = [call EXCEPT !["gui"] = NoCall]
  /\ IF ok \/ call["gui"].q \in Pages
     THEN /\ timer' = (timer \/ call["gui"].q = "still_there")
          /\ rx' = left
          /\ UNCHANGED <<client, link, tx>>
     ELSE Disconnect
  /\ UNCHANGED <<worker, posted, step>>

Post(s) == /\ posted' = s /\ step' = 0
           /\ call' = [call EXCEPT !["worker"] = NoCall]

WorkerGoesOn(a) ==
  /\ IF worker = "ota" /\ ~Accepts(WorkerSteps[step], a)
     THEN Post("ota_err") /\ UNCHANGED tx
     ELSE IF step = Len(WorkerSteps)
     THEN /\ Post(IF worker = "connect" THEN "connect_ok"
                  ELSE IF VerdictOk(a) THEN "ota_ok" ELSE "ota_err")
          /\ UNCHANGED tx
     ELSE /\ step' = step + 1 /\ AskStep(step + 1, run)
          /\ UNCHANGED posted
  /\ UNCHANGED <<client, worker, timer>>

WorkerFails ==
  /\ IF worker = "connect" THEN Post("connect_err") /\ CloseClient
     ELSE Post("ota_err") /\ UNCHANGED <<link, rx, tx>>
  /\ UNCHANGED <<client, worker, timer>>

Failed(th) == IF th = "gui" THEN GuiDone(FALSE, rx) ELSE WorkerFails

(***************************************************************************)
(* The waits of transceive and routing_activation (_recv_payload).         *)
(***************************************************************************)
\* The next frame is taken; one of another type is dropped.  Looking at the buffer and
\* cutting the frame off it is one step here; in the code the other thread may cut in
\* between, and what is left then need not start with a frame.
Recv(th) ==
  /\ call[th] # NoCall /\ rx # <<>>
  /\ LET f == Head(rx)
         w == call[th].wait
     IN  IF ~Awaited(w, f)
         THEN /\ rx' = Tail(rx)
              /\ UNCHANGED <<call, link, tx, client, worker, posted, timer, step>>
         ELSE IF w = "ack"
         THEN /\ rx' = Tail(rx) /\ call' = [call EXCEPT ![th].wait = "diag"]
              /\ UNCHANGED <<link, tx, client, worker, posted, timer, step>>
         ELSE IF th = "gui" THEN GuiDone(TRUE, Tail(rx))
         ELSE rx' = Tail(rx) /\ UNCHANGED link /\ WorkerGoesOn(f)
  /\ UNCHANGED <<cfg, dialog, result, acked, boardVars, updateVars, trouble, faults>>

InWindow(th) == th = "gui" /\ call["gui"] = [q |-> "keepalive", wait |-> "diag"]

\* The keep-alive is not answered: 50 ms after its ACK the wait is over.  An
\* error in that time, a closed connection too, is taken for silence.
Window ==
  /\ InWindow("gui") /\ rx = <<>>
  /\ GuiDone(TRUE, rx)
  /\ UNCHANGED <<cfg, dialog, result, acked, boardVars, updateVars, trouble, faults>>

\* A wait is over while the board, or the network, takes its time.
TimeOut(th) ==
  /\ call[th] # NoCall /\ ~InWindow(th) /\ rx = <<>> /\ link = "up"
  /\ Fault
  /\ Failed(th)
  /\ UNCHANGED <<cfg, dialog, result, acked, boardVars, updateVars>>

\* mutant: reads without a timeout
StarvedNever(th) == FALSE

\* A wait is over because nothing is left to come: the other thread has taken
\* the answer.
Starved(th) ==
  /\ call[th] # NoCall /\ ~InWindow(th) /\ rx = <<>> /\ link = "up"
  /\ ~\E i \in DOMAIN tx : tx[i].live
  /\ Failed(th)
  /\ UNCHANGED <<cfg, dialog, result, acked, boardVars, updateVars, trouble, faults>>

\* The peer is gone: the send raises, or the read once the frames are used up.
LinkError(th) ==
  /\ call[th] # NoCall /\ ~InWindow(th) /\ link = "broken"
  /\ rx = <<>> \/ call[th].wait # "diag"
  /\ Failed(th)
  /\ UNCHANGED <<cfg, dialog, result, acked, boardVars, updateVars, trouble, faults>>

(***************************************************************************)
(* The panel.                                                              *)
(***************************************************************************)
\* _on_connect; the worker connects first, see TcpConnect.
Connect ==
  /\ GuiIdle /\ ~dialog /\ worker = "none" /\ ~client
  /\ worker' = "connect" /\ step' = 1
  /\ UNCHANGED <<cfg, client, posted, timer, dialog, result, call, netVars, boardVars,
                 updateVars, trouble, faults>>

\* _ConnectWorker: the connection, and RoutingActivation behind it.
TcpConnect ==
  /\ worker = "connect" /\ step = 1 /\ link = "none"
  /\ link' = "up" /\ AskStep(1, run)
  /\ UNCHANGED <<cfg, panelVars, step, rx, acked, boardVars, updateVars, trouble, faults>>

TcpRefused ==
  /\ worker = "connect" /\ step = 1 /\ link = "none"
  /\ Post("connect_err")
  /\ UNCHANGED <<cfg, client, worker, timer, dialog, result, netVars, boardVars,
                 updateVars, trouble, faults>>

\* _on_disconnect
UserDisconnects ==
  /\ GuiIdle /\ ~dialog /\ worker = "none" /\ client
  /\ Disconnect
  /\ UNCHANGED <<cfg, worker, posted, dialog, result, call, step, acked, boardVars,
                 updateVars, trouble, faults>>

\* _on_start: the keep-alive pauses while the update runs.
Start ==
  /\ GuiIdle /\ ~dialog /\ worker = "none" /\ client
  /\ run < MaxRuns
  /\ run' = run + 1 /\ trouble' = (Misaligned \/ link = "broken")
  /\ late' = ExitDue
  /\ worker' = "ota" /\ step' = 1 /\ timer' = FALSE /\ result' = "running"
  /\ UNCHANGED link
  /\ Ask("worker", OtaSteps[1], 0, run + 1)
  /\ UNCHANGED <<cfg, client, posted, dialog, rx, acked, boardVars, faults>>

\* _on_tester_present_tick
KeepAlive ==
  /\ GuiIdle /\ timer /\ client /\ ~Busy
  /\ UNCHANGED link /\ Ask("gui", "keepalive", 0, run)
  /\ UNCHANGED <<cfg, panelVars, step, rx, acked, boardVars, updateVars, trouble, faults>>

\* A page asks on the panel's thread, a running update or not.
AskPage(q) ==
  /\ UNCHANGED link /\ Ask("gui", q, 0, run)
  /\ IF Busy THEN Fault ELSE UNCHANGED <<trouble, faults>>

\* _on_dem_read and _load_uds of the collector page
ReadPage(q) ==
  /\ GuiIdle /\ ~dialog /\ client
  /\ AskPage(q)
  /\ UNCHANGED <<cfg, panelVars, step, rx, acked, boardVars, updateVars>>

\* _on_dem_clear: while its question is on the screen the timer and the
\* workers' signals are served.
ClearAsked ==
  /\ GuiIdle /\ ~dialog /\ client
  /\ dialog' = TRUE
  /\ UNCHANGED <<cfg, client, worker, posted, timer, result, call, step, netVars,
                 boardVars, updateVars, trouble, faults>>

ClearAnswered(yes) ==
  /\ GuiIdle /\ dialog
  /\ dialog' = FALSE
  /\ IF yes /\ client THEN AskPage("dem") ELSE UNCHANGED <<link, call, tx, trouble, faults>>
  /\ UNCHANGED <<cfg, client, worker, posted, timer, result, step, rx, acked, boardVars,
                 updateVars>>

\* _on_connect_ok and _on_connect_err
OnConnect ==
  /\ GuiIdle /\ posted \in {"connect_ok", "connect_err"}
  /\ posted' = "none" /\ worker' = "none"
  /\ client' = (posted = "connect_ok") /\ timer' = client'
  /\ UNCHANGED <<cfg, dialog, result, call, step, netVars, boardVars, updateVars, trouble, faults>>

\* _on_ok
OnOk ==
  /\ GuiIdle /\ posted = "ota_ok"
  /\ posted' = "none" /\ worker' = "none" /\ result' = "ok"
  /\ timer' = client
  /\ UNCHANGED <<cfg, client, dialog, call, step, netVars, boardVars, updateVars, trouble, faults>>

\* _on_err: the board is asked whether it is still there.
OnErr ==
  /\ GuiIdle /\ posted = "ota_err"
  /\ posted' = "none" /\ worker' = "none" /\ result' = "err"
  /\ UNCHANGED link /\ Ask("gui", "still_there", 0, run)
  /\ UNCHANGED <<cfg, client, timer, dialog, step, rx, acked, boardVars, updateVars, trouble, faults>>

(***************************************************************************)
(* The board.                                                              *)
(***************************************************************************)
Say(f) == rx' = IF tx[1].live THEN Append(rx, f) ELSE rx

\* ServeClient: RoutingActivation is answered, a question acknowledged.
BoardAck ==
  /\ tx # <<>> /\ ~acked
  /\ IF tx[1].q = "route" THEN Say("route") /\ tx' = Tail(tx) /\ acked' = FALSE
                          ELSE Say("ack") /\ acked' = TRUE /\ UNCHANGED tx
  /\ UNCHANGED <<cfg, panelVars, call, step, link, boardVars, updateVars, trouble, faults>>

\* OtaGateOk
GateOk == (cfg.prog => session = "prog") /\ (cfg.sec => unlocked)

\* AbortTransfer
AbortTransfer == xfer' = NoXfer

Answered(a) == IF a = "none" THEN UNCHANGED rx ELSE Say(a)

\* The bytes of the package, complete and in order.
Whole(r) == [b \in 1..Blocks |-> <<r, b>>]

\* One question handled: its answer goes out, the next one is looked at.
Handling(qs, a) ==
  /\ tx # <<>> /\ acked /\ tx[1].q \in qs
  /\ Answered(a) /\ tx' = Tail(tx) /\ acked' = FALSE
  /\ UNCHANGED <<cfg, panelVars, call, step, link, updateVars, faults>>

\* mutant: the keep-alive asks for an answer
HandlePlainAnswers ==
  /\ \E q \in {"keepalive", "still_there", "present"} \cup Pages :
       Handling({q}, CASE q \in {"keepalive", "still_there"} -> "present"
                       [] OTHER -> q)
  /\ UNCHANGED <<boardVars, trouble>>

\* TesterPresent, the DTC services and the dump of the event ring leave the
\* session alone; the silent TesterPresent has no answer.
HandlePlain ==
  /\ \E q \in {"keepalive", "still_there", "present"} \cup Pages :
       Handling({q}, CASE q = "keepalive" -> "none"
                       [] q = "still_there" -> "present"
                       [] OTHER -> q)
  /\ UNCHANGED <<boardVars, trouble>>

\* 0x10: programming or extended session; the lock stays as it is.
HandleSession ==
  /\ Handling({"session"}, "session")
  /\ session' = IF cfg.prog THEN "prog" ELSE "ext"
  /\ UNCHANGED <<unlocked, seed, xfer, activated, trouble>>

\* HandleSecurityAccess
HandleSeed ==
  /\ Handling({"seed"}, "seed")
  /\ seed' = TRUE
  /\ UNCHANGED <<session, unlocked, xfer, activated, trouble>>

HandleKey ==
  /\ Handling({"key"}, IF seed THEN "key" ELSE "nrc")
  /\ seed' = FALSE /\ unlocked' = (unlocked \/ seed)
  /\ UNCHANGED <<session, xfer, activated, trouble>>

\* mutant: a new transfer goes on counting where the last one stopped
HandleStartKeeps ==
  \E opens \in BOOLEAN :
    /\ Handling({"start"}, IF GateOk /\ opens THEN "start" ELSE "nrc")
    /\ xfer' = IF ~GateOk THEN xfer ELSE [xfer EXCEPT !.on = opens]
    /\ trouble' = (trouble \/ ~opens)
    /\ UNCHANGED <<session, unlocked, seed, activated>>

\* HandleRequestFileTransfer, HandleRequestDownload: a staging file that
\* cannot be opened refuses the transfer.
HandleStart ==
  \E opens \in BOOLEAN :
    /\ Handling({"start"}, IF GateOk /\ opens THEN "start" ELSE "nrc")
    /\ xfer' = IF ~GateOk THEN xfer ELSE [NoXfer EXCEPT !.on = opens]
    /\ trouble' = (trouble \/ ~opens)
    /\ UNCHANGED <<session, unlocked, seed, activated>>

NextSeq(n) == IF n = SeqMax THEN 0 ELSE n + 1

\* HandleTransferData; a write may fail.
HandleBlock ==
  \E written \in BOOLEAN :
    LET r == tx[1]
        inOrder == xfer.on /\ SeqNo(r.blk) = xfer.next
    IN  /\ Handling({"block"}, IF inOrder /\ written THEN "block" ELSE "nrc")
        /\ xfer' = IF ~inOrder THEN xfer
                   ELSE IF ~written THEN NoXfer
                   ELSE [xfer EXCEPT !.next = NextSeq(@), !.got = Append(@, <<r.run, r.blk>>)]
        /\ trouble' = (trouble \/ ~written)
        /\ UNCHANGED <<session, unlocked, seed, activated>>

\* HandleRequestTransferExit and the activation behind it, which the update
\* manager may refuse.
HandleExit ==
  \E accepted \in BOOLEAN :
    LET complete == xfer.on /\ Len(xfer.got) = Blocks
    IN  /\ Handling({"exit"}, IF complete /\ accepted THEN "exit" ELSE "nrc")
        /\ activated' = IF complete /\ accepted THEN activated \cup {tx[1].run} ELSE activated
        /\ xfer' = NoXfer
        /\ trouble' = (trouble \/ ~accepted)
        /\ UNCHANGED <<session, unlocked, seed>>

\* OtaRoutine
HandleRoutine ==
  \E accepted \in BOOLEAN :
    /\ Handling({"routine"}, IF accepted THEN "routine_ok" ELSE "routine_fail")
    /\ activated' = IF accepted THEN activated \cup {tx[1].run} ELSE activated
    /\ trouble' = (trouble \/ ~accepted)
    /\ UNCHANGED <<session, unlocked, seed, xfer>>

\* mutant: the session falls back, the transfer stays open
S3KeepsTransfer ==
  /\ session # "default"
  /\ session' = "default" /\ unlocked' = FALSE /\ seed' = FALSE
  /\ Fault
  /\ UNCHANGED <<cfg, panelVars, call, step, netVars, activated, updateVars, xfer>>

\* TickTimeouts: nothing was asked for S3.
S3 ==
  /\ session # "default"
  /\ session' = "default" /\ unlocked' = FALSE /\ seed' = FALSE
  /\ AbortTransfer
  /\ Fault
  /\ UNCHANGED <<cfg, panelVars, call, step, netVars, activated, updateVars>>

\* The connection breaks; the board goes on with what it has received.
LinkLost ==
  /\ link = "up"
  /\ link' = "broken"
  /\ \E kept \in BOOLEAN : tx' = Orphaned(kept)
  /\ Fault
  /\ UNCHANGED <<cfg, panelVars, call, step, rx, acked, boardVars, updateVars>>

\* The board's server is stopped and started again.
BoardRestart ==
  /\ link' = IF link = "up" THEN "broken" ELSE link
  /\ tx' = <<>> /\ acked' = FALSE
  /\ session' = "default" /\ unlocked' = FALSE /\ seed' = FALSE /\ xfer' = NoXfer
  /\ Fault
  /\ UNCHANGED <<cfg, panelVars, call, step, rx, activated, updateVars>>

Clicks == Connect \/ UserDisconnects \/ Start \/ ReadPage("dem") \/ ReadPage("dump") \/ ClearAsked
Answer == ClearAnswered(TRUE) \/ ClearAnswered(FALSE)
Panel  == OnConnect \/ OnOk \/ OnErr
Waits(th) == Recv(th) \/ TimeOut(th) \/ Starved(th) \/ LinkError(th)
Board  == \/ BoardAck \/ HandlePlain \/ HandleSession \/ HandleSeed \/ HandleKey
          \/ HandleStart \/ HandleBlock \/ HandleExit \/ HandleRoutine
Faults == S3 \/ LinkLost \/ BoardRestart

Next ==
  \/ Clicks \/ Answer \/ Panel \/ KeepAlive \/ Window
  \/ TcpConnect \/ TcpRefused
  \/ \E th \in Threads : Waits(th)
  \/ Board \/ Faults

Spec == Init /\ [][Next]_vars

(***************************************************************************)
(* Fairness: threads run and waits end; the board serves; a timer that is  *)
(* due and a signal that was posted are served between two clicks, however *)
(* many there are.                                                         *)
(***************************************************************************)
Fairness ==
  /\ WF_vars(TcpConnect \/ TcpRefused) /\ WF_vars(Window) /\ WF_vars(Board)
  /\ \A th \in Threads : WF_vars(Recv(th)) /\ WF_vars(LinkError(th) \/ Starved(th))
  /\ SF_vars(KeepAlive) /\ SF_vars(Panel)

FairSpec == Spec /\ Fairness

(***************************************************************************)
(* Properties.                                                             *)
(***************************************************************************)
Frames == Answers \cup {"ack", "route"}

\* Every variable keeps its shape, the frames are frames of the protocol, the
\* board never counts past the package, and a thread waits exactly while it
\* has something to do.
TypeOK ==
  /\ cfg \in Configs
  /\ {client, timer, dialog, acked, unlocked, seed, trouble, late} \subseteq BOOLEAN
  /\ worker \in {"none", "connect", "ota"}
  /\ posted \in {"none", "connect_ok", "connect_err", "ota_ok", "ota_err"}
  /\ result \in {"none", "running", "ok", "err"}
  /\ call \in [Threads -> [q : Questions \cup {"none"}, wait : {"none", "route", "ack", "diag"}]]
  /\ step \in 0..Len(WorkerSteps) /\ run \in 0..MaxRuns /\ faults \in 0..MaxFaults
  /\ link \in {"none", "up", "broken"} /\ rx \in Seq(Frames)
  /\ tx \in Seq([q : Questions, blk : 0..Blocks, run : 0..MaxRuns, live : BOOLEAN])
  /\ session \in {"default", "prog", "ext"} /\ activated \subseteq 1..MaxRuns
  /\ xfer \in [on : BOOLEAN, next : 0..SeqMax, got : Seq((1..MaxRuns) \X (1..Blocks))]
  /\ Len(xfer.got) <= Blocks

\* _OtaWorker shows that an update went through only when the board has
\* activated the package of that very update, whatever was late, lost or
\* given to the other thread: unless the answer to an earlier update's exit
\* was still under way when this one started, and then at least that package
\* was activated.  (Not so in routine mode, see OkInEveryMode.)
OkMeansActivated ==
  result = "ok" /\ cfg.mode = "transfer" =>
    IF late THEN activated # {} ELSE run \in activated

\* The same for a late answer too: does not hold, see MCDoipSession_late.cfg.
OkIsOwn == result = "ok" /\ cfg.mode = "transfer" => run \in activated

\* The same in routine mode too: does not hold, see MCDoipSession_routine.cfg.
OkInEveryMode == result = "ok" => run \in activated

\* An update that met no timeout, no lost link, no S3, no refusal and no page
\* read on the same connection, and that did not start behind a late answer,
\* does not fail: not for what an earlier update left behind on the board.
FailureHasCause == posted = "ota_err" => trouble

\* What 0x37 activates is the whole package of one update, block by block, in
\* the session and with the unlocking the project asks for (UdsDispatcher).
ActivationSound ==
  [][ cfg.mode = "transfer" =>
        \A r \in activated' \ activated : xfer.got = Whole(r) /\ GateOk ]_vars

\* A late answer puts the stream one question behind; while the user asks
\* nothing, the keep-alives bring it back in step, or the connection is given
\* up.
Realigns ==
  (client /\ GuiIdle /\ worker = "none" /\ Misaligned)
    ~> (~client \/ (GuiIdle /\ ~Misaligned) \/ worker # "none" \/ call["gui"].q \in Pages)

\* A connection whose board is gone is taken down without the user's doing.
LossNoticed == (client /\ link = "broken") ~> ~client

\* A worker's end reaches the panel, however the board or the link fail it.
WorkersEnd == (worker # "none") ~> (worker = "none")
=============================================================================
