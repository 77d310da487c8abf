------------------------------ MODULE CosimLink ------------------------------
(***************************************************************************)
(* giraffe_client and octave_bridge, the two ends of one cosim TCP link.   *)
(*                                                                         *)
(* The client (carla_scenarios/giraffe_client) loops: it drives the hero   *)
(* with the command in force, sends the hero's state, its perception and   *)
(* the mode hint, and drains the commands that have arrived.  The bridge   *)
(* (carla_scenarios/octave_bridge) accepts one client at a time, caches    *)
(* the state, and plans once per perception.  The planner is abstracted    *)
(* here to its three outcomes; OctavePeer has its details.                 *)
(*                                                                         *)
(* Messages to the bridge arrive whole (it reads them blocking).  Commands *)
(* to the client are a stream of units, because the client reads them      *)
(* without blocking and a frame may arrive in two pieces.                  *)
(***************************************************************************)
EXTENDS Naturals, Sequences, SequencesExt, FiniteSets

CONSTANTS
    Clients,    \* number of giraffe_client processes started one after another
    MaxTs,      \* tick stamps saturate here
    MaxHero,    \* heroes the world creates
    MaxUp,      \* messages a socket holds before sendall blocks
    MaxUnits,   \* units of commands in flight before the bridge's sendall blocks
    MaxSplits,  \* frames the network delivers in two pieces
    HdrLen,     \* units of a frame header
    CmdLen      \* units of a command body

ASSUME LinkAssumption ==
    /\ Clients \in Nat \ {0} /\ MaxTs \in Nat \ {0} /\ MaxHero \in Nat \ {0}
    /\ MaxUp \in Nat \ {0} /\ MaxUnits \in Nat /\ MaxSplits \in Nat
    /\ HdrLen \in Nat \ {0} /\ CmdLen \in Nat \ {0}

VARIABLES
    world,    \* id of the living hero, 0 when there is none
    heroes,   \* heroes created so far
    cid,      \* the current client process, 0 before the first
    cpc,      \* where its loop is
    hero,     \* the hero it is attached to
    ts,       \* stamp of its latest tick
    ctl,      \* the command in force, NoCmd for thr = brk = steer = 0
    got,      \* the units of the last command the running drain has completed
    up,       \* [1..Clients -> messages sent and not yet read by the bridge]
    open,     \* the connections whose client end is open
    wire,     \* command units sent and not arrived
    inbox,    \* command units arrived and not read
    splits,   \* frames split so far
    spc,      \* where the bridge is
    sconn,    \* the connection of its session, 0 outside one
    accepted, \* connections it has accepted
    cache,    \* BridgeState: latest state and latest perception, kept across sessions
    stop      \* STOP was signalled to the bridge

client == <<cid, cpc, hero, ts, ctl, got>>
bridge == <<spc, sconn, accepted, cache>>
net    == <<up, open, wire, inbox, splits>>
vars   == <<world, heroes, client, bridge, net, stop>>

NoMsg == [kind |-> "none", conn |-> 0, ts |-> 0, hero |-> 0]
NoCmd == [ts |-> 0, conn |-> 0, hero |-> 0]
Kinds == {"state", "perc"}
Msg   == [kind : Kinds, conn : 1..Clients, ts : 1..MaxTs, hero : 1..MaxHero]
Cmd   == [ts : 1..MaxTs, conn : 1..Clients, hero : 1..MaxHero]

Capped(n) == IF n < MaxTs THEN n + 1 ELSE MaxTs

\* The units of one frame: each names its frame and its place in it.
Frame(c) == [i \in 1..(HdrLen + CmdLen) |-> [cmd |-> c, at |-> i]]
HelloFrame == [i \in 1..HdrLen |-> [cmd |-> NoCmd, at |-> i]]
Unit     == [cmd : Cmd \cup {NoCmd}, at : 1..(HdrLen + CmdLen)]

Init ==
    /\ world = 1 /\ heroes = 1
    /\ cid = 0 /\ cpc = "off" /\ hero = 0 /\ ts = 0 /\ ctl = NoCmd /\ got = <<>>
    /\ up = [c \in 1..Clients |-> <<>>] /\ open = {}
    /\ wire = <<>> /\ inbox = <<>> /\ splits = 0
    /\ spc = "accept" /\ sconn = 0 /\ accepted = {}
    /\ cache = [state |-> NoMsg, perc |-> NoMsg]
    /\ stop = FALSE

(***************************************************************************)
(* The simulator: a hero is spawned when there is none, and destroyed.     *)
(***************************************************************************)
SpawnHero ==
    /\ world = 0 /\ heroes < MaxHero
    /\ heroes' = heroes + 1 /\ world' = heroes + 1
    /\ UNCHANGED <<client, bridge, net, stop>>

DestroyHero ==
    /\ world # 0
    /\ world' = 0
    /\ UNCHANGED <<heroes, client, bridge, net, stop>>

(***************************************************************************)
(* The client.                                                             *)
(***************************************************************************)
\* A new process connects; the listen backlog takes it even while the bridge
\* is still in the session of a client that died.
Connect ==
    /\ cpc \in {"off", "exited"} /\ cid < Clients
    /\ spc \notin {"exit", "crash"}
    /\ cid' = cid + 1 /\ cpc' = "wait_hero" /\ open' = open \cup {cid + 1}
    /\ hero' = 0 /\ ctl' = NoCmd /\ got' = <<>>
    /\ wire' = <<>> /\ inbox' = <<>>
    /\ UNCHANGED <<world, heroes, ts, up, splits, bridge, stop>>

WaitHero ==
    /\ cpc = "wait_hero" /\ world # 0
    /\ hero' = world /\ cpc' = "top"
    /\ UNCHANGED <<world, heroes, cid, ts, ctl, got, bridge, net, stop>>

\* The top of the loop: follow a new hero, then apply the command in force to
\* it; applying to a destroyed hero raises, and the loop starts over.
LoopTop ==
    /\ cpc = "top"
    /\ hero' = IF world # 0 THEN world ELSE hero
    /\ IF hero' = world
         THEN cpc' = "state" /\ ts' = Capped(ts)
         ELSE cpc' = "top" /\ UNCHANGED ts
    /\ UNCHANGED <<world, heroes, cid, ctl, got, bridge, net, stop>>

Exits ==
    /\ cpc' = "exited" /\ open' = open \ {cid}
    /\ wire' = <<>> /\ inbox' = <<>> /\ got' = <<>>

\* sendall on the client's socket: it goes into the socket, is lost because the
\* bridge has closed its end, or fails, which ends the loop.
Send(kind, next) ==
    LET m == [kind |-> kind, conn |-> cid, ts |-> ts, hero |-> hero] IN
    \/ /\ cid \notin accepted \/ sconn = cid
       /\ Len(up[cid]) < MaxUp
       /\ up' = [up EXCEPT ![cid] = Append(@, m)]
       /\ cpc' = next
       /\ UNCHANGED <<open, wire, inbox, got>>
    \/ /\ cid \in accepted /\ sconn # cid
       /\ cpc' = next /\ UNCHANGED <<up, open, wire, inbox, got>>
    \/ /\ cid \in accepted /\ sconn # cid
       /\ Exits /\ UNCHANGED up

SendState ==
    /\ cpc = "state"
    /\ Send("state", "perc")
    /\ UNCHANGED <<world, heroes, cid, hero, ts, ctl, splits, bridge, stop>>

\* The surround, rear and mode-hint messages that follow the perception are
\* ignored by this bridge and left out.
SendPerc ==
    /\ cpc = "perc"
    /\ Send("perc", "hdr")
    /\ UNCHANGED <<world, heroes, cid, hero, ts, ctl, splits, bridge, stop>>

\* Measuring a hero that was destroyed under the loop raises an exception the
\* loop does not catch: the process ends.
MeasureFails ==
    /\ cpc \in {"state", "perc"} /\ hero # world
    /\ Exits
    /\ UNCHANGED <<world, heroes, cid, hero, ts, ctl, up, splits, bridge, stop>>

\* The client is told to stop, or is killed.
ClientStops ==
    /\ cpc \notin {"off", "exited"}
    /\ Exits
    /\ UNCHANGED <<world, heroes, cid, hero, ts, ctl, up, splits, bridge, stop>>

Aligned == inbox = <<>> \/ inbox[1].at = 1
Consume(n) == inbox' = SubSeq(inbox, n + 1, Len(inbox))
HoldLoop == UNCHANGED <<world, heroes, cid, hero, ts, ctl, up, open, wire, splits, bridge, stop>>

RecvHeaderUnchecked ==   \* mutant: the magic is not compared
    /\ cpc = "hdr" /\ Len(inbox) >= HdrLen
    /\ Consume(HdrLen)
    /\ cpc' = IF inbox[1].cmd = NoCmd THEN "hdr" ELSE "body"
    /\ UNCHANGED got /\ HoldLoop

\* try_recv_cmd, one header.  A header that does not begin with the magic ends
\* the drain with its units consumed; a HELLO has no body.
RecvHeader ==
    /\ cpc = "hdr" /\ Len(inbox) >= HdrLen
    /\ Consume(HdrLen)
    /\ cpc' = IF ~Aligned THEN "apply" ELSE IF inbox[1].cmd = NoCmd THEN "hdr" ELSE "body"
    /\ UNCHANGED got /\ HoldLoop

\* A body that has begun to arrive is waited for; one of which nothing has
\* arrived ends the drain although its header has been consumed.
RecvBody ==
    /\ cpc = "body"
    /\ \/ /\ Len(inbox) >= CmdLen
          /\ Consume(CmdLen) /\ got' = SubSeq(inbox, 1, CmdLen) /\ cpc' = "hdr"
       \/ /\ inbox = <<>>
          /\ cpc' = "apply" /\ UNCHANGED <<inbox, got>>
    /\ HoldLoop

\* Nothing more has arrived.
DrainEmpty ==
    /\ cpc = "hdr" /\ inbox = <<>>
    /\ cpc' = "apply" /\ UNCHANGED <<inbox, got>> /\ HoldLoop

\* The rest of a piece does not arrive within 0.5 s: what was read is dropped.
DrainTimeout ==
    /\ \/ cpc = "hdr" /\ inbox # <<>> /\ Len(inbox) < HdrLen
       \/ cpc = "body" /\ inbox # <<>> /\ Len(inbox) < CmdLen
    /\ inbox' = <<>> /\ cpc' = "apply" /\ UNCHANGED got /\ HoldLoop

\* The last complete command takes force and is applied; without one the
\* command in force is held.
ApplyCmd ==
    /\ cpc = "apply"
    /\ ctl' = IF got = <<>> THEN ctl ELSE got[1].cmd
    /\ got' = <<>> /\ cpc' = "top"
    /\ UNCHANGED <<world, heroes, cid, hero, ts, bridge, net, stop>>

(***************************************************************************)
(* The network delivers whole frames, and MaxSplits times only a part.     *)
(***************************************************************************)
Arrive ==
    /\ cpc \notin {"off", "exited"}
    /\ \E n \in 1..Len(wire) :
          /\ inbox' = inbox \o SubSeq(wire, 1, n)
          /\ wire' = SubSeq(wire, n + 1, Len(wire))
          /\ IF n = Len(wire) \/ wire[n + 1].at = 1
               THEN UNCHANGED splits
               ELSE splits < MaxSplits /\ splits' = splits + 1
    /\ UNCHANGED <<world, heroes, client, up, open, bridge, stop>>

(***************************************************************************)
(* The bridge.                                                             *)
(***************************************************************************)
\* serve_forever: the oldest client in the backlog is accepted and greeted.
Accept ==
    /\ spc = "accept" /\ ~stop
    /\ \E c \in 1..cid \ accepted :
          /\ \A d \in 1..cid \ accepted : c <= d
          /\ sconn' = c /\ accepted' = accepted \cup {c}
          /\ spc' = "session"
          /\ wire' = IF c = cid /\ c \in open THEN wire \o HelloFrame ELSE wire
    /\ UNCHANGED <<world, heroes, client, cache, up, open, inbox, splits, stop>>

EndSession == spc' = "accept" /\ sconn' = 0

HandlePlansOnState ==   \* mutant: a plan per message
    /\ spc = "session" /\ ~stop /\ up[sconn] # <<>>
    /\ LET m == Head(up[sconn]) IN
         cache' = IF m.kind = "state" THEN [cache EXCEPT !.state = m]
                                      ELSE [cache EXCEPT !.perc = m]
    /\ spc' = IF cache'.perc # NoMsg THEN "plan" ELSE "session"
    /\ up' = [up EXCEPT ![sconn] = Tail(@)]
    /\ UNCHANGED <<world, heroes, client, sconn, accepted, open, wire, inbox, splits, stop>>

HandleKeepsPerc ==   \* mutant: the perception is cached only once
    /\ spc = "session" /\ ~stop /\ up[sconn] # <<>>
    /\ LET m == Head(up[sconn]) IN
         /\ cache' = IF m.kind = "state" THEN [cache EXCEPT !.state = m]
                     ELSE [cache EXCEPT !.perc = IF @ = NoMsg THEN m ELSE @]
         /\ spc' = IF m.kind = "perc" THEN "plan" ELSE "session"
    /\ up' = [up EXCEPT ![sconn] = Tail(@)]
    /\ UNCHANGED <<world, heroes, client, sconn, accepted, open, wire, inbox, splits, stop>>

\* _session and _handle: every message refreshes the cache, and a
\* perception is planned for.
Handle ==
    /\ spc = "session" /\ ~stop /\ up[sconn] # <<>>
    /\ LET m == Head(up[sconn]) IN
         /\ cache' = IF m.kind = "state" THEN [cache EXCEPT !.state = m]
                                         ELSE [cache EXCEPT !.perc = m]
         /\ spc' = IF m.kind = "perc" THEN "plan" ELSE "session"
    /\ up' = [up EXCEPT ![sconn] = Tail(@)]
    /\ UNCHANGED <<world, heroes, client, sconn, accepted, open, wire, inbox, splits, stop>>

EofWaits ==   \* mutant: an empty read is taken for no data
    /\ spc = "session" /\ ~stop /\ up[sconn] = <<>> /\ sconn \notin open
    /\ UNCHANGED <<spc, sconn>>
    /\ UNCHANGED <<world, heroes, client, accepted, cache, net, stop>>

\* The client closed its end and everything it sent has been read.
Eof ==
    /\ spc = "session" /\ ~stop /\ up[sconn] = <<>> /\ sconn \notin open
    /\ EndSession
    /\ UNCHANGED <<world, heroes, client, accepted, cache, net, stop>>

\* on_tick answers: the command goes out, unless the client has gone, when the
\* frame is lost or sendall fails and ends the session.
PlanDone ==
    /\ spc = "plan"
    /\ LET c == [ts |-> cache.perc.ts, conn |-> cache.perc.conn, hero |-> cache.perc.hero] IN
         \/ /\ sconn \in open /\ Len(wire) + Len(inbox) + HdrLen + CmdLen <= MaxUnits
            /\ wire' = wire \o Frame(c) /\ spc' = "session" /\ UNCHANGED sconn
         \/ /\ sconn \notin open
            /\ \/ spc' = "session" /\ UNCHANGED sconn
               \/ EndSession
            /\ UNCHANGED wire
    /\ UNCHANGED <<world, heroes, client, accepted, cache, up, open, inbox, splits, stop>>

\* Four OSErrors from the planner end the session and close the connection.
PlanOsError ==
    /\ spc = "plan"
    /\ EndSession
    /\ UNCHANGED <<world, heroes, client, accepted, cache, net, stop>>

\* Any other exception leaves serve_forever and ends the process.
PlanRaises ==
    /\ spc = "plan"
    /\ spc' = "crash" /\ sconn' = 0
    /\ UNCHANGED <<world, heroes, client, accepted, cache, net, stop>>

Signal ==
    /\ ~stop
    /\ stop' = TRUE
    /\ UNCHANGED <<world, heroes, client, bridge, net>>

\* The watcher has set _stop and closed the listening socket: the loops end
\* when they next look, in a session after the message being handled.
ServerStops ==
    /\ stop /\ spc \in {"accept", "session"}
    /\ spc' = "exit" /\ sconn' = 0
    /\ UNCHANGED <<world, heroes, client, accepted, cache, net, stop>>

\* A dead bridge's connections are closed: every accepted connection counts as
\* closed by the bridge, and so does one still in the backlog.
DropBacklog ==
    /\ spc \in {"exit", "crash"} /\ accepted # 1..cid
    /\ accepted' = 1..cid
    /\ UNCHANGED <<world, heroes, client, spc, sconn, cache, net, stop>>

ClientLoop ==
    \/ Connect \/ WaitHero \/ LoopTop \/ SendState \/ SendPerc
    \/ RecvHeader \/ RecvBody \/ DrainEmpty \/ DrainTimeout \/ ApplyCmd

Bridge == Accept \/ Handle \/ Eof \/ PlanDone \/ PlanOsError \/ PlanRaises \/ ServerStops \/ DropBacklog

Next ==
    \/ SpawnHero \/ DestroyHero \/ MeasureFails \/ ClientStops \/ Signal \/ Arrive
    \/ ClientLoop \/ Bridge

Spec == Init /\ [][Next]_vars

(***************************************************************************)
(* The processes run: the bridge is not starved, the planner answers or    *)
(* fails, the network delivers, and the client's loop goes on.             *)
(***************************************************************************)
Fairness == WF_vars(Bridge) /\ WF_vars(Arrive) /\ WF_vars(ClientLoop)

FairSpec == Spec /\ Fairness

TypeOK ==
    /\ world \in 0..MaxHero /\ heroes \in 0..MaxHero
    /\ cid \in 0..Clients /\ hero \in 0..MaxHero /\ ts \in 0..MaxTs
    /\ cpc \in {"off", "wait_hero", "top", "state", "perc", "hdr", "body", "apply", "exited"}
    /\ ctl \in Cmd \cup {NoCmd} /\ got \in Seq(Unit)
    /\ up \in [1..Clients -> Seq(Msg)] /\ open \subseteq 1..Clients
    /\ wire \in Seq(Unit) /\ inbox \in Seq(Unit) /\ splits \in 0..MaxSplits
    /\ spc \in {"accept", "session", "plan", "exit", "crash"}
    /\ sconn \in 0..Clients /\ accepted \subseteq 1..Clients
    /\ cache \in [state : Msg \cup {NoMsg}, perc : Msg \cup {NoMsg}]
    /\ stop \in BOOLEAN

\* A plan pairs the state and the perception of one tick of one client, although
\* the cache outlives sessions and the two travel as separate messages.
PlansFromOneTick ==
    spc = "plan" =>
        /\ cache.state.ts = cache.perc.ts /\ cache.state.conn = cache.perc.conn
        /\ cache.state.hero = cache.perc.hero
        /\ cache.perc.conn = sconn

\* What takes force is the whole body of one frame, however frames were cut.
NoTornCommand ==
    got # <<>> => got = SubSeq(Frame(got[1].cmd), HdrLen + 1, HdrLen + CmdLen)

\* Within one client process the command in force is never replaced by an older
\* one, nor by one planned for an earlier hero or for another client.
NoOlderCommand ==
    [][(cid' = cid /\ ctl' # ctl) =>
          /\ ctl'.ts >= ctl.ts /\ ctl'.hero >= ctl.hero
          /\ ctl'.conn = cid]_vars

\* The bridge always leaves the session of a client that has died, and any
\* session once it is told to stop, even with a plan in progress.
SessionEnds ==
    \A c \in 1..Clients : (sconn = c /\ (stop \/ c \notin open)) ~> (sconn # c)
=============================================================================
