-------------------------- MODULE CosimLink_proofs --------------------------
(***************************************************************************)
(* For every number of clients, ticks and heroes, and every size of socket *)
(* and of frame: the bridge plans for one tick, the client obeys whole     *)
(* commands, and never an older one.                                       *)
(***************************************************************************)
EXTENDS CosimLink, SequenceTheorems, TLAPS

\* The client process runs; it is attached to a hero; it is between its two messages.
Runs == cpc \notin {"off", "exited"}
Attached == Runs /\ cpc # "wait_hero"

\* A connection the bridge still reads, now or when it accepts it.
Live(c) == c \notin accepted \/ sconn = c

ProcInv ==
  /\ world \in {0, heroes} /\ hero <= heroes
  /\ cid = 0 => cpc = "off"
  /\ open = IF Runs THEN {cid} ELSE {}
  /\ Attached => hero >= 1
  /\ cpc \in {"state", "perc"} => ts >= 1
  /\ sconn # 0 <=> spc \in {"session", "plan"}
  /\ sconn # 0 => sconn \in accepted
  /\ accepted \subseteq 1..cid
  /\ \A c \in 1..Clients : cid < c => up[c] = <<>>
  /\ spc = "plan" => cache.perc \in Msg
  /\ cid \notin accepted => wire = <<>> /\ inbox = <<>> /\ got = <<>> /\ ctl = NoCmd

\* s and p are the state and the perception of one tick of one client.
Pair(s, p) == s.conn = p.conn /\ s.ts = p.ts /\ s.hero = p.hero

\* A perception follows its state, in the socket or out of the cache; one the client is
\* about to send has its state last in the socket or in the cache.
Paired(c) ==
  \A i \in 1..Len(up[c]) :
     /\ up[c][i].conn = c
     /\ up[c][i].kind = "perc" =>
          IF i = 1 THEN sconn = c /\ Pair(cache.state, up[c][i])
          ELSE up[c][i - 1].kind = "state" /\ Pair(up[c][i - 1], up[c][i])

Tick == [ts |-> ts, conn |-> cid, hero |-> hero]

Owed ==
  IF up[cid] = <<>> THEN sconn = cid /\ Pair(cache.state, Tick)
  ELSE up[cid][Len(up[cid])].kind = "state" /\ Pair(up[cid][Len(up[cid])], Tick)

PairInv ==
  /\ \A c \in 1..Clients : Live(c) => Paired(c)
  /\ cpc = "perc" /\ Live(cid) => Owed
  /\ spc = "plan" => Pair(cache.state, cache.perc) /\ cache.perc.conn = sconn

\* The units under way to the client, and how many a frame has.
Flow == inbox \o wire
FrameLen(c) == IF c = NoCmd THEN HdrLen ELSE HdrLen + CmdLen

\* Of a frame that has begun to be read the rest follows.
Whole(q) ==
  \A i \in 1..Len(q) : \A k \in 0..(HdrLen + CmdLen) :
     q[i].at + k <= FrameLen(q[i].cmd) =>
        i + k <= Len(q) /\ q[i + k] = [cmd |-> q[i].cmd, at |-> q[i].at + k]

Body(c) == [k \in 1..CmdLen |-> [cmd |-> c, at |-> HdrLen + k]]

FlowInv ==
  /\ Whole(Flow)
  /\ cpc = "body" => Flow # <<>> /\ Flow[1].cmd # NoCmd /\ Flow[1].at = HdrLen + 1
  /\ got # <<>> => got[1].cmd # NoCmd /\ got = Body(got[1].cmd)

\* a is of no later tick than b, and of no later hero.
Before(a, b) == a.ts <= b.ts /\ a.hero <= b.hero

\* The command in force c, the drained one in g and those in the stream q, against m.
Beneath(c, g, q, m) ==
  /\ Before(c, m)
  /\ g # <<>> => Before(g[1].cmd, m)
  /\ \A i \in 1..Len(q) : Before(q[i].cmd, m)
Under(m) == Beneath(ctl, got, Flow, m)

Own(c) == c = NoCmd \/ c.conn = cid

OrderInv ==
  /\ Own(ctl) /\ \A i \in 1..Len(Flow) : Own(Flow[i].cmd)
  /\ got # <<>> => Own(got[1].cmd) /\ Before(ctl, got[1].cmd)
  /\ \A i \in 1..Len(Flow) :
       /\ Before(ctl, Flow[i].cmd)
       /\ got # <<>> => Before(got[1].cmd, Flow[i].cmd)
       /\ \A j \in 1..Len(Flow) : i <= j => Before(Flow[i].cmd, Flow[j].cmd)
  /\ Under(Tick)
  /\ cid # 0 => \A i \in 1..Len(up[cid]) :
       /\ Under(up[cid][i]) /\ Before(up[cid][i], Tick)
       /\ \A j \in 1..Len(up[cid]) : i <= j => Before(up[cid][i], up[cid][j])
  /\ spc = "plan" /\ sconn = cid =>
       /\ Under(cache.perc) /\ Before(cache.perc, Tick)
       /\ \A i \in 1..Len(up[cid]) : Before(cache.perc, up[cid][i])

TInv == TypeOK /\ ProcInv
IInv == TInv /\ PairInv /\ FlowInv /\ OrderInv

LEMMA MessagesDiffer ==
  /\ NoMsg \notin Msg /\ NoCmd \notin Cmd
  /\ \A m \in Msg : m.kind \in Kinds /\ m.conn \in 1..Clients /\ m.ts \in 1..MaxTs
    /\ m.hero \in 1..MaxHero
  /\ \A c \in Cmd \cup {NoCmd} : c.ts \in Nat /\ c.hero \in Nat /\ c.conn \in Nat
  BY LinkAssumption DEF NoMsg, NoCmd, Msg, Cmd, Kinds

LEMMA FrameUnits ==
  /\ HelloFrame \in Seq(Unit) /\ Len(HelloFrame) = HdrLen
  /\ \A i \in 1..HdrLen : HelloFrame[i] = [cmd |-> NoCmd, at |-> i]
  /\ \A c \in Cmd : /\ Frame(c) \in Seq(Unit) /\ Len(Frame(c)) = HdrLen + CmdLen
                    /\ \A i \in 1..(HdrLen + CmdLen) : Frame(c)[i] = [cmd |-> c, at |-> i]
  <1>1. HdrLen \in Nat /\ CmdLen \in Nat /\ HdrLen + CmdLen \in Nat
    BY LinkAssumption
  <1>2. \A i \in 1..HdrLen : [cmd |-> NoCmd, at |-> i] \in Unit
    BY <1>1 DEF Unit
  <1>3. \A c \in Cmd : \A i \in 1..(HdrLen + CmdLen) : [cmd |-> c, at |-> i] \in Unit
    BY <1>1 DEF Unit
  <1>4. HelloFrame \in Seq(Unit) /\ Len(HelloFrame) = HdrLen
    BY <1>1, <1>2 DEF HelloFrame
  <1>5. ASSUME NEW c \in Cmd PROVE Frame(c) \in Seq(Unit) /\ Len(Frame(c)) = HdrLen + CmdLen
    BY <1>1, <1>3 DEF Frame
  <1> QED
    BY <1>1, <1>4, <1>5 DEF HelloFrame, Frame

\* The pieces of a stream of units, and what is left when some are read.
LEMMA Pieces ==
  ASSUME NEW q \in Seq(Unit), NEW n \in 0..Len(q)
  PROVE  /\ SubSeq(q, 1, n) \in Seq(Unit) /\ Len(SubSeq(q, 1, n)) = n
         /\ \A i \in 1..n : SubSeq(q, 1, n)[i] = q[i]
         /\ SubSeq(q, n + 1, Len(q)) \in Seq(Unit) /\ Len(SubSeq(q, n + 1, Len(q))) = Len(q) - n
         /\ \A i \in 1..(Len(q) - n) : SubSeq(q, n + 1, Len(q))[i] = q[i + n]
  <1>0. Len(q) \in Nat /\ n \in Nat /\ n <= Len(q)
    OBVIOUS
  <1>1. \A i \in 1..n : q[i] \in Unit
    BY <1>0
  <1>2. \A i \in n + 1 .. Len(q) : q[i] \in Unit
    BY <1>0
  <1>3. /\ SubSeq(q, 1, n) \in Seq(Unit) /\ Len(SubSeq(q, 1, n)) = n
        /\ \A i \in 1..n : SubSeq(q, 1, n)[i] = q[i]
    BY <1>0, <1>1, SubSeqProperties
  <1>4. /\ SubSeq(q, n + 1, Len(q)) \in Seq(Unit)
        /\ Len(SubSeq(q, n + 1, Len(q))) = IF n + 1 <= Len(q) THEN Len(q) - (n + 1) + 1 ELSE 0
        /\ \A i \in 1..(Len(q) - (n + 1) + 1) : SubSeq(q, n + 1, Len(q))[i] = q[n + 1 + i - 1]
    BY <1>0, <1>2, SubSeqProperties
  <1> QED
    BY <1>0, <1>3, <1>4

\* The command a plan is made for.
Planned == [ts |-> cache.perc.ts, conn |-> cache.perc.conn, hero |-> cache.perc.hero]
LEMMA PlanOf == ASSUME TInv, spc = "plan" PROVE Planned \in Cmd
  BY MessagesDiffer DEF TInv, ProcInv, Planned, Cmd

\* What a message about the client's tick is, and the two outcomes of sending it.
LEMMA Sending ==
  ASSUME TInv, NEW kind \in Kinds, NEW next, cpc \in {"state", "perc"}, Send(kind, next)
  PROVE  \/ /\ Live(cid) /\ cpc' = next /\ UNCHANGED <<open, wire, inbox, got>>
            /\ cid \in 1..Clients
              /\ [kind |-> kind, conn |-> cid, ts |-> ts, hero |-> hero] \in Msg
            /\ up[cid] \in Seq(Msg) /\ Len(up[cid]) < MaxUp
            /\ up' = [up EXCEPT ![cid] =
                        Append(up[cid], [kind |-> kind, conn |-> cid, ts |-> ts, hero |-> hero])]
         \/ ~Live(cid) /\ cpc' = next /\ UNCHANGED <<up, open, wire, inbox, got>>
         \/ ~Live(cid) /\ Exits /\ UNCHANGED up
  <1>1. cid \in 1..Clients /\ ts \in 1..MaxTs /\ hero \in 1..MaxHero
    BY LinkAssumption DEF TInv, TypeOK, ProcInv, Runs, Attached
  <1>2. [kind |-> kind, conn |-> cid, ts |-> ts, hero |-> hero] \in Msg
    BY <1>1 DEF Msg
  <1>3. up[cid] \in Seq(Msg)
    BY <1>1 DEF TInv, TypeOK
  <1> QED
    BY <1>1, <1>2, <1>3 DEF Send, Live

LEMMA SendKeepsTypes ==
  ASSUME TInv, NEW kind \in Kinds, NEW next \in {"perc", "hdr"}, cpc \in {"state", "perc"},
         Send(kind, next)
  PROVE  /\ up' \in [1..Clients -> Seq(Msg)] /\ \A c \in 1..Clients : cid < c => up'[c] = <<>>
         /\ cpc' \in {"perc", "hdr", "exited"} /\ open' = IF cpc' = "exited" THEN {} ELSE {cid}
         /\ open' \subseteq 1..Clients
         /\ wire' \in Seq(Unit) /\ inbox' \in Seq(Unit) /\ got' \in Seq(Unit)
         /\ cid \notin accepted => wire' = <<>> /\ inbox' = <<>> /\ got' = <<>>
  <1>1. /\ up \in [1..Clients -> Seq(Msg)] /\ \A c \in 1..Clients : cid < c => up[c] = <<>>
        /\ open = {cid} /\ cid \in 1..Clients
        /\ wire \in Seq(Unit) /\ inbox \in Seq(Unit) /\ got \in Seq(Unit)
        /\ cid \notin accepted => wire = <<>> /\ inbox = <<>> /\ got = <<>>
    BY LinkAssumption DEF TInv, TypeOK, ProcInv, Runs
  <1>2. CASE /\ cpc' = next /\ UNCHANGED <<open, wire, inbox, got>>
             /\ cid \in 1..Clients /\ up[cid] \in Seq(Msg)
             /\ [kind |-> kind, conn |-> cid, ts |-> ts, hero |-> hero] \in Msg
             /\ up' = [up EXCEPT ![cid] =
                        Append(up[cid], [kind |-> kind, conn |-> cid, ts |-> ts, hero |-> hero])]
    <2>1. Append(up[cid], [kind |-> kind, conn |-> cid, ts |-> ts, hero |-> hero]) \in Seq(Msg)
      BY <1>2
    <2>2. \A c \in 1..Clients : c # cid => up'[c] = up[c]
      BY <1>1, <1>2
    <2>3. \A c \in 1..Clients : cid < c => c # cid
      BY <1>1
    <2> QED
      BY <1>1, <1>2, <2>1, <2>2, <2>3
  <1>3. CASE cpc' = next /\ UNCHANGED <<up, open, wire, inbox, got>>
    BY <1>1, <1>3
  <1>4. CASE Exits /\ UNCHANGED up
    BY <1>1, <1>4 DEF Exits
  <1> QED
    BY <1>2, <1>3, <1>4, Sending

LEMMA TypesHold == ASSUME TInv, Next PROVE TypeOK'
  <1> USE LinkAssumption DEF TInv, TypeOK
  <1>1. CASE SpawnHero
    BY <1>1 DEF SpawnHero, client, bridge, net
  <1>2. CASE DestroyHero
    BY <1>2 DEF DestroyHero, client, bridge, net
  <1>3. CASE Signal
    BY <1>3 DEF Signal, client, bridge, net
  <1>4. CASE Connect
    BY <1>4 DEF Connect, bridge
  <1>5. CASE WaitHero
    BY <1>5 DEF WaitHero, bridge, net
  <1>6. CASE LoopTop
    BY <1>6 DEF LoopTop, Capped, bridge, net
  <1>7. ASSUME NEW kind \in Kinds, NEW next \in {"perc", "hdr"}, cpc \in {"state", "perc"},
               Send(kind, next),
               UNCHANGED <<world, heroes, cid, hero, ts, ctl, splits, bridge, stop>>
        PROVE  TypeOK'
    BY <1>7, SendKeepsTypes DEF bridge
  <1>8. CASE SendState \/ SendPerc
    BY <1>7, <1>8 DEF SendState, SendPerc, Kinds
  <1>9. CASE MeasureFails
    BY <1>9 DEF MeasureFails, Exits, bridge
  <1>10. CASE ClientStops
    BY <1>10 DEF ClientStops, Exits, bridge
  <1>11. CASE RecvHeader
    BY <1>11, Pieces DEF RecvHeader, Consume, HoldLoop, bridge
  <1>12. CASE RecvBody
    <2>1. ASSUME Len(inbox) >= CmdLen, Consume(CmdLen), got' = SubSeq(inbox, 1, CmdLen)
          PROVE  inbox' \in Seq(Unit) /\ got' \in Seq(Unit)
      <3>1. CmdLen \in 0..Len(inbox) /\ inbox \in Seq(Unit)
        BY <2>1
      <3> QED
        BY ONLY <2>1, <3>1, Pieces DEF Consume
    <2>2. inbox' \in Seq(Unit) /\ got' \in Seq(Unit)
      BY <1>12, <2>1 DEF RecvBody
    <2> QED
      BY <1>12, <2>2 DEF RecvBody, HoldLoop, bridge
  <1>13. CASE DrainEmpty
    BY <1>13 DEF DrainEmpty, HoldLoop, bridge
  <1>14. CASE DrainTimeout
    BY <1>14 DEF DrainTimeout, HoldLoop, bridge
  <1>15. CASE ApplyCmd
    <2>1. got # <<>> => got[1] \in Unit
      OBVIOUS
    <2>2. ctl' \in Cmd \cup {NoCmd}
      BY <1>15, <2>1 DEF ApplyCmd, Unit
    <2> QED
      BY <1>15, <2>2 DEF ApplyCmd, bridge, net
  <1>16. CASE Arrive
    <2>1. PICK n \in 1..Len(wire) :
             /\ inbox' = inbox \o SubSeq(wire, 1, n)
             /\ wire' = SubSeq(wire, n + 1, Len(wire))
             /\ splits' = splits \/ (splits < MaxSplits /\ splits' = splits + 1)
      BY <1>16 DEF Arrive
    <2>2. SubSeq(wire, 1, n) \in Seq(Unit) /\ wire' \in Seq(Unit)
      <3>1. wire \in Seq(Unit) /\ Len(wire) \in Nat
        OBVIOUS
      <3>2. n \in 0..Len(wire)
        BY ONLY <3>1, n \in 1..Len(wire)
      <3> QED
        BY ONLY <2>1, <3>1, <3>2, Pieces
    <2>3. inbox' \in Seq(Unit)
      <3>1. inbox \in Seq(Unit)
        OBVIOUS
      <3> QED
        BY ONLY <2>1, <2>2, <3>1, ConcatProperties
    <2>4. splits' \in 0..MaxSplits
      BY <2>1
    <2> QED
      BY <1>16, <2>2, <2>3, <2>4 DEF Arrive, client, bridge
  <1>17. CASE Accept
    BY <1>17, FrameUnits DEF Accept, client, ProcInv
  <1>18. CASE Handle
    <2>1. sconn \in 1..Clients /\ up[sconn] \in Seq(Msg) /\ up[sconn] # <<>>
      BY <1>18 DEF Handle, ProcInv
    <2>2. Head(up[sconn]) \in Msg /\ Tail(up[sconn]) \in Seq(Msg)
      BY <2>1
    <2>3. up' \in [1..Clients -> Seq(Msg)]
      BY <1>18, <2>1, <2>2 DEF Handle
    <2>4. cache' \in [state : Msg \cup {NoMsg}, perc : Msg \cup {NoMsg}]
      BY <1>18, <2>2 DEF Handle
    <2> QED
      BY <1>18, <2>3, <2>4 DEF Handle, client
  <1>19. CASE Eof
    BY <1>19 DEF Eof, EndSession, client, net
  <1>20. CASE PlanOsError
    BY <1>20 DEF PlanOsError, EndSession, client, net
  <1>21. CASE PlanRaises
    BY <1>21 DEF PlanRaises, EndSession, client, net
  <1>22. CASE ServerStops
    BY <1>22 DEF ServerStops, EndSession, client, net
  <1>23. CASE DropBacklog
    BY <1>23 DEF DropBacklog, client, net
  <1>24. CASE PlanDone
    <2>1. wire' \in Seq(Unit)
      <3>1. Planned \in Cmd
        BY <1>24, PlanOf DEF PlanDone
      <3>2. Frame(Planned) \in Seq(Unit)
        BY <3>1, FrameUnits
      <3>3. wire' = wire \/ wire' = wire \o Frame(Planned)
        BY <1>24 DEF PlanDone, Planned
      <3>4. wire \in Seq(Unit)
        OBVIOUS
      <3> QED
        BY ONLY <3>2, <3>3, <3>4, ConcatProperties
    <2>2. spc' \in {"session", "accept"} /\ sconn' \in 0..Clients
      BY <1>24 DEF PlanDone, EndSession
    <2> QED
      BY <1>24, <2>1, <2>2 DEF PlanDone, client
  <1> QED
    BY <1>1, <1>2, <1>3, <1>4, <1>5, <1>6, <1>8, <1>9, <1>10, <1>11, <1>12, <1>13, <1>14,
       <1>15, <1>16, <1>17, <1>18, <1>19, <1>20, <1>21, <1>22, <1>23, <1>24
       DEF Next, ClientLoop, Bridge

LEMMA ProcessesHold == ASSUME TInv, Next PROVE ProcInv'
  <1> USE LinkAssumption DEF TInv, TypeOK, ProcInv, Runs, Attached
  <1>1. CASE SpawnHero
    BY <1>1 DEF SpawnHero, client, bridge, net
  <1>2. CASE DestroyHero
    BY <1>2 DEF DestroyHero, client, bridge, net
  <1>3. CASE Signal
    BY <1>3 DEF Signal, client, bridge, net
  <1>4. CASE Connect
    <2>1. /\ ~Runs /\ cid < Clients /\ cid' = cid + 1 /\ cpc' = "wait_hero"
          /\ open' = open \cup {cid + 1} /\ hero' = 0 /\ ctl' = NoCmd /\ got' = <<>>
          /\ wire' = <<>> /\ inbox' = <<>>
          /\ UNCHANGED <<world, heroes, ts, up, splits, bridge, stop>>
      BY <1>4 DEF Connect
    <2>2. UNCHANGED <<world, heroes, ts, up, spc, sconn, accepted, cache>>
      BY <2>1 DEF bridge
    <2>3. cid \in 0..Clients /\ cid' \in 1..Clients /\ 1..cid \subseteq 1..cid'
          /\ \A c \in 1..Clients : cid' < c => cid < c
      <3>1. cid \in 0..Clients /\ cid < Clients /\ cid' = cid + 1 /\ Clients \in Nat
        BY <2>1
      <3> QED
        BY ONLY <3>1
    <2>4. world' \in {0, heroes'} /\ hero' <= heroes' /\ (cid' = 0 => cpc' = "off")
          /\ open' = {cid'}
      BY <2>1, <2>2, <2>3
    <2>5. /\ accepted' \subseteq 1..cid'
          /\ \A c \in 1..Clients : cid' < c => up'[c] = <<>>
      BY <2>2, <2>3
    <2> QED
      BY <2>1, <2>2, <2>4, <2>5
  <1>5. CASE WaitHero
    BY <1>5 DEF WaitHero, bridge, net
  <1>6. CASE LoopTop
    BY <1>6 DEF LoopTop, Capped, bridge, net
  <1>7. ASSUME NEW kind \in Kinds, NEW next \in {"perc", "hdr"}, cpc \in {"state", "perc"},
               Send(kind, next),
               UNCHANGED <<world, heroes, cid, hero, ts, ctl, splits, bridge, stop>>
        PROVE  ProcInv'
    BY <1>7, SendKeepsTypes DEF bridge
  <1>8. CASE SendState \/ SendPerc
    BY <1>7, <1>8 DEF SendState, SendPerc, Kinds
  <1>9. CASE MeasureFails
    BY <1>9 DEF MeasureFails, Exits, bridge
  <1>10. CASE ClientStops
    BY <1>10 DEF ClientStops, Exits, bridge
  <1>11. CASE RecvHeader
    BY <1>11 DEF RecvHeader, HoldLoop, bridge
  <1>12. CASE RecvBody
    <2>1. /\ cpc = "body" /\ cpc' \in {"hdr", "apply"}
          /\ inbox # <<>> \/ (inbox' = inbox /\ got' = got)
          /\ UNCHANGED <<world, heroes, cid, hero, ts, ctl, up, open, wire, bridge, stop>>
      <3>1. cpc = "body" /\ HoldLoop
        BY <1>12 DEF RecvBody
      <3>2. \/ Len(inbox) >= CmdLen /\ cpc' = "hdr"
            \/ inbox = <<>> /\ cpc' = "apply" /\ UNCHANGED <<inbox, got>>
        BY <1>12 DEF RecvBody
      <3>3. inbox = <<>> => Len(inbox) = 0
        BY EmptySeq
      <3>4. CmdLen \in Nat \ {0}
        OBVIOUS
      <3> QED
        BY ONLY <3>1, <3>2, <3>3, <3>4 DEF HoldLoop
    <2>2. UNCHANGED <<spc, sconn, accepted, cache>>
      BY <2>1 DEF bridge
    <2> QED
      BY <2>1, <2>2
  <1>13. CASE DrainEmpty
    BY <1>13 DEF DrainEmpty, HoldLoop, bridge
  <1>14. CASE DrainTimeout
    BY <1>14 DEF DrainTimeout, HoldLoop, bridge
  <1>15. CASE ApplyCmd
    BY <1>15 DEF ApplyCmd, client, bridge, net
  <1>16. CASE Arrive
    BY <1>16 DEF Arrive, client, bridge, net
  <1>17. CASE Accept
    BY <1>17 DEF Accept, client
  <1>18. CASE Handle
    <2>1. sconn \in 1..cid /\ up[sconn] \in Seq(Msg) /\ up[sconn] # <<>>
      BY <1>18 DEF Handle
    <2>2. \A c \in 1..Clients : cid < c => up'[c] = <<>>
      BY <1>18, <2>1 DEF Handle, client
    <2>3. spc' = "plan" => cache'.perc \in Msg
      <3>1. Head(up[sconn]) \in Msg
        BY <2>1
      <3> QED
        BY <1>18, <3>1, MessagesDiffer DEF Handle, Kinds
    <2> QED
      BY <1>18, <2>1, <2>2, <2>3 DEF Handle, client
  <1>19. CASE Eof
    BY <1>19 DEF Eof, EndSession, client, net
  <1>20. CASE PlanOsError
    BY <1>20 DEF PlanOsError, EndSession, client, net
  <1>21. CASE PlanRaises
    BY <1>21 DEF PlanRaises, EndSession, client, net
  <1>22. CASE ServerStops
    BY <1>22 DEF ServerStops, EndSession, client, net
  <1>23. CASE DropBacklog
    BY <1>23 DEF DropBacklog, client, net
  <1>24. CASE PlanDone
    BY <1>24 DEF PlanDone, EndSession, client
  <1> QED
    BY <1>1, <1>2, <1>3, <1>4, <1>5, <1>6, <1>8, <1>9, <1>10, <1>11, <1>12, <1>13, <1>14,
       <1>15, <1>16, <1>17, <1>18, <1>19, <1>20, <1>21, <1>22, <1>23, <1>24
       DEF Next, ClientLoop, Bridge

\* A step that sends no message and handles none.
LEMMA QuietKeepsPairs ==
  ASSUME TInv, PairInv, UNCHANGED <<up, cache>>,
         \A c \in 1..Clients : Live(c)' => Live(c) /\ (sconn = c => sconn' = c),
         spc' = "plan" => spc = "plan" /\ sconn' = sconn,
         cpc' = "perc" => cpc = "perc" /\ UNCHANGED <<cid, ts, hero>>
  PROVE  PairInv'
  <1>1. ASSUME NEW c \in 1..Clients, Live(c)' PROVE Paired(c)'
    BY <1>1 DEF PairInv, Paired
  <1>2. cpc' = "perc" /\ Live(cid)' => Owed'
    <2>1. cpc = "perc" => cid \in 1..Clients
      BY LinkAssumption DEF TInv, TypeOK, ProcInv
    <2> QED
      BY <2>1 DEF PairInv, Owed, Tick, Live
  <1> QED
    BY <1>1, <1>2 DEF PairInv

LEMMA SendKeepsPairs ==
  ASSUME TInv, PairInv, NEW kind \in Kinds, NEW next, cpc \in {"state", "perc"}, Send(kind,
    next),
         \/ cpc = "state" /\ kind = "state" /\ next = "perc"
         \/ cpc = "perc" /\ kind = "perc" /\ next = "hdr",
         UNCHANGED <<cid, ts, hero, spc, sconn, accepted, cache>>
  PROVE  PairInv'
  <1> DEFINE m == [kind |-> kind, conn |-> cid, ts |-> ts, hero |-> hero]
  <1>1. CASE UNCHANGED up /\ (cpc' = next \/ cpc' = "exited") /\ ~Live(cid)
    BY <1>1 DEF PairInv, Paired, Live
  <1>2. ASSUME Live(cid), cpc' = next, cid \in 1..Clients, m \in Msg, up[cid] \in Seq(Msg),
               up' = [up EXCEPT ![cid] = Append(up[cid], m)]
        PROVE  PairInv'
    <2>0. up \in [1..Clients -> Seq(Msg)]
      BY DEF TInv, TypeOK
    <2>1. /\ up'[cid] \in Seq(Msg) /\ Len(up'[cid]) = Len(up[cid]) + 1 /\ Len(up[cid]) \in Nat
          /\ \A i \in 1..Len(up[cid]) : up'[cid][i] = up[cid][i]
          /\ up'[cid][Len(up[cid]) + 1] = m
      BY <1>2, <2>0, AppendProperties
    <2>2. \A c \in 1..Clients : c # cid => up'[c] = up[c]
      BY <1>2, <2>0
    <2>3. Paired(cid) /\ (cpc = "perc" => Owed)
      BY <1>2 DEF PairInv
    <2>4. Paired(cid)'
      <3> SUFFICES ASSUME NEW i \in 1..Len(up'[cid])
                   PROVE  /\ up'[cid][i].conn = cid
                          /\ up'[cid][i].kind = "perc" =>
                               IF i = 1 THEN sconn = cid /\ Pair(cache.state, up'[cid][i])
                               ELSE /\ up'[cid][i - 1].kind = "state"
                                    /\ Pair(up'[cid][i - 1], up'[cid][i])
        BY <2>1 DEF Paired
      <3>1. CASE i <= Len(up[cid])
        <4>1. i \in 1..Len(up[cid]) /\ (i # 1 => i - 1 \in 1..Len(up[cid]))
          BY <2>1, <3>1
        <4>2. up'[cid][i] = up[cid][i] /\ (i # 1 => up'[cid][i - 1] = up[cid][i - 1])
          BY <2>1, <4>1
        <4> QED
          BY <2>3, <4>1, <4>2 DEF Paired
      <3>2. CASE i = Len(up[cid]) + 1
        <4>1. up'[cid][i] = m /\ m.conn = cid /\ m.kind = kind /\ m.ts = ts /\ m.hero = hero
          BY <2>1, <3>2
        <4>2. kind = "perc" => Owed
          BY <2>3
        <4>3. i = 1 <=> up[cid] = <<>>
          BY <1>2, <2>1, <3>2
        <4>4. i # 1 => i - 1 = Len(up[cid]) /\ up'[cid][i - 1] = up[cid][Len(up[cid])]
          BY <2>1, <3>2
        <4> QED
          BY <4>1, <4>2, <4>3, <4>4 DEF Owed, Tick, Pair
      <3> QED
        BY <2>1, <3>1, <3>2
    <2>5. cpc' = "perc" => Owed'
      <3>1. cpc' = "perc" => kind = "state"
        BY <1>2
      <3>2. up'[cid] # <<>> /\ up'[cid][Len(up'[cid])] = m
        BY <2>1, EmptySeq
      <3>3. m.conn = cid /\ m.kind = kind /\ m.ts = ts /\ m.hero = hero
        OBVIOUS
      <3> QED
        BY <3>1, <3>2, <3>3 DEF Owed, Tick, Pair
    <2>6. ASSUME NEW c \in 1..Clients, c # cid, Live(c) PROVE Paired(c)'
      BY <2>2, <2>6 DEF PairInv, Paired
    <2> QED
      BY <2>4, <2>5, <2>6 DEF PairInv, Live
  <1> QED
    BY <1>1, <1>2, Sending DEF Exits

LEMMA HandleKeepsPairs == ASSUME TInv, PairInv, Handle PROVE PairInv'
  <1> DEFINE q == up[sconn]
             m == Head(up[sconn])
  <1>1. /\ up \in [1..Clients -> Seq(Msg)] /\ sconn \in 1..Clients /\ q \in Seq(Msg) /\ q # <<>>
        /\ sconn \in accepted
        /\ cache \in [state : Msg \cup {NoMsg}, perc : Msg \cup {NoMsg}]
    BY LinkAssumption DEF Handle, TInv, TypeOK, ProcInv
  <1>2. /\ m \in Msg /\ m = q[1] /\ Len(q) \in Nat /\ Len(q) >= 1
        /\ Tail(q) \in Seq(Msg) /\ Len(Tail(q)) = Len(q) - 1
        /\ \A i \in 1..Len(Tail(q)) : Tail(q)[i] = q[i + 1]
    BY <1>1, HeadTailProperties, LenProperties, EmptySeq
  <1>3. /\ cache' = IF m.kind = "state" THEN [cache EXCEPT !.state = m]
                                        ELSE [cache EXCEPT !.perc = m]
        /\ spc' = IF m.kind = "perc" THEN "plan" ELSE "session"
        /\ up' = [up EXCEPT ![sconn] = Tail(q)]
        /\ UNCHANGED <<cid, cpc, hero, ts, sconn, accepted>>
    BY DEF Handle, client
  <1>4. up'[sconn] = Tail(q) /\ \A c \in 1..Clients : c # sconn => up'[c] = up[c]
    BY <1>1, <1>2, <1>3
  <1>5. m.kind \in {"state", "perc"}
    BY <1>2, MessagesDiffer DEF Kinds
  <1>6. /\ m.kind = "state" => cache'.state = m
        /\ m.kind = "perc" => cache'.state = cache.state /\ cache'.perc = m
    BY <1>1, <1>3, <1>5
  <1>7. Paired(sconn)
    BY <1>1 DEF PairInv, Live
  <1>8. \A i \in 2..Len(q) : q[i].conn = sconn /\ (q[i].kind = "perc" =>
                               q[i - 1].kind = "state" /\ Pair(q[i - 1], q[i]))
    BY <1>7 DEF Paired
  <1>9. m.conn = sconn /\ (m.kind = "perc" => Pair(cache.state, m))
    BY <1>2, <1>7 DEF Paired
  <1>10. Paired(sconn)'
    <2> SUFFICES ASSUME NEW i \in 1..Len(Tail(q))
                 PROVE  /\ Tail(q)[i].conn = sconn
                        /\ Tail(q)[i].kind = "perc" =>
                             IF i = 1 THEN Pair(cache'.state, Tail(q)[i])
                             ELSE /\ Tail(q)[i - 1].kind = "state"
                                  /\ Pair(Tail(q)[i - 1], Tail(q)[i])
      BY <1>3, <1>4 DEF Paired
    <2>1. i + 1 \in 2..Len(q) /\ Tail(q)[i] = q[i + 1] /\ (i + 1) - 1 = i
      BY <1>2
    <2>2. i # 1 => i - 1 \in 1..Len(Tail(q)) /\ (i - 1) + 1 = i
      BY <1>2
    <2>3. i # 1 => Tail(q)[i - 1] = q[i]
      BY <1>2, <2>2
    <2>4. q[i + 1].conn = sconn /\ (q[i + 1].kind = "perc" =>
                               q[i].kind = "state" /\ Pair(q[i], q[i + 1]))
      BY <1>8, <2>1
    <2>5. i = 1 /\ q[i].kind = "state" => cache'.state = q[i]
      BY <1>2, <1>6
    <2> QED
      BY <2>1, <2>3, <2>4, <2>5
  <1>11. ASSUME NEW c \in 1..Clients, c # sconn, Live(c) PROVE Paired(c)'
    BY <1>3, <1>4, <1>11 DEF PairInv, Paired
  <1>12. cpc = "perc" /\ Live(cid) => Owed'
    <2> SUFFICES ASSUME cpc = "perc", Live(cid) PROVE Owed'
      OBVIOUS
    <2>1. Owed
      BY DEF PairInv
    <2>2. CASE cid # sconn
      <3>1. cid \in 1..Clients
        BY LinkAssumption DEF TInv, TypeOK, ProcInv
      <3>2. up[cid] # <<>> /\ up'[cid] = up[cid]
        BY <1>4, <2>1, <2>2, <3>1 DEF Owed
      <3> QED
        BY <1>3, <2>1, <3>2 DEF Owed, Tick
    <2>3. CASE cid = sconn
      <3>1. q[Len(q)].kind = "state" /\ Pair(q[Len(q)], Tick)
        BY <1>1, <2>1, <2>3 DEF Owed
      <3>2. CASE Len(q) = 1
        <4>1. Tail(q) = <<>>
          <5>1. Tail(q) \in Seq(Msg) /\ Len(Tail(q)) = 0
            BY <1>2, <3>2
          <5> QED
            BY ONLY <5>1, EmptySeq
        <4>2. cache'.state = q[1]
          BY <1>2, <1>6, <3>1, <3>2
        <4> QED
          BY <1>3, <1>4, <2>3, <3>1, <3>2, <4>1, <4>2 DEF Owed, Tick
      <3>3. CASE Len(q) # 1
        <4>1. Len(Tail(q)) \in 1..Len(Tail(q)) /\ Len(Tail(q)) + 1 = Len(q) /\ Tail(q) # <<>>
          <5>1. Len(q) \in Nat /\ Len(q) >= 1 /\ Len(q) # 1 /\ Len(Tail(q)) = Len(q) - 1
            BY <1>2, <3>3
          <5>2. Tail(q) = <<>> => Len(Tail(q)) = 0
            BY EmptySeq
          <5> QED
            BY ONLY <5>1, <5>2
        <4>2. Tail(q)[Len(Tail(q))] = q[Len(q)]
          BY <1>2, <4>1
        <4> QED
          BY <1>3, <1>4, <2>3, <3>1, <4>1, <4>2 DEF Owed, Tick
      <3> QED
        BY <3>2, <3>3
    <2> QED
      BY <2>2, <2>3
  <1>13. spc' = "plan" => Pair(cache'.state, cache'.perc) /\ cache'.perc.conn = sconn
    BY <1>3, <1>5, <1>6, <1>9
  <1> QED
    BY <1>3, <1>10, <1>11, <1>12, <1>13 DEF PairInv, Live

LEMMA PairsHold == ASSUME TInv, PairInv, Next PROVE PairInv'
  <1> USE QuietKeepsPairs
  <1>0. /\ sconn # 0 => sconn \in accepted
        /\ accepted \subseteq 1..cid /\ (spc \in {"exit", "crash"} => sconn = 0)
    BY DEF TInv, ProcInv
  <1>1. CASE SpawnHero
    BY <1>0, <1>1 DEF SpawnHero, client, bridge, net, Live
  <1>2. CASE DestroyHero
    BY <1>0, <1>2 DEF DestroyHero, client, bridge, net, Live
  <1>3. CASE Signal
    BY <1>0, <1>3 DEF Signal, client, bridge, net, Live
  <1>4. CASE Connect
    BY <1>0, <1>4 DEF Connect, bridge, Live
  <1>5. CASE WaitHero
    BY <1>0, <1>5 DEF WaitHero, bridge, net, Live
  <1>6. CASE LoopTop
    BY <1>0, <1>6 DEF LoopTop, bridge, net, Live
  <1>7. CASE MeasureFails
    BY <1>0, <1>7 DEF MeasureFails, Exits, bridge, Live
  <1>8. CASE ClientStops
    BY <1>0, <1>8 DEF ClientStops, Exits, bridge, Live
  <1>9. CASE RecvHeader
    BY <1>0, <1>9 DEF RecvHeader, HoldLoop, bridge, Live
  <1>10. CASE RecvBody
    BY <1>0, <1>10 DEF RecvBody, HoldLoop, bridge, Live
  <1>11. CASE DrainEmpty
    BY <1>0, <1>11 DEF DrainEmpty, HoldLoop, bridge, Live
  <1>12. CASE DrainTimeout
    BY <1>0, <1>12 DEF DrainTimeout, HoldLoop, bridge, Live
  <1>13. CASE ApplyCmd
    BY <1>0, <1>13 DEF ApplyCmd, bridge, net, Live
  <1>14. CASE Arrive
    BY <1>0, <1>14 DEF Arrive, client, bridge, Live
  <1>15. CASE Accept
    BY <1>0, <1>15 DEF Accept, client, Live
  <1>16. CASE Eof
    BY <1>0, <1>16 DEF Eof, EndSession, client, net, Live
  <1>17. CASE PlanDone
    BY <1>0, <1>17 DEF PlanDone, EndSession, client, Live
  <1>18. CASE PlanOsError
    BY <1>0, <1>18 DEF PlanOsError, EndSession, client, net, Live
  <1>19. CASE PlanRaises
    BY <1>0, <1>19 DEF PlanRaises, client, net, Live
  <1>20. CASE ServerStops
    BY <1>0, <1>20 DEF ServerStops, client, net, Live
  <1>21. CASE DropBacklog
    BY <1>0, <1>21 DEF DropBacklog, client, net, Live
  <1>22. CASE SendState
    BY <1>22, SendKeepsPairs DEF SendState, bridge, Kinds
  <1>23. CASE SendPerc
    BY <1>23, SendKeepsPairs DEF SendPerc, bridge, Kinds
  <1>24. CASE Handle
    BY <1>24, HandleKeepsPairs
  <1> QED
    BY <1>1, <1>2, <1>3, <1>4, <1>5, <1>6, <1>7, <1>8, <1>9, <1>10, <1>11, <1>12, <1>13, <1>14,
       <1>15, <1>16, <1>17, <1>18, <1>19, <1>20, <1>21, <1>22, <1>23, <1>24
       DEF Next, ClientLoop, Bridge

LEMMA Joined ==
  ASSUME NEW q \in Seq(Unit), NEW r \in Seq(Unit)
  PROVE  /\ q \o r \in Seq(Unit) /\ Len(q \o r) = Len(q) + Len(r)
         /\ \A i \in 1..Len(q) : (q \o r)[i] = q[i]
         /\ \A i \in 1..Len(r) : (q \o r)[i + Len(q)] = r[i]
  <1>1. Len(q) \in Nat /\ Len(r) \in Nat
    OBVIOUS
  <1>2. /\ q \o r \in Seq(Unit) /\ Len(q \o r) = Len(q) + Len(r)
        /\ \A i \in 1..Len(q) + Len(r) :
              (q \o r)[i] = IF i <= Len(q) THEN q[i] ELSE r[i - Len(q)]
    BY ConcatProperties
  <1>3. \A i \in 1..Len(r) : /\ i + Len(q) \in 1..Len(q) + Len(r)
                             /\ ~(i + Len(q) <= Len(q)) /\ (i + Len(q)) - Len(q) = i
    BY <1>1
  <1> QED
    BY <1>1, <1>2, <1>3

LEMMA FlowIs ==
  ASSUME TInv
  PROVE  /\ inbox \in Seq(Unit) /\ wire \in Seq(Unit) /\ Flow \in Seq(Unit)
         /\ Len(inbox) \in Nat /\ Len(wire) \in Nat /\ Len(Flow) = Len(inbox) + Len(wire)
         /\ \A i \in 1..Len(inbox) : Flow[i] = inbox[i]
         /\ \A i \in 1..Len(Flow) :
               Flow[i].cmd \in Cmd \cup {NoCmd} /\ Flow[i].at \in 1..(HdrLen + CmdLen)
  <1>1. inbox \in Seq(Unit) /\ wire \in Seq(Unit)
    BY DEF TInv, TypeOK
  <1>2. /\ Flow \in Seq(Unit) /\ Len(Flow) = Len(inbox) + Len(wire)
        /\ \A i \in 1..Len(inbox) : Flow[i] = inbox[i]
    BY <1>1, Joined DEF Flow
  <1>3. \A i \in 1..Len(Flow) : Flow[i] \in Unit
    BY <1>2
  <1> QED
    BY <1>1, <1>2, <1>3 DEF Unit

LEMMA Regroup ==
  \A q, r, t \in Seq(Unit) : (q \o r) \o t = q \o (r \o t)
  <1> SUFFICES ASSUME NEW q \in Seq(Unit), NEW r \in Seq(Unit), NEW t \in Seq(Unit)
               PROVE  (q \o r) \o t = q \o (r \o t)
    OBVIOUS
  <1> QED
    BY ConcatAssociative

\* r is q without its first n units.
Rest(q, n, r) == Len(r) = Len(q) - n /\ \A i \in 1..(Len(q) - n) : r[i] = q[i + n]

LEMMA ReadFlow ==
  ASSUME TInv, NEW n \in 0..Len(inbox), wire' = wire,
         inbox' = SubSeq(inbox, n + 1, Len(inbox))
  PROVE  Rest(Flow, n, Flow')
  <1> DEFINE new == SubSeq(inbox, n + 1, Len(inbox))
  <1>0. inbox \in Seq(Unit) /\ wire \in Seq(Unit)
    BY FlowIs
  <1>1. new \in Seq(Unit) /\ Len(new) = Len(inbox) - n
        /\ \A i \in 1..(Len(inbox) - n) : new[i] = inbox[i + n]
    BY <1>0, Pieces
  <1>2. n \in Nat /\ n <= Len(inbox) /\ Len(inbox) \in Nat /\ Len(wire) \in Nat
    BY <1>0
  <1>3. Flow = inbox \o wire /\ Flow' = new \o wire
    BY DEF Flow
  <1> HIDE DEF new
  <1>4. /\ Len(Flow) = Len(inbox) + Len(wire) /\ Len(Flow') = Len(new) + Len(wire)
        /\ \A i \in 1..Len(inbox) : Flow[i] = inbox[i]
        /\ \A i \in 1..Len(wire) : Flow[i + Len(inbox)] = wire[i]
        /\ \A i \in 1..Len(new) : Flow'[i] = new[i]
        /\ \A i \in 1..Len(wire) : Flow'[i + Len(new)] = wire[i]
    <2>1. /\ Len(inbox \o wire) = Len(inbox) + Len(wire)
          /\ \A i \in 1..Len(inbox) : (inbox \o wire)[i] = inbox[i]
          /\ \A i \in 1..Len(wire) : (inbox \o wire)[i + Len(inbox)] = wire[i]
      BY ONLY <1>0, Joined
    <2>2. new \in Seq(Unit)
      BY <1>1
    <2>3. /\ Len(new \o wire) = Len(new) + Len(wire)
          /\ \A i \in 1..Len(new) : (new \o wire)[i] = new[i]
          /\ \A i \in 1..Len(wire) : (new \o wire)[i + Len(new)] = wire[i]
      BY ONLY <1>0, <2>2, Joined
    <2> QED
      BY ONLY <1>3, <2>1, <2>3
  <1>5. ASSUME NEW i \in 1..(Len(Flow) - n) PROVE Flow'[i] = Flow[i + n]
    <2>1. CASE i <= Len(inbox) - n
      <3>1. i \in 1..(Len(inbox) - n) /\ i + n \in 1..Len(inbox) /\ i \in 1..Len(new)
        BY ONLY <1>1, <1>2, <1>4, <2>1, i \in 1..(Len(Flow) - n)
      <3> QED
        BY ONLY <1>1, <1>4, <3>1
    <2>2. CASE i > Len(inbox) - n
      <3> DEFINE j == i - (Len(inbox) - n)
      <3>1. j \in 1..Len(wire) /\ i = j + Len(new) /\ i + n = j + Len(inbox)
        BY ONLY <1>1, <1>2, <1>4, <2>2, i \in 1..(Len(Flow) - n)
      <3> HIDE DEF j
      <3> QED
        BY ONLY <1>4, <3>1
    <2> QED
      BY <1>2, <1>4, <2>1, <2>2
  <1> QED
    BY ONLY <1>1, <1>2, <1>4, <1>5 DEF Rest

LEMMA DropFlow ==
  ASSUME TInv, wire' = wire, inbox' = <<>>
  PROVE  Len(inbox) \in 0..Len(inbox) /\ Rest(Flow, Len(inbox), Flow')
  <1>1. Len(inbox) \in Nat /\ Len(inbox) \in 0..Len(inbox)
    BY FlowIs
  <1>2. inbox' = SubSeq(inbox, Len(inbox) + 1, Len(inbox))
    BY <1>1, SubSeqEmpty
  <1> QED
    BY <1>1, <1>2, ReadFlow

LEMMA ArriveFlow == ASSUME TInv, Arrive PROVE Flow' = Flow
  <1>1. PICK n \in 1..Len(wire) : /\ inbox' = inbox \o SubSeq(wire, 1, n)
                                  /\ wire' = SubSeq(wire, n + 1, Len(wire))
    BY DEF Arrive
  <1> DEFINE come == SubSeq(wire, 1, n)
             stay == SubSeq(wire, n + 1, Len(wire))
  <1>2. inbox \in Seq(Unit) /\ wire \in Seq(Unit)
    BY FlowIs
  <1>3. come \in Seq(Unit) /\ stay \in Seq(Unit)
    BY <1>2, Pieces
  <1>4. come \o stay = wire
    <2>1. /\ Len(wire) \in Nat /\ 1 \in 1..Len(wire) + 1 /\ n \in 1 - 1 .. Len(wire)
          /\ Len(wire) \in n..Len(wire)
      BY <1>2
    <2>2. come \o stay = SubSeq(wire, 1, Len(wire))
      BY <1>2, <2>1, ConcatAdjacentSubSeq
    <2> QED
      BY <1>2, <2>2, SubSeqFull
  <1>5. Flow' = (inbox \o come) \o stay
    BY <1>1 DEF Flow
  <1> HIDE DEF come, stay
  <1>6. (inbox \o come) \o stay = inbox \o (come \o stay)
    BY <1>2, <1>3, Regroup
  <1> QED
    BY <1>4, <1>5, <1>6 DEF Flow

LEMMA GrowFlow ==
  ASSUME TInv, NEW t \in Seq(Unit), inbox' = inbox, wire' = wire \o t
  PROVE  /\ Flow' \in Seq(Unit) /\ Len(Flow') = Len(Flow) + Len(t)
         /\ \A i \in 1..Len(Flow) : Flow'[i] = Flow[i]
         /\ \A i \in 1..Len(t) : Flow'[i + Len(Flow)] = t[i]
  <1>1. inbox \in Seq(Unit) /\ wire \in Seq(Unit) /\ Flow \in Seq(Unit)
    BY FlowIs
  <1>2. Flow' = Flow \o t
    <2>1. Flow = inbox \o wire /\ Flow' = inbox \o (wire \o t)
      BY DEF Flow
    <2> QED
      BY ONLY <1>1, <2>1, t \in Seq(Unit), Regroup
  <1> QED
    BY ONLY <1>1, <1>2, t \in Seq(Unit), Joined

LEMMA WholeRest ==
  ASSUME NEW q \in Seq(Unit), NEW r, NEW n \in 0..Len(q), Whole(q), Rest(q, n, r)
  PROVE  Whole(r)
  <1> SUFFICES ASSUME NEW i \in 1..Len(r), NEW k \in 0..(HdrLen + CmdLen),
                      r[i].at + k <= FrameLen(r[i].cmd)
               PROVE  i + k <= Len(r) /\ r[i + k] = [cmd |-> r[i].cmd, at |-> r[i].at + k]
    BY DEF Whole
  <1>1. Len(q) \in Nat /\ n \in Nat /\ n <= Len(q) /\ k \in Nat /\ i \in Nat /\ i >= 1
        /\ Len(r) = Len(q) - n /\ i <= Len(r)
    BY LinkAssumption DEF Rest
  <1>2. i + n \in 1..Len(q) /\ i \in 1..(Len(q) - n)
    BY ONLY <1>1
  <1>3. r[i] = q[i + n]
    BY <1>2 DEF Rest
  <1>4. (i + n) + k <= Len(q) /\ q[(i + n) + k] = [cmd |-> q[i + n].cmd, at |-> q[i + n].at + k]
    BY <1>2, <1>3 DEF Whole
  <1>5. i + k \in 1..(Len(q) - n) /\ (i + k) + n = (i + n) + k /\ i + k <= Len(r)
    BY ONLY <1>1, <1>4
  <1>6. r[i + k] = q[(i + n) + k]
    BY <1>5 DEF Rest
  <1> QED
    BY <1>3, <1>4, <1>5, <1>6

LEMMA WholeGrows ==
  ASSUME NEW q \in Seq(Unit), NEW r, NEW c \in Cmd \cup {NoCmd}, NEW t \in Seq(Unit),
         Whole(q), Len(t) = FrameLen(c), \A i \in 1..Len(t) : t[i] = [cmd |-> c, at |-> i],
         Len(r) = Len(q) + Len(t),
         \A i \in 1..Len(q) : r[i] = q[i],
         \A i \in 1..Len(t) : r[i + Len(q)] = t[i]
  PROVE  Whole(r)
  <1>1. Len(q) \in Nat /\ Len(t) \in Nat
    OBVIOUS
  <1> SUFFICES ASSUME NEW i \in 1..Len(r), NEW k \in 0..(HdrLen + CmdLen),
                      r[i].at + k <= FrameLen(r[i].cmd)
               PROVE  i + k <= Len(r) /\ r[i + k] = [cmd |-> r[i].cmd, at |-> r[i].at + k]
    BY DEF Whole
  <1>2. i \in Nat /\ i >= 1 /\ i <= Len(r) /\ k \in Nat
    BY <1>1, LinkAssumption
  <1>3. CASE i <= Len(q)
    <2>1. i \in 1..Len(q)
      BY <1>2, <1>3
    <2>2. r[i] = q[i]
      BY <2>1
    <2>3. i + k <= Len(q) /\ q[i + k] = [cmd |-> q[i].cmd, at |-> q[i].at + k]
      BY <2>1, <2>2 DEF Whole
    <2>4. i + k \in 1..Len(q) /\ i + k <= Len(r)
      BY ONLY <1>1, <1>2, <2>3, Len(r) = Len(q) + Len(t)
    <2> QED
      BY <2>2, <2>3, <2>4
  <1>4. CASE i > Len(q)
    <2> DEFINE j == i - Len(q)
    <2>1. j \in 1..Len(t) /\ j + Len(q) = i
      BY ONLY <1>1, <1>2, <1>4, Len(r) = Len(q) + Len(t)
    <2>2. r[i] = [cmd |-> c, at |-> j]
      BY <2>1
    <2>3. j + k <= Len(t)
      BY <2>2
    <2>4. j + k \in 1..Len(t) /\ (j + k) + Len(q) = i + k /\ i + k <= Len(r)
      BY ONLY <1>1, <1>2, <2>1, <2>3, Len(r) = Len(q) + Len(t)
    <2>5. r[(j + k) + Len(q)] = [cmd |-> c, at |-> j + k]
      BY <2>4
    <2> QED
      BY <2>2, <2>4, <2>5
  <1> QED
    BY <1>1, <1>2, <1>3, <1>4

\* A step that leaves the units under way and the client's drain alone.
LEMMA QuietKeepsFrames ==
  ASSUME FlowInv, UNCHANGED <<inbox, wire, got>>, cpc' = "body" => cpc = "body"
  PROVE  FlowInv'
  BY DEF FlowInv, Flow, Whole, Body

\* Exits, Connect: nothing is under way.
LEMMA EmptyKeepsFrames ==
  ASSUME wire' = <<>>, inbox' = <<>>, got' = <<>>, cpc' # "body"
  PROVE  FlowInv'
  <1>1. Flow' = <<>> /\ Len(Flow') = 0
    BY EmptySeq, ConcatEmptySeq DEF Flow
  <1> QED
    BY <1>1 DEF FlowInv, Whole

\* The bridge appends a frame.
LEMMA GrowKeepsFrames ==
  ASSUME TInv, FlowInv, NEW c \in Cmd \cup {NoCmd}, NEW t \in Seq(Unit), Len(t) = FrameLen(c),
         \A i \in 1..Len(t) : t[i] = [cmd |-> c, at |-> i],
         UNCHANGED <<inbox, got, cpc>>, wire' = wire \o t
  PROVE  FlowInv'
  <1>1. /\ Flow \in Seq(Unit) /\ Flow' \in Seq(Unit) /\ Len(Flow') = Len(Flow) + Len(t)
        /\ \A i \in 1..Len(Flow) : Flow'[i] = Flow[i]
        /\ \A i \in 1..Len(t) : Flow'[i + Len(Flow)] = t[i]
    BY FlowIs, GrowFlow
  <1>2. Whole(Flow')
    BY <1>1, WholeGrows DEF FlowInv
  <1>3. Flow # <<>> => Flow' # <<>> /\ Flow'[1] = Flow[1]
    <2>1. Flow # <<>> => Len(Flow) \in Nat \ {0} /\ 1 \in 1..Len(Flow)
      BY <1>1, EmptySeq
    <2>2. Flow' = <<>> => Len(Flow') = 0
      BY EmptySeq
    <2>3. Len(t) \in Nat
      OBVIOUS
    <2> QED
      BY <1>1, <2>1, <2>2, <2>3
  <1> QED
    BY <1>2, <1>3 DEF FlowInv, Body, Whole

\* The drain reads n units and does not stop between a header and its body.
LEMMA ReadKeepsFrames ==
  ASSUME TInv, FlowInv, NEW n \in 0..Len(inbox), Rest(Flow, n, Flow'), cpc' # "body",
         got' = got \/ (got' # <<>> => got'[1].cmd # NoCmd /\ got' = Body(got'[1].cmd))
  PROVE  FlowInv'
  <1>1. n \in 0..Len(Flow) /\ Flow \in Seq(Unit)
    BY FlowIs
  <1>2. Whole(Flow')
    BY <1>1, WholeRest DEF FlowInv
  <1> QED
    BY <1>2 DEF FlowInv

LEMMA HeaderKeepsFrames == ASSUME TInv, FlowInv, RecvHeader PROVE FlowInv'
  <1>1. HdrLen \in 0..Len(inbox) /\ Rest(Flow, HdrLen, Flow') /\ got' = got
    <2>1. HdrLen \in 0..Len(inbox)
      BY LinkAssumption, FlowIs DEF RecvHeader
    <2> QED
      BY <2>1, ReadFlow DEF RecvHeader, Consume, HoldLoop
  <1>2. CASE cpc' # "body"
    BY <1>1, <1>2, ReadKeepsFrames
  <1>3. CASE cpc' = "body"
    <2>1. HdrLen \in Nat \ {0} /\ CmdLen \in Nat \ {0}
      BY LinkAssumption
    <2>2. Len(inbox) \in Nat /\ Len(inbox) >= HdrLen /\ inbox # <<>>
      BY <1>1, <2>1, FlowIs, EmptySeq
    <2>3. inbox[1].at = 1 /\ inbox[1].cmd # NoCmd
      BY <1>3, <2>2 DEF RecvHeader, Aligned
    <2>4. 1 \in 1..Len(inbox) /\ 1 \in 1..Len(Flow) /\ Flow \in Seq(Unit) /\ Flow[1] = inbox[1]
      <3>1. 1 \in 1..Len(inbox)
        BY ONLY <2>1, <2>2
      <3> QED
        BY <3>1, FlowIs
    <2>5. HdrLen \in 0..(HdrLen + CmdLen) /\ 1 + HdrLen <= FrameLen(Flow[1].cmd)
      BY <2>1, <2>3, <2>4 DEF FrameLen
    <2>6. 1 + HdrLen <= Len(Flow) /\ Flow[1 + HdrLen] = [cmd |-> Flow[1].cmd, at |-> 1 + HdrLen]
      BY <2>3, <2>4, <2>5 DEF FlowInv, Whole
    <2>7. HdrLen \in 0..Len(Flow) /\ 1 \in 1..(Len(Flow) - HdrLen) /\ Len(Flow) \in Nat
      <3>1. Len(Flow) \in Nat
        BY <2>4
      <3> QED
        BY ONLY <2>1, <2>6, <3>1
    <2>8. Flow'[1] = Flow[1 + HdrLen] /\ Len(Flow') = Len(Flow) - HdrLen
      BY <1>1, <2>7 DEF Rest
    <2>9. Flow' # <<>>
      <3>1. Flow' = <<>> => Len(Flow') = 0
        BY EmptySeq
      <3> QED
        BY ONLY <2>7, <2>8, <2>1, <3>1
    <2>10. Whole(Flow')
      BY <1>1, <2>4, <2>7, WholeRest DEF FlowInv
    <2>11. Flow'[1].cmd # NoCmd /\ Flow'[1].at = HdrLen + 1
      BY <2>1, <2>3, <2>4, <2>6, <2>8
    <2> QED
      BY <1>1, <2>9, <2>10, <2>11 DEF FlowInv
  <1> QED
    BY <1>2, <1>3

LEMMA BodyKeepsFrames == ASSUME TInv, FlowInv, RecvBody PROVE FlowInv'
  <1>1. CASE inbox = <<>> /\ cpc' = "apply" /\ UNCHANGED <<inbox, got>>
    BY <1>1, QuietKeepsFrames DEF RecvBody, HoldLoop
  <1>2. CASE Len(inbox) >= CmdLen /\ Consume(CmdLen) /\ got' = SubSeq(inbox, 1, CmdLen)
          /\ cpc' = "hdr"
    <2>1. HdrLen \in Nat \ {0} /\ CmdLen \in Nat \ {0} /\ Len(inbox) \in Nat
            /\ Len(inbox) >= CmdLen
          /\ inbox \in Seq(Unit)
      BY <1>2, LinkAssumption, FlowIs
    <2>2. CmdLen \in 0..Len(inbox) /\ 1 \in 1..Len(inbox) /\ 1 \in 1..CmdLen
      BY ONLY <2>1
    <2>3. Rest(Flow, CmdLen, Flow')
      BY <1>2, <2>2, ReadFlow DEF Consume, RecvBody, HoldLoop
    <2>4. got' \in Seq(Unit) /\ Len(got') = CmdLen /\ \A i \in 1..CmdLen : got'[i] = inbox[i]
      BY <1>2, <2>1, <2>2, Pieces
    <2> DEFINE c == Flow[1].cmd
    <2>5. c # NoCmd /\ Flow[1].at = HdrLen + 1 /\ 1 \in 1..Len(Flow) /\ Flow[1] = inbox[1]
          /\ c \in Cmd \cup {NoCmd}
      BY <2>2, FlowIs DEF RecvBody, FlowInv
    <2>6. ASSUME NEW i \in 1..CmdLen PROVE inbox[i] = [cmd |-> c, at |-> HdrLen + i]
      <3>1. /\ i \in 1..Len(inbox) /\ i - 1 \in 0..(HdrLen + CmdLen) /\ 1 + (i - 1) = i
            /\ (HdrLen + 1) + (i - 1) <= HdrLen + CmdLen /\ (HdrLen + 1) + (i - 1) = HdrLen + i
        BY ONLY <2>1, i \in 1..CmdLen
      <3>2. Flow[1].at + (i - 1) <= FrameLen(c)
        BY <2>5, <3>1 DEF FrameLen
      <3>3. Flow[1 + (i - 1)] = [cmd |-> c, at |-> Flow[1].at + (i - 1)]
        BY <2>5, <3>1, <3>2 DEF FlowInv, Whole
      <3> QED
        BY <2>5, <3>1, <3>3, FlowIs
    <2>7. Body(c) \in Seq(Unit) /\ Len(Body(c)) = CmdLen
          /\ \A i \in 1..CmdLen : Body(c)[i] = [cmd |-> c, at |-> HdrLen + i]
      <3>1. \A i \in 1..CmdLen : [cmd |-> c, at |-> HdrLen + i] \in Unit
        BY <2>1, <2>5 DEF Unit
      <3>2. CmdLen \in Nat /\ Body(c) = [i \in 1..CmdLen |-> [cmd |-> c, at |-> HdrLen + i]]
        BY <2>1 DEF Body
      <3> HIDE DEF c
      <3> QED
        BY ONLY <3>1, <3>2
    <2>8. got' = Body(c)
      BY <2>4, <2>6, <2>7, SeqEqual, <2>2
    <2>9. got'[1].cmd = c
      BY <2>2, <2>4, <2>5
    <2> QED
      BY <1>2, <2>2, <2>3, <2>5, <2>8, <2>9, ReadKeepsFrames
  <1> QED
    BY <1>1, <1>2 DEF RecvBody

LEMMA FramesHold == ASSUME TInv, FlowInv, Next PROVE FlowInv'
  <1>1. CASE SpawnHero
    BY <1>1, QuietKeepsFrames DEF SpawnHero, client, bridge, net
  <1>2. CASE DestroyHero
    BY <1>2, QuietKeepsFrames DEF DestroyHero, client, bridge, net
  <1>3. CASE Signal
    BY <1>3, QuietKeepsFrames DEF Signal, client, bridge, net
  <1>4. CASE Connect
    BY <1>4, EmptyKeepsFrames DEF Connect
  <1>5. CASE WaitHero
    BY <1>5, QuietKeepsFrames DEF WaitHero, net
  <1>6. CASE LoopTop
    BY <1>6, QuietKeepsFrames DEF LoopTop, net
  <1>7. CASE MeasureFails
    BY <1>7, EmptyKeepsFrames DEF MeasureFails, Exits
  <1>8. CASE ClientStops
    BY <1>8, EmptyKeepsFrames DEF ClientStops, Exits
  <1>9. CASE RecvHeader
    BY <1>9, HeaderKeepsFrames
  <1>10. CASE RecvBody
    BY <1>10, BodyKeepsFrames
  <1>11. CASE DrainEmpty
    BY <1>11, QuietKeepsFrames DEF DrainEmpty, HoldLoop
  <1>12. CASE DrainTimeout
    BY <1>12, DropFlow, ReadKeepsFrames DEF DrainTimeout, HoldLoop
  <1>13. CASE ApplyCmd
    <2>1. Flow' = Flow /\ got' = <<>> /\ cpc' # "body"
      BY <1>13 DEF ApplyCmd, net, Flow
    <2> QED
      BY <2>1 DEF FlowInv
  <1>14. CASE Arrive
    <2>1. Flow' = Flow /\ UNCHANGED <<got, cpc>>
      BY <1>14, ArriveFlow DEF Arrive, client
    <2> QED
      BY <2>1 DEF FlowInv
  <1>15. CASE SendState \/ SendPerc
    <2>1. (UNCHANGED <<wire, inbox, got>> \/ Exits) /\ cpc' \in {"perc", "hdr", "exited"}
      BY <1>15 DEF SendState, SendPerc, Send, Exits
    <2> QED
      BY <2>1, QuietKeepsFrames, EmptyKeepsFrames DEF Exits
  <1>16. CASE Accept
    <2>1. UNCHANGED <<inbox, got, cpc>> /\ (wire' = wire \/ wire' = wire \o HelloFrame)
      BY <1>16 DEF Accept, client
    <2>2. Len(HelloFrame) = FrameLen(NoCmd)
      BY FrameUnits DEF FrameLen
    <2>3. HelloFrame \in Seq(Unit)
            /\ \A i \in 1..Len(HelloFrame) : HelloFrame[i] = [cmd |-> NoCmd, at |-> i]
      BY FrameUnits
    <2> QED
      BY <2>1, <2>2, <2>3, QuietKeepsFrames, GrowKeepsFrames
  <1>17. CASE PlanDone
    <2>1. Planned \in Cmd /\ Planned # NoCmd
      BY <1>17, PlanOf, MessagesDiffer DEF PlanDone
    <2>2. UNCHANGED <<inbox, got, cpc>> /\ (wire' = wire \/ wire' = wire \o Frame(Planned))
      BY <1>17 DEF PlanDone, Planned, client
    <2>3. /\ Frame(Planned) \in Seq(Unit) /\ Len(Frame(Planned)) = FrameLen(Planned)
          /\ \A i \in 1..Len(Frame(Planned)) : Frame(Planned)[i] = [cmd |-> Planned, at |-> i]
      BY <2>1, FrameUnits DEF FrameLen
    <2> QED
      BY <2>1, <2>2, <2>3, QuietKeepsFrames, GrowKeepsFrames
  <1>18. CASE Handle
    BY <1>18, QuietKeepsFrames DEF Handle, client
  <1>19. CASE Eof
    BY <1>19, QuietKeepsFrames DEF Eof, client, net
  <1>20. CASE PlanOsError
    BY <1>20, QuietKeepsFrames DEF PlanOsError, client, net
  <1>21. CASE PlanRaises
    BY <1>21, QuietKeepsFrames DEF PlanRaises, client, net
  <1>22. CASE ServerStops
    BY <1>22, QuietKeepsFrames DEF ServerStops, client, net
  <1>23. CASE DropBacklog
    BY <1>23, QuietKeepsFrames DEF DropBacklog, client, net
  <1> QED
    BY <1>1, <1>2, <1>3, <1>4, <1>5, <1>6, <1>7, <1>8, <1>9, <1>10, <1>11, <1>12, <1>13, <1>14,
       <1>15, <1>16, <1>17, <1>18, <1>19, <1>20, <1>21, <1>22, <1>23 DEF Next, ClientLoop, Bridge

Stamped(m) == m.ts \in Nat /\ m.hero \in Nat

LEMMA BeforeOrders ==
  ASSUME NEW a, NEW b, NEW c, Stamped(a), Stamped(b), Stamped(c)
  PROVE  Before(a, a) /\ (Before(a, b) /\ Before(b, c) => Before(a, c))
  BY DEF Stamped, Before

LEMMA AllStamped ==
  ASSUME TInv
  PROVE  /\ Stamped(ctl) /\ Stamped(Tick) /\ Stamped(NoCmd)
         /\ got # <<>> => Stamped(got[1].cmd)
         /\ \A i \in 1..Len(Flow) : Stamped(Flow[i].cmd)
         /\ \A c \in 1..Clients : \A i \in 1..Len(up[c]) : Stamped(up[c][i])
         /\ spc = "plan" => Stamped(cache.perc)
  <1>1. Stamped(NoCmd) /\ \A c \in Cmd : Stamped(c)
    BY MessagesDiffer DEF Stamped
  <1>2. \A m \in Msg : Stamped(m)
    BY MessagesDiffer, LinkAssumption DEF Stamped
  <1>3. Stamped(ctl) /\ Stamped(Tick)
    BY <1>1, LinkAssumption DEF TInv, TypeOK, Tick, Stamped
  <1>4. got # <<>> => Stamped(got[1].cmd)
    <2>1. got # <<>> => got[1] \in Unit
      BY DEF TInv, TypeOK
    <2> QED
      BY <1>1, <2>1 DEF Unit
  <1>5. \A i \in 1..Len(Flow) : Stamped(Flow[i].cmd)
    BY <1>1, FlowIs
  <1>6. \A c \in 1..Clients : \A i \in 1..Len(up[c]) : up[c][i] \in Msg
    <2>1. \A c \in 1..Clients : up[c] \in Seq(Msg)
      BY DEF TInv, TypeOK
    <2> QED
      BY <2>1, ElementOfSeq
  <1>7. spc = "plan" => cache.perc \in Msg
    BY DEF TInv, ProcInv
  <1> QED
    BY <1>1, <1>2, <1>3, <1>4, <1>5, <1>6, <1>7

\* The simulation moves on, and nobody sends, handles or reads.
LEMMA ClockKeepsOrder ==
  ASSUME TInv, OrderInv, UNCHANGED <<cid, ctl, got, up, cache>>, Flow' = Flow,
         ts' \in Nat, hero' \in Nat, ts <= ts', hero <= hero',
         spc' = "plan" /\ sconn' = cid => spc = "plan" /\ sconn = cid
  PROVE  OrderInv'
  <1>1. Stamped(Tick') /\ Before(Tick, Tick')
    BY DEF Stamped, Before, Tick
  <1>2. \A m : Stamped(m) /\ Before(m, Tick) => Before(m, Tick')
    BY <1>1, BeforeOrders, AllStamped
  <1>3. \A m : Stamped(m) /\ Under(m) => Beneath(ctl', got', Flow', m)
    BY DEF Under
  <1>4. Under(Tick)'
    BY <1>2, AllStamped DEF OrderInv, Under, Beneath
  <1>5. cid # 0 => cid \in 1..Clients
    BY LinkAssumption DEF TInv, TypeOK
  <1>6. ASSUME cid # 0, NEW i \in 1..Len(up[cid])
        PROVE  /\ Beneath(ctl', got', Flow', up[cid][i]) /\ Before(up[cid][i], Tick')
               /\ \A j \in 1..Len(up[cid]) : i <= j => Before(up[cid][i], up[cid][j])
    BY <1>2, <1>3, <1>5, <1>6, AllStamped DEF OrderInv
  <1>7. ASSUME spc = "plan", sconn = cid
        PROVE  /\ Beneath(ctl', got', Flow', cache.perc) /\ Before(cache.perc, Tick')
               /\ \A i \in 1..Len(up[cid]) : Before(cache.perc, up[cid][i])
    BY <1>2, <1>3, <1>5, <1>7, AllStamped DEF OrderInv
  <1>8. /\ Own(ctl)' /\ \A i \in 1..Len(Flow) : Own(Flow[i].cmd)'
        /\ got # <<>> => Own(got[1].cmd)' /\ Before(ctl, got[1].cmd)
        /\ \A i \in 1..Len(Flow) :
             /\ Before(ctl, Flow[i].cmd)
             /\ got # <<>> => Before(got[1].cmd, Flow[i].cmd)
             /\ \A j \in 1..Len(Flow) : i <= j => Before(Flow[i].cmd, Flow[j].cmd)
    BY DEF OrderInv, Own
  <1> QED
    BY <1>4, <1>6, <1>7, <1>8 DEF OrderInv, Under

\* The drain reads n units; a command it completes is the first of them.
LEMMA ReadKeepsOrder ==
  ASSUME TInv, OrderInv, UNCHANGED <<cid, ctl, up, cache, ts, hero, spc, sconn>>,
         NEW n \in 0..Len(Flow), Rest(Flow, n, Flow'),
         \/ got' = got \/ got' = <<>>
         \/ n >= 1 /\ got'[1].cmd = Flow[1].cmd
  PROVE  OrderInv'
  <1>0. Len(Flow) \in Nat /\ n \in Nat /\ n <= Len(Flow)
    BY FlowIs
  <1>1. \A i \in 1..Len(Flow') : i + n \in 1..Len(Flow) /\ Flow'[i] = Flow[i + n]
    BY <1>0 DEF Rest
  <1>2. \A i, j \in 1..Len(Flow') : i <= j => i + n <= j + n
    BY <1>0 DEF Rest
  <1>3. CASE got' = got \/ got' = <<>>
    <2>1. \A m : Under(m) => Beneath(ctl', got', Flow', m)
      BY <1>1, <1>3 DEF Under, Beneath
    <2> QED
      BY <1>1, <1>2, <1>3, <2>1 DEF OrderInv, Own, Tick, Under
  <1>4. CASE n >= 1 /\ got'[1].cmd = Flow[1].cmd
    <2>1. 1 \in 1..Len(Flow) /\ \A i \in 1..Len(Flow') : 1 <= i + n
      BY <1>0, <1>1, <1>4
    <2>2. \A m : Under(m) => Beneath(ctl', got', Flow', m)
      BY <1>1, <1>4, <2>1 DEF Under, Beneath, OrderInv
    <2> QED
      BY <1>1, <1>2, <1>4, <2>1, <2>2 DEF OrderInv, Own, Tick, Under
  <1> QED
    BY <1>3, <1>4

LEMMA ApplyKeepsOrder == ASSUME TInv, OrderInv, ApplyCmd PROVE OrderInv'
  <1>1. /\ ctl' = IF got = <<>> THEN ctl ELSE got[1].cmd
        /\ got' = <<>> /\ Flow' = Flow
        /\ UNCHANGED <<cid, up, cache, ts, hero, spc, sconn>>
    BY DEF ApplyCmd, bridge, net, Flow
  <1>2. \A m : Under(m) => Beneath(ctl', got', Flow', m)
    BY <1>1 DEF Under, Beneath, OrderInv
  <1> QED
    BY <1>1, <1>2 DEF OrderInv, Own, Tick, Under

LEMMA SendKeepsOrder ==
  ASSUME TInv, OrderInv, NEW m \in Msg, m.ts = ts, m.hero = hero, cid \in 1..Clients,
         up' = [up EXCEPT ![cid] = Append(up[cid], m)],
         UNCHANGED <<cid, ctl, got, cache, ts, hero, spc, sconn, inbox, wire>>
  PROVE  OrderInv'
  <1>0. up \in [1..Clients -> Seq(Msg)] /\ up[cid] \in Seq(Msg)
    BY DEF TInv, TypeOK
  <1>1. /\ Len(up[cid]) \in Nat /\ Len(up'[cid]) = Len(up[cid]) + 1
        /\ \A i \in 1..Len(up[cid]) : up'[cid][i] = up[cid][i]
        /\ up'[cid][Len(up[cid]) + 1] = m
    BY <1>0, AppendProperties
  <1>2. Flow' = Flow /\ Tick' = Tick
    BY DEF Flow, Tick
  <1>3. \A x : Before(x, m) <=> Before(x, Tick)
    BY DEF Before, Tick
  <1>4. Under(m) /\ Before(m, Tick) /\ Before(m, m)
    <2>1. Under(Tick)
      BY DEF OrderInv
    <2>2. Under(m)
      BY <1>3, <2>1 DEF Under, Beneath
    <2>3. Before(Tick, Tick)
      BY AllStamped, BeforeOrders
    <2> QED
      BY <2>2, <2>3 DEF Before, Tick
  <1>5. cid # 0
    BY LinkAssumption
  <1>6. ASSUME NEW i \in 1..Len(up'[cid])
        PROVE  /\ Beneath(ctl, got, Flow, up'[cid][i]) /\ Before(up'[cid][i], Tick)
               /\ \A j \in 1..Len(up'[cid]) : i <= j => Before(up'[cid][i], up'[cid][j])
    <2>1. CASE i = Len(up[cid]) + 1
      <3>1. \A j \in 1..Len(up'[cid]) : i <= j => j = i
        BY <1>1, <2>1
      <3> QED
        BY <1>1, <1>4, <2>1, <3>1 DEF Under
    <2>2. CASE i <= Len(up[cid])
      <3>1. i \in 1..Len(up[cid])
        BY <1>1, <2>2
      <3>2. \A j \in 1..Len(up'[cid]) : j \in 1..Len(up[cid]) \/ j = Len(up[cid]) + 1
        BY <1>1
      <3> QED
        BY <1>1, <1>3, <1>5, <3>1, <3>2 DEF OrderInv, Under
    <2> QED
      BY <1>1, <2>1, <2>2
  <1>7. ASSUME spc = "plan", sconn = cid
        PROVE  \A i \in 1..Len(up'[cid]) : Before(cache.perc, up'[cid][i])
    <2>1. \A j \in 1..Len(up'[cid]) : j \in 1..Len(up[cid]) \/ j = Len(up[cid]) + 1
      BY <1>1
    <2> QED
      BY <1>1, <1>3, <1>7, <2>1 DEF OrderInv
  <1> QED
    BY <1>2, <1>6, <1>7 DEF OrderInv, Own, Under

LEMMA HandleKeepsOrder == ASSUME TInv, OrderInv, Handle PROVE OrderInv'
  <1> DEFINE q == up[sconn]
             m == Head(up[sconn])
  <1>1. /\ up \in [1..Clients -> Seq(Msg)] /\ sconn \in 1..Clients /\ q \in Seq(Msg) /\ q # <<>>
        /\ cache \in [state : Msg \cup {NoMsg}, perc : Msg \cup {NoMsg}]
    BY LinkAssumption DEF Handle, TInv, TypeOK, ProcInv
  <1>2. /\ m \in Msg /\ m = q[1] /\ Len(q) \in Nat /\ Len(q) >= 1
        /\ Tail(q) \in Seq(Msg) /\ Len(Tail(q)) = Len(q) - 1
        /\ \A i \in 1..Len(Tail(q)) : Tail(q)[i] = q[i + 1]
    BY <1>1, HeadTailProperties, LenProperties, EmptySeq
  <1>3. /\ m.kind = "perc" => cache'.perc = m
        /\ spc' = "plan" => m.kind = "perc"
        /\ up' = [up EXCEPT ![sconn] = Tail(q)]
        /\ UNCHANGED <<cid, ctl, got, hero, ts, sconn, inbox, wire>>
    BY <1>1, <1>2 DEF Handle, client
  <1>4. Flow' = Flow /\ Tick' = Tick
    BY <1>3 DEF Flow, Tick
  <1>5. CASE cid # sconn
    <2>1. cid # 0 => up'[cid] = up[cid]
      BY <1>1, <1>3, <1>5, LinkAssumption DEF TInv, TypeOK
    <2> QED
      BY <1>3, <1>4, <1>5, <2>1 DEF OrderInv, Own, Under
  <1>6. CASE cid = sconn
    <2>1. cid # 0 /\ up'[cid] = Tail(q) /\ up[cid] = q
      BY <1>1, <1>3, <1>6
    <2>2. \A i \in 1..Len(q) : /\ Under(q[i]) /\ Before(q[i], Tick)
                               /\ \A j \in 1..Len(q) : i <= j => Before(q[i], q[j])
      BY <2>1 DEF OrderInv
    <2>3. \A i \in 1..Len(Tail(q)) : i + 1 \in 1..Len(q) /\ 1 \in 1..Len(q) /\ 1 <= i + 1
      BY <1>2
    <2>4. \A i, j \in 1..Len(Tail(q)) : i <= j => i + 1 <= j + 1
      BY <1>2
    <2>5. ASSUME NEW i \in 1..Len(Tail(q))
          PROVE  /\ Under(Tail(q)[i]) /\ Before(Tail(q)[i], Tick)
                 /\ \A j \in 1..Len(Tail(q)) : i <= j => Before(Tail(q)[i], Tail(q)[j])
      BY <1>2, <2>2, <2>3, <2>4
    <2>6. spc' = "plan" =>
            /\ Under(cache'.perc) /\ Before(cache'.perc, Tick)
            /\ \A i \in 1..Len(Tail(q)) : Before(cache'.perc, Tail(q)[i])
      <3>1. spc' = "plan" => cache'.perc = q[1]
        BY <1>2, <1>3
      <3>2. 1 \in 1..Len(q)
        BY <1>2
      <3> QED
        BY <1>2, <2>2, <2>3, <3>1, <3>2
    <2> QED
      BY <1>3, <1>4, <2>1, <2>5, <2>6 DEF OrderInv, Own, Under
  <1> QED
    BY <1>5, <1>6

\* The bridge appends the frame of a plan, which no command on the way outruns.
LEMMA PlanKeepsOrder ==
  ASSUME TInv, PairInv, OrderInv, spc = "plan", sconn = cid, wire' = wire \o Frame(Planned),
         spc' # "plan", UNCHANGED <<cid, ctl, got, hero, ts, up, inbox>>
  PROVE  OrderInv'
  <1>1. /\ Planned \in Cmd /\ Planned # NoCmd
        /\ Frame(Planned) \in Seq(Unit) /\ Len(Frame(Planned)) = HdrLen + CmdLen
        /\ \A i \in 1..(HdrLen + CmdLen) : Frame(Planned)[i] = [cmd |-> Planned, at |-> i]
    BY PlanOf, FrameUnits, MessagesDiffer
  <1>2. /\ Len(Flow') = Len(Flow) + (HdrLen + CmdLen)
        /\ \A i \in 1..Len(Flow) : Flow'[i] = Flow[i]
        /\ \A i \in 1..(HdrLen + CmdLen) : Flow'[i + Len(Flow)] = [cmd |-> Planned, at |-> i]
    BY <1>1, GrowFlow
  <1>3. Len(Flow) \in Nat /\ HdrLen + CmdLen \in Nat
    BY FlowIs, LinkAssumption
  <1>4. ASSUME NEW i \in 1..Len(Flow')
        PROVE  \/ i \in 1..Len(Flow) /\ Flow'[i].cmd = Flow[i].cmd
               \/ i > Len(Flow) /\ Flow'[i].cmd = Planned
    <2>1. CASE i <= Len(Flow)
      BY <1>2, <1>3, <2>1
    <2>2. CASE i > Len(Flow)
      <3> DEFINE j == i - Len(Flow)
      <3>1. j \in 1..(HdrLen + CmdLen) /\ j + Len(Flow) = i
        BY ONLY <1>2, <1>3, <2>2, i \in 1..Len(Flow')
      <3>2. Flow'[j + Len(Flow)] = [cmd |-> Planned, at |-> j]
        BY <1>2, <3>1
      <3> QED
        BY <2>2, <3>1, <3>2
    <2> QED
      BY <1>2, <1>3, <2>1, <2>2
  <1>5. \A m : /\ Before(Planned, m) <=> Before(cache.perc, m)
               /\ Before(m, Planned) <=> Before(m, cache.perc)
    BY DEF Before, Planned
  <1>6. Planned.conn = cid
    BY DEF PairInv, Planned
  <1>7. /\ Under(cache.perc) /\ Before(cache.perc, Tick) /\ Before(Planned, Planned)
        /\ cid # 0 => \A i \in 1..Len(up[cid]) : Before(cache.perc, up[cid][i])
    <2>1. Before(cache.perc, cache.perc)
      BY AllStamped, BeforeOrders
    <2> QED
      BY <1>5, <2>1 DEF OrderInv
  <1>8. \A i \in 1..Len(Flow') : Own(Flow'[i].cmd)
    BY <1>4, <1>6 DEF OrderInv, Own
  <1>9. \A i \in 1..Len(Flow') : Before(Flow'[i].cmd, Planned)
    BY <1>4, <1>5, <1>7 DEF Under, Beneath
  <1>10. \A i, j \in 1..Len(Flow') : i <= j => Before(Flow'[i].cmd, Flow'[j].cmd)
    <2> SUFFICES ASSUME NEW i \in 1..Len(Flow'), NEW j \in 1..Len(Flow'), i <= j
                 PROVE  Before(Flow'[i].cmd, Flow'[j].cmd)
      OBVIOUS
    <2>1. CASE j > Len(Flow)
      BY <1>4, <1>9, <2>1, <1>3
    <2>2. CASE j \in 1..Len(Flow)
      <3>1. i \in 1..Len(Flow)
        BY <1>3, <2>2, <1>2
      <3> QED
        BY <1>2, <2>2, <3>1 DEF OrderInv
    <2> QED
      BY <1>4, <2>1, <2>2
  <1>11. \A i \in 1..Len(Flow') : /\ Before(ctl, Flow'[i].cmd)
                                  /\ got # <<>> => Before(got[1].cmd, Flow'[i].cmd)
    BY <1>4, <1>5, <1>7 DEF OrderInv, Under, Beneath
  <1>12. \A m : Under(m) /\ Before(cache.perc, m) => Beneath(ctl', got', Flow', m)
    BY <1>4, <1>5 DEF Under, Beneath
  <1>13. /\ Own(ctl) /\ (got # <<>> => Own(got[1].cmd) /\ Before(ctl, got[1].cmd)) /\ Under(Tick)
         /\ cid # 0 => \A i \in 1..Len(up[cid]) :
              /\ Under(up[cid][i]) /\ Before(up[cid][i], Tick)
              /\ \A j \in 1..Len(up[cid]) : i <= j => Before(up[cid][i], up[cid][j])
    BY DEF OrderInv
  <1>14. /\ ctl = NoCmd \/ ctl.conn = cid
         /\ got # <<>> => got[1].cmd = NoCmd \/ got[1].cmd.conn = cid
         /\ \A i \in 1..Len(Flow') : Flow'[i].cmd = NoCmd \/ Flow'[i].cmd.conn = cid
         /\ Tick' = Tick
    BY <1>8, <1>13 DEF Own, Tick
  <1>15. /\ Beneath(ctl', got', Flow', Tick')
         /\ cid # 0 => \A i \in 1..Len(up[cid]) : Beneath(ctl', got', Flow', up[cid][i])
    BY <1>7, <1>12, <1>13, <1>14
  <1> QED
    BY <1>10, <1>11, <1>13, <1>14, <1>15 DEF OrderInv, Under, Own

\* The bridge greets the client: until then nothing was sent to it.
LEMMA GreetKeepsOrder ==
  ASSUME TInv, OrderInv, cid \notin accepted, wire' = wire \o HelloFrame, spc' # "plan",
         UNCHANGED <<cid, ctl, got, hero, ts, up, inbox>>
  PROVE  OrderInv'
  <1>1. wire = <<>> /\ inbox = <<>> /\ got = <<>> /\ ctl = NoCmd
    BY DEF TInv, ProcInv
  <1>2. Flow' = HelloFrame
    BY <1>1, FrameUnits, ConcatEmptySeq DEF Flow
  <1>3. \A i \in 1..Len(Flow') : Flow'[i].cmd = NoCmd
    BY <1>2, FrameUnits
  <1>4. \A m : Stamped(m) => Before(NoCmd, m) /\ Beneath(ctl', got', Flow', m)
    BY <1>1, <1>3 DEF Before, Stamped, NoCmd, Beneath
  <1>5. Stamped(Tick) /\ Stamped(NoCmd) /\ Tick' = Tick
    BY AllStamped DEF Tick
  <1>6. cid # 0 => \A i \in 1..Len(up[cid]) : Stamped(up[cid][i])
    BY AllStamped, LinkAssumption DEF TInv, TypeOK
  <1> QED
    BY <1>1, <1>3, <1>4, <1>5, <1>6 DEF OrderInv, Own, Under

LEMMA ConnectKeepsOrder == ASSUME TInv, Connect PROVE OrderInv'
  <1>1. /\ cid \in Nat /\ cid' = cid + 1 /\ cid' \in 1..Clients /\ ctl' = NoCmd /\ got' = <<>>
        /\ hero' = 0 /\ ts' = ts /\ ts \in Nat
        /\ wire' = <<>> /\ inbox' = <<>> /\ up' = up /\ sconn' = sconn
    BY LinkAssumption DEF Connect, bridge, TInv, TypeOK
  <1>2. sconn # cid' /\ up[cid'] = <<>> /\ Len(up'[cid']) = 0
    BY <1>1, EmptySeq DEF TInv, ProcInv
  <1>3. Flow' = <<>> /\ Len(Flow') = 0
    BY <1>1, EmptySeq, ConcatEmptySeq DEF Flow
  <1>4. Beneath(ctl', got', Flow', Tick')
    BY <1>1, <1>3 DEF Beneath, Before, NoCmd, Tick
  <1> QED
    BY <1>1, <1>2, <1>3, <1>4 DEF OrderInv, Own, Under

LEMMA OrderHolds == ASSUME TInv, PairInv, FlowInv, OrderInv, Next PROVE OrderInv'
  <1>0. ts \in Nat /\ hero \in Nat /\ world \in Nat /\ heroes \in Nat /\ MaxTs \in Nat
        /\ world \in {0, heroes} /\ hero <= heroes /\ ts <= MaxTs
    BY LinkAssumption DEF TInv, TypeOK, ProcInv
  <1>1. CASE SpawnHero
    BY <1>0, <1>1, ClockKeepsOrder DEF SpawnHero, client, bridge, net, Flow
  <1>2. CASE DestroyHero
    BY <1>0, <1>2, ClockKeepsOrder DEF DestroyHero, client, bridge, net, Flow
  <1>3. CASE Signal
    BY <1>0, <1>3, ClockKeepsOrder DEF Signal, client, bridge, net, Flow
  <1>4. CASE WaitHero
    BY <1>0, <1>4, ClockKeepsOrder DEF WaitHero, bridge, net, Flow
  <1>5. CASE LoopTop
    BY <1>0, <1>5, ClockKeepsOrder DEF LoopTop, Capped, bridge, net, Flow
  <1>6. CASE DrainEmpty
    BY <1>0, <1>6, ClockKeepsOrder DEF DrainEmpty, HoldLoop, bridge, Flow
  <1>7. CASE Connect
    BY <1>7, ConnectKeepsOrder
  <1>8. ASSUME Exits, UNCHANGED <<cid, ctl, up, ts, hero, spc, sconn, cache>> PROVE OrderInv'
    <2>1. Len(Flow) \in Nat /\ Len(Flow) \in 0..Len(Flow)
      BY FlowIs
    <2>2. Flow' = <<>> /\ got' = <<>>
      BY <1>8, ConcatEmptySeq DEF Exits, Flow
    <2>3. Rest(Flow, Len(Flow), Flow')
      BY <2>1, <2>2, EmptySeq DEF Rest
    <2> QED
      BY <1>8, <2>1, <2>2, <2>3, ReadKeepsOrder
  <1>9. CASE MeasureFails
    BY <1>9, <1>8 DEF MeasureFails, bridge
  <1>10. CASE ClientStops
    BY <1>10, <1>8 DEF ClientStops, bridge
  <1>11. CASE RecvHeader
    <2>1. HdrLen \in 0..Len(inbox) /\ Len(inbox) <= Len(Flow) /\ Len(Flow) \in Nat
      BY <1>11, LinkAssumption, FlowIs DEF RecvHeader
    <2>2. Rest(Flow, HdrLen, Flow')
      BY <1>11, <2>1, ReadFlow DEF RecvHeader, Consume, HoldLoop
    <2>3. HdrLen \in 0..Len(Flow)
      BY <2>1
    <2> QED
      BY <1>11, <2>2, <2>3, ReadKeepsOrder DEF RecvHeader, HoldLoop, bridge
  <1>12. CASE RecvBody
    <2>1. CASE UNCHANGED <<inbox, got>>
      BY <1>0, <1>12, <2>1, ClockKeepsOrder DEF RecvBody, HoldLoop, bridge, Flow
    <2>2. CASE Len(inbox) >= CmdLen /\ Consume(CmdLen) /\ got' = SubSeq(inbox, 1, CmdLen)
      <3>1. /\ CmdLen \in 0..Len(inbox) /\ Len(inbox) <= Len(Flow) /\ Len(Flow) \in Nat
            /\ CmdLen >= 1 /\ inbox \in Seq(Unit)
        BY <2>2, LinkAssumption, FlowIs
      <3>2. Rest(Flow, CmdLen, Flow')
        BY <1>12, <2>2, <3>1, ReadFlow DEF RecvBody, Consume, HoldLoop
      <3>3. CmdLen \in 0..Len(Flow) /\ 1 \in 1..CmdLen /\ 1 \in 1..Len(inbox)
        BY <3>1
      <3>4. got'[1] = Flow[1]
        BY <2>2, <3>1, <3>3, Pieces, FlowIs
      <3> QED
        BY <1>12, <3>1, <3>2, <3>3, <3>4, ReadKeepsOrder DEF RecvBody, HoldLoop, bridge
    <2> QED
      BY <1>12, <2>1, <2>2 DEF RecvBody
  <1>13. CASE DrainTimeout
    <2>1. /\ Len(inbox) \in 0..Len(inbox) /\ Rest(Flow, Len(inbox), Flow')
          /\ Len(inbox) <= Len(Flow) /\ Len(Flow) \in Nat
      BY <1>13, DropFlow, FlowIs DEF DrainTimeout, HoldLoop
    <2>2. Len(inbox) \in 0..Len(Flow)
      BY <2>1
    <2> QED
      BY <1>13, <2>1, <2>2, ReadKeepsOrder DEF DrainTimeout, HoldLoop, bridge
  <1>14. CASE ApplyCmd
    BY <1>14, ApplyKeepsOrder
  <1>15. CASE Arrive
    BY <1>0, <1>15, ArriveFlow, ClockKeepsOrder DEF Arrive, client, bridge
  <1>16. ASSUME NEW kind \in Kinds, NEW next, cpc \in {"state", "perc"}, Send(kind, next),
               UNCHANGED <<cid, hero, ts, ctl, spc, sconn, cache>>
        PROVE  OrderInv'
    <2> DEFINE m == [kind |-> kind, conn |-> cid, ts |-> ts, hero |-> hero]
    <2>1. CASE /\ UNCHANGED <<wire, inbox, got>> /\ cid \in 1..Clients /\ m \in Msg
               /\ up' = [up EXCEPT ![cid] = Append(up[cid], m)]
      BY <1>16, <2>1, SendKeepsOrder
    <2>2. CASE UNCHANGED <<up, wire, inbox, got>>
      BY <1>0, <1>16, <2>2, ClockKeepsOrder DEF Flow
    <2>3. CASE Exits /\ UNCHANGED up
      BY <1>8, <1>16, <2>3
    <2> QED
      BY <1>16, <2>1, <2>2, <2>3, Sending
  <1>17. CASE SendState
    BY <1>17, <1>16 DEF SendState, Kinds, bridge
  <1>18. CASE SendPerc
    BY <1>18, <1>16 DEF SendPerc, Kinds, bridge
  <1>19. CASE Accept
    <2>1. CASE wire' = wire
      BY <1>0, <1>19, <2>1, ClockKeepsOrder DEF Accept, client, Flow
    <2>2. CASE wire' = wire \o HelloFrame /\ cid \notin accepted
      BY <1>19, <2>2, GreetKeepsOrder DEF Accept, client
    <2> QED
      BY <1>19, <2>1, <2>2 DEF Accept
  <1>20. CASE Handle
    BY <1>20, HandleKeepsOrder
  <1>21. CASE PlanDone
    <2>1. CASE wire' = wire
      BY <1>0, <1>21, <2>1, ClockKeepsOrder DEF PlanDone, EndSession, client, Flow
    <2>2. CASE wire' = wire \o Frame(Planned) /\ sconn \in open
      <3>1. sconn = cid
        BY <2>2 DEF TInv, ProcInv
      <3>2. spc = "plan" /\ spc' # "plan" /\ UNCHANGED <<cid, ctl, got, hero, ts, up, inbox>>
        BY <1>21 DEF PlanDone, EndSession, client
      <3> QED
        BY <2>2, <3>1, <3>2, PlanKeepsOrder
    <2> QED
      BY <1>21, <2>1, <2>2 DEF PlanDone, Planned
  <1>22. CASE Eof
    BY <1>0, <1>22, ClockKeepsOrder DEF Eof, EndSession, client, net, Flow
  <1>23. CASE PlanOsError
    BY <1>0, <1>23, ClockKeepsOrder DEF PlanOsError, EndSession, client, net, Flow
  <1>24. CASE PlanRaises
    BY <1>0, <1>24, ClockKeepsOrder DEF PlanRaises, client, net, Flow
  <1>25. CASE ServerStops
    BY <1>0, <1>25, ClockKeepsOrder DEF ServerStops, client, net, Flow
  <1>26. CASE DropBacklog
    BY <1>0, <1>26, ClockKeepsOrder DEF DropBacklog, client, net, Flow
  <1> QED
    BY <1>1, <1>2, <1>3, <1>4, <1>5, <1>6, <1>7, <1>9, <1>10, <1>11, <1>12, <1>13, <1>14,
       <1>15, <1>17, <1>18, <1>19, <1>20, <1>21, <1>22, <1>23, <1>24, <1>25, <1>26
       DEF Next, ClientLoop, Bridge

LEMMA InvAlways == Spec => []IInv
  <1>1. Init => IInv
    <2> SUFFICES ASSUME Init PROVE IInv
      OBVIOUS
    <2>1. TInv
      <3>1. TypeOK
        <4>1. /\ got \in Seq(Unit) /\ wire \in Seq(Unit) /\ inbox \in Seq(Unit)
              /\ up \in [1..Clients -> Seq(Msg)]
          BY EmptySeq DEF Init
        <4>2. /\ cache \in [state : Msg \cup {NoMsg}, perc : Msg \cup {NoMsg}]
              /\ ctl \in Cmd \cup {NoCmd}
          BY DEF Init
        <4>3. /\ world \in 0..MaxHero /\ heroes \in 0..MaxHero /\ cid \in 0..Clients
              /\ hero \in 0..MaxHero /\ ts \in 0..MaxTs /\ splits \in 0..MaxSplits
              /\ sconn \in 0..Clients
          BY LinkAssumption DEF Init
        <4>4. /\ open \subseteq 1..Clients /\ accepted \subseteq 1..Clients
              /\ cpc = "off" /\ spc = "accept" /\ stop = FALSE
          BY DEF Init
        <4> QED
          BY <4>1, <4>2, <4>3, <4>4 DEF TypeOK
      <3>2. ProcInv
        BY LinkAssumption DEF Init, ProcInv, Runs, Attached
      <3> QED
        BY <3>1, <3>2 DEF TInv
    <2>2. Flow = <<>> /\ Len(Flow) = 0 /\ \A c \in 1..Clients : up[c] = <<>> /\ Len(up[c]) = 0
      BY EmptySeq, ConcatEmptySeq DEF Init, Flow
    <2>3. PairInv
      BY <2>2 DEF Init, PairInv, Paired
    <2>4. FlowInv
      BY <2>2 DEF Init, FlowInv, Whole
    <2>5. OrderInv
      BY <2>2 DEF Init, OrderInv, Own, Under, Beneath, Before, Tick, NoCmd
    <2> QED
      BY <2>1, <2>3, <2>4, <2>5 DEF IInv
  <1>2. IInv /\ [Next]_vars => IInv'
    <2> SUFFICES ASSUME IInv, [Next]_vars PROVE IInv'
      OBVIOUS
    <2>1. CASE Next
      BY <2>1, TypesHold, ProcessesHold, PairsHold, FramesHold, OrderHolds DEF IInv, TInv
    <2>2. CASE UNCHANGED vars
      <3> USE <2>2 DEF vars, client, bridge, net
      <3>1. TypeOK'
        BY DEF IInv, TInv, TypeOK
      <3>2. ProcInv'
        BY DEF IInv, TInv, ProcInv, Runs, Attached
      <3>3. PairInv'
        BY DEF IInv, PairInv, Paired, Live, Owed, Tick
      <3>4. FlowInv'
        BY DEF IInv, FlowInv, Flow
      <3>5. OrderInv'
        BY DEF IInv, OrderInv, Own, Under, Flow, Tick
      <3> QED
        BY <3>1, <3>2, <3>3, <3>4, <3>5 DEF IInv, TInv
    <2> QED
      BY <2>1, <2>2
  <1> QED
    BY <1>1, <1>2, PTL DEF Spec

\* TypeOK: every variable keeps its type, for every number of clients and every bound.
THEOREM TypeCorrect == Spec => []TypeOK
  <1>1. IInv => TypeOK
    BY DEF IInv, TInv
  <1> QED
    BY InvAlways, <1>1, PTL

\* PlansFromOneTick: although the cache outlives sessions and clients die between their
\* two messages, on_tick sees the state and the perception of one tick.
THEOREM PlansAreOfOneTick == Spec => []PlansFromOneTick
  <1>1. IInv => PlansFromOneTick
    BY DEF IInv, PairInv, Pair, PlansFromOneTick
  <1> QED
    BY InvAlways, <1>1, PTL

\* NoTornCommand: try_recv_cmd never hands on a body made of two frames, wherever the
\* network cuts them and whatever a timeout has dropped.
THEOREM CommandsAreWhole == Spec => []NoTornCommand
  <1>1. IInv => NoTornCommand
    <2> SUFFICES ASSUME IInv, got # <<>>
                 PROVE  got = SubSeq(Frame(got[1].cmd), HdrLen + 1, HdrLen + CmdLen)
      BY DEF NoTornCommand
    <2> DEFINE c == got[1].cmd
               f == Frame(c)
    <2>1. got = Body(c) /\ c \in Cmd
      <3>1. got[1] \in Unit /\ c # NoCmd /\ got = Body(c)
        BY DEF IInv, TInv, TypeOK, FlowInv
      <3> QED
        BY <3>1 DEF Unit
    <2>2. /\ HdrLen \in Nat /\ CmdLen \in Nat /\ HdrLen >= 1 /\ CmdLen >= 1
          /\ f \in Seq(Unit) /\ Len(f) = HdrLen + CmdLen
          /\ \A i \in 1..(HdrLen + CmdLen) : f[i] = [cmd |-> c, at |-> i]
      BY <2>1, FrameUnits, LinkAssumption
    <2>3. HdrLen \in 0..Len(f) /\ Len(f) - HdrLen = CmdLen
      BY ONLY <2>2
    <2> HIDE DEF f, c
    <2> DEFINE b == SubSeq(f, HdrLen + 1, Len(f))
    <2>4. /\ b \in Seq(Unit) /\ Len(b) = CmdLen
          /\ \A i \in 1..CmdLen : b[i] = f[i + HdrLen]
      BY <2>2, <2>3, Pieces
    <2>5. \A i \in 1..CmdLen : b[i] = [cmd |-> c, at |-> HdrLen + i]
      <3>1. \A i \in 1..CmdLen : i + HdrLen \in 1..(HdrLen + CmdLen) /\ i + HdrLen = HdrLen + i
        BY ONLY <2>2
      <3> QED
        BY <2>2, <2>4, <3>1
    <2>6. /\ Body(c) \in Seq(Unit) /\ Len(Body(c)) = CmdLen
          /\ \A i \in 1..CmdLen : Body(c)[i] = [cmd |-> c, at |-> HdrLen + i]
      <3>1. \A i \in 1..CmdLen : [cmd |-> c, at |-> HdrLen + i] \in Unit
        BY <2>1, <2>2 DEF Unit
      <3> QED
        BY <2>2, <3>1 DEF Body
    <2>7. b = Body(c)
      BY <2>4, <2>5, <2>6, SeqEqual
    <2> QED
      BY <2>1, <2>2, <2>7 DEF f, c
  <1> QED
    BY InvAlways, <1>1, PTL

\* NoOlderCommand: the command in force only moves to later ticks and later heroes of
\* the same client process, although commands of several ticks are under way at once.
THEOREM CommandsInOrder == Spec => NoOlderCommand
  <1>1. IInv /\ [Next]_vars =>
          [(cid' = cid /\ ctl' # ctl) =>
              /\ ctl'.ts >= ctl.ts /\ ctl'.hero >= ctl.hero
              /\ ctl'.conn = cid]_vars
    <2> SUFFICES ASSUME IInv, Next, cid' = cid, ctl' # ctl
                 PROVE  ctl'.ts >= ctl.ts /\ ctl'.hero >= ctl.hero /\ ctl'.conn = cid
      OBVIOUS
    <2>1. ApplyCmd
      <3>1. ~Connect
        BY DEF Connect, IInv, TInv, TypeOK
      <3> QED
        BY <3>1 DEF Next, ClientLoop, Bridge, SpawnHero, DestroyHero, MeasureFails,
           ClientStops, Signal, Arrive, WaitHero, LoopTop, SendState, SendPerc, RecvHeader,
           RecvBody, DrainEmpty, DrainTimeout, HoldLoop, Accept, Handle, Eof, PlanDone,
           PlanOsError, PlanRaises, ServerStops, DropBacklog, client
    <2>2. got # <<>> /\ ctl' = got[1].cmd
      BY <2>1 DEF ApplyCmd
    <2>3. /\ got[1].cmd # NoCmd /\ Own(got[1].cmd) /\ Before(ctl, got[1].cmd)
          /\ Stamped(ctl) /\ Stamped(got[1].cmd)
      BY <2>2, AllStamped DEF IInv, FlowInv, OrderInv
    <2> QED
      BY <2>2, <2>3 DEF Own, Before, Stamped
  <1> QED
    BY InvAlways, <1>1, PTL DEF Spec, NoOlderCommand
=============================================================================
