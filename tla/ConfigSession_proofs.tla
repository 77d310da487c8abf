------------------------ MODULE ConfigSession_proofs ------------------------
(***************************************************************************)
(* For every set of modules, signals and lanes, every limit of the history *)
(* and every number of edits and of failed writes: what the marks, the     *)
(* files and the canvas of gf-config say of its session is true.           *)
(***************************************************************************)
EXTENDS ConfigSession, SequenceTheorems, TLAPS

Ports == [out : SUBSET Signals, in : SUBSET Signals]
Wires == [from : Procs, svc : Signals, to : Procs]
LaneWires == [lane : Lanes, to : Procs]
Reqs == [sku : BOOLEAN, active : BOOLEAN, bridge : BOOLEAN, lanes : SUBSET Lanes,
         policies : SUBSET Signals]
PortMaps == UNION {[D -> Ports] : D \in SUBSET Procs}
Wirings == [ports : PortMaps, flows : SUBSET Wires, chans : SUBSET LaneWires, place : BOOLEAN]
Tables == SUBSET (Procs \cup {Host})
Sessions == [doc : Docs, dirty : SUBSET Slices]
Canvases == [cards : PortMaps, edges : SUBSET Wires, chans : SUBSET LaneWires, ingest : BOOLEAN,
             lanes : SUBSET Lanes, missing : SUBSET Wires]
Snaps == [session : Sessions, stale : BOOLEAN]

\* Wires have both their modules.
WiringLands(d) == \A f \in Flows(d) : {f.from, f.to} \subseteq Deps(d)

\* Lane wires have a lane and a module, but for those of Loose; and only a project that was
\* opened with a source and no lane has a source and no lane.
Source(d) == <<d.req.active, d.req.lanes>>
Bare(d) == d.req.active /\ d.req.lanes = {}
LanesLand(d) ==
  /\ \A c \in d.wiring.chans \ Loose : c.lane \in d.req.lanes /\ c.to \in Deps(d)
  /\ Bare(d) => Bare(InitDoc)

\* The project the editor starts with has the shape of one.
ProjectRead == InitDoc \in Docs

\* The unmarked slices of a session are in the files.
Clean(s, files_, torn) == \A k \in Slices \ s.dirty : k \notin torn /\ s.doc[k] = files_[k]

\* A snapshot on a stack: without a mark, and unless history was mixed, as good as the
\* session it was taken of.
Fine(t, mix, files_, torn) ==
  /\ WiringLands(t.session.doc)
  /\ ~mix => LanesLand(t.session.doc) /\ (~t.stale => Clean(t.session, files_, torn))
Stack(h, mix, files_, torn) == \A i \in 1..Len(h) : Fine(h[i], mix, files_, torn)

TInv ==
  /\ window \in BOOLEAN /\ armed \in BOOLEAN /\ mixed \in BOOLEAN /\ halfway \in BOOLEAN
  /\ session \in Sessions /\ disk \in Docs /\ damaged \subseteq Slices
  /\ undo \in Seq(Snaps) /\ redo \in Seq(Snaps) /\ Len(undo) + Len(redo) <= Limit
  /\ edits \in 0..MaxEdits /\ faults \in 0..MaxFaults

\* What the session, the files and the stacks keep.
FilesInv ==
  /\ window => WiringLands(session.doc)
  /\ window /\ ~mixed => LanesLand(session.doc) /\ Clean(session, disk, damaged)
  /\ ~mixed /\ ~halfway => LanesLand(disk) /\ damaged = {} /\ Valid(disk)
  /\ ~window => undo = <<>> /\ redo = <<>>
  /\ Stack(undo, mixed, disk, damaged) /\ Stack(redo, mixed, disk, damaged)

\* A canvas for a document: it names the modules, the lanes and the wires there are.
Shows(cv, d) ==
  /\ cv \in Canvases /\ cv.lanes = Outlets(d)
  /\ Flows(d) \subseteq cv.edges
  /\ \A c \in d.wiring.chans : c.to \in Deps(d) => c \in cv.chans
  /\ DOMAIN cv.cards = Deps(d)
  /\ cv.missing \in SUBSET [from : Deps(d), svc : Signals, to : Deps(d)]
  /\ \A p \in Deps(d) :
        /\ d.wiring.ports[p].out = cv.cards[p].out
        /\ d.wiring.ports[p].in \subseteq
              cv.cards[p].in \cup {e.svc : e \in {x \in cv.edges : x.to = p}}

CanvasInv == window => Shows(canvas, session.doc)

IInv == TInv /\ FilesInv /\ CanvasInv

-----------------------------------------------------------------------------
(* The documents *)

LEMMA DocShape ==
  /\ Docs = [req : Reqs, wiring : Wirings, exec : Tables, em : Tables]
  /\ \A d \in Docs : /\ d.req \in Reqs /\ d.wiring \in Wirings
                     /\ d.exec \in Tables /\ d.em \in Tables
  BY DEF Docs, Reqs, Wirings, Tables, PortMaps, Ports, Wires, LaneWires

LEMMA PortMapShape ==
  /\ \A w \in PortMaps : /\ DOMAIN w \subseteq Procs /\ \A p \in DOMAIN w : w[p] \in Ports
  /\ \A D \in SUBSET Procs : [D -> Ports] \subseteq PortMaps
  BY DEF PortMaps

LEMMA WiringShape ==
  ASSUME NEW d \in Docs
  PROVE  /\ d.wiring.ports \in PortMaps /\ d.wiring.flows \in SUBSET Wires
         /\ d.wiring.chans \in SUBSET LaneWires /\ Deps(d) \subseteq Procs
         /\ \A p \in Deps(d) : d.wiring.ports[p] \in Ports
  BY DocShape, PortMapShape DEF Wirings, Deps

LEMMA ReqShape ==
  ASSUME NEW d \in Docs
  PROVE  /\ d.req.sku \in BOOLEAN /\ d.req.active \in BOOLEAN /\ d.req.bridge \in BOOLEAN
         /\ d.req.lanes \in SUBSET Lanes /\ d.req.policies \in SUBSET Signals
  BY DocShape DEF Reqs

LEMMA SameSource ==
  ASSUME NEW d, NEW e, Source(d) = Source(e)
  PROVE  /\ d.req.active = e.req.active /\ d.req.lanes = e.req.lanes
         /\ Bare(d) = Bare(e) /\ Outlets(d) = Outlets(e)
  BY DEF Source, Bare, Outlets

LEMMA SameReq ==
  ASSUME NEW d, NEW e, d.req = e.req
  PROVE  Source(d) = Source(e)
  BY DEF Source

\* What is accepted has its wires landing.
LEMMA ValidLands == ASSUME NEW d, Valid(d) PROVE WiringLands(d)
  BY DEF Valid, Unported, WiringLands

\* Fewer lane wires, no module less, and the same source: the lane wires still land.
LEMMA LanesStill ==
  ASSUME NEW d, NEW e, Source(e) = Source(d), e.wiring.chans \subseteq d.wiring.chans,
         Deps(d) \subseteq Deps(e), LanesLand(d)
  PROVE  LanesLand(e)
  BY SameSource DEF LanesLand

\* What an edit makes of a session: a marked session that still lands.
Marked(s, t) == s.dirty \subseteq t.dirty /\ \A k \in Slices \ t.dirty : t.doc[k] = s.doc[k]
Sound(s, t) ==
  /\ t \in Sessions /\ Marked(s, t)
  /\ WiringLands(s.doc) => WiringLands(t.doc)
  /\ LanesLand(s.doc) => LanesLand(t.doc)

LEMMA SoundSteps ==
  ASSUME NEW s \in Sessions, NEW t, NEW u, Sound(s, t), Sound(t, u)
  PROVE  Sound(s, u)
  BY DEF Sound, Marked

LEMMA SoundSame == ASSUME NEW s \in Sessions PROVE Sound(s, s)
  BY DEF Sound, Marked

LEMMA PutReq ==
  ASSUME NEW s \in Sessions, NEW v \in Reqs
  PROVE  /\ Put(s, "req", v) \in Sessions /\ Marked(s, Put(s, "req", v))
         /\ Put(s, "req", v).doc.req = v /\ Put(s, "req", v).doc.wiring = s.doc.wiring
  <1>1. s.doc \in Docs /\ s.dirty \in SUBSET Slices
    BY DEF Sessions
  <1>2. [s.doc EXCEPT !["req"] = v] \in Docs
    BY <1>1, DocShape
  <1> QED
    BY <1>1, <1>2, DocShape DEF Put, Sessions, Marked, Slices

LEMMA PutWiring ==
  ASSUME NEW s \in Sessions, NEW v \in Wirings
  PROVE  /\ Put(s, "wiring", v) \in Sessions /\ Marked(s, Put(s, "wiring", v))
         /\ Put(s, "wiring", v).doc.wiring = v /\ Put(s, "wiring", v).doc.req = s.doc.req
  <1>1. s.doc \in Docs /\ s.dirty \in SUBSET Slices
    BY DEF Sessions
  <1>2. [s.doc EXCEPT !["wiring"] = v] \in Docs
    BY <1>1, DocShape
  <1> QED
    BY <1>1, <1>2, DocShape DEF Put, Sessions, Marked, Slices

LEMMA PutTable ==
  ASSUME NEW s \in Sessions, NEW k \in Ara, NEW v \in Tables
  PROVE  /\ Put(s, k, v) \in Sessions /\ Marked(s, Put(s, k, v))
         /\ Put(s, k, v).doc.wiring = s.doc.wiring /\ Put(s, k, v).doc.req = s.doc.req
  <1>1. s.doc \in Docs /\ s.dirty \in SUBSET Slices
    BY DEF Sessions
  <1>2. [s.doc EXCEPT ![k] = v] \in Docs
    BY <1>1, DocShape DEF Ara
  <1> QED
    BY <1>1, <1>2, DocShape DEF Put, Sessions, Marked, Slices, Ara

\* An edit of the requirements that keeps the source, and one of a table, are sound.
LEMMA SoundReq ==
  ASSUME NEW s \in Sessions, NEW v \in Reqs, v.lanes = s.doc.req.lanes,
         v.active = s.doc.req.active
  PROVE  Sound(s, Put(s, "req", v)) /\ Source(Put(s, "req", v).doc) = Source(s.doc)
  <1> DEFINE t == Put(s, "req", v)
  <1>1. /\ t \in Sessions /\ Marked(s, t) /\ t.doc.req = v /\ t.doc.wiring = s.doc.wiring
    BY PutReq
  <1> HIDE DEF t
  <1>2. Source(t.doc) = Source(s.doc) /\ Deps(t.doc) = Deps(s.doc) /\ Flows(t.doc) = Flows(s.doc)
    BY <1>1 DEF Source, Deps, Flows
  <1>3. LanesLand(s.doc) => LanesLand(t.doc)
    BY <1>1, <1>2, LanesStill
  <1> QED
    BY <1>1, <1>2, <1>3 DEF Sound, WiringLands, t

LEMMA SoundTable ==
  ASSUME NEW s \in Sessions, NEW k \in Ara, NEW v \in Tables
  PROVE  Sound(s, Put(s, k, v))
  <1> DEFINE t == Put(s, k, v)
  <1>1. /\ t \in Sessions /\ Marked(s, t) /\ t.doc.req = s.doc.req
        /\ t.doc.wiring = s.doc.wiring
    BY PutTable
  <1> HIDE DEF t
  <1>2. Source(t.doc) = Source(s.doc) /\ Deps(t.doc) = Deps(s.doc) /\ Flows(t.doc) = Flows(s.doc)
    BY <1>1 DEF Source, Deps, Flows
  <1>3. LanesLand(s.doc) => LanesLand(t.doc)
    BY <1>1, <1>2, LanesStill
  <1> QED
    BY <1>1, <1>2, <1>3 DEF Sound, WiringLands, t

LEMMA SetFlowsSound ==
  ASSUME NEW s \in Sessions, NEW fs \in SUBSET Wires
  PROVE  /\ SetFlows(s, fs) \in Sessions /\ Marked(s, SetFlows(s, fs))
         /\ SetFlows(s, fs).doc.req = s.doc.req
         /\ SetFlows(s, fs).doc.wiring.ports = s.doc.wiring.ports
         /\ SetFlows(s, fs).doc.wiring.chans = s.doc.wiring.chans
         /\ Flows(SetFlows(s, fs).doc) = fs /\ Deps(SetFlows(s, fs).doc) = Deps(s.doc)
         /\ (\A f \in fs \ Flows(s.doc) : {f.from, f.to} \subseteq Deps(s.doc)) =>
              Sound(s, SetFlows(s, fs))
  <1> DEFINE w == [s.doc.wiring EXCEPT !.flows = fs]
  <1>1. s.doc \in Docs /\ s.doc.wiring \in Wirings /\ s.doc.wiring.chans \in SUBSET LaneWires
        /\ s.doc.wiring.ports \in PortMaps
    BY DocShape DEF Sessions, Wirings
  <1>2. w \in Wirings /\ w.ports = s.doc.wiring.ports /\ w.flows = fs
        /\ w.chans = s.doc.wiring.chans
    BY <1>1 DEF Wirings
  <1>3. SetFlows(s, fs) = Put(s, "wiring", w)
    BY DEF SetFlows
  <1> HIDE DEF w
  <1>4. /\ SetFlows(s, fs) \in Sessions /\ Marked(s, SetFlows(s, fs))
        /\ SetFlows(s, fs).doc.wiring = w /\ SetFlows(s, fs).doc.req = s.doc.req
    BY <1>2, <1>3, PutWiring
  <1> DEFINE t == SetFlows(s, fs)
  <1>5. /\ t.doc.wiring.ports = s.doc.wiring.ports /\ t.doc.wiring.chans = s.doc.wiring.chans
        /\ Flows(t.doc) = fs /\ Deps(t.doc) = Deps(s.doc) /\ Source(t.doc) = Source(s.doc)
    BY <1>2, <1>4 DEF Flows, Deps, Source
  <1> HIDE DEF t
  <1>6. LanesLand(s.doc) => LanesLand(t.doc)
    BY <1>5, LanesStill
  <1> QED
    BY <1>4, <1>5, <1>6 DEF Sound, WiringLands, t

LEMMA SetChansSound ==
  ASSUME NEW s \in Sessions, NEW cs \in SUBSET LaneWires
  PROVE  /\ SetChans(s, cs) \in Sessions /\ Marked(s, SetChans(s, cs))
         /\ SetChans(s, cs).doc.req = s.doc.req
         /\ SetChans(s, cs).doc.wiring.ports = s.doc.wiring.ports
         /\ SetChans(s, cs).doc.wiring.chans = cs
         /\ Flows(SetChans(s, cs).doc) = Flows(s.doc) /\ Deps(SetChans(s, cs).doc) = Deps(s.doc)
         /\ (LanesLand(s.doc) => \A c \in cs \ s.doc.wiring.chans :
               c \in Loose \/ (c.lane \in s.doc.req.lanes /\ c.to \in Deps(s.doc))) =>
              Sound(s, SetChans(s, cs))
  <1> DEFINE w == [s.doc.wiring EXCEPT !.chans = cs]
  <1>1. s.doc \in Docs /\ s.doc.wiring \in Wirings /\ s.doc.wiring.flows \in SUBSET Wires
        /\ s.doc.wiring.ports \in PortMaps
    BY DocShape DEF Sessions, Wirings
  <1>2. w \in Wirings /\ w.ports = s.doc.wiring.ports /\ w.flows = s.doc.wiring.flows
        /\ w.chans = cs
    BY <1>1 DEF Wirings
  <1>3. SetChans(s, cs) = Put(s, "wiring", w)
    BY DEF SetChans
  <1> HIDE DEF w
  <1>4. /\ SetChans(s, cs) \in Sessions /\ Marked(s, SetChans(s, cs))
        /\ SetChans(s, cs).doc.wiring = w /\ SetChans(s, cs).doc.req = s.doc.req
    BY <1>2, <1>3, PutWiring
  <1> DEFINE t == SetChans(s, cs)
  <1>5. /\ t.doc.wiring.ports = s.doc.wiring.ports /\ t.doc.wiring.chans = cs
        /\ Flows(t.doc) = Flows(s.doc) /\ Deps(t.doc) = Deps(s.doc)
        /\ t.doc.req = s.doc.req /\ Bare(t.doc) = Bare(s.doc)
    BY <1>2, <1>4 DEF Flows, Deps, Bare
  <1> HIDE DEF t
  <1> QED
    BY <1>4, <1>5 DEF Sound, WiringLands, LanesLand, t

LEMMA PruneOrphansSound ==
  ASSUME NEW s \in Sessions
  PROVE  /\ PruneOrphans(s) \in Sessions /\ Sound(s, PruneOrphans(s))
         /\ PruneOrphans(s).doc.wiring = s.doc.wiring
         /\ Source(PruneOrphans(s).doc) = Source(s.doc)
  <1> DEFINE kept == s.doc.req.policies \cap Outs(s.doc)
             r == [s.doc.req EXCEPT !.policies = kept]
  <1>1. s.doc.req \in Reqs
    BY DocShape DEF Sessions
  <1>2. kept \in SUBSET Signals
    BY <1>1 DEF Reqs
  <1> HIDE DEF kept
  <1>3. r \in Reqs /\ r.lanes = s.doc.req.lanes /\ r.active = s.doc.req.active
    BY <1>1, <1>2 DEF Reqs
  <1>4. PruneOrphans(s) = IF kept = s.doc.req.policies THEN s ELSE Put(s, "req", r)
    BY DEF PruneOrphans, kept
  <1> HIDE DEF r
  <1>5. CASE kept = s.doc.req.policies
    BY <1>4, <1>5, SoundSame
  <1>6. CASE kept # s.doc.req.policies
    BY <1>3, <1>4, <1>6, PutReq, SoundReq
  <1> QED
    BY <1>5, <1>6

\* The ports of p, and some wires less, and the policies nobody needs any more.
WithPorts(s, p, out, in, flows) ==
  PruneOrphans(Put(s, "wiring", [s.doc.wiring EXCEPT
    !.ports = [q \in Deps(s.doc) \cup {p} |->
                  IF q = p THEN [out |-> out, in |-> in] ELSE s.doc.wiring.ports[q]],
    !.flows = flows]))

\* From s to t the ports of p become those, and nothing else of modules and lanes changes.
Ported(s, t, p, out, in) ==
  /\ Source(t.doc) = Source(s.doc) /\ t.doc.wiring.chans = s.doc.wiring.chans
  /\ Deps(t.doc) = Deps(s.doc) \cup {p}
  /\ t.doc.wiring.ports[p] = [out |-> out, in |-> in]
  /\ \A q \in Deps(s.doc) : q # p => t.doc.wiring.ports[q] = s.doc.wiring.ports[q]

\* ... which is sound and leaves these wires.
Reported(s, t, p, out, in, flows) ==
  t \in Sessions /\ Sound(s, t) /\ Ported(s, t, p, out, in) /\ Flows(t.doc) = flows

LEMMA WithPortsSound ==
  ASSUME NEW s \in Sessions, NEW p \in Procs, NEW out, out \subseteq Signals,
         NEW in, in \subseteq Signals, NEW flows, flows \subseteq Flows(s.doc)
  PROVE  Reported(s, WithPorts(s, p, out, in, flows), p, out, in, flows)
  <1> DEFINE t == WithPorts(s, p, out, in, flows)
  <1> DEFINE w == s.doc.wiring
             ports == [q \in Deps(s.doc) \cup {p} |->
                          IF q = p THEN [out |-> out, in |-> in] ELSE w.ports[q]]
             v == [w EXCEPT !.ports = ports, !.flows = flows]
             u == Put(s, "wiring", v)
  <1>1. s.doc \in Docs /\ w \in Wirings /\ flows \in SUBSET Wires /\ Deps(s.doc) \subseteq Procs
        /\ \A q \in Deps(s.doc) : w.ports[q] \in Ports
    BY DocShape, WiringShape DEF Sessions, Flows
  <1>2. ports \in PortMaps
    <2>1. [out |-> out, in |-> in] \in Ports
      BY DEF Ports
    <2>2. ports \in [Deps(s.doc) \cup {p} -> Ports]
      BY <1>1, <2>1
    <2> QED
      BY <1>1, <2>2, PortMapShape
  <1>3. /\ DOMAIN ports = Deps(s.doc) \cup {p} /\ ports[p] = [out |-> out, in |-> in]
        /\ \A q \in Deps(s.doc) : q # p => ports[q] = w.ports[q]
    OBVIOUS
  <1>4. t = PruneOrphans(u)
    BY DEF WithPorts
  <1> HIDE DEF ports, t
  <1>5. v \in Wirings /\ v.ports = ports /\ v.flows = flows /\ v.chans = w.chans
    BY <1>1, <1>2 DEF Wirings
  <1> HIDE DEF v
  <1>6. u \in Sessions /\ Marked(s, u) /\ u.doc.wiring = v /\ u.doc.req = s.doc.req
    BY <1>5, PutWiring
  <1> HIDE DEF u
  <1>7. Sound(s, u)
    <2>1. Deps(s.doc) \subseteq Deps(u.doc) /\ Flows(u.doc) \subseteq Flows(s.doc)
      BY <1>3, <1>5, <1>6 DEF Deps, Flows
    <2>2. Source(u.doc) = Source(s.doc)
      BY <1>6, SameReq
    <2>3. LanesLand(s.doc) => LanesLand(u.doc)
      BY <1>5, <1>6, <2>1, <2>2, LanesStill
    <2> QED
      BY <1>6, <2>1, <2>3 DEF Sound, WiringLands
  <1>8. t \in Sessions /\ Sound(u, t) /\ t.doc.wiring = v /\ Source(t.doc) = Source(s.doc)
    BY <1>4, <1>6, PruneOrphansSound, SameReq
  <1>9. Sound(s, t)
    BY <1>7, <1>8, SoundSteps
  <1> QED
    BY <1>3, <1>5, <1>8, <1>9 DEF Flows, Deps, Ported, Reported, t

\* The flows of a module that its new ports do not carry.
Carried(s, p, out, in) ==
  {f \in Flows(s.doc) : (f.from = p => f.svc \in out) /\ (f.to = p => f.svc \in in)}

LEMMA PortsPruned ==
  ASSUME NEW s \in Sessions, NEW p \in Procs, NEW out \in SUBSET Signals,
    NEW in \in SUBSET Signals,
         NEW t, t = SetPorts(s, p, out, in, TRUE)
  PROVE  Reported(s, t, p, out, in, Carried(s, p, out, in))
  <1>1. t = WithPorts(s, p, out, in, Carried(s, p, out, in))
    BY DEF SetPorts, WithPorts, Carried, Flows
  <1>2. Carried(s, p, out, in) \subseteq Flows(s.doc) /\ out \subseteq Signals
          /\ in \subseteq Signals
    BY DEF Carried
  <1> QED
    BY <1>1, <1>2, WithPortsSound

LEMMA PortsKept ==
  ASSUME NEW s \in Sessions, NEW p \in Procs, NEW out \in SUBSET Signals,
    NEW in \in SUBSET Signals,
         NEW t, t = SetPorts(s, p, out, in, FALSE)
  PROVE  Reported(s, t, p, out, in, Flows(s.doc))
  <1>1. t = WithPorts(s, p, out, in, Flows(s.doc))
    BY DEF SetPorts, WithPorts, Flows
  <1> QED
    BY <1>1, WithPortsSound

LEMMA RenameFlowSound ==
  ASSUME NEW s \in Sessions, NEW e \in Wires, NEW v \in Signals
  PROVE  RenameFlow(s, e, v) \in Sessions /\ Sound(s, RenameFlow(s, e, v))
         /\ Source(RenameFlow(s, e, v).doc) = Source(s.doc)
  <1> DEFINE swap(S) == IF e.svc \in S THEN (S \ {e.svc}) \cup {v} ELSE S
             port(d, p) == d.wiring.ports[p]
             fs == IF e \in Flows(s.doc) THEN (Flows(s.doc) \ {e}) \cup {Flow(e.from, v, e.to)}
                   ELSE Flows(s.doc)
             s1 == SetFlows(s, fs)
             s2 == IF e.from \notin Deps(s.doc) THEN s1
                   ELSE SetPorts(s1, e.from, swap(port(s.doc, e.from).out),
                                 port(s.doc, e.from).in, FALSE)
             s3 == IF e.to = e.from \/ e.to \notin Deps(s.doc) THEN s2
                   ELSE SetPorts(s2, e.to, port(s.doc, e.to).out, swap(port(s.doc, e.to).in),
                     FALSE)
  <1>1. RenameFlow(s, e, v) = s3
    BY DEF RenameFlow
  <1>2. s.doc \in Docs /\ Flows(s.doc) \in SUBSET Wires
        /\ \A p \in Deps(s.doc) : /\ p \in Procs
                                  /\ port(s.doc, p).out \in SUBSET Signals
                                  /\ port(s.doc, p).in \in SUBSET Signals
    BY WiringShape DEF Sessions, Flows, Ports
  <1>3. /\ Flow(e.from, v, e.to) \in Wires
        /\ Flow(e.from, v, e.to).from = e.from /\ Flow(e.from, v, e.to).to = e.to
    BY DEF Wires, Flow
  <1>4. fs \in SUBSET Wires
    BY <1>2, <1>3
  <1>5. s1 \in Sessions /\ Deps(s1.doc) = Deps(s.doc)
        /\ Source(s1.doc) = Source(s.doc) /\ s1.doc.wiring.chans = s.doc.wiring.chans
        /\ Marked(s, s1) /\ Flows(s1.doc) = fs
    BY <1>4, SetFlowsSound, SameReq
  <1>6. Sound(s, s1)
    <2>1. WiringLands(s.doc) =>
            \A f \in fs : {f.from, f.to} \subseteq Deps(s.doc)
      BY <1>3 DEF WiringLands
    <2>2. LanesLand(s.doc) => LanesLand(s1.doc)
      BY <1>5, LanesStill
    <2> QED
      BY <1>5, <2>1, <2>2 DEF Sound, WiringLands
  <1>7. \A S \in SUBSET Signals : swap(S) \in SUBSET Signals
    OBVIOUS
  <1> HIDE DEF s1, swap
  <1>8. s2 \in Sessions /\ Sound(s1, s2) /\ Source(s2.doc) = Source(s.doc)
    <2>1. CASE e.from \notin Deps(s.doc)
      BY <1>5, <2>1, SoundSame
    <2>2. CASE e.from \in Deps(s.doc)
      <3>1. /\ e.from \in Procs /\ swap(port(s.doc, e.from).out) \in SUBSET Signals
            /\ port(s.doc, e.from).in \in SUBSET Signals
        BY <1>2, <1>7, <2>2
      <3> DEFINE out == swap(port(s.doc, e.from).out)
                 in == port(s.doc, e.from).in
      <3>2. s2 = SetPorts(s1, e.from, out, in, FALSE)
        BY <2>2
      <3> HIDE DEF s2, out, in
      <3>3. s2 \in Sessions /\ Sound(s1, s2) /\ Ported(s1, s2, e.from, out, in)
        BY <1>5, <3>1, <3>2, PortsKept DEF out, in, Reported
      <3> QED
        BY <1>5, <3>3 DEF Ported
    <2> QED
      BY <2>1, <2>2
  <1> HIDE DEF s2
  <1>9. s3 \in Sessions /\ Sound(s2, s3) /\ Source(s3.doc) = Source(s.doc)
    <2>1. CASE e.to = e.from \/ e.to \notin Deps(s.doc)
      BY <1>8, <2>1, SoundSame
    <2>2. CASE ~(e.to = e.from \/ e.to \notin Deps(s.doc))
      <3>1. /\ e.to \in Procs /\ swap(port(s.doc, e.to).in) \in SUBSET Signals
            /\ port(s.doc, e.to).out \in SUBSET Signals
        BY <1>2, <1>7, <2>2
      <3> DEFINE out == port(s.doc, e.to).out
                 in == swap(port(s.doc, e.to).in)
      <3>2. s3 = SetPorts(s2, e.to, out, in, FALSE)
        BY <2>2
      <3> HIDE DEF s3, out, in
      <3>3. s3 \in Sessions /\ Sound(s2, s3) /\ Ported(s2, s3, e.to, out, in)
        BY <1>8, <3>1, <3>2, PortsKept DEF out, in, Reported
      <3> QED
        BY <1>8, <3>3 DEF Ported
    <2> QED
      BY <2>1, <2>2
  <1> QED
    BY <1>1, <1>5, <1>6, <1>8, <1>9, SoundSteps

\* DeleteNode: the lane wires into the module go before it does.
LEMMA DeleteSound ==
  ASSUME NEW s \in Sessions, NEW p \in Procs
  PROVE  LET t == RemoveDeployment(SetChans(s, {c \in s.doc.wiring.chans : c.to # p}), p) IN
         t \in Sessions /\ Sound(s, t) /\ Source(t.doc) = Source(s.doc)
  <1> DEFINE cs == {c \in s.doc.wiring.chans : c.to # p}
             u == SetChans(s, cs)
             w == u.doc.wiring
             ports == [q \in Deps(u.doc) \ {p} |-> w.ports[q]]
             flows == {f \in w.flows : p \notin {f.from, f.to}}
             v == [w EXCEPT !.ports = ports, !.flows = flows]
             t == Put(u, "wiring", v)
  <1>1. s.doc \in Docs /\ cs \in SUBSET LaneWires
    BY WiringShape DEF Sessions
  <1>2. /\ u \in Sessions /\ Marked(s, u) /\ u.doc.req = s.doc.req /\ w.chans = cs
        /\ Flows(u.doc) = Flows(s.doc) /\ Deps(u.doc) = Deps(s.doc)
    BY <1>1, SetChansSound
  <1>3. t = RemoveDeployment(u, p)
    BY DEF RemoveDeployment
  <1> HIDE DEF u
  <1>4. u.doc \in Docs /\ w \in Wirings /\ Deps(u.doc) \subseteq Procs
          /\ w.flows \in SUBSET Wires
        /\ \A q \in Deps(u.doc) : w.ports[q] \in Ports
    BY <1>2, DocShape, WiringShape DEF Sessions
  <1>5. ports \in PortMaps
    <2>1. ports \in [Deps(u.doc) \ {p} -> Ports]
      BY <1>4
    <2> QED
      BY <1>4, <2>1, PortMapShape
  <1>6. DOMAIN ports = Deps(u.doc) \ {p} /\ flows \in SUBSET Wires
    BY <1>4
  <1> HIDE DEF ports
  <1>7. v \in Wirings /\ v.ports = ports /\ v.flows = flows /\ v.chans = w.chans
    BY <1>4, <1>5, <1>6 DEF Wirings
  <1> HIDE DEF v
  <1>8. t \in Sessions /\ Marked(u, t) /\ t.doc.wiring = v /\ t.doc.req = u.doc.req
    BY <1>2, <1>7, PutWiring
  <1>9. Deps(t.doc) = Deps(s.doc) \ {p}
          /\ Flows(t.doc) = {f \in Flows(s.doc) : p \notin {f.from, f.to}}
        /\ t.doc.wiring.chans = cs /\ t.doc.req = s.doc.req /\ Source(t.doc) = Source(s.doc)
    BY <1>2, <1>6, <1>7, <1>8 DEF Deps, Flows, Source
  <1>10. WiringLands(s.doc) => WiringLands(t.doc)
    BY <1>9 DEF WiringLands
  <1>11. LanesLand(s.doc) => LanesLand(t.doc)
    BY <1>9, SameSource DEF LanesLand
  <1>12. Sound(s, t)
    BY <1>2, <1>8, <1>10, <1>11 DEF Sound, Marked
  <1> QED
    BY <1>3, <1>8, <1>9, <1>12 DEF u

LEMMA SetIngestSound ==
  ASSUME NEW s \in Sessions, NEW lanes \in (SUBSET Lanes) \ {{}}, NEW seed \in BOOLEAN
  PROVE  SetIngest(s, lanes, seed) \in Sessions /\ Sound(s, SetIngest(s, lanes, seed))
  <1> DEFINE r == [s.doc.req EXCEPT !.active = TRUE, !.bridge = TRUE, !.lanes = lanes]
             s1 == Put(s, "req", r)
             cs == {c \in s.doc.wiring.chans : c.lane \notin s.doc.req.lanes \ lanes}
             seeds == {[lane |-> l, to |-> Consumer[l]] :
                          l \in {x \in lanes : Consumer[x] \in Deps(s.doc)}}
             new == IF seed /\ cs = {} THEN seeds ELSE cs
  <1>1. SetIngest(s, lanes, seed) = SetChans(s1, new)
    BY DEF SetIngest
  <1>2. s.doc \in Docs /\ s.doc.req \in Reqs /\ s.doc.wiring.chans \in SUBSET LaneWires
    BY DocShape, WiringShape DEF Sessions
  <1>3. r \in Reqs /\ r.lanes = lanes
    BY <1>2 DEF Reqs
  <1>4. \A c \in seeds : c \in LaneWires /\ c.lane \in lanes /\ c.to \in Deps(s.doc)
    BY ConfigAssumption DEF LaneWires
  <1>5. new \in SUBSET LaneWires
    BY <1>2, <1>4
  <1> HIDE DEF r, seeds
  <1>6. s1 \in Sessions /\ Marked(s, s1) /\ s1.doc.req = r /\ s1.doc.wiring = s.doc.wiring
    BY <1>3, PutReq
  <1> HIDE DEF s1
  <1> DEFINE t == SetChans(s1, new)
  <1> HIDE DEF new
  <1>7. /\ t \in Sessions /\ Marked(s1, t) /\ t.doc.req = r /\ t.doc.wiring.chans = new
        /\ Flows(t.doc) = Flows(s.doc) /\ Deps(t.doc) = Deps(s.doc)
    BY <1>5, <1>6, SetChansSound DEF Flows, Deps
  <1> HIDE DEF t
  <1>8. WiringLands(s.doc) => WiringLands(t.doc)
    BY <1>7 DEF WiringLands
  <1>9. LanesLand(s.doc) => LanesLand(t.doc)
    <2>1. ~Bare(t.doc)
      BY <1>3, <1>7 DEF Bare
    <2>2. ASSUME LanesLand(s.doc), NEW c \in new \ Loose
          PROVE  c.lane \in lanes /\ c.to \in Deps(s.doc)
      <3>1. CASE c \in seeds
        BY <1>4, <3>1
      <3>2. CASE c \in cs
        BY <2>2, <3>2 DEF LanesLand
      <3> QED
        BY <2>2, <3>1, <3>2 DEF new
    <2> QED
      BY <1>3, <1>7, <2>1, <2>2 DEF LanesLand
  <1> QED
    BY <1>1, <1>6, <1>7, <1>8, <1>9 DEF Sound, Marked, t, new, r, seeds, s1

LEMMA RemoveIngestSound ==
  ASSUME NEW s \in Sessions
  PROVE  RemoveIngest(s) \in Sessions /\ Sound(s, RemoveIngest(s))
  <1> DEFINE r == [s.doc.req EXCEPT !.active = FALSE, !.lanes = {}]
             s1 == Put(s, "req", r)
             t == SetChans(s1, {})
  <1>1. r \in Reqs /\ ~r.active
    BY DocShape DEF Sessions, Reqs
  <1> HIDE DEF r
  <1>2. s1 \in Sessions /\ Marked(s, s1) /\ s1.doc.wiring = s.doc.wiring /\ s1.doc.req = r
    BY <1>1, PutReq
  <1>3. t = RemoveIngest(s)
    BY DEF RemoveIngest, r
  <1> HIDE DEF s1
  <1>4. /\ t \in Sessions /\ Marked(s1, t) /\ t.doc.wiring.chans = {} /\ ~t.doc.req.active
        /\ Flows(t.doc) = Flows(s.doc) /\ Deps(t.doc) = Deps(s.doc)
    BY <1>1, <1>2, SetChansSound DEF Flows, Deps
  <1> QED
    BY <1>2, <1>3, <1>4 DEF Sound, Marked, WiringLands, LanesLand, Bare

-----------------------------------------------------------------------------
(* The history *)

LEMMA FineTake ==
  ASSUME NEW s \in Sessions, NEW mix \in BOOLEAN, NEW files_, NEW torn, WiringLands(s.doc),
         ~mix => LanesLand(s.doc) /\ Clean(s, files_, torn)
  PROVE  Snapshot(s) \in Snaps /\ Fine(Snapshot(s), mix, files_, torn)
  BY DEF Snapshot, Snaps, Fine

LEMMA StackAppend ==
  ASSUME NEW h \in Seq(Snaps), NEW t \in Snaps, NEW mix, NEW files_, NEW torn,
         Stack(h, mix, files_, torn), Fine(t, mix, files_, torn)
  PROVE  /\ Append(h, t) \in Seq(Snaps) /\ Len(Append(h, t)) = Len(h) + 1
         /\ Stack(Append(h, t), mix, files_, torn)
  <1>1. /\ Append(h, t) \in Seq(Snaps) /\ Len(Append(h, t)) = Len(h) + 1 /\ Len(h) \in Nat
        /\ Append(h, t)[Len(h) + 1] = t
        /\ \A i \in 1..Len(h) : Append(h, t)[i] = h[i]
    BY AppendProperties
  <1>2. ASSUME NEW i \in 1..Len(Append(h, t))
        PROVE  Fine(Append(h, t)[i], mix, files_, torn)
    <2>1. i \in 1..Len(h) \/ i = Len(h) + 1
      BY <1>1
    <2> QED
      BY <1>1, <2>1 DEF Stack
  <1> QED
    BY <1>1, <1>2 DEF Stack

LEMMA StackBounded ==
  ASSUME NEW h \in Seq(Snaps), NEW mix, NEW files_, NEW torn,
         Stack(h, mix, files_, torn), Len(h) <= Limit + 1
  PROVE  /\ Bounded(h) \in Seq(Snaps) /\ Len(Bounded(h)) <= Limit
         /\ Stack(Bounded(h), mix, files_, torn)
  <1>1. Len(h) \in Nat /\ Limit \in Nat \ {0}
    BY ConfigAssumption, LenProperties
  <1>2. CASE Len(h) <= Limit
    BY <1>1, <1>2 DEF Bounded
  <1>3. CASE Len(h) > Limit
    <2>1. h # <<>>
      BY <1>1, <1>3, EmptySeq
    <2>2. /\ Tail(h) \in Seq(Snaps) /\ Len(Tail(h)) = Len(h) - 1
          /\ \A i \in 1..Len(Tail(h)) : Tail(h)[i] = h[i + 1]
      BY <2>1, HeadTailProperties
    <2>3. \A i \in 1..Len(Tail(h)) : i + 1 \in 1..Len(h)
      BY <1>1, <2>2
    <2>4. Stack(Tail(h), mix, files_, torn)
      BY <2>2, <2>3 DEF Stack
    <2>5. Bounded(h) = Tail(h)
      BY <1>3 DEF Bounded
    <2> QED
      BY <1>1, <2>2, <2>4, <2>5
  <1> QED
    BY <1>1, <1>2, <1>3

LEMMA StackFront ==
  ASSUME NEW h \in Seq(Snaps), h # <<>>, NEW mix, NEW files_, NEW torn,
         Stack(h, mix, files_, torn)
  PROVE  /\ Front(h) \in Seq(Snaps) /\ Len(Front(h)) = Len(h) - 1
         /\ Stack(Front(h), mix, files_, torn)
         /\ Last(h) \in Snaps /\ Fine(Last(h), mix, files_, torn)
  <1>1. Len(h) \in Nat /\ Len(h) # 0
    BY EmptySeq, LenProperties
  <1>2. /\ Front(h) \in Seq(Snaps) /\ Len(Front(h)) = Len(h) - 1
        /\ \A i \in 1..Len(h) - 1 : Front(h)[i] = h[i]
    <2>1. /\ SubSeq(h, 1, Len(h) - 1) \in Seq(Snaps)
          /\ Len(SubSeq(h, 1, Len(h) - 1)) = Len(h) - 1
          /\ \A i \in 1..Len(h) - 1 : SubSeq(h, 1, Len(h) - 1)[i] = h[1 + i - 1]
      <3> DEFINE n == Len(h) - 1
      <3>1. n \in Int /\ 1 \in Int /\ \A i \in 1..n : h[i] \in Snaps
        BY <1>1, ElementOfSeq
      <3>2. n \in Nat
        BY <1>1
      <3> HIDE DEF n
      <3>3. /\ SubSeq(h, 1, n) \in Seq(Snaps)
            /\ Len(SubSeq(h, 1, n)) = IF 1 <= n THEN n - 1 + 1 ELSE 0
            /\ \A i \in 1..n - 1 + 1 : SubSeq(h, 1, n)[i] = h[1 + i - 1]
        BY ONLY <3>1, SubSeqProperties
      <3>4. n - 1 + 1 = n /\ (IF 1 <= n THEN n - 1 + 1 ELSE 0) = n
        BY ONLY <3>2
      <3> QED
        BY <3>3, <3>4 DEF n
    <2>2. Front(h) = SubSeq(h, 1, Len(h) - 1)
      BY DEF Front
    <2> QED
      BY <2>1, <2>2
  <1>3. Last(h) = h[Len(h)] /\ Len(h) \in 1..Len(h)
    BY <1>1 DEF Last
  <1>4. Last(h) \in Snaps
    BY <1>3, ElementOfSeq
  <1>5. \A i \in 1..Len(Front(h)) : i \in 1..Len(h)
    BY <1>1, <1>2
  <1> QED
    BY <1>2, <1>3, <1>4, <1>5 DEF Stack

LEMMA StackStale ==
  ASSUME NEW h \in Seq(Snaps), NEW mix, NEW files_, NEW torn, NEW now, NEW cut,
         Stack(h, mix, files_, torn)
  PROVE  /\ Stale(h) \in Seq(Snaps) /\ Len(Stale(h)) = Len(h)
         /\ Stack(Stale(h), mix, now, cut)
  <1>1. Len(h) \in Nat /\ DOMAIN h = 1..Len(h) /\ \A i \in 1..Len(h) : h[i] \in Snaps
    BY LenProperties, ElementOfSeq
  <1>2. \A i \in 1..Len(h) : /\ [h[i] EXCEPT !.stale = TRUE] \in Snaps
                             /\ [h[i] EXCEPT !.stale = TRUE].session = h[i].session
                             /\ [h[i] EXCEPT !.stale = TRUE].stale = TRUE
    BY <1>1 DEF Snaps
  <1>3. /\ DOMAIN Stale(h) = 1..Len(h)
        /\ \A i \in 1..Len(h) : Stale(h)[i] = [h[i] EXCEPT !.stale = TRUE]
    BY <1>1 DEF Stale
  <1>4. Stale(h) \in [1..Len(h) -> Snaps]
    BY <1>1, <1>2 DEF Stale
  <1>5. Stale(h) \in Seq(Snaps) /\ Len(Stale(h)) = Len(h)
    BY <1>1, <1>3, <1>4, SeqDef, LenProperties
  <1>6. \A i \in 1..Len(h) : Fine(Stale(h)[i], mix, now, cut)
    BY <1>2, <1>3 DEF Stack, Fine
  <1> QED
    BY <1>5, <1>6 DEF Stack

\* Once an undo went past a save, less is asked of a stack.
LEMMA StackMixed ==
  ASSUME NEW h, NEW mix \in BOOLEAN, NEW mix2 \in BOOLEAN, mix => mix2, NEW files_, NEW torn,
         Stack(h, mix, files_, torn)
  PROVE  Stack(h, mix2, files_, torn)
  BY DEF Stack, Fine

\* A snapshot of a session as good as the one of the window goes on the stack.
LEMMA CheckpointKeeps ==
  ASSUME TInv, FilesInv, NEW s \in Sessions, NEW open \in BOOLEAN, WiringLands(s.doc),
         ~mixed => LanesLand(s.doc) /\ Clean(s, disk, damaged),
         Checkpoint(s, open)
  PROVE  /\ undo' \in Seq(Snaps) /\ redo' \in Seq(Snaps) /\ Len(undo') + Len(redo') <= Limit
         /\ armed' \in BOOLEAN
         /\ Stack(undo', mixed, disk, damaged) /\ Stack(redo', mixed, disk, damaged)
  <1> DEFINE h == Append(undo, Snapshot(s))
  <1>1. /\ Len(undo) \in Nat /\ Len(redo) \in Nat /\ Limit \in Nat
        /\ undo \in Seq(Snaps) /\ Len(undo) + Len(redo) <= Limit /\ mixed \in BOOLEAN
    BY ConfigAssumption, LenProperties DEF TInv
  <1>2. Snapshot(s) \in Snaps /\ Fine(Snapshot(s), mixed, disk, damaged)
    BY <1>1, FineTake
  <1>3. Stack(undo, mixed, disk, damaged)
    BY DEF FilesInv
  <1>4. h \in Seq(Snaps) /\ Len(h) = Len(undo) + 1 /\ Stack(h, mixed, disk, damaged)
    BY <1>1, <1>2, <1>3, StackAppend
  <1>5. Len(h) <= Limit + 1
    BY <1>1, <1>4
  <1>6. undo' = Bounded(h) /\ redo' = <<>> /\ armed' = open
    BY DEF Checkpoint
  <1> HIDE DEF h
  <1>7. undo' \in Seq(Snaps) /\ Len(undo') <= Limit /\ Stack(undo', mixed, disk, damaged)
    BY <1>4, <1>5, <1>6, StackBounded
  <1>8. Len(undo') \in Nat
    BY <1>7, LenProperties
  <1>9. redo' \in Seq(Snaps) /\ Len(redo') = 0 /\ Stack(redo', mixed, disk, damaged)
    BY <1>6 DEF Stack
  <1> QED
    BY <1>1, <1>6, <1>7, <1>8, <1>9

LEMMA CleanMarked ==
  ASSUME NEW s \in Sessions, NEW t, NEW files_, NEW torn, Marked(s, t), Clean(s, files_, torn)
  PROVE  Clean(t, files_, torn)
  BY DEF Marked, Clean

\* An edit that is sound keeps the files and the history, whichever snapshot it takes.
LEMMA EditKeeps ==
  ASSUME TInv, FilesInv, Edit, Sound(session, session'),
         \/ \E open \in BOOLEAN : Checkpoint(session, open) \/ Checkpoint(session', open)
         \/ NoCheckpoint \/ CheckpointTyping
         \/ undo' = undo /\ redo' = redo /\ armed' \in BOOLEAN
  PROVE  TInv' /\ FilesInv'
  <1>1. /\ window /\ window' = window /\ mixed' = mixed /\ disk' = disk /\ damaged' = damaged
        /\ halfway' = halfway /\ faults' = faults /\ edits' \in 0..MaxEdits
    BY ConfigAssumption DEF Edit, files, TInv
  <1>2. session \in Sessions /\ session' \in Sessions
        /\ WiringLands(session.doc) /\ WiringLands(session'.doc)
    BY <1>1 DEF TInv, FilesInv, Sound
  <1>3. ~mixed => LanesLand(session.doc) /\ Clean(session, disk, damaged)
    BY <1>1 DEF FilesInv
  <1>4. ~mixed => LanesLand(session'.doc) /\ Clean(session', disk, damaged)
    BY <1>2, <1>3, CleanMarked DEF Sound
  <1> DEFINE Kept ==
        /\ undo' \in Seq(Snaps) /\ redo' \in Seq(Snaps) /\ Len(undo') + Len(redo') <= Limit
        /\ armed' \in BOOLEAN
        /\ Stack(undo', mixed, disk, damaged) /\ Stack(redo', mixed, disk, damaged)
  <1>5. Kept
    <2>1. ASSUME NEW open \in BOOLEAN, Checkpoint(session, open)
          PROVE  Kept
      BY <1>2, <1>3, <2>1, CheckpointKeeps
    <2>2. ASSUME NEW open \in BOOLEAN, Checkpoint(session', open)
          PROVE  Kept
      BY <1>2, <1>4, <2>2, CheckpointKeeps
    <2>3. CASE undo' = undo /\ redo' = redo /\ armed' \in BOOLEAN
      BY <2>3 DEF TInv, FilesInv
    <2>4. UNCHANGED history => undo' = undo /\ redo' = redo /\ armed' \in BOOLEAN
      BY DEF history, TInv
    <2> QED
      BY <2>1, <2>2, <2>3, <2>4 DEF CheckpointTyping, NoCheckpoint
  <1>6. TInv'
    BY <1>1, <1>2, <1>5 DEF TInv
  <1>7. FilesInv'
    BY <1>1, <1>2, <1>4, <1>5 DEF FilesInv
  <1> QED
    BY <1>6, <1>7

-----------------------------------------------------------------------------
(* The canvas *)

LEMMA DrawnShows ==
  ASSUME NEW d \in Docs, WiringLands(d)
  PROVE  Shows(Drawn(d), d)
  <1>1. /\ Flows(d) \in SUBSET Wires /\ Deps(d) \subseteq Procs /\ d.wiring.ports \in PortMaps
        /\ \A p \in Deps(d) : d.wiring.ports[p] \in Ports
    BY WiringShape DEF Flows
  <1>2. Deps(d) \cup UNION {{f.from, f.to} : f \in Flows(d)} = Deps(d)
    BY DEF WiringLands
  <1>3. /\ DOMAIN Cards(d) = Deps(d) /\ \A p \in Deps(d) : Cards(d)[p] = d.wiring.ports[p]
        /\ Cards(d) \in [Deps(d) -> Ports]
    BY <1>1, <1>2 DEF Cards
  <1>4. Cards(d) \in PortMaps
    BY <1>1, <1>3, PortMapShape
  <1>5. \A c \in d.wiring.chans :
           c.to \in Deps(d) => c \in {x \in d.wiring.chans : x.to \in DOMAIN Cards(d)}
    BY <1>3
  <1>6. Missing(d) \in SUBSET [from : Deps(d), svc : Signals, to : Deps(d)]
    BY DEF Missing
  <1>7. Drawn(d) \in Canvases
    <2>1. IngestShown(d) \in BOOLEAN /\ Outlets(d) \in SUBSET Lanes
      BY ReqShape, ConfigAssumption DEF IngestShown, Outlets
    <2>2. {c \in d.wiring.chans : c.to \in DOMAIN Cards(d)} \in SUBSET LaneWires
      BY WiringShape
    <2>3. Missing(d) \in SUBSET Wires
      BY <1>1, <1>6 DEF Wires
    <2> QED
      BY <1>1, <1>4, <2>1, <2>2, <2>3 DEF Drawn, Canvases
  <1> QED
    BY <1>1, <1>3, <1>5, <1>6, <1>7 DEF Drawn, Shows

\* A canvas still fits after an edit of anything that is not drawn.
LEMMA ShowsSame ==
  ASSUME NEW cv, NEW d, NEW e, Shows(cv, d), Source(e) = Source(d),
         e.wiring.ports = d.wiring.ports, e.wiring.flows = d.wiring.flows,
         e.wiring.chans = d.wiring.chans
  PROVE  Shows(cv, e)
  BY SameSource DEF Shows, Flows, Deps

\* What a canvas that shows a document lets its handlers rely on.
LEMMA ShowsReads ==
  ASSUME NEW cv, NEW d \in Docs, Shows(cv, d)
  PROVE  /\ DOMAIN cv.cards = Deps(d) /\ cv.lanes = Outlets(d) /\ cv.edges \in SUBSET Wires
         /\ \A p \in DOMAIN cv.cards : /\ cv.cards[p] \in Ports
                                       /\ cv.cards[p].out \in SUBSET Signals
                                       /\ cv.cards[p].in \in SUBSET Signals
         /\ \A m \in cv.missing : m \in Wires /\ m.from \in Deps(d) /\ m.to \in Deps(d)
                                  /\ m.svc \in Signals /\ m.to \in Procs
  <1>1. Deps(d) \subseteq Procs
    BY WiringShape
  <1>2. \A m \in cv.missing : m \in [from : Deps(d), svc : Signals, to : Deps(d)]
    BY DEF Shows
  <1>3. \A p \in DOMAIN cv.cards : cv.cards[p] \in Ports
    BY PortMapShape DEF Shows, Canvases
  <1> QED
    BY <1>1, <1>2, <1>3 DEF Shows, Ports, Wires, Canvases

LEMMA EditRepaints ==
  ASSUME IInv, Edit, Sound(session, session'), Repaint,
         (\E open \in BOOLEAN : Checkpoint(session, open)) \/ NoCheckpoint
  PROVE  IInv'
  <1>1. TInv' /\ FilesInv'
    BY EditKeeps DEF IInv
  <1>2. session'.doc \in Docs /\ WiringLands(session'.doc)
    BY <1>1 DEF TInv, FilesInv, Sessions, Edit
  <1>3. Shows(canvas', session'.doc)
    BY <1>2, DrawnShows DEF Repaint
  <1> QED
    BY <1>1, <1>3 DEF IInv, CanvasInv

\* An edit of a part of the session that the canvas does not draw.
LEMMA EditElsewhere ==
  ASSUME IInv, Edit, Sound(session, session'), canvas' = canvas,
         Source(session'.doc) = Source(session.doc),
         session'.doc.wiring.ports = session.doc.wiring.ports,
         session'.doc.wiring.flows = session.doc.wiring.flows,
         session'.doc.wiring.chans = session.doc.wiring.chans,
         \/ \E open \in BOOLEAN : Checkpoint(session, open) \/ Checkpoint(session', open)
         \/ NoCheckpoint \/ CheckpointTyping
         \/ undo' = undo /\ redo' = redo /\ armed' \in BOOLEAN
  PROVE  IInv'
  <1>1. TInv' /\ FilesInv'
    BY EditKeeps DEF IInv
  <1>2. Shows(canvas, session.doc)
    BY DEF IInv, CanvasInv, Edit
  <1>3. Shows(canvas, session'.doc)
    BY <1>2, ShowsSame
  <1> QED
    BY <1>1, <1>3 DEF IInv, CanvasInv

-----------------------------------------------------------------------------
(* The forms *)

LEMMA FlipSound ==
  ASSUME NEW s \in Sessions
  PROVE  /\ Sound(s, FlipSku(s)) /\ FlipSku(s).doc.wiring = s.doc.wiring
         /\ Source(FlipSku(s).doc) = Source(s.doc)
  <1> DEFINE r == [s.doc.req EXCEPT !.sku = ~@]
  <1>1. r \in Reqs /\ r.lanes = s.doc.req.lanes /\ r.active = s.doc.req.active
    BY DocShape DEF Sessions, Reqs
  <1>2. FlipSku(s) = Put(s, "req", r)
    BY DEF FlipSku
  <1> HIDE DEF r
  <1> QED
    BY <1>1, <1>2, SoundReq, PutReq

LEMMA HarvestSound ==
  ASSUME NEW s \in Sessions, NEW k \in Ara, NEW rows \in RowEdits(s.doc, s.doc[k])
  PROVE  /\ Sound(s, Harvest(s, k, rows)) /\ Harvest(s, k, rows).doc.wiring = s.doc.wiring
         /\ Harvest(s, k, rows).doc.req = s.doc.req
  <1>1. s.doc \in Docs /\ Deps(s.doc) \subseteq Procs
    BY WiringShape DEF Sessions
  <1>2. s.doc[k] \in Tables
    BY <1>1, DocShape DEF Ara
  <1>3. rows \in Tables
    BY <1>1, <1>2 DEF RowEdits, Tables
  <1> QED
    BY <1>3, SoundTable, SoundSame, PutTable DEF Harvest

LEMMA FormsKeep == ASSUME IInv, Forms PROVE IInv'
  <1>1. session \in Sessions /\ TInv /\ FilesInv /\ CanvasInv
    BY DEF IInv, TInv
  <1>2. CASE TypeSku
    <2>1. Edit /\ CheckpointTyping /\ session' = FlipSku(session) /\ canvas' = canvas
      BY <1>2 DEF TypeSku
    <2> QED
      BY <1>1, <2>1, FlipSound, EditElsewhere
  <1>3. CASE ChooseSku
    <2>1. Edit /\ Checkpoint(session, FALSE) /\ session' = FlipSku(session) /\ canvas' = canvas
      BY <1>3 DEF ChooseSku
    <2> QED
      BY <1>1, <2>1, FlipSound, EditElsewhere
  <1>4. CASE EndEdit
    BY <1>4 DEF EndEdit, IInv, TInv, FilesInv, CanvasInv, files, ghosts
  <1>5. CASE EditExec
    <2>1. PICK rows \in RowEdits(session.doc, session.doc["exec"]) :
            session' = Harvest(session, "exec", rows)
      BY <1>5 DEF EditExec
    <2>2. Edit /\ Checkpoint(session, FALSE) /\ canvas' = canvas /\ "exec" \in Ara
      BY <1>5 DEF EditExec, Ara
    <2> QED
      BY <1>1, <2>1, <2>2, HarvestSound, SameReq, EditElsewhere
  <1>6. CASE EditLaunch
    <2>1. PICK rows \in RowEdits(session.doc, session.doc["em"]) :
            session' = Harvest(session, "em", rows)
      BY <1>6 DEF EditLaunch
    <2>2. Edit /\ Checkpoint(session', FALSE) /\ canvas' = canvas /\ "em" \in Ara
      BY <1>6 DEF EditLaunch, Ara
    <2> QED
      BY <1>1, <2>1, <2>2, HarvestSound, SameReq, EditElsewhere
  <1> QED
    BY <1>2, <1>3, <1>4, <1>5, <1>6 DEF Forms

\* A lane wire more, and the card it goes to read again.
LEMMA ShowsLane ==
  ASSUME NEW cv, NEW d \in Docs, NEW e, Shows(cv, d), NEW b \in Deps(d),
         NEW c \in LaneWires,
         e.req = d.req, e.wiring.ports = d.wiring.ports, Flows(e) = Flows(d), Deps(e) = Deps(d),
         e.wiring.chans = d.wiring.chans \cup {c}
  PROVE  Shows([cv EXCEPT !.chans = @ \cup {c}, !.cards[b] = d.wiring.ports[b]], e)
  <1> DEFINE n == [cv EXCEPT !.chans = @ \cup {c}, !.cards[b] = d.wiring.ports[b]]
  <1>1. /\ d.wiring.ports[b] \in Ports /\ cv \in Canvases /\ cv.cards \in PortMaps
        /\ DOMAIN cv.cards = Deps(d) /\ Deps(d) \subseteq Procs
    BY WiringShape DEF Shows, Canvases
  <1> DEFINE cards == [cv.cards EXCEPT ![b] = d.wiring.ports[b]]
  <1>2. /\ DOMAIN cards = Deps(d) /\ cards[b] = d.wiring.ports[b]
        /\ \A p \in Deps(d) : p # b => cards[p] = cv.cards[p]
    BY <1>1
  <1>3. cards \in PortMaps
    <2>1. \A p \in Deps(d) : cards[p] \in Ports
      BY <1>1, <1>2, PortMapShape
    <2>2. cards \in [Deps(d) -> Ports]
      BY <1>1, <1>2, <2>1
    <2> QED
      BY <1>1, <2>2, PortMapShape
  <1>5. /\ n.cards = cards /\ n.edges = cv.edges /\ n.chans = cv.chans \cup {c}
        /\ n.lanes = cv.lanes /\ n.missing = cv.missing
    BY <1>1 DEF Canvases
  <1>6. n \in Canvases
    BY <1>1, <1>3 DEF Canvases
  <1> HIDE DEF n, cards
  <1>7. \A p \in Deps(d) : e.wiring.ports[p].out = n.cards[p].out
           /\ e.wiring.ports[p].in \subseteq
                 n.cards[p].in \cup {x.svc : x \in {y \in n.edges : y.to = p}}
    BY <1>2, <1>5 DEF Shows
  <1>8. Outlets(e) = Outlets(d)
    BY SameReq, SameSource
  <1> QED
    BY <1>2, <1>5, <1>6, <1>7, <1>8 DEF Shows, n

\* A wire more, and the cards of its ends read again: the In it enters may be new on the
\* card of b, or be the end of this wire alone.
LEMMA ShowsWire ==
  ASSUME NEW cv, NEW d \in Docs, NEW e \in Docs, Shows(cv, d), NEW w \in Wires,
         w.from \in Deps(d), w.to \in Deps(d), Source(e) = Source(d),
         e.wiring.chans = d.wiring.chans, Deps(e) = Deps(d),
         Flows(e) \subseteq Flows(d) \cup {w},
         \A p \in Deps(d) : p # w.to => e.wiring.ports[p] = d.wiring.ports[p]
  PROVE  Shows([cv EXCEPT
            !.cards = [p \in DOMAIN @ |->
                          IF p \in {w.from, w.to} THEN e.wiring.ports[p] ELSE @[p]],
            !.edges = @ \cup {w}, !.missing = @ \ {w}], e)
  <1> DEFINE cards == [p \in DOMAIN cv.cards |->
                 IF p \in {w.from, w.to} THEN e.wiring.ports[p] ELSE cv.cards[p]]
             n == [cv EXCEPT
                !.cards = [p \in DOMAIN @ |->
                              IF p \in {w.from, w.to} THEN e.wiring.ports[p] ELSE @[p]],
                !.edges = @ \cup {w}, !.missing = @ \ {w}]
  <1>1. /\ cv \in Canvases /\ cv.cards \in PortMaps
        /\ DOMAIN cv.cards = Deps(d) /\ Deps(d) \subseteq Procs
        /\ \A p \in Deps(d) : e.wiring.ports[p] \in Ports
    BY WiringShape DEF Shows, Canvases
  <1>2. /\ DOMAIN cards = Deps(d)
        /\ \A p \in Deps(d) : p \in {w.from, w.to} => cards[p] = e.wiring.ports[p]
        /\ \A p \in Deps(d) : p \notin {w.from, w.to} => cards[p] = cv.cards[p]
    BY <1>1
  <1>3. cards \in PortMaps
    <2>1. \A p \in Deps(d) : cards[p] \in Ports
      BY <1>1, <1>2, PortMapShape
    <2>2. cards \in [Deps(d) -> Ports]
      BY <1>1, <1>2, <2>1
    <2> QED
      BY <1>1, <2>2, PortMapShape
  <1>4. /\ n.cards = cards /\ n.edges = cv.edges \cup {w} /\ n.chans = cv.chans
        /\ n.lanes = cv.lanes /\ n.missing = cv.missing \ {w}
    BY <1>1 DEF Canvases
  <1>5. n \in Canvases
    BY <1>1, <1>3 DEF Canvases
  <1> HIDE DEF n, cards
  <1>6. ASSUME NEW p \in Deps(d)
        PROVE  /\ e.wiring.ports[p].out = n.cards[p].out
               /\ e.wiring.ports[p].in \subseteq
                     n.cards[p].in \cup {x.svc : x \in {y \in n.edges : y.to = p}}
    <2>1. CASE p \in {w.from, w.to}
      BY <1>2, <1>4, <2>1
    <2>2. CASE p \notin {w.from, w.to}
      <3>1. e.wiring.ports[p] = d.wiring.ports[p] /\ n.cards[p] = cv.cards[p]
        BY <1>2, <1>4, <2>2
      <3> QED
        BY <1>4, <3>1 DEF Shows
    <2> QED
      BY <2>1, <2>2
  <1>7. Outlets(e) = Outlets(d)
    BY SameSource
  <1> QED
    BY <1>2, <1>4, <1>5, <1>6, <1>7 DEF Shows, n

\* Ports renamed at the end of a wire that is drawn already.
LEMMA ShowsRenamed ==
  ASSUME NEW cv, NEW d \in Docs, NEW e, Shows(cv, d), NEW w \in Flows(d), w.to \in Deps(d),
         Source(e) = Source(d), e.wiring.chans = d.wiring.chans, Deps(e) = Deps(d),
         Flows(e) \subseteq Flows(d),
         e.wiring.ports[w.to].out = d.wiring.ports[w.to].out,
         e.wiring.ports[w.to].in \subseteq cv.cards[w.to].in \cup {w.svc},
         \A p \in Deps(d) : p # w.to => e.wiring.ports[p] = d.wiring.ports[p]
  PROVE  Shows(cv, e)
  <1>1. ASSUME NEW p \in Deps(d)
        PROVE  /\ e.wiring.ports[p].out = cv.cards[p].out
               /\ e.wiring.ports[p].in \subseteq
                     cv.cards[p].in \cup {x.svc : x \in {y \in cv.edges : y.to = p}}
    <2>1. CASE p = w.to
      BY <2>1 DEF Shows
    <2>2. CASE p # w.to
      BY <2>2 DEF Shows
    <2> QED
      BY <2>1, <2>2
  <1>2. Outlets(e) = Outlets(d)
    BY SameSource
  <1> QED
    BY <1>1, <1>2 DEF Shows

-----------------------------------------------------------------------------
(* The modules *)

LEMMA MoveSound ==
  ASSUME NEW s \in Sessions, NEW t, t = Moved(s)
  PROVE  /\ Sound(s, t) /\ t.doc.req = s.doc.req /\ t.doc.wiring.ports = s.doc.wiring.ports
         /\ t.doc.wiring.flows = s.doc.wiring.flows /\ t.doc.wiring.chans = s.doc.wiring.chans
  <1> DEFINE v == [s.doc.wiring EXCEPT !.place = ~@]
  <1>1. v \in Wirings /\ v.ports = s.doc.wiring.ports /\ v.flows = s.doc.wiring.flows
        /\ v.chans = s.doc.wiring.chans
    BY DocShape DEF Sessions, Wirings
  <1> HIDE DEF v
  <1>2. t \in Sessions /\ Marked(s, t) /\ t.doc.wiring = v /\ t.doc.req = s.doc.req
    BY <1>1, PutWiring DEF v, Moved
  <1>3. /\ Flows(t.doc) = Flows(s.doc) /\ Deps(t.doc) = Deps(s.doc)
        /\ t.doc.wiring.chans = s.doc.wiring.chans /\ t.doc.req = s.doc.req
    BY <1>1, <1>2 DEF Flows, Deps
  <1>4. LanesLand(s.doc) => LanesLand(t.doc)
    BY <1>3, SameReq, LanesStill
  <1>5. Sound(s, t)
    BY ONLY <1>2, <1>3, <1>4 DEF Sound, WiringLands
  <1> QED
    BY <1>1, <1>2, <1>5

\* The port dialog: the ports, then a policy for every Out, then the orphans.
LEMMA PortDialogSound ==
  ASSUME NEW s \in Sessions, NEW p \in Procs, NEW out \in SUBSET Signals,
    NEW in \in SUBSET Signals,
         NEW u, u = SetPorts(s, p, out, in, TRUE), NEW t,
         t = PruneOrphans(Put(u, "req", [u.doc.req EXCEPT !.policies = @ \cup out]))
  PROVE  Sound(s, t)
  <1> DEFINE r == [u.doc.req EXCEPT !.policies = @ \cup out]
             x == Put(u, "req", r)
  <1>1. u \in Sessions /\ Sound(s, u)
    BY PortsPruned DEF Reported
  <1>2. r \in Reqs /\ r.lanes = u.doc.req.lanes /\ r.active = u.doc.req.active
    BY <1>1, DocShape DEF Sessions, Reqs
  <1> HIDE DEF r
  <1>3. x \in Sessions /\ Sound(u, x)
    BY <1>1, <1>2, PutReq, SoundReq
  <1>4. t = PruneOrphans(x)
    BY DEF r
  <1> HIDE DEF x
  <1>5. Sound(x, t)
    BY <1>3, <1>4, PruneOrphansSound
  <1>6. Sound(u, t)
    BY <1>1, <1>3, <1>5, SoundSteps
  <1> QED
    BY <1>1, <1>6, SoundSteps

\* A port put elsewhere on its card: the session gets the ports of the card.
LEMMA PlaceKeeps == ASSUME IInv, NEW p \in Procs, PlacePort(p) PROVE IInv'
  <1> DEFINE d == session.doc
             u == Moved(session)
             out == canvas.cards[p].out
             in == canvas.cards[p].in
  <1>1. /\ Edit /\ window /\ p \in DOMAIN canvas.cards /\ canvas' = canvas
        /\ undo' = undo /\ redo' = redo /\ armed' \in BOOLEAN
        /\ session' = SetPorts(u, p, out, in, FALSE)
    BY DEF PlacePort, Edit
  <1>2. session \in Sessions /\ d \in Docs /\ Shows(canvas, d)
    BY <1>1 DEF IInv, TInv, Sessions, CanvasInv
  <1>3. p \in Deps(d) /\ out \in SUBSET Signals /\ in \in SUBSET Signals
    BY <1>1, <1>2, ShowsReads
  <1>4. /\ u \in Sessions /\ Sound(session, u) /\ Source(u.doc) = Source(d)
        /\ Deps(u.doc) = Deps(d) /\ Flows(u.doc) = Flows(d)
        /\ u.doc.wiring.ports = d.wiring.ports /\ u.doc.wiring.chans = d.wiring.chans
    BY <1>2, MoveSound, SameReq DEF Sound, Deps, Flows
  <1> HIDE DEF u, out, in
  <1>5. Reported(u, session', p, out, in, Flows(u.doc))
    BY <1>1, <1>3, <1>4, PortsKept
  <1>6. Sound(session, session')
    BY <1>2, <1>4, <1>5, SoundSteps DEF Reported
  <1>7. TInv' /\ FilesInv'
    BY <1>1, <1>6, EditKeeps DEF IInv
  <1> DEFINE e == session'.doc
  <1>8. /\ Source(e) = Source(d) /\ e.wiring.chans = d.wiring.chans /\ Deps(e) = Deps(d)
        /\ Flows(e) = Flows(d) /\ e.wiring.ports[p] = [out |-> out, in |-> in]
        /\ \A q \in Deps(d) : q # p => e.wiring.ports[q] = d.wiring.ports[q]
    BY <1>3, <1>4, <1>5 DEF Reported, Ported
  <1> HIDE DEF e, d
  <1>9. Outlets(e) = Outlets(d)
    BY <1>8, SameSource
  <1>10. Shows(canvas, e)
    BY <1>2, <1>8, <1>9 DEF Shows, out, in
  <1> QED
    BY <1>1, <1>7, <1>10 DEF IInv, CanvasInv, e

LEMMA NodesKeep == ASSUME IInv, Nodes PROVE IInv'
  <1>1. session \in Sessions /\ session.doc \in Docs
    BY DEF IInv, TInv, Sessions
  <1>2. window => Shows(canvas, session.doc)
    BY DEF IInv, CanvasInv
  <1>3. ASSUME NEW p \in Procs, AddNode(p)
        PROVE  IInv'
    <2>1. Edit /\ Checkpoint(session, TRUE)
            /\ session' = SetPorts(session, p, {}, {}, FALSE) /\ Repaint
      BY <1>3 DEF AddNode
    <2>2. Sound(session, session')
      BY <1>1, <2>1, PortsKept DEF Reported
    <2> QED
      BY <2>1, <2>2, EditRepaints
  <1>4. ASSUME NEW p \in Procs, DeleteNode(p)
        PROVE  IInv'
    <2>1. Edit /\ Checkpoint(session, TRUE) /\ Repaint
      BY <1>4 DEF DeleteNode
    <2>2. session' = RemoveDeployment(
             SetChans(session, {c \in session.doc.wiring.chans : c.to # p}), p)
      BY <1>4 DEF DeleteNode
    <2>3. Sound(session, session')
      BY <1>1, <2>2, DeleteSound
    <2> QED
      BY <2>1, <2>3, EditRepaints
  <1>5. ASSUME NEW p \in Procs, NEW out \in SUBSET Signals, NEW in \in SUBSET Signals,
               EditPorts(p, out, in)
        PROVE  IInv'
    <2> DEFINE u == SetPorts(session, p, out, in, TRUE)
    <2>1. Edit /\ Checkpoint(session, TRUE) /\ Repaint
      BY <1>5 DEF EditPorts
    <2>2. session' = PruneOrphans(Put(u, "req", [u.doc.req EXCEPT !.policies = @ \cup out]))
      BY <1>5 DEF EditPorts
    <2> HIDE DEF u
    <2>3. u = SetPorts(session, p, out, in, TRUE)
      BY DEF u
    <2>4. Sound(session, session')
      BY <1>1, <2>2, <2>3, PortDialogSound
    <2> QED
      BY <2>1, <2>4, EditRepaints
  <1>6. ASSUME NEW p \in Procs, NEW names \in (SUBSET Signals) \ {{}}, NEW isOut \in BOOLEAN,
               ImportPorts(p, names, isOut)
        PROVE  IInv'
    <2> DEFINE c == canvas.cards[p]
               out == IF isOut THEN c.out \cup names ELSE c.out
               in == IF isOut THEN c.in ELSE c.in \cup names
    <2>1. p \in DOMAIN canvas.cards /\ Edit /\ NoCheckpoint /\ Repaint
      BY <1>6 DEF ImportPorts
    <2>2. session' = SetPorts(session, p, out, in, TRUE)
      BY <1>6 DEF ImportPorts
    <2>3. c.out \in SUBSET Signals /\ c.in \in SUBSET Signals
      BY <1>1, <1>2, <2>1, ShowsReads DEF Edit
    <2>4. out \in SUBSET Signals /\ in \in SUBSET Signals
      BY <2>3
    <2> HIDE DEF out, in
    <2>5. Sound(session, session')
      BY <1>1, <2>2, <2>4, PortsPruned DEF Reported
    <2> QED
      BY <2>1, <2>5, EditRepaints
  <1>7. CASE MoveCard
    <2>1. Edit /\ Checkpoint(session', FALSE) /\ canvas' = canvas
          /\ session' = Moved(session)
      BY <1>7 DEF MoveCard
    <2> QED
      BY <1>1, <2>1, MoveSound, SameReq, EditElsewhere
  <1>8. CASE GrabPort
    <2>1. Edit /\ Checkpoint(session, TRUE) /\ session' = session /\ canvas' = canvas
      BY <1>8 DEF GrabPort
    <2> QED
      BY <1>1, <2>1, SoundSame, EditElsewhere
  <1>9. CASE PlaceLane
    <2>1. /\ Edit /\ session' = Moved(session) /\ canvas' = canvas
          /\ undo' = undo /\ redo' = redo /\ armed' \in BOOLEAN
      BY <1>9 DEF PlaceLane
    <2> QED
      BY <1>1, <2>1, MoveSound, SameReq, EditElsewhere
  <1>10. ASSUME NEW p \in Procs, PlacePort(p)
         PROVE  IInv'
    BY <1>10, PlaceKeeps
  <1> QED
    BY <1>3, <1>4, <1>5, <1>6, <1>7, <1>8, <1>9, <1>10 DEF Nodes

-----------------------------------------------------------------------------
(* The frame_ingest node *)

\* An Out of the node is a lane, or the one drawn for want of lanes.
LEMMA FrontLoose ==
  ASSUME NEW d, LanesLand(d), NEW l \in Outlets(d), NEW b \in Procs
  PROVE  l \in d.req.lanes \/ [lane |-> l, to |-> b] \in Loose
  BY DEF LanesLand, Bare, Outlets, Loose

LEMMA IngestKeeps == ASSUME IInv, Ingest PROVE IInv'
  <1>1. session \in Sessions /\ session.doc \in Docs
          /\ session.doc.wiring.chans \in SUBSET LaneWires
    BY WiringShape DEF IInv, TInv, Sessions
  <1>2. window => Shows(canvas, session.doc)
    BY DEF IInv, CanvasInv
  <1>3. ASSUME NEW lanes \in (SUBSET Lanes) \ {{}}, AddIngest(lanes) \/ EditIngest(lanes)
        PROVE  IInv'
    <2>1. PICK seed \in BOOLEAN : session' = SetIngest(session, lanes, seed)
      BY <1>3 DEF AddIngest, EditIngest
    <2>2. Edit /\ Checkpoint(session, TRUE) /\ Repaint
      BY <1>3 DEF AddIngest, EditIngest
    <2> QED
      BY <1>1, <2>1, <2>2, SetIngestSound, EditRepaints
  <1>4. CASE DeleteIngest
    <2>1. Edit /\ Checkpoint(session, TRUE) /\ session' = RemoveIngest(session) /\ Repaint
      BY <1>4 DEF DeleteIngest
    <2> QED
      BY <1>1, <2>1, RemoveIngestSound, EditRepaints
  <1>5. ASSUME NEW l \in Lanes, NEW b \in Procs, WireLane(l, b)
        PROVE  IInv'
    <2> DEFINE c == [lane |-> l, to |-> b]
               cs == session.doc.wiring.chans \cup {c}
               cv == [canvas EXCEPT !.chans = @ \cup {c},
                        !.cards[b] = session.doc.wiring.ports[b]]
    <2>1. /\ Edit /\ Checkpoint(session, TRUE) /\ window
          /\ l \in canvas.lanes /\ b \in DOMAIN canvas.cards
      BY <1>5 DEF WireLane, Edit
    <2>2. Shows(canvas, session.doc) /\ l \in Outlets(session.doc) /\ b \in Deps(session.doc)
      BY <1>1, <1>2, <2>1, ShowsReads
    <2>3. CASE c \in session.doc.wiring.chans
      <3>1. session' = session /\ canvas' = canvas
        BY <1>5, <2>3 DEF WireLane
      <3> QED
        BY <1>1, <2>1, <3>1, SoundSame, EditElsewhere
    <2>4. CASE c \notin session.doc.wiring.chans
      <3>1. session' = SetChans(session, cs) /\ canvas' = cv
        BY <1>5, <2>4 DEF WireLane
      <3>2. c \in LaneWires /\ cs \in SUBSET LaneWires
        BY <1>1 DEF LaneWires
      <3>3. LanesLand(session.doc) => \A x \in cs \ session.doc.wiring.chans :
               x \in Loose \/ (x.lane \in session.doc.req.lanes /\ x.to \in Deps(session.doc))
        BY <2>2, FrontLoose
      <3> HIDE DEF cs, cv
      <3>4. /\ Sound(session, session') /\ session'.doc.req = session.doc.req
            /\ session'.doc.wiring.ports = session.doc.wiring.ports
            /\ session'.doc.wiring.chans = cs
            /\ Flows(session'.doc) = Flows(session.doc) /\ Deps(session'.doc) = Deps(session.doc)
        BY <1>1, <3>1, <3>2, <3>3, SetChansSound
      <3>5. TInv' /\ FilesInv'
        BY <2>1, <3>4, EditKeeps DEF IInv
      <3>6. Shows(cv, session'.doc)
        BY <1>1, <2>2, <3>2, <3>4, ShowsLane DEF cs, cv
      <3> QED
        BY <3>1, <3>5, <3>6 DEF IInv, CanvasInv
    <2> QED
      BY <2>3, <2>4
  <1>6. ASSUME NEW c \in canvas.chans, RemoveLaneEdge(c)
        PROVE  IInv'
    <2> DEFINE cs == session.doc.wiring.chans \ {c}
    <2>1. Edit /\ Checkpoint(session, TRUE) /\ session' = SetChans(session, cs) /\ Repaint
      BY <1>6 DEF RemoveLaneEdge
    <2>2. cs \in SUBSET LaneWires /\ cs \subseteq session.doc.wiring.chans
      BY <1>1
    <2> HIDE DEF cs
    <2>3. Sound(session, session')
      BY <1>1, <2>1, <2>2, SetChansSound
    <2> QED
      BY <2>1, <2>3, EditRepaints
  <1> QED
    BY <1>3, <1>4, <1>5, <1>6 DEF Ingest

-----------------------------------------------------------------------------
(* The wires *)

LEMMA WireKeeps ==
  ASSUME IInv, NEW a \in Procs, NEW b \in Procs, NEW v \in Signals, NEW r \in Signals,
         Wire(a, v, b, r)
  PROVE  IInv'
  <1> DEFINE c == canvas.cards[b]
             e == Flow(a, v, b)
             in == (c.in \ {r}) \cup {v}
             s == IF r = v THEN session ELSE SetPorts(session, b, c.out, in, TRUE)
             fs == Flows(s.doc) \cup {e}
             d == session.doc
  <1>1. /\ Edit /\ Checkpoint(session, TRUE) /\ window
        /\ a # b /\ a \in DOMAIN canvas.cards /\ b \in DOMAIN canvas.cards
    BY DEF Wire, Edit
  <1>2. session \in Sessions /\ d \in Docs /\ Shows(canvas, d)
    BY <1>1 DEF IInv, TInv, Sessions, CanvasInv
  <1>3. /\ a \in Deps(d) /\ b \in Deps(d)
        /\ c.out \in SUBSET Signals /\ c.in \in SUBSET Signals
    BY <1>1, <1>2, ShowsReads
  <1>4. e \in Wires /\ e.from = a /\ e.to = b /\ e.svc = v
    BY DEF Flow, Wires
  <1>5. c.out = d.wiring.ports[b].out /\ in \subseteq c.in \cup {v} /\ in \in SUBSET Signals
    BY <1>2, <1>3 DEF Shows
  <1>6. IF e \in Flows(s.doc)
        THEN session' = s /\ canvas' = canvas
        ELSE session' = SetFlows(s, fs) /\ canvas' = CommitEdge(session'.doc, e)
    BY DEF Wire
  <1> HIDE DEF e, in, fs
  <1>7. /\ s \in Sessions /\ Sound(session, s) /\ Source(s.doc) = Source(d)
        /\ s.doc.wiring.chans = d.wiring.chans /\ Deps(s.doc) = Deps(d)
        /\ Flows(s.doc) \subseteq Flows(d)
        /\ \A p \in Deps(d) : p # b => s.doc.wiring.ports[p] = d.wiring.ports[p]
        /\ r # v => s.doc.wiring.ports[b] = [out |-> c.out, in |-> in]
    <2>1. CASE r = v
      BY <1>2, <2>1, SoundSame
    <2>2. CASE r # v
      <3> DEFINE out == c.out
      <3>1. s = SetPorts(session, b, out, in, TRUE)
        BY <2>2
      <3>2. out \in SUBSET Signals /\ in \in SUBSET Signals /\ session \in Sessions
        BY <1>2, <1>3, <1>5
      <3> HIDE DEF s, out
      <3>3. Reported(session, s, b, out, in, Carried(session, b, out, in))
        BY ONLY <3>1, <3>2, PortsPruned
      <3>4. Deps(s.doc) = Deps(d)
        BY <1>3, <3>3 DEF Reported, Ported
      <3> QED
        BY <3>3, <3>4 DEF Reported, Ported, Carried, out
    <2> QED
      BY <2>1, <2>2
  <1> HIDE DEF s, d
  <1>8. s.doc \in Docs /\ Flows(s.doc) \in SUBSET Wires
    BY <1>7, WiringShape DEF Sessions, Flows
  <1>9. CASE e \in Flows(s.doc)
    <2>1. session' = s /\ canvas' = canvas
      BY <1>6, <1>9
    <2>2. TInv' /\ FilesInv'
      BY <1>1, <1>7, <2>1, EditKeeps DEF IInv
    <2>3. Shows(canvas, s.doc)
      <3>1. CASE r = v
        BY <1>2, <3>1 DEF s, d
      <3>2. CASE r # v
        <4>1. /\ s.doc.wiring.ports[b].out = d.wiring.ports[b].out
              /\ s.doc.wiring.ports[b].in \subseteq canvas.cards[b].in \cup {e.svc}
          BY <1>4, <1>5, <1>7, <3>2
        <4>2. e \in Flows(d)
          BY <1>7, <1>9
        <4> DEFINE t == s.doc
        <4>3. /\ e.to \in Deps(d) /\ Source(t) = Source(d) /\ Flows(t) \subseteq Flows(d)
              /\ t.wiring.chans = d.wiring.chans /\ Deps(t) = Deps(d)
              /\ t.wiring.ports[e.to].out = d.wiring.ports[e.to].out
              /\ t.wiring.ports[e.to].in \subseteq canvas.cards[e.to].in \cup {e.svc}
              /\ \A p \in Deps(d) : p # e.to => t.wiring.ports[p] = d.wiring.ports[p]
          BY <1>3, <1>4, <1>7, <4>1
        <4> HIDE DEF t
        <4>4. Shows(canvas, t)
          BY ONLY <1>2, <4>2, <4>3, ShowsRenamed
        <4> QED
          BY <4>4 DEF t
      <3> QED
        BY <3>1, <3>2
    <2> QED
      BY <2>1, <2>2, <2>3 DEF IInv, CanvasInv
  <1>10. CASE e \notin Flows(s.doc)
    <2>1. session' = SetFlows(s, fs) /\ canvas' = CommitEdge(session'.doc, e)
      BY <1>6, <1>10
    <2>2. /\ fs \in SUBSET Wires /\ fs \ Flows(s.doc) \subseteq {e}
          /\ {e.from, e.to} \subseteq Deps(s.doc)
      BY <1>3, <1>4, <1>7, <1>8 DEF fs
    <2> HIDE DEF fs
    <2>3. /\ session' \in Sessions /\ session'.doc.req = s.doc.req
          /\ session'.doc.wiring.ports = s.doc.wiring.ports
          /\ session'.doc.wiring.chans = s.doc.wiring.chans
          /\ Flows(session'.doc) = fs /\ Deps(session'.doc) = Deps(s.doc)
          /\ Sound(s, session')
      <3>1. \A f \in fs \ Flows(s.doc) : {f.from, f.to} \subseteq Deps(s.doc)
        BY <2>2
      <3> QED
        BY <1>7, <2>1, <2>2, <3>1, SetFlowsSound
    <2>4. Sound(session, session')
      BY <1>2, <1>7, <2>3, SoundSteps
    <2>5. TInv' /\ FilesInv'
      BY <1>1, <2>4, EditKeeps DEF IInv
    <2>6. /\ session'.doc \in Docs /\ Source(session'.doc) = Source(d)
          /\ session'.doc.wiring.chans = d.wiring.chans /\ Deps(session'.doc) = Deps(d)
          /\ Flows(session'.doc) \subseteq Flows(d) \cup {e}
          /\ \A p \in Deps(d) : p # e.to =>
                session'.doc.wiring.ports[p] = d.wiring.ports[p]
      <3>1. Source(session'.doc) = Source(s.doc)
        BY <2>3, SameReq
      <3>2. fs \subseteq Flows(d) \cup {e}
        BY <1>7 DEF fs
      <3> QED
        BY <1>4, <1>7, <2>3, <3>1, <3>2 DEF Sessions
    <2>7. Shows(canvas', session'.doc)
      BY <1>2, <1>3, <1>4, <2>1, <2>6, ShowsWire DEF CommitEdge
    <2> QED
      BY <2>5, <2>7 DEF IInv, CanvasInv
  <1> QED
    BY <1>9, <1>10

LEMMA EdgesKeep == ASSUME IInv, Edges PROVE IInv'
  <1> DEFINE d == session.doc
  <1>1. session \in Sessions /\ d \in Docs /\ Flows(d) \in SUBSET Wires
    BY WiringShape DEF IInv, TInv, Sessions, Flows
  <1>2. window => Shows(canvas, d)
    BY DEF IInv, CanvasInv
  <1>3. ASSUME NEW a \in Procs, NEW b \in Procs, NEW v \in Signals, NEW r \in Signals,
               Wire(a, v, b, r)
        PROVE  IInv'
    BY <1>3, WireKeeps
  <1>4. ASSUME NEW e \in canvas.edges, RemoveEdge(e)
        PROVE  IInv'
    <2> DEFINE fs == Flows(d) \ {e}
    <2>1. Edit /\ Checkpoint(session, TRUE) /\ session' = SetFlows(session, fs) /\ Repaint
      BY <1>4 DEF RemoveEdge
    <2>2. fs \in SUBSET Wires /\ fs \subseteq Flows(d)
      BY <1>1
    <2> HIDE DEF fs
    <2>3. Sound(session, session')
      BY <1>1, <2>1, <2>2, SetFlowsSound
    <2> QED
      BY <2>1, <2>3, EditRepaints
  <1>5. ASSUME NEW e \in canvas.edges, NEW v \in Signals, RenameEdge(e, v)
        PROVE  IInv'
    <2>1. Edit /\ NoCheckpoint /\ session' = RenameFlow(session, e, v) /\ Repaint
      BY <1>5 DEF RenameEdge
    <2>2. e \in Wires
      BY <1>1, <1>2, <2>1, ShowsReads DEF Edit
    <2> QED
      BY <1>1, <2>1, <2>2, RenameFlowSound, EditRepaints
  <1>6. ASSUME NEW m \in canvas.missing, FixMissing(m)
        PROVE  IInv'
    <2> DEFINE fs == Flows(d) \cup {m}
    <2>1. Edit /\ NoCheckpoint /\ session' = SetFlows(session, fs) /\ Repaint
      BY <1>6 DEF FixMissing
    <2>2. m \in Wires /\ m.from \in Deps(d) /\ m.to \in Deps(d)
      BY <1>1, <1>2, <2>1, ShowsReads DEF Edit
    <2>3. fs \in SUBSET Wires /\ \A f \in fs \ Flows(d) : {f.from, f.to} \subseteq Deps(d)
      BY <1>1, <2>2
    <2> HIDE DEF fs
    <2>4. Sound(session, session')
      BY <1>1, <2>1, <2>3, SetFlowsSound
    <2> QED
      BY <2>1, <2>4, EditRepaints
  <1>7. ASSUME NEW m \in canvas.missing, DropMissing(m)
        PROVE  IInv'
    <2> DEFINE c == canvas.cards[m.to]
               out == c.out
               in == c.in \ {m.svc}
    <2>1. Edit /\ NoCheckpoint /\ Repaint /\ session' = SetPorts(session, m.to, out, in, TRUE)
      BY <1>7 DEF DropMissing
    <2>2. m.to \in Procs /\ m.to \in DOMAIN canvas.cards
      BY <1>1, <1>2, <2>1, ShowsReads DEF Edit
    <2>3. out \in SUBSET Signals /\ in \in SUBSET Signals
      BY <1>1, <1>2, <2>1, <2>2, ShowsReads DEF Edit
    <2> HIDE DEF out, in
    <2>4. Sound(session, session')
      BY <1>1, <2>1, <2>2, <2>3, PortsPruned DEF Reported
    <2> QED
      BY <2>1, <2>4, EditRepaints
  <1> QED
    BY <1>3, <1>4, <1>5, <1>6, <1>7 DEF Edges

-----------------------------------------------------------------------------
(* Undo and redo *)

LEMMA TravelKeeps ==
  ASSUME IInv, window, NEW from, NEW to, NEW from2, NEW to2, from \in Seq(Snaps), from # <<>>,
         to \in Seq(Snaps), Len(from) + Len(to) <= Limit,
         Stack(from, mixed, disk, damaged), Stack(to, mixed, disk, damaged),
         Restore(Last(from)), from2 = Front(from), to2 = Append(to, Snapshot(session)),
         (undo' = from2 /\ redo' = to2) \/ (undo' = to2 /\ redo' = from2)
  PROVE  IInv'
  <1> DEFINE snap == Last(from)
  <1>1. /\ TInv /\ FilesInv /\ session \in Sessions /\ mixed \in BOOLEAN /\ halfway \in BOOLEAN
        /\ disk \in Docs
    BY DEF IInv, TInv
  <1>2. /\ from2 \in Seq(Snaps) /\ Len(from2) = Len(from) - 1
        /\ Stack(from2, mixed, disk, damaged)
        /\ snap \in Snaps /\ Fine(snap, mixed, disk, damaged)
    BY StackFront
  <1>3. Snapshot(session) \in Snaps /\ Fine(Snapshot(session), mixed, disk, damaged)
    BY <1>1, FineTake DEF FilesInv
  <1>4. /\ to2 \in Seq(Snaps) /\ Len(to2) = Len(to) + 1
        /\ Stack(to2, mixed, disk, damaged)
    BY <1>3, StackAppend
  <1>5. /\ session' = snap.session /\ armed' = FALSE /\ mixed' = (mixed \/ snap.stale)
        /\ window' = window /\ disk' = disk /\ damaged' = damaged /\ halfway' = halfway
        /\ edits' = edits /\ faults' = faults /\ Repaint
    BY DEF Restore, files
  <1> HIDE DEF snap
  <1>6. snap.session \in Sessions /\ snap.stale \in BOOLEAN
    BY <1>2 DEF Snaps
  <1>7. mixed' \in BOOLEAN /\ (mixed => mixed')
    BY <1>1, <1>5, <1>6
  <1>8. Stack(from2, mixed', disk, damaged) /\ Stack(to2, mixed', disk, damaged)
    BY <1>1, <1>2, <1>4, <1>7, StackMixed
  <1>9. Len(from2) + Len(to2) <= Limit
    <2>1. Len(from) \in Nat /\ Len(to) \in Nat /\ Limit \in Nat
      BY ConfigAssumption, LenProperties
    <2> QED
      BY <1>2, <1>4, <2>1
  <1>10. Len(to2) + Len(from2) <= Limit
    <2>1. Len(from2) \in Nat /\ Len(to2) \in Nat
      BY <1>2, <1>4, LenProperties
    <2> QED
      BY ONLY <1>9, <2>1
  <1>11. Len(undo') + Len(redo') <= Limit /\ undo' \in Seq(Snaps) /\ redo' \in Seq(Snaps)
    <2>1. CASE undo' = from2 /\ redo' = to2
      BY ONLY <1>2, <1>4, <1>9, <2>1
    <2>2. CASE undo' = to2 /\ redo' = from2
      BY ONLY <1>2, <1>4, <1>10, <2>2
    <2> QED
      BY <2>1, <2>2
  <1>12. Stack(undo', mixed', disk, damaged) /\ Stack(redo', mixed', disk, damaged)
    BY <1>8
  <1>13. TInv'
    BY <1>1, <1>5, <1>6, <1>7, <1>11 DEF TInv
  <1>14. /\ WiringLands(session'.doc)
         /\ ~mixed' => LanesLand(session'.doc) /\ Clean(session', disk, damaged)
    BY <1>1, <1>2, <1>5, <1>6 DEF Fine
  <1>15. FilesInv'
    BY <1>1, <1>5, <1>7, <1>12, <1>14 DEF FilesInv
  <1>16. Shows(canvas', session'.doc)
    BY <1>5, <1>6, <1>14, DrawnShows DEF Repaint, Sessions
  <1> QED
    BY <1>13, <1>15, <1>16 DEF IInv, CanvasInv

LEMMA UndoKeeps == ASSUME IInv, Undo PROVE IInv'
  <1>1. /\ undo \in Seq(Snaps) /\ redo \in Seq(Snaps) /\ Len(undo) + Len(redo) <= Limit
        /\ Stack(undo, mixed, disk, damaged) /\ Stack(redo, mixed, disk, damaged)
    BY DEF IInv, TInv, FilesInv
  <1>2. /\ window /\ undo # <<>> /\ Restore(Last(undo))
        /\ undo' = Front(undo) /\ redo' = Append(redo, Snapshot(session))
    BY DEF Undo
  <1> QED
    BY <1>1, <1>2, TravelKeeps

LEMMA RedoKeeps == ASSUME IInv, Redo PROVE IInv'
  <1>1. /\ undo \in Seq(Snaps) /\ redo \in Seq(Snaps) /\ Len(undo) + Len(redo) <= Limit
        /\ Stack(undo, mixed, disk, damaged) /\ Stack(redo, mixed, disk, damaged)
    BY DEF IInv, TInv, FilesInv
  <1>2. /\ window /\ redo # <<>> /\ Restore(Last(redo))
        /\ redo' = Front(redo) /\ undo' = Append(undo, Snapshot(session))
    BY DEF Redo
  <1>3. Len(redo) + Len(undo) <= Limit
    <2>1. Len(redo) \in Nat /\ Len(undo) \in Nat
      BY <1>1, LenProperties
    <2> QED
      BY <1>1, <2>1
  <1> QED
    BY <1>1, <1>2, <1>3, TravelKeeps

-----------------------------------------------------------------------------
(* The files *)

\* The files after the slices of done were written.
Mixture(d, e, done) == [k \in Slices |-> IF k \in done THEN d[k] ELSE e[k]]

LEMMA MixtureDoc ==
  ASSUME NEW d \in Docs, NEW e \in Docs, NEW done \in SUBSET Slices
  PROVE  /\ Mixture(d, e, done) \in Docs
         /\ \A k \in Slices : Mixture(d, e, done)[k] = IF k \in done THEN d[k] ELSE e[k]
  <1> DEFINE m == Mixture(d, e, done)
  <1>1. /\ DOMAIN m = Slices
        /\ \A k \in Slices : m[k] = IF k \in done THEN d[k] ELSE e[k]
        /\ m = [k \in Slices |-> m[k]]
    BY DEF Mixture
  <1>2. /\ d.req \in Reqs /\ d.wiring \in Wirings /\ d.exec \in Tables /\ d.em \in Tables
        /\ e.req \in Reqs /\ e.wiring \in Wirings /\ e.exec \in Tables /\ e.em \in Tables
    BY DocShape
  <1> HIDE DEF m
  <1>3. m.req \in Reqs /\ m.wiring \in Wirings /\ m.exec \in Tables /\ m.em \in Tables
    BY <1>1, <1>2 DEF Slices
  <1>4. m \in [req : Reqs, wiring : Wirings, exec : Tables, em : Tables]
    BY <1>1, <1>3 DEF Slices
  <1> QED
    BY <1>1, <1>4, DocShape DEF m

LEMMA SameDoc ==
  ASSUME NEW d \in Docs, NEW e \in Docs, \A k \in Slices : d[k] = e[k]
  PROVE  d = e
  BY DocShape DEF Slices

\* What a save that wrote the slices of done leaves: the files of the other slices are as they
\* were, except those of slices still marked.
LEMMA WriteKeeps ==
  ASSUME IInv, window, NEW done \in SUBSET session.dirty, NEW rest \in Docs,
         NEW torn \in SUBSET Slices, WriteSlices(done, rest, torn),
         \A k \in Slices \ session.dirty : rest[k] = disk[k] /\ (k \in torn => k \in damaged),
         mixed' = mixed, edits' = edits, window' = window,
         faults' \in 0..MaxFaults, halfway' \in BOOLEAN, CanSave,
         ~halfway' => done = session.dirty,
         canvas' \in {canvas, Drawn(session.doc)}
  PROVE  IInv'
  <1>1. /\ TInv /\ FilesInv /\ session \in Sessions /\ disk \in Docs /\ damaged \subseteq Slices
        /\ session.doc \in Docs /\ session.dirty \subseteq Slices
        /\ undo \in Seq(Snaps) /\ redo \in Seq(Snaps) /\ Len(undo) + Len(redo) <= Limit
        /\ WiringLands(session.doc)
        /\ Stack(undo, mixed, disk, damaged) /\ Stack(redo, mixed, disk, damaged)
    BY DEF IInv, TInv, FilesInv, Sessions
  <1>2. /\ session' = [session EXCEPT !.dirty = @ \ done]
        /\ disk' = Mixture(session.doc, rest, done)
        /\ damaged' = torn \ done
        /\ \/ done = {} /\ rest = disk /\ torn = damaged /\ undo' = undo /\ redo' = redo
           \/ undo' = Stale(undo) /\ redo' = Stale(redo)
        /\ armed' = armed
    BY DEF WriteSlices, Mixture
  <1>3. /\ session' \in Sessions /\ session'.doc = session.doc
        /\ session'.dirty = session.dirty \ done
    BY <1>1, <1>2 DEF Sessions
  <1>4. /\ disk' \in Docs /\ done \subseteq Slices
        /\ \A k \in Slices : disk'[k] = IF k \in done THEN session.doc[k] ELSE rest[k]
    BY <1>1, <1>2, MixtureDoc
  <1>5. damaged' \subseteq Slices
    BY <1>2
  <1>6. ~mixed => LanesLand(session.doc) /\ Clean(session, disk, damaged)
    BY <1>1 DEF FilesInv
  <1>7. ~mixed => Clean(session', disk', damaged')
    <2> SUFFICES ASSUME ~mixed, NEW k \in Slices \ session'.dirty
                 PROVE  k \notin damaged' /\ session'.doc[k] = disk'[k]
      BY DEF Clean
    <2>1. k \in done \/ k \notin session.dirty
      BY <1>3
    <2>2. CASE k \in done
      BY <1>2, <1>3, <1>4, <2>2
    <2>3. CASE k \notin done
      BY <1>2, <1>3, <1>4, <1>6, <2>1, <2>3 DEF Clean
    <2> QED
      BY <2>2, <2>3
  <1>8. ~mixed /\ ~halfway' => LanesLand(disk') /\ damaged' = {} /\ Valid(disk')
    <2> SUFFICES ASSUME ~mixed, ~halfway' PROVE  LanesLand(disk') /\ damaged' = {}
          /\ Valid(disk')
      OBVIOUS
    <2>1. session'.dirty = {}
      BY <1>3
    <2>2. \A k \in Slices : k \notin damaged' /\ session.doc[k] = disk'[k]
      BY <1>3, <1>7, <2>1 DEF Clean
    <2>3. disk' = session.doc
      BY <1>1, <1>4, <2>2, SameDoc
    <2> QED
      BY <1>5, <1>6, <2>2, <2>3 DEF CanSave
  <1>9. /\ undo' \in Seq(Snaps) /\ redo' \in Seq(Snaps) /\ Len(undo') + Len(redo') <= Limit
        /\ Stack(undo', mixed, disk', damaged') /\ Stack(redo', mixed, disk', damaged')
    <2>1. CASE done = {} /\ rest = disk /\ torn = damaged /\ undo' = undo /\ redo' = redo
      <3>1. damaged' = damaged
        BY <1>2, <2>1
      <3>2. disk' = disk
        BY <1>1, <1>4, <2>1, SameDoc
      <3> QED
        BY <1>1, <2>1, <3>1, <3>2
    <2>2. CASE undo' = Stale(undo) /\ redo' = Stale(redo)
      BY <1>1, <2>2, StackStale
    <2> QED
      BY <1>2, <2>1, <2>2
  <1>10. TInv'
    BY <1>1, <1>2, <1>3, <1>4, <1>5, <1>9 DEF TInv
  <1>11. FilesInv'
    BY <1>1, <1>3, <1>4, <1>6, <1>7, <1>8, <1>9 DEF FilesInv
  <1>12. Shows(canvas', session'.doc)
    BY <1>1, <1>3, DrawnShows DEF IInv, CanvasInv
  <1> QED
    BY <1>10, <1>11, <1>12 DEF IInv, CanvasInv

LEMMA SaveKeeps == ASSUME IInv, Save PROVE IInv'
  <1>1. /\ window /\ CanSave /\ WriteSlices(session.dirty, disk, damaged) /\ halfway' = FALSE
        /\ faults' = faults /\ canvas' \in {canvas, Drawn(session.doc)}
        /\ window' = window /\ edits' = edits /\ mixed' = mixed
    BY DEF Save, SaveAll
  <1>2. faults \in 0..MaxFaults /\ disk \in Docs /\ damaged \in SUBSET Slices
    BY DEF IInv, TInv
  <1> QED
    BY <1>1, <1>2, WriteKeeps

\* A file cut short reads as a document of its shape.
LEMMA ShorterDoc ==
  ASSUME NEW d \in Docs, NEW e \in Docs, NEW k \in Slices, NEW v \in Shorter(k, d[k])
  PROVE  /\ [e EXCEPT ![k] = v] \in Docs
         /\ \A j \in Slices \ {k} : [e EXCEPT ![k] = v][j] = e[j]
  <1>1. /\ d.req \in Reqs /\ d.wiring \in Wirings /\ d.exec \in Tables /\ d.em \in Tables
    BY DocShape
  <1>2. CASE k \in Ara
    <2>1. v \in SUBSET d[k]
      BY <1>2 DEF Shorter, Ara
    <2>2. v \in Tables
      BY <1>1, <1>2, <2>1 DEF Ara, Tables
    <2> QED
      BY <1>2, <2>2, DocShape DEF Ara, Slices
  <1>3. CASE k = "req"
    <2>1. v \in ShorterReq(d.req)
      BY <1>3 DEF Shorter, Ara
    <2>2. v \in Reqs
      BY <1>1, <2>1 DEF ShorterReq, Reqs
    <2> QED
      BY <1>3, <2>2, DocShape DEF Slices
  <1>4. CASE k = "wiring"
    <2> DEFINE w == d.wiring
    <2>1. v \in ShorterWiring(w)
      BY <1>4 DEF Shorter, Ara
    <2>2. \A D \in SUBSET DOMAIN w.ports : [p \in D |-> w.ports[p]] \in PortMaps
      <3> TAKE D \in SUBSET DOMAIN w.ports
      <3>1. D \in SUBSET Procs /\ [p \in D |-> w.ports[p]] \in [D -> Ports]
        BY <1>1, PortMapShape DEF Wirings
      <3> QED
        BY <3>1, PortMapShape
    <2>3. w \in Wirings
      BY <1>1
    <2> HIDE DEF w
    <2>4. /\ \A cs \in SUBSET w.chans : [w EXCEPT !.chans = cs] \in Wirings
          /\ \A fs \in SUBSET w.flows : [w EXCEPT !.chans = {}, !.flows = fs] \in Wirings
      BY <2>3 DEF Wirings
    <2>5. \A ps \in PortMaps : [w EXCEPT !.chans = {}, !.flows = {}, !.ports = ps] \in Wirings
      BY <2>3 DEF Wirings
    <2>6. v \in Wirings
      BY <2>1, <2>2, <2>4, <2>5 DEF ShorterWiring
    <2> QED
      BY <1>4, <2>6, DocShape DEF Slices
  <1> QED
    BY <1>2, <1>3, <1>4 DEF Slices, Ara

LEMMA SaveHalfwayKeeps == ASSUME IInv, SaveHalfway PROVE IInv'
  <1>1. /\ window /\ CanSave /\ faults < MaxFaults /\ faults' = faults + 1 /\ halfway' = TRUE
        /\ canvas' = canvas /\ window' = window /\ edits' = edits /\ mixed' = mixed
    BY DEF SaveHalfway, SaveFails
  <1>2. /\ session.doc \in Docs /\ disk \in Docs /\ damaged \in SUBSET Slices
        /\ session.dirty \in SUBSET Slices
    BY DEF IInv, TInv, Sessions
  <1>a. PICK done \in SUBSET session.dirty : \E k \in session.dirty \ done :
          \/ WriteSlices(done, disk, damaged)
          \/ WriteSlices(done, disk, damaged \cup {k})
          \/ \E v \in Shorter(k, session.doc[k]) :
                WriteSlices(done, [disk EXCEPT ![k] = v], damaged \ {k})
    BY DEF SaveHalfway, SaveFails
  <1>3. PICK k \in session.dirty \ done :
          \/ WriteSlices(done, disk, damaged)
          \/ WriteSlices(done, disk, damaged \cup {k})
          \/ \E v \in Shorter(k, session.doc[k]) :
                WriteSlices(done, [disk EXCEPT ![k] = v], damaged \ {k})
    BY <1>a
  <1>4. PICK rest \in Docs, torn \in SUBSET Slices :
          /\ WriteSlices(done, rest, torn)
          /\ \A j \in Slices \ session.dirty :
                rest[j] = disk[j] /\ (j \in torn => j \in damaged)
    <2>1. CASE WriteSlices(done, disk, damaged)
      BY <1>2, <2>1
    <2>2. CASE WriteSlices(done, disk, damaged \cup {k})
      <3>1. damaged \cup {k} \in SUBSET Slices
        BY <1>2
      <3> QED
        BY <1>2, <2>2, <3>1
    <2>3. CASE \E v \in Shorter(k, session.doc[k]) :
                 WriteSlices(done, [disk EXCEPT ![k] = v], damaged \ {k})
      <3>1. PICK v \in Shorter(k, session.doc[k]) :
              WriteSlices(done, [disk EXCEPT ![k] = v], damaged \ {k})
        BY <2>3
      <3> DEFINE rest == [disk EXCEPT ![k] = v]
                 torn == damaged \ {k}
      <3>2. rest \in Docs /\ \A j \in Slices \ {k} : rest[j] = disk[j]
        <4> DEFINE d == session.doc
        <4>1. d \in Docs /\ disk \in Docs /\ k \in Slices /\ v \in Shorter(k, d[k])
          BY <1>2, <3>1
        <4> HIDE DEF d, rest
        <4>2. /\ [disk EXCEPT ![k] = v] \in Docs
              /\ \A j \in Slices \ {k} : [disk EXCEPT ![k] = v][j] = disk[j]
          BY ONLY <4>1, ShorterDoc
        <4> QED
          BY ONLY <4>2 DEF rest
      <3>3. WriteSlices(done, rest, torn) /\ torn \in SUBSET Slices
        BY <1>2, <3>1
      <3>4. \A j \in Slices \ session.dirty :
               rest[j] = disk[j] /\ (j \in torn => j \in damaged)
        BY <3>2
      <3> HIDE DEF rest, torn
      <3> QED
        BY <3>2, <3>3, <3>4
    <2> QED
      BY <1>3, <2>1, <2>2, <2>3
  <1>5. faults' \in 0..MaxFaults
    BY <1>1, ConfigAssumption DEF IInv, TInv
  <1> QED
    BY <1>1, <1>4, <1>5, WriteKeeps

LEMMA EmptyHistory ==
  ASSUME NEW mix, NEW files_, NEW torn
  PROVE  /\ <<>> \in Seq(Snaps) /\ Len(<<>>) + Len(<<>>) <= Limit
         /\ Stack(<<>>, mix, files_, torn)
  BY ConfigAssumption DEF Stack

LEMMA DiskSession ==
  ASSUME NEW d \in Docs
  PROVE  /\ [doc |-> d, dirty |-> {}] \in Sessions
         /\ [doc |-> d, dirty |-> {}].doc = d /\ [doc |-> d, dirty |-> {}].dirty = {}
         /\ Clean([doc |-> d, dirty |-> {}], d, {})
  BY DEF Sessions, Clean

LEMMA OpenKeeps == ASSUME IInv, OpenProject PROVE IInv'
  <1> DEFINE s == [doc |-> disk, dirty |-> {}]
  <1>1. /\ TInv /\ FilesInv /\ CanvasInv /\ disk \in Docs
        /\ mixed \in BOOLEAN /\ halfway \in BOOLEAN
    BY DEF IInv, TInv, FilesInv
  <1>2. /\ undo' = <<>> /\ redo' = <<>> /\ armed' = FALSE /\ disk' = disk /\ damaged' = damaged
        /\ halfway' = halfway /\ edits' = edits /\ faults' = faults
    BY DEF OpenProject, files
  <1>3. /\ undo' \in Seq(Snaps) /\ redo' \in Seq(Snaps) /\ Len(undo') + Len(redo') <= Limit
        /\ \A mix \in BOOLEAN : Stack(undo', mix, disk, damaged)
          /\ Stack(redo', mix, disk, damaged)
    BY <1>2, EmptyHistory
  <1>4. CASE damaged = {} /\ Valid(disk)
    <2>1. /\ session' = s /\ window' = TRUE /\ mixed' = (mixed \/ halfway)
          /\ Repaint
      BY <1>4 DEF OpenProject, Load
    <2>2. s \in Sessions /\ s.doc = disk /\ Clean(s, disk, damaged)
      BY <1>1, <1>4, DiskSession
    <2> HIDE DEF s
    <2>3. mixed' \in BOOLEAN /\ (~mixed' => LanesLand(disk)) /\ WiringLands(disk)
      BY <1>1, <1>4, <2>1, ValidLands DEF FilesInv
    <2>4. TInv'
      BY <1>1, <1>2, <1>3, <2>1, <2>2, <2>3 DEF TInv
    <2>5. FilesInv'
      BY <1>1, <1>2, <1>3, <1>4, <2>1, <2>2, <2>3 DEF FilesInv
    <2>6. Shows(canvas', session'.doc)
      BY <1>1, <2>1, <2>2, <2>3, DrawnShows DEF Repaint
    <2> QED
      BY <2>4, <2>5, <2>6 DEF IInv, CanvasInv
  <1>5. CASE ~(damaged = {} /\ Valid(disk))
    <2>1. window' = window /\ session' = session /\ mixed' = mixed /\ canvas' = canvas
      BY <1>5 DEF OpenProject
    <2>2. TInv'
      BY <1>1, <1>2, <1>3, <2>1 DEF TInv
    <2>3. FilesInv'
      BY <1>1, <1>2, <1>3, <2>1 DEF FilesInv
    <2> QED
      BY <1>1, <2>1, <2>2, <2>3 DEF IInv, CanvasInv
  <1> QED
    BY <1>4, <1>5

LEMMA CloseKeeps == ASSUME IInv, Close PROVE IInv'
  <1> DEFINE s == [doc |-> disk, dirty |-> {}]
  <1>1. /\ TInv /\ FilesInv /\ disk \in Docs /\ mixed \in BOOLEAN
    BY DEF IInv, TInv, FilesInv
  <1>2. /\ undo' = <<>> /\ redo' = <<>> /\ armed' = FALSE /\ window' = FALSE /\ session' = s
        /\ disk' = disk /\ damaged' = damaged /\ halfway' = halfway /\ edits' = edits
        /\ faults' = faults /\ mixed' = mixed
    BY DEF Close, Gone, Forgotten, files
  <1>3. /\ undo' \in Seq(Snaps) /\ redo' \in Seq(Snaps) /\ Len(undo') + Len(redo') <= Limit
        /\ Stack(undo', mixed, disk, damaged) /\ Stack(redo', mixed, disk, damaged)
    BY <1>2, EmptyHistory
  <1>4. s \in Sessions /\ s.doc = disk
    BY <1>1, DiskSession
  <1> HIDE DEF s
  <1>5. TInv'
    BY <1>1, <1>2, <1>3, <1>4 DEF TInv
  <1>6. FilesInv'
    BY <1>1, <1>2, <1>3, <1>4 DEF FilesInv
  <1> QED
    BY <1>2, <1>5, <1>6 DEF IInv, CanvasInv

LEMMA CloseSavingKeeps == ASSUME IInv, CloseSaving PROVE IInv'
  <1> DEFINE m == Mixture(session.doc, disk, session.dirty)
             s == [doc |-> m, dirty |-> {}]
  <1>1. /\ TInv /\ FilesInv /\ session.doc \in Docs /\ disk \in Docs
        /\ session.dirty \in SUBSET Slices /\ damaged \subseteq Slices /\ mixed \in BOOLEAN
    BY DEF IInv, TInv, FilesInv, Sessions
  <1>2. /\ window /\ CanSave /\ disk' = m /\ session' = s
        /\ damaged' = damaged \ session.dirty /\ halfway' = FALSE /\ faults' = faults
        /\ undo' = <<>> /\ redo' = <<>> /\ armed' = FALSE /\ window' = FALSE
        /\ edits' = edits /\ mixed' = mixed
    BY DEF CloseSaving, Gone, Forgotten, Mixture
  <1>3. /\ m \in Docs
        /\ \A k \in Slices : m[k] = IF k \in session.dirty THEN session.doc[k] ELSE disk[k]
    BY <1>1, MixtureDoc
  <1> HIDE DEF m
  <1>4. s \in Sessions /\ s.doc = m
    BY <1>3, DiskSession
  <1> HIDE DEF s
  <1>5. /\ undo' \in Seq(Snaps) /\ redo' \in Seq(Snaps) /\ Len(undo') + Len(redo') <= Limit
        /\ Stack(undo', mixed, disk', damaged') /\ Stack(redo', mixed, disk', damaged')
    BY <1>2, EmptyHistory
  <1>6. ~mixed => LanesLand(m) /\ damaged' = {} /\ Valid(m)
    <2> SUFFICES ASSUME ~mixed PROVE  LanesLand(m) /\ damaged' = {} /\ Valid(m)
      OBVIOUS
    <2>1. LanesLand(session.doc) /\ Clean(session, disk, damaged)
      BY <1>1, <1>2 DEF FilesInv
    <2>2. \A k \in Slices : m[k] = session.doc[k] /\ k \notin damaged'
      BY <1>2, <1>3, <2>1 DEF Clean
    <2>3. m = session.doc
      BY <1>1, <1>3, <2>2, SameDoc
    <2> QED
      BY <1>1, <1>2, <2>1, <2>2, <2>3 DEF CanSave
  <1>7. TInv'
    BY <1>1, <1>2, <1>3, <1>4, <1>5 DEF TInv
  <1>8. FilesInv'
    BY <1>1, <1>2, <1>3, <1>4, <1>5, <1>6 DEF FilesInv
  <1> QED
    BY <1>2, <1>7, <1>8 DEF IInv, CanvasInv

LEMMA ReloadKeeps == ASSUME IInv, Reload PROVE IInv'
  <1>1. session.doc \in Docs /\ WiringLands(session.doc)
    BY DEF Reload, IInv, TInv, FilesInv, Sessions
  <1>2. Shows(Drawn(session.doc), session.doc)
    BY <1>1, DrawnShows
  <1> QED
    BY <1>2 DEF Reload, IInv, TInv, FilesInv, CanvasInv, history, files, ghosts

-----------------------------------------------------------------------------
(* The theorems *)

LEMMA InvStarts == ASSUME ProjectRead, Init PROVE IInv
  <1>1. /\ session = [doc |-> InitDoc, dirty |-> {}] /\ InitDoc \in Docs
        /\ WiringLands(InitDoc) /\ LanesLand(InitDoc) /\ Valid(InitDoc)
    <2>1. LanesLand(InitDoc)
      BY DEF LanesLand, Loose
    <2> QED
      BY <2>1, ConfigAssumption, ValidLands DEF Init, ProjectRead
  <1>2. /\ session \in Sessions /\ session.doc = InitDoc /\ Clean(session, InitDoc, {})
    BY <1>1, DiskSession
  <1>3. TInv
    <2>1. 0 \in 0..MaxEdits /\ 0 \in 0..MaxFaults
      BY ConfigAssumption
    <2>2. /\ undo \in Seq(Snaps) /\ redo \in Seq(Snaps) /\ Len(undo) + Len(redo) <= Limit
      BY EmptyHistory DEF Init
    <2> QED
      BY <1>1, <1>2, <2>1, <2>2 DEF Init, TInv
  <1>4. FilesInv
    BY <1>1, <1>2, EmptyHistory DEF Init, FilesInv
  <1>5. CanvasInv
    BY <1>1, <1>2, DrawnShows DEF Init, CanvasInv
  <1> QED
    BY <1>3, <1>4, <1>5 DEF IInv

LEMMA InvSteps == ASSUME IInv, [Next]_vars PROVE IInv'
  <1>1. CASE UNCHANGED vars
    BY <1>1 DEF vars, history, files, ghosts, IInv, TInv, FilesInv, CanvasInv
  <1>2. CASE Next
    BY <1>2, FormsKeep, NodesKeep, EdgesKeep, IngestKeeps, UndoKeeps, RedoKeeps, ReloadKeeps,
       SaveKeeps, SaveHalfwayKeeps, OpenKeeps, CloseKeeps, CloseSavingKeeps DEF Next
  <1> QED
    BY <1>1, <1>2

LEMMA InvAlways == ASSUME ProjectRead PROVE Spec => []IInv
  BY InvStarts, InvSteps, PTL DEF Spec

\* The shape of the session, the files and the history: the snapshots to undo and to redo are
\* together never more than the limit of DocHistory.
THEOREM TypeCorrect == ASSUME ProjectRead PROVE Spec => []TypeOK
  <1>1. IInv => TypeOK
    <2>1. \A h \in Seq(Snaps) : \A i \in DOMAIN h :
             h[i].session \in Sessions /\ h[i].stale \in BOOLEAN
      <3> TAKE h \in Seq(Snaps)
      <3>1. \A i \in DOMAIN h : h[i] \in Snaps
        BY ElementOfSeq, LenProperties
      <3> QED
        BY <3>1 DEF Snaps
    <2> QED
      BY <2>1 DEF IInv, TInv, TypeOK, Sessions
  <1> QED
    BY <1>1, InvAlways, PTL

\* No edit, undo or redo of gf-config leaves a wire or a lane wire hanging in the session, and
\* no save brings one to the files, unless their slices are of different sessions.
THEOREM WiresAlwaysLand == ASSUME ProjectRead PROVE Spec => []WiresLand
  <1>1. IInv => WiresLand
    BY ValidLands DEF IInv, FilesInv, WiringLands, LanesLand, WiresLand
  <1> QED
    BY <1>1, InvAlways, PTL

\* What carries no dirty mark is what its file holds, until an undo goes past a save.
THEOREM CleanIsAlwaysOnDisk == ASSUME ProjectRead PROVE Spec => []CleanIsOnDisk
  <1>1. IInv => CleanIsOnDisk
    BY DEF IInv, FilesInv, Clean, CleanIsOnDisk
  <1> QED
    BY <1>1, InvAlways, PTL

\* The four files are a project the next start accepts, except after an undo past a save and
\* while the last save is the one that stopped halfway.
THEOREM DiskIsAlwaysWhole == ASSUME ProjectRead PROVE Spec => []DiskIsWhole
  <1>1. IInv => DiskIsWhole
    BY DEF IInv, FilesInv, DiskIsWhole
  <1> QED
    BY <1>1, InvAlways, PTL

\* The canvas, patched in place by a wire and drawn again by the other edits, always has the
\* modules, the wires and the ports that the edits after it read there.
THEOREM CanvasAlwaysShowsSession == ASSUME ProjectRead PROVE Spec => []CanvasShowsSession
  <1>1. IInv => CanvasShowsSession
    BY DEF IInv, CanvasInv, Shows, CanvasShowsSession
  <1> QED
    BY <1>1, InvAlways, PTL
=============================================================================
