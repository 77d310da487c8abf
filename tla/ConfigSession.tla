---------------------------- MODULE ConfigSession ----------------------------
(***************************************************************************)
(* gf-config, the editor of a project: its session in memory, the files    *)
(* it was read from, the document history and the canvas.                  *)
(*                                                                         *)
(* The session holds four documents that are saved one by one (req,        *)
(* wiring, and the exec and em_launch tables of the platform) with a dirty *)
(* mark each.  The history holds whole sessions, marks included.  The      *)
(* canvas is a second copy of the wiring: it is drawn again after most     *)
(* edits, patched in place after a wire, and read back by later edits.     *)
(*                                                                         *)
(* A handler runs to its end on the GUI thread, so it is one action; the   *)
(* writes of a save can fail one by one.                                   *)
(***************************************************************************)
EXTENDS Naturals, Sequences, SequencesExt, FiniteSets

CONSTANTS
    Procs,      \* names a module of the wiring can have
    Signals,    \* services of its ports
    Lanes,      \* camera lanes of the frame_ingest node
    FrontLane,  \* the lane shown for a source without lanes
    Host,       \* the name of host.frame_ingest in the platform tables
    Consumer,   \* [Lanes -> Procs]: who a lane is wired to by default
    Bindings,   \* [proc, out, in]: services the wiring's bindings ask of a module
    InitDoc,    \* the documents on disk at the start
    Limit,      \* DocHistory's limit on the snapshots to undo
    MaxEdits,   \* bound on the edits of a behaviour
    MaxFaults   \* bound on the writes that fail

Slices == {"req", "wiring", "exec", "em"}
Ara    == {"exec", "em"}

VARIABLES
    window,   \* a window with a session is open
    session,  \* [doc, dirty]: the documents and the slices marked unsaved
    disk,     \* the documents in the files
    damaged,  \* the slices whose file a failed write left unreadable
    undo,     \* snapshots to go back to, [session, stale]; stale: a file was
    redo,     \*   written since it was taken (an auxiliary mark)
    armed,    \* an edit is open, so typing takes no further snapshot
    canvas,   \* what is drawn
    edits, faults,
    mixed,    \* auxiliary: an undo or redo went past a save, or the project was
              \*   opened as a save had left it halfway
    halfway   \* auxiliary: the last save stopped halfway

history == <<undo, redo, armed>>
files   == <<disk, damaged, halfway>>
ghosts  == <<edits, faults, mixed>>
vars    == <<window, session, history, files, canvas, ghosts>>

-----------------------------------------------------------------------------
(* The documents *)

Flows(d)   == d.wiring.flows
Deps(d)    == DOMAIN d.wiring.ports
Outs(d)    == UNION {d.wiring.ports[p].out : p \in Deps(d)}
NeedsHost(d) == d.req.active \/ d.req.bridge

\* Flows whose ends do not declare the service they carry.
Unported(d) ==
    {f \in Flows(d) : ~ /\ {f.from, f.to} \subseteq Deps(d)
                        /\ f.svc \in d.wiring.ports[f.from].out
                        /\ f.svc \in d.wiring.ports[f.to].in}

TableOk(d, rows) ==
    /\ rows \cap {Host} = IF NeedsHost(d) THEN {Host} ELSE {}
    /\ rows \ {Host} \subseteq Deps(d)

\* No edit changes the bindings, so the ports may stop providing them.
Unbound(d) ==
    {b \in Bindings : /\ b.proc \in Deps(d)
                      /\ ~ /\ b.out \subseteq d.wiring.ports[b.proc].out
                           /\ b.in \subseteq d.wiring.ports[b.proc].in}

Valid(d) ==
    /\ TableOk(d, d.exec) /\ TableOk(d, d.em)
    /\ Unported(d) = {} /\ Unbound(d) = {}

ASSUME ConfigAssumption ==
    /\ Host \notin Procs /\ FrontLane \in Lanes
    /\ Bindings \subseteq [proc : Procs, out : SUBSET Signals, in : SUBSET Signals]
    /\ Consumer \in [Lanes -> Procs]
    /\ Limit \in Nat \ {0} /\ MaxEdits \in Nat /\ MaxFaults \in Nat
    /\ Valid(InitDoc)

Put(s, k, v) == [doc |-> [s.doc EXCEPT ![k] = v], dirty |-> s.dirty \cup {k}]
Flow(a, v, b) == [from |-> a, svc |-> v, to |-> b]

\* Policies of services nobody provides any more go; req is marked only then.
PruneOrphans(s) ==
    LET kept == s.doc.req.policies \cap Outs(s.doc)
    IN  IF kept = s.doc.req.policies THEN s
        ELSE Put(s, "req", [s.doc.req EXCEPT !.policies = kept])

SetPorts(s, p, out, in, prune) ==
    LET w == s.doc.wiring
        keeps(f) == /\ f.from = p => f.svc \in out
                    /\ f.to = p => f.svc \in in
    IN  PruneOrphans(Put(s, "wiring", [w EXCEPT
            !.ports = [q \in Deps(s.doc) \cup {p} |->
                          IF q = p THEN [out |-> out, in |-> in] ELSE w.ports[q]],
            !.flows = IF prune THEN {f \in w.flows : keeps(f)} ELSE w.flows]))

SetFlows(s, fs) == Put(s, "wiring", [s.doc.wiring EXCEPT !.flows = fs])
SetChans(s, cs) == Put(s, "wiring", [s.doc.wiring EXCEPT !.chans = cs])

RemoveDeployment(s, p) ==
    LET w == s.doc.wiring
    IN  Put(s, "wiring", [w EXCEPT
            !.ports = [q \in Deps(s.doc) \ {p} |-> w.ports[q]],
            !.flows = {f \in w.flows : p \notin {f.from, f.to}}])

\* The Out of the source and the In of the target follow the new name, and
\* nothing is pruned: other flows of the same port keep the old one.
RenameFlow(s, e, v) ==
    LET swap(S) == IF e.svc \in S THEN (S \ {e.svc}) \cup {v} ELSE S
        port(d, p) == d.wiring.ports[p]
        s1 == SetFlows(s, IF e \in Flows(s.doc)
                          THEN (Flows(s.doc) \ {e}) \cup {Flow(e.from, v, e.to)}
                          ELSE Flows(s.doc))
        s2 == IF e.from \notin Deps(s.doc) THEN s1
              ELSE SetPorts(s1, e.from, swap(port(s.doc, e.from).out),
                            port(s.doc, e.from).in, FALSE)
    IN  IF e.to = e.from \/ e.to \notin Deps(s.doc) THEN s2
        ELSE SetPorts(s2, e.to, port(s.doc, e.to).out,
                      swap(port(s.doc, e.to).in), FALSE)

\* Mutant: the flows of a removed lane stay.
SetIngestKeepsFlows(s, lanes, seed) ==
    LET cs == s.doc.wiring.chans
        seeds == {[lane |-> l, to |-> Consumer[l]] :
                     l \in {x \in lanes : Consumer[x] \in Deps(s.doc)}}
    IN  SetChans(Put(s, "req", [s.doc.req EXCEPT !.active = TRUE, !.bridge = TRUE,
                                                 !.lanes = lanes]),
                 IF seed /\ cs = {} THEN seeds ELSE cs)

\* The frame_ingest dialog always switches the source and the bridge on.  The
\* flows of the lanes it removed go with them.
SetIngest(s, lanes, seed) ==
    LET r  == s.doc.req
        s1 == Put(s, "req", [r EXCEPT !.active = TRUE, !.bridge = TRUE,
                                      !.lanes = lanes])
        cs == {c \in s.doc.wiring.chans : c.lane \notin r.lanes \ lanes}
        seeds == {[lane |-> l, to |-> Consumer[l]] :
                     l \in {x \in lanes : Consumer[x] \in Deps(s.doc)}}
    IN  SetChans(s1, IF seed /\ cs = {} THEN seeds ELSE cs)

\* Removing the node leaves bridge.enabled as it is.
RemoveIngest(s) ==
    SetChans(Put(s, "req", [s.doc.req EXCEPT !.active = FALSE, !.lanes = {}]), {})

-----------------------------------------------------------------------------
(* The canvas and the history *)

\* The frame_ingest node is shown for a source, a lane or a lane wire.
IngestShown(d) == d.req.lanes # {} \/ d.req.active \/ d.wiring.chans # {}

\* A source without lanes is drawn with an Out nobody entered.
Outlets(d) ==
    IF d.req.active /\ d.req.lanes = {} THEN {FrontLane} ELSE d.req.lanes

\* An In that no wire enters, towards every module that provides it.
Missing(d) ==
    {m \in [from : Deps(d), svc : Signals, to : Deps(d)] :
        /\ m.svc \in d.wiring.ports[m.from].out
        /\ m.svc \in d.wiring.ports[m.to].in
        /\ \A f \in Flows(d) : ~(f.to = m.to /\ f.svc = m.svc)}

\* The ends of a wire get a card even if they are no modules; a lane wire
\* without a card to go to is left out.
Cards(d) ==
    [p \in Deps(d) \cup UNION {{f.from, f.to} : f \in Flows(d)} |->
        IF p \in Deps(d) THEN d.wiring.ports[p] ELSE [out |-> {}, in |-> {}]]

Drawn(d) ==
    [cards |-> Cards(d), edges |-> Flows(d),
     chans |-> {c \in d.wiring.chans : c.to \in DOMAIN Cards(d)},
     ingest |-> IngestShown(d), lanes |-> Outlets(d), missing |-> Missing(d)]

Blank == [cards |-> [p \in {} |-> {}], edges |-> {}, chans |-> {},
          ingest |-> FALSE, lanes |-> {}, missing |-> {}]

Repaint == canvas' = Drawn(session'.doc)

Snapshot(s) == [session |-> s, stale |-> FALSE]
Bounded(h)  == IF Len(h) > Limit THEN Tail(h) ELSE h

\* checkpoint(): s is the session once the editors are flushed into it.
\* open tells whether the handler leaves the edit open, without end_edit().
Checkpoint(s, open) ==
    /\ undo' = Bounded(Append(undo, Snapshot(s)))
    /\ redo' = <<>>
    /\ armed' = open

CheckpointTyping ==
    IF armed THEN UNCHANGED history ELSE Checkpoint(session, TRUE)

NoCheckpoint == UNCHANGED history

Edit ==
    /\ window /\ edits < MaxEdits
    /\ edits' = edits + 1
    /\ UNCHANGED <<window, files, faults, mixed>>

-----------------------------------------------------------------------------
(* Edits of the SKU page and of the platform page *)

FlipSku(s) == Put(s, "req", [s.doc.req EXCEPT !.sku = ~@])

\* A line edit or a spin box: the letters of a word are one step to undo.
TypeSku ==
    /\ Edit /\ CheckpointTyping
    /\ session' = FlipSku(session)
    /\ UNCHANGED canvas

\* A combo box or a check box.
ChooseSku ==
    /\ Edit /\ Checkpoint(session, FALSE)
    /\ session' = FlipSku(session)
    /\ UNCHANGED canvas

\* editingFinished of a line edit of the platform page.
EndEdit ==
    /\ window /\ armed
    /\ armed' = FALSE
    /\ UNCHANGED <<window, session, undo, redo, files, canvas, ghosts>>

\* A row more, with a name the picker offers or none yet, or a row less.
RowEdits(d, rows) ==
    {rows} \cup {rows \ {n} : n \in rows}
           \cup {rows \cup {n} : n \in Deps(d) \cup IF NeedsHost(d) THEN {Host} ELSE {}}

\* update_ara_doc marks a table only when it changes.
Harvest(s, k, rows) == IF rows = s.doc[k] THEN s ELSE Put(s, k, rows)

\* The flush of checkpoint() does not reach the table that is being edited,
\* because _exec_change_guard is set.
EditExec ==
    /\ Edit /\ Checkpoint(session, FALSE)
    /\ \E rows \in RowEdits(session.doc, session.doc.exec) :
          session' = Harvest(session, "exec", rows)
    /\ UNCHANGED canvas

\* This handler has no such guard: the flush harvests the edit first, and the
\* snapshot is of the session after it.
EditLaunch ==
    /\ Edit
    /\ \E rows \in RowEdits(session.doc, session.doc.em) :
          session' = Harvest(session, "em", rows)
    /\ Checkpoint(session', FALSE)
    /\ UNCHANGED canvas

-----------------------------------------------------------------------------
(* Edits on the canvas *)

AddNode(p) ==
    /\ p \notin DOMAIN canvas.cards
    /\ Edit /\ Checkpoint(session, TRUE)
    /\ session' = SetPorts(session, p, {}, {}, FALSE)
    /\ Repaint

\* Lane flows into the module go too; its policies and table rows stay.
DeleteNode(p) ==
    /\ p \in DOMAIN canvas.cards
    /\ Edit /\ Checkpoint(session, TRUE)
    /\ session' = RemoveDeployment(
           SetChans(session, {c \in session.doc.wiring.chans : c.to # p}), p)
    /\ Repaint

\* The port dialog, which starts from the card; every Out gets a policy.
EditPorts(p, out, in) ==
    /\ p \in DOMAIN canvas.cards
    /\ Edit /\ Checkpoint(session, TRUE)
    /\ LET s == SetPorts(session, p, out, in, TRUE)
       IN  session' = PruneOrphans(Put(s, "req",
               [s.doc.req EXCEPT !.policies = @ \cup out]))
    /\ Repaint

\* Ports for the structs of a header: no snapshot is taken.
ImportPorts(p, names, isOut) ==
    /\ p \in DOMAIN canvas.cards
    /\ Edit /\ NoCheckpoint
    /\ LET c == canvas.cards[p]
       IN  session' = SetPorts(session, p, IF isOut THEN c.out \cup names ELSE c.out,
                               IF isOut THEN c.in ELSE c.in \cup names, TRUE)
    /\ Repaint

\* The cards of a new edge are read from the session again, the edge is added,
\* and the rest of the canvas stays as it was.
CommitEdge(d, e) ==
    [canvas EXCEPT
        !.cards = [p \in DOMAIN @ |->
                      IF p \in {e.from, e.to} THEN d.wiring.ports[p] ELSE @[p]],
        !.edges = @ \cup {e}, !.missing = @ \ {e}]

\* A wire from an Out to an In takes the name of the Out: the In is renamed,
\* which drops the flows into the old one.  Of a flow that exists the handler
\* only tells the user; the renamed port is then in the session alone.
Wire(a, v, b, r) ==
    /\ a # b /\ a \in DOMAIN canvas.cards /\ b \in DOMAIN canvas.cards
    /\ v \in canvas.cards[a].out /\ r \in canvas.cards[b].in
    /\ Edit /\ Checkpoint(session, TRUE)
    /\ LET c == canvas.cards[b]
           e == Flow(a, v, b)
           s == IF r = v THEN session
                ELSE SetPorts(session, b, c.out, (c.in \ {r}) \cup {v}, TRUE)
       IN  IF e \in Flows(s.doc)
           THEN session' = s /\ UNCHANGED canvas
           ELSE /\ session' = SetFlows(s, Flows(s.doc) \cup {e})
                /\ canvas' = CommitEdge(session'.doc, e)

\* From the frame_ingest node to any In of a module.
WireLane(l, b) ==
    /\ canvas.ingest /\ l \in canvas.lanes
    /\ b \in DOMAIN canvas.cards
    /\ canvas.cards[b].in # {} \/ \E c \in canvas.chans : c.to = b
    /\ Edit /\ Checkpoint(session, TRUE)
    /\ LET c == [lane |-> l, to |-> b]
       IN  IF c \in session.doc.wiring.chans THEN UNCHANGED <<session, canvas>>
           ELSE /\ session' = SetChans(session, session.doc.wiring.chans \cup {c})
                /\ canvas' = [canvas EXCEPT !.chans = @ \cup {c},
                     !.cards[b] = session.doc.wiring.ports[b]]

RemoveEdge(e) ==
    /\ Edit /\ Checkpoint(session, TRUE)
    /\ session' = SetFlows(session, Flows(session.doc) \ {e})
    /\ Repaint

RemoveLaneEdge(c) ==
    /\ Edit /\ Checkpoint(session, TRUE)
    /\ session' = SetChans(session, session.doc.wiring.chans \ {c})
    /\ Repaint

\* The handlers below take no snapshot.
RenameEdge(e, v) ==
    /\ v # e.svc /\ Flow(e.from, v, e.to) \notin Flows(session.doc)
    /\ Edit /\ NoCheckpoint
    /\ session' = RenameFlow(session, e, v)
    /\ Repaint

FixMissing(m) ==
    /\ m \notin Flows(session.doc)
    /\ Edit /\ NoCheckpoint
    /\ session' = SetFlows(session, Flows(session.doc) \cup {m})
    /\ Repaint

DropMissing(m) ==
    /\ Edit /\ NoCheckpoint
    /\ LET c == canvas.cards[m.to]
       IN  session' = SetPorts(session, m.to, c.out, c.in \ {m.svc}, TRUE)
    /\ Repaint

Moved(s) == Put(s, "wiring", [s.doc.wiring EXCEPT !.place = ~@])

\* The flush writes the new place before the snapshot is taken.
MoveCard ==
    /\ Edit
    /\ session' = Moved(session)
    /\ Checkpoint(session', FALSE)
    /\ UNCHANGED canvas

HasPorts(p) == canvas.cards[p].out \cup canvas.cards[p].in # {}

\* Ctrl+drag of a port begins: the snapshot stays if the drag is given up.
GrabPort ==
    /\ canvas.ingest \/ \E p \in DOMAIN canvas.cards : HasPorts(p)
    /\ Edit /\ Checkpoint(session, TRUE)
    /\ UNCHANGED <<session, canvas>>

\* The drag ends, or the menu of the port moves it, which takes no snapshot: the
\* session gets the ports the card has, and nothing is pruned or drawn again.
PlacePort(p) ==
    /\ p \in DOMAIN canvas.cards /\ HasPorts(p)
    /\ Edit
    /\ LET c == canvas.cards[p]
       IN  session' = SetPorts(Moved(session), p, c.out, c.in, FALSE)
    /\ armed' = FALSE
    /\ UNCHANGED <<undo, redo, canvas>>

\* The ports of the frame_ingest node are on the canvas alone.
PlaceLane ==
    /\ canvas.ingest
    /\ Edit
    /\ session' = Moved(session)
    /\ armed' = FALSE
    /\ UNCHANGED <<undo, redo, canvas>>

AddIngest(lanes) ==
    /\ ~canvas.ingest
    /\ Edit /\ Checkpoint(session, TRUE)
    /\ session' = SetIngest(session, lanes, TRUE)
    /\ Repaint

EditIngest(lanes) ==
    /\ canvas.ingest
    /\ Edit /\ Checkpoint(session, TRUE)
    /\ session' = SetIngest(session, lanes, FALSE)
    /\ Repaint

DeleteIngest ==
    /\ canvas.ingest
    /\ Edit /\ Checkpoint(session, TRUE)
    /\ session' = RemoveIngest(session)
    /\ Repaint

-----------------------------------------------------------------------------
(* Undo and redo *)

\* Mutant: the canvas is not drawn again.
RestoreWithoutCanvas(snap) ==
    /\ session' = snap.session
    /\ armed' = FALSE
    /\ mixed' = (mixed \/ snap.stale)
    /\ UNCHANGED <<window, canvas, files, edits, faults>>

Restore(snap) ==
    /\ session' = snap.session
    /\ armed' = FALSE
    /\ mixed' = (mixed \/ snap.stale)
    /\ Repaint
    /\ UNCHANGED <<window, files, edits, faults>>

Undo ==
    /\ window /\ undo # <<>>
    /\ Restore(Last(undo))
    /\ undo' = Front(undo)
    /\ redo' = Append(redo, Snapshot(session))

Redo ==
    /\ window /\ redo # <<>>
    /\ Restore(Last(redo))
    /\ redo' = Front(redo)
    /\ undo' = Append(undo, Snapshot(session))

-----------------------------------------------------------------------------
(* The files *)

Stale(h) == [i \in DOMAIN h |-> [h[i] EXCEPT !.stale = TRUE]]

\* req is written first, then wiring, then the tables in any order.
Written(done, dirty) ==
    /\ done \subseteq dirty
    /\ "wiring" \in done => "req" \notin dirty \ done
    /\ done \cap Ara # {} => {"req", "wiring"} \cap (dirty \ done) = {}

\* Mutant: the marks are cleared before the first write.
WriteSlicesUnmarked(done, rest, torn) ==
    LET same == done = {} /\ rest = disk /\ torn = damaged
    IN  /\ session' = [session EXCEPT !.dirty = {}]
        /\ disk' = [k \in Slices |-> IF k \in done THEN session.doc[k] ELSE rest[k]]
        /\ damaged' = torn \ done
        /\ undo' = IF same THEN undo ELSE Stale(undo)
        /\ redo' = IF same THEN redo ELSE Stale(redo)
        /\ UNCHANGED armed

\* The slices of done reach their files and lose their marks; the other files
\* hold what rest says, and cannot be read if in torn.
WriteSlices(done, rest, torn) ==
    LET same == done = {} /\ rest = disk /\ torn = damaged
    IN  /\ session' = [session EXCEPT !.dirty = @ \ done]
        /\ disk' = [k \in Slices |-> IF k \in done THEN session.doc[k] ELSE rest[k]]
        /\ damaged' = torn \ done
        /\ undo' = IF same THEN undo ELSE Stale(undo)
        /\ redo' = IF same THEN redo ELSE Stale(redo)
        /\ UNCHANGED armed

\* What a file cut short can read as: what comes first in it.
ShorterReq(r) ==
    {[r EXCEPT !.policies = ps] : ps \in SUBSET r.policies}
    \cup {[r EXCEPT !.policies = {}, !.bridge = FALSE, !.lanes = ls] :
             ls \in SUBSET r.lanes}
    \cup {[r EXCEPT !.policies = {}, !.bridge = FALSE, !.lanes = {},
                    !.active = FALSE]}

ShorterWiring(w) ==
    {[w EXCEPT !.chans = cs] : cs \in SUBSET w.chans}
    \cup {[w EXCEPT !.chans = {}, !.flows = fs] : fs \in SUBSET w.flows}
    \cup {[w EXCEPT !.chans = {}, !.flows = {}, !.ports = [p \in D |-> w.ports[p]]] :
             D \in SUBSET DOMAIN w.ports}

Shorter(k, v) ==
    CASE k = "req"    -> ShorterReq(v)
      [] k = "wiring" -> ShorterWiring(v)
      [] k \in Ara    -> SUBSET v

\* Mutant: the gate on saving is left out.
CanSaveAlways == TRUE

CanSave == Valid(session.doc)

SaveAll ==
    /\ CanSave
    /\ WriteSlices(session.dirty, disk, damaged)
    /\ halfway' = FALSE
    /\ UNCHANGED faults

\* The write of k raises: the file is as it was, or unreadable, or cut short.
SaveFails ==
    /\ CanSave /\ faults < MaxFaults
    /\ \E done \in SUBSET session.dirty : \E k \in session.dirty \ done :
          /\ Written(done, session.dirty) /\ Written(done \cup {k}, session.dirty)
          /\ \/ WriteSlices(done, disk, damaged)
             \/ WriteSlices(done, disk, damaged \cup {k})
             \/ \E v \in Shorter(k, session.doc[k]) :
                   WriteSlices(done, [disk EXCEPT ![k] = v], damaged \ {k})
    /\ halfway' = TRUE /\ faults' = faults + 1

\* Ctrl+S does nothing without a mark; Verify and Generate always go on.
\* What composes the project afterwards may raise before the canvas is drawn.
Save ==
    /\ window /\ SaveAll
    /\ canvas' \in {canvas, Drawn(session.doc)}
    /\ UNCHANGED <<window, edits, mixed>>

SaveHalfway ==
    /\ window /\ SaveFails
    /\ UNCHANGED <<window, canvas, edits, mixed>>

\* F5.
Reload ==
    /\ window /\ canvas' = Drawn(session.doc)
    /\ UNCHANGED <<window, session, history, files, ghosts>>

Load ==
    /\ session' = [doc |-> disk, dirty |-> {}]
    /\ window' = TRUE /\ mixed' = (mixed \/ halfway)
    /\ Repaint

\* The history is cleared before the file is even read, and the unsaved edits
\* are not asked about.  A project that does not pass is refused.
OpenProject ==
    /\ undo' = <<>> /\ redo' = <<>> /\ armed' = FALSE
    /\ IF damaged = {} /\ Valid(disk) THEN Load
       ELSE UNCHANGED <<window, session, mixed, canvas>>
    /\ UNCHANGED <<files, edits, faults>>

\* The window goes, or is replaced by one in the other language.
Gone ==
    /\ window' = FALSE
    /\ canvas' = Blank
    /\ armed' = FALSE
    /\ UNCHANGED <<edits, mixed>>

Forgotten == undo' = <<>> /\ redo' = <<>>

\* Nothing to ask about, or Discard.
Close ==
    /\ window /\ Gone /\ Forgotten
    /\ session' = [doc |-> disk, dirty |-> {}]
    /\ UNCHANGED <<files, faults>>

\* Save, in the question of a closing window.
CloseSaving ==
    /\ window /\ session.dirty # {} /\ CanSave /\ Gone /\ Forgotten
    /\ disk' = [k \in Slices |->
                   IF k \in session.dirty THEN session.doc[k] ELSE disk[k]]
    /\ session' = [doc |-> disk', dirty |-> {}]
    /\ damaged' = damaged \ session.dirty
    /\ halfway' = FALSE /\ UNCHANGED faults

-----------------------------------------------------------------------------
Init ==
    /\ window = TRUE
    /\ session = [doc |-> InitDoc, dirty |-> {}]
    /\ disk = InitDoc /\ damaged = {} /\ halfway = FALSE
    /\ undo = <<>> /\ redo = <<>> /\ armed = FALSE
    /\ canvas = Drawn(InitDoc)
    /\ edits = 0 /\ faults = 0 /\ mixed = FALSE

Forms == TypeSku \/ ChooseSku \/ EndEdit \/ EditExec \/ EditLaunch

Nodes ==
    \/ \E p \in Procs : AddNode(p) \/ DeleteNode(p)
    \/ \E p \in Procs, out, in \in SUBSET Signals : EditPorts(p, out, in)
    \/ \E p \in Procs, names \in (SUBSET Signals) \ {{}}, isOut \in BOOLEAN :
          ImportPorts(p, names, isOut)
    \/ MoveCard \/ GrabPort \/ PlaceLane
    \/ \E p \in Procs : PlacePort(p)

Edges ==
    \/ \E a, b \in Procs, v, r \in Signals : Wire(a, v, b, r)
    \/ \E e \in canvas.edges : RemoveEdge(e) \/ \E v \in Signals : RenameEdge(e, v)
    \/ \E m \in canvas.missing : FixMissing(m) \/ DropMissing(m)

Ingest ==
    \/ \E lanes \in (SUBSET Lanes) \ {{}} : AddIngest(lanes) \/ EditIngest(lanes)
    \/ DeleteIngest
    \/ \E l \in Lanes, b \in Procs : WireLane(l, b)
    \/ \E c \in canvas.chans : RemoveLaneEdge(c)

Next ==
    \/ Forms \/ Nodes \/ Edges \/ Ingest
    \/ Undo \/ Redo \/ Reload
    \/ Save \/ SaveHalfway \/ OpenProject \/ Close \/ CloseSaving

Spec == Init /\ [][Next]_vars

-----------------------------------------------------------------------------
(* Properties *)

Docs ==
    [req : [sku : BOOLEAN, active : BOOLEAN, bridge : BOOLEAN,
            lanes : SUBSET Lanes, policies : SUBSET Signals],
     wiring : [ports : UNION {[D -> [out : SUBSET Signals, in : SUBSET Signals]] :
                                 D \in SUBSET Procs},
               flows : SUBSET [from : Procs, svc : Signals, to : Procs],
               chans : SUBSET [lane : Lanes, to : Procs], place : BOOLEAN],
     exec : SUBSET (Procs \cup {Host}), em : SUBSET (Procs \cup {Host})]

\* The shape of the state; the stack to undo never outgrows the limit, and the
\* stack to redo is never longer than what was undone.
TypeOK ==
    LET sessions == [doc : Docs, dirty : SUBSET Slices]
        snaps(h) == \A i \in DOMAIN h :
                       h[i].session \in sessions /\ h[i].stale \in BOOLEAN
    IN  /\ window \in BOOLEAN /\ armed \in BOOLEAN /\ mixed \in BOOLEAN
        /\ halfway \in BOOLEAN
        /\ session \in sessions /\ disk \in Docs /\ damaged \subseteq Slices
        /\ snaps(undo) /\ snaps(redo) /\ Len(undo) + Len(redo) <= Limit
        /\ edits \in 0..MaxEdits /\ faults \in 0..MaxFaults

\* The lane wires that may hang: those of the project as it was opened, and those
\* of the Out that is drawn while it has a source and no lane.
Loose ==
    {c \in InitDoc.wiring.chans :
        ~(c.lane \in InitDoc.req.lanes /\ c.to \in Deps(InitDoc))}
    \cup IF InitDoc.req.active /\ InitDoc.req.lanes = {}
         THEN [lane : {FrontLane}, to : Procs] ELSE {}

\* A wire has both its modules, and a lane wire a lane of the frame_ingest
\* node and a consumer unless it is one of Loose: over every edit, undo and
\* redo in the session, and on disk unless the slices there are of different
\* sessions.
WiresLand ==
    LET lands(d) ==
            /\ \A f \in Flows(d) : {f.from, f.to} \subseteq Deps(d)
            /\ \A c \in d.wiring.chans \ Loose :
                  c.lane \in d.req.lanes /\ c.to \in Deps(d)
    IN  ~mixed => /\ window => lands(session.doc)
                  /\ ~halfway => lands(disk)

\* A slice without a dirty mark is what its file holds, so nothing is lost by
\* closing without a question: as long as no undo went past a save.
CleanIsOnDisk ==
    window /\ ~mixed =>
        \A k \in Slices \ session.dirty :
            k \notin damaged /\ session.doc[k] = disk[k]

\* The files together are a project the next start accepts, unless an undo
\* went past a save or the last save stopped halfway.
DiskIsWhole == ~mixed /\ ~halfway => damaged = {} /\ Valid(disk)

\* The canvas, which later edits read, shows every wire of the session and
\* every lane wire with a module to go to, a card for every module and no other,
\* and every In of it, on the card or as the end of a wire.
CanvasShowsSession ==
    window =>
        /\ Flows(session.doc) \subseteq canvas.edges
        /\ \A c \in session.doc.wiring.chans :
              c.to \in Deps(session.doc) => c \in canvas.chans
        /\ DOMAIN canvas.cards = Deps(session.doc)
        /\ \A p \in Deps(session.doc) :
              /\ session.doc.wiring.ports[p].out = canvas.cards[p].out
              /\ session.doc.wiring.ports[p].in \subseteq canvas.cards[p].in
                     \cup {e.svc : e \in {x \in canvas.edges : x.to = p}}

\* What doc_history.py says of a snapshot: it is of the session before the
\* mutation.  EditLaunch and MoveCard break it.
SnapshotIsBefore ==
    [][\A k \in Slices :
          session'.doc[k] # session.doc[k] /\ undo' # <<>> /\ undo' # undo
             /\ undo' = Bounded(Append(undo, Last(undo')))
          => Last(undo').session.doc[k] = session.doc[k]]_vars

\* CleanIsOnDisk over an undo that goes past a save, which breaks it.
CleanMeansOnDisk ==
    window => \A k \in Slices \ session.dirty : session.doc[k] = disk[k]
=============================================================================
