--------------------------- MODULE MCConfigSession ---------------------------
(* Two modules wired with one of two services, two camera lanes.            *)
EXTENDS ConfigSession, TLC

CONSTANTS fcm, plan, objs, traj, front, left, host

MCConsumer == [l \in Lanes |-> plan]

MCBindings == {[proc |-> plan, out |-> {}, in |-> {objs}]}

MCInitDoc ==
    [req |-> [sku |-> FALSE, active |-> TRUE, bridge |-> TRUE, lanes |-> {front},
              policies |-> {objs}],
     wiring |-> [ports |-> (fcm :> [out |-> {objs}, in |-> {}])
                           @@ (plan :> [out |-> {}, in |-> {objs}]),
                 flows |-> {Flow(fcm, objs, plan)},
                 chans |-> {[lane |-> front, to |-> plan]},
                 place |-> FALSE],
     exec |-> {fcm, plan, host},
     em |-> {fcm, plan, host}]

\* The same with a source but no lane, and a wire of a lane it does not have.
MCBareDoc ==
    [MCInitDoc EXCEPT !.req.lanes = {},
                      !.wiring.chans = {[lane |-> left, to |-> plan]}]
=============================================================================
