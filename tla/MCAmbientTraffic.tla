-------------------------- MODULE MCAmbientTraffic --------------------------
(* A bubble of four, and one pose for each thing the geometry tells apart.  *)
EXTENDS AmbientTraffic

At(a, l, y) == [along |-> a, left |-> l, yaw |-> y, fallen |-> FALSE]

MCPoses == {
    At(100, 0, 0),          \* in the exam tube, ahead
    At(160, 0, 60),         \* in the tube, turned: counts as oncoming
    At(120, -14, 0),        \* right_ahead
    At(600, 0, 0)}          \* out of the bubble
MCLeads == {240}

MCNumbers == {3}

=============================================================================
