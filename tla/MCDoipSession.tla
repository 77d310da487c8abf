--------------------------- MODULE MCDoipSession ---------------------------
\* Instances of DoipSession: the update by transfer with and without the
\* session and security steps, and the one-question routine.
EXTENDS DoipSession

Strict  == [mode |-> "transfer", prog |-> TRUE, sec |-> TRUE]
Bare    == [mode |-> "transfer", prog |-> FALSE, sec |-> FALSE]
Routine == [mode |-> "routine", prog |-> FALSE, sec |-> FALSE]
AllModes == {Strict, Bare, Routine}
OnlyBare == {Bare}

\* The behaviours in which the board hangs while the DEM page is read again and
\* again, and only then, with every fault spent, answers; they are enough to find
\* an update that takes another's answer for its own, and few.
Hangs == client /\ faults < MaxFaults
LateNext ==
  \/ Connect /\ run = 0
  \/ ReadPage("dem")
  \/ TimeOut("gui") /\ run = 0
  \/ Start \/ Panel \/ TcpConnect
  \/ ~Hangs /\ (Board \/ \E th \in Threads : Recv(th))
LateSpec == Init /\ [][LateNext]_vars
FewFrames == Len(tx) <= 7 /\ Len(rx) <= 14
=============================================================================
