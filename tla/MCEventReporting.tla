-------------------------- MODULE MCEventReporting --------------------------
(***************************************************************************)
(* An instance of EventReporting for TLC.                                  *)
(***************************************************************************)
EXTENDS EventReporting

CONSTANTS r1, r2

\* Below the band of 0 .. 4, in its upper dead zone, above it.
MCValues == {-1, 3, 5}

MCWritten ==
  [Time_Delay |-> {0, 1}, Limit_Enable |-> {{"HIGH", "LOW"}},
   Event_Enable |-> {TransitionKinds},
   Notification_Class |-> {TRUE, FALSE},
   Ack_Required |-> {{"TO_OFFNORMAL"}}]

\* r1 gets everything unconfirmed at its address, r2 what goes off normal,
\* confirmed.
MCTransitions == [r \in {r1, r2} |-> IF r = r1 THEN TransitionKinds ELSE {"TO_OFFNORMAL"}]
MCWindows     == {{r1, r2}}
=============================================================================
