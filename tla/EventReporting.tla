--------------------------- MODULE EventReporting ---------------------------
(***************************************************************************)
(* Intrinsic reporting of an Analog Input (basic/object/ai.c; av.c has the *)
(* same code) through a Notification Class (basic/object/nc.c), with       *)
(* AcknowledgeAlarm (basic/service/h_alarm_ack.c) and under                *)
(* DeviceCommunicationControl (Dcc).                                       *)
(*                                                                         *)
(* Once a second Device_local_reporting() gives the object a pass.  A pass *)
(* announces a pending acknowledgement, or compares the value with the     *)
(* limits and announces a change of state.  Between two passes the value   *)
(* changes, properties are written and operators acknowledge what they     *)
(* were told.                                                              *)
(***************************************************************************)
EXTENDS Dcc

CONSTANTS Present_Values, High_Limit, Low_Limit, Deadband,
          Written,     \* property -> values it may be given
          Recipients,  \* the class's Recipient_List
          Confirmed,   \* those with ConfirmedNotify
          Devices,     \* those given by device; the others by address
          Transitions, \* recipient -> transitions it wants
          Windows,     \* sets of recipients whose valid times it may be
          MaxTime      \* bound: time stamps told apart

States == {"NORMAL", "HIGH_LIMIT", "LOW_LIMIT"}
\* Transitions to fault never happen to an Analog Input.
TransitionKinds == {"TO_OFFNORMAL", "TO_NORMAL"}

ASSUME EventConstants ==
  /\ Present_Values \subseteq Int
  /\ {High_Limit, Low_Limit} \subseteq Int /\ Deadband \in Nat
  /\ Low_Limit + Deadband <= High_Limit - Deadband
  /\ DOMAIN Written = {"Time_Delay", "Limit_Enable", "Event_Enable",
                       "Notification_Class", "Ack_Required"}
  /\ Written.Time_Delay \subseteq Nat
  /\ Written.Limit_Enable \subseteq SUBSET {"HIGH", "LOW"}
  /\ Written.Event_Enable \subseteq SUBSET TransitionKinds
  /\ Written.Notification_Class \subseteq BOOLEAN  \* the class exists
  /\ Written.Ack_Required \subseteq SUBSET TransitionKinds
  /\ Confirmed \subseteq Recipients /\ Devices \subseteq Recipients
  /\ Transitions \in [Recipients -> SUBSET TransitionKinds]
  /\ Windows \subseteq SUBSET Recipients
  /\ MaxTime \in Nat \ {0}

VARIABLES Present_Value, settings,    \* settings: the writable properties
          Event_State, Remaining_Time_Delay,
          Acked_Transitions, Event_Time_Stamps,
          bSendAckNotify,
          asked,   \* history: the last occurrence that asks for acknowledgement
          clock,   \* Device_getCurrentDateTime(), moving on with every use
          told,    \* history: the notifications anyone got, <<transition, stamp>>
          shown,   \* history: the state each recipient was told last
          hindered \* history: recipients who missed a change for a reason

value   == <<Present_Value, settings>>
alarm   == <<Event_State, Remaining_Time_Delay, Acked_Transitions,
             Event_Time_Stamps, bSendAckNotify>>
outside == <<asked, clock, told, shown, hindered>>
vars    == <<dccVars, value, alarm, outside>>

Settings ==
  [Time_Delay : Written.Time_Delay, Limit_Enable : Written.Limit_Enable,
   Event_Enable : Written.Event_Enable,
   Notification_Class : Written.Notification_Class,
   Ack_Required : Written.Ack_Required]

Time == 0 .. MaxTime   \* 0 is the wildcard time stamp

\* An object that has been configured and has not made a pass yet.
Init ==
  /\ DccInit
  /\ Present_Value \in Present_Values
  /\ settings \in Settings
  /\ Event_State = "NORMAL"
  /\ Remaining_Time_Delay = settings.Time_Delay
  /\ Acked_Transitions =
       [t \in TransitionKinds |-> [bIsAcked |-> TRUE, Time_Stamp |-> 0]]
  /\ Event_Time_Stamps = [t \in TransitionKinds |-> 0]
  /\ bSendAckNotify = FALSE
  /\ asked = [t \in TransitionKinds |-> 0]
  /\ clock = 0 /\ told = {}
  /\ shown = [r \in Recipients |-> "NORMAL"] /\ hindered = {}

TransitionTo(state) == IF state = "NORMAL" THEN "TO_NORMAL" ELSE "TO_OFFNORMAL"

----------------------------------------------------------------------------
(* Notification_Class_common_reporting_function().                         *)

\* Past the bound the clock stands still.
Now == IF clock < MaxTime THEN clock + 1 ELSE clock

IsRecipientActive(r, state, window) ==
  TransitionTo(state) \in Transitions[r] /\ r \in window

\* A confirmed notification to an address is sent to whatever device the
\* uninitialised variable dest happens to name, if to any.
Strays(active, bound) ==
  IF \E r \in active : r \in Confirmed \ Devices
    THEN SUBSET (bound \cup (Recipients \ Devices)) ELSE {{}}

\* Mutant: the recipients behind one who is not active are passed over.
Mut_Reached(state, window, bound) ==
  {r \in Recipients :
     /\ \A s \in Recipients : IsRecipientActive(s, state, window)
     /\ r \in Devices => r \in bound
     /\ r \in Confirmed => r \in Devices /\ dcc_communication_enabled}

\* Who gets a notification: window are the recipients whose valid times it is,
\* bound the devices with a known address, for which there is a transaction too
\* when one is needed.  Send_UEvent_Notify() does not ask
\* dcc_communication_enabled().
Reached(state, window, bound) ==
  {r \in Recipients :
     /\ IsRecipientActive(r, state, window)
     /\ r \in Devices => r \in bound
     /\ r \in Confirmed => r \in Devices /\ dcc_communication_enabled}

\* The reasons for which a recipient who wants a notification may go without
\* it.  Nothing sends it again.
OutOfReach(window, bound) ==
  {r \in Recipients :
     \/ ~ settings.Notification_Class
     \/ r \notin window
     \/ r \in Devices /\ r \notin bound
     \/ r \in Confirmed /\ (r \notin Devices \/ ~ dcc_communication_enabled)}

\* The histories after `got' have been told `state'.  Who wants to hear of a
\* change and is out of reach misses it, and is hindered as long as it is left
\* with another state.
Told(got, state, stamp, out) ==
  /\ told' = IF got = {} THEN told ELSE told \cup {<<TransitionTo(state), stamp>>}
  /\ shown' = [r \in Recipients |-> IF r \in got THEN state ELSE shown[r]]
  /\ hindered' = {r \in Recipients :
                    /\ shown'[r] # state
                    /\ \/ r \in hindered
                       \/ r \in out /\ state # Event_State
                          /\ TransitionTo(state) \in Transitions[r]}

\* Mutant: what is announced is the state before.
Mut_Report(state, stamp) == Told(Recipients, Event_State, stamp, {})

Report(state, stamp) ==
  \E window \in Windows, bound \in SUBSET Devices :
    LET active == {r \in Recipients : IsRecipientActive(r, state, window)}
    IN  \E stray \in Strays(active, bound) :
          LET got == IF settings.Notification_Class
                       THEN Reached(state, window, bound) \cup
                            (IF dcc_communication_enabled THEN stray ELSE {})
                       ELSE {}
          IN  Told(got, state, stamp, OutOfReach(window, bound))

\* What event_data.ackRequired holds afterwards: nobody sets it when the class
\* does not exist.
AckRequired(state) ==
  IF settings.Notification_Class
    THEN {TransitionTo(state) \in settings.Ack_Required} ELSE BOOLEAN

----------------------------------------------------------------------------
(* Analog_Input_Intrinsic_Reporting(): one pass.                           *)

Offnormal == "TO_OFFNORMAL" \in settings.Event_Enable
Back      == "TO_NORMAL" \in settings.Event_Enable

\* Mutant: the other limit.
Mut_RisesBack == Present_Value > High_Limit + Deadband

RisesBack == Present_Value > Low_Limit + Deadband
FallsBack == Present_Value < High_Limit - Deadband

\* The state the value calls for, if it is not the present one.
Leaves(state) ==
  CASE state = "NORMAL" /\ Offnormal /\ Present_Value > High_Limit
       /\ "HIGH" \in settings.Limit_Enable -> {"HIGH_LIMIT"}
    [] state = "NORMAL" /\ Offnormal /\ Present_Value < Low_Limit
       /\ "LOW" \in settings.Limit_Enable -> {"LOW_LIMIT"}
    [] state = "HIGH_LIMIT" /\ Back /\ FallsBack
       /\ "HIGH" \in settings.Limit_Enable -> {"NORMAL"}
    [] state = "LOW_LIMIT" /\ Back /\ RisesBack
       /\ "LOW" \in settings.Limit_Enable -> {"NORMAL"}
    [] OTHER -> {}

\* The acknowledgement is announced with the present state, not with the
\* acknowledged one.
AckNotification ==
  /\ settings.Limit_Enable # {} /\ bSendAckNotify
  /\ bSendAckNotify' = FALSE
  /\ Report(Event_State, Now) /\ clock' = Now
  /\ UNCHANGED <<dccVars, value, Event_State, Remaining_Time_Delay,
                 Acked_Transitions, Event_Time_Stamps, asked>>

\* The time delay is wound up only here: after a transition it stays used up
\* until the value has been at rest for a pass.
AtRest ==
  /\ settings.Limit_Enable # {} /\ ~ bSendAckNotify
  /\ Leaves(Event_State) = {}
  /\ Remaining_Time_Delay' = settings.Time_Delay
  /\ UNCHANGED <<dccVars, value, Event_State, Acked_Transitions,
                 Event_Time_Stamps, bSendAckNotify, outside>>

\* Mutant: the last second is counted twice.
Mut_DelayOver == Remaining_Time_Delay = 1

DelayOver == Remaining_Time_Delay = 0

Wait ==
  /\ settings.Limit_Enable # {} /\ ~ bSendAckNotify
  /\ Leaves(Event_State) # {} /\ ~ DelayOver
  /\ Remaining_Time_Delay' = Remaining_Time_Delay - 1
  /\ UNCHANGED <<dccVars, value, Event_State, Acked_Transitions,
                 Event_Time_Stamps, bSendAckNotify, outside>>

\* Mutant: a transition that was never acknowledged keeps its first time stamp.
Mut_Unacked(t, stamp) ==
  IF Acked_Transitions[t].bIsAcked THEN [bIsAcked |-> FALSE, Time_Stamp |-> stamp]
  ELSE Acked_Transitions[t]

Unacked(t, stamp) == [bIsAcked |-> FALSE, Time_Stamp |-> stamp]

Transition ==
  /\ settings.Limit_Enable # {} /\ ~ bSendAckNotify /\ DelayOver
  /\ \E state \in Leaves(Event_State) :
       LET t == TransitionTo(state) IN
       /\ Event_State' = state
       /\ Event_Time_Stamps' = [Event_Time_Stamps EXCEPT ![t] = Now]
       /\ Report(state, Now) /\ clock' = Now
       /\ \E ackRequired \in AckRequired(state) :
            IF ackRequired
              THEN /\ Acked_Transitions' = [Acked_Transitions EXCEPT ![t] = Unacked(t, Now)]
                   /\ asked' = [asked EXCEPT ![t] = Now]
              ELSE UNCHANGED <<Acked_Transitions, asked>>
  /\ UNCHANGED <<dccVars, value, Remaining_Time_Delay, bSendAckNotify>>

Analog_Input_Intrinsic_Reporting ==
  AckNotification \/ AtRest \/ Wait \/ Transition

----------------------------------------------------------------------------
(* Requests, and the world.                                                *)

\* Mutant: an acknowledgement is good for any occurrence.
Mut_Acknowledges(t, stamp) == ~ Acked_Transitions[t].bIsAcked

\* Refused, without a change: acknowledged already, or older than the last
\* occurrence.
Acknowledges(t, stamp) ==
  /\ ~ Acked_Transitions[t].bIsAcked
  /\ Acked_Transitions[t].Time_Stamp <= stamp

\* An operator acknowledges something it was told.
Analog_Input_Alarm_Ack ==
  /\ ~ apdu_confirmed_dcc_disabled
  /\ \E n \in told :
       /\ Acknowledges(n[1], n[2])
       /\ Acked_Transitions' = [Acked_Transitions EXCEPT ![n[1]].bIsAcked = TRUE]
  /\ bSendAckNotify' = TRUE
  /\ UNCHANGED <<dccVars, value, Event_State, Remaining_Time_Delay,
                 Event_Time_Stamps, outside>>

\* Writing Time_Delay winds the delay up.  The limits are not written here:
\* for the state that is the same as another value.
Write_Property ==
  /\ ~ apdu_confirmed_dcc_disabled
  /\ \E p \in DOMAIN Written : \E v \in Written[p] :
       /\ settings' = [settings EXCEPT ![p] = v]
       /\ Remaining_Time_Delay' =
            IF p = "Time_Delay" THEN v ELSE Remaining_Time_Delay
  /\ UNCHANGED <<dccVars, Present_Value, Event_State, Acked_Transitions,
                 Event_Time_Stamps, bSendAckNotify, outside>>

ValueChanges ==
  /\ Present_Value' \in Present_Values
  /\ UNCHANGED <<dccVars, settings, alarm, outside>>

Next ==
  \/ Analog_Input_Intrinsic_Reporting
  \/ Analog_Input_Alarm_Ack \/ Write_Property
  \/ ValueChanges
  \/ (DccRequest \/ dcc_timer_seconds) /\ UNCHANGED <<value, alarm, outside>>

Spec == Init /\ [][Next]_vars

\* The main loop makes a pass and runs the DCC timer every second.
FairSpec ==
  /\ Spec
  /\ WF_vars(Analog_Input_Intrinsic_Reporting)
  /\ WF_vars(dcc_timer_seconds /\ UNCHANGED <<value, alarm, outside>>)

----------------------------------------------------------------------------
(* Properties.                                                             *)

\* The alarm's state stays well typed, and no stamp is in the future.
EventTypeOK ==
  /\ DccTypeOK
  /\ Present_Value \in Present_Values
  /\ settings \in Settings
  /\ Event_State \in States
  /\ Remaining_Time_Delay \in Nat
  /\ clock \in Time
  /\ Acked_Transitions \in
       [TransitionKinds -> [bIsAcked : BOOLEAN, Time_Stamp : 0 .. clock]]
  /\ Event_Time_Stamps \in [TransitionKinds -> 0 .. clock]
  /\ bSendAckNotify \in BOOLEAN
  /\ asked \in [TransitionKinds -> 0 .. clock]
  /\ told \subseteq TransitionKinds \X (1 .. clock)
  /\ shown \in [Recipients -> States] /\ hindered \subseteq Recipients

\* A recipient who wants to hear of the state the object is in was told it last,
\* unless a change was announced while it was out of reach (no notification
\* class, not its time, no known address, silenced) and it was told nothing since:
\* such a one goes on believing the old state.  So no change goes unannounced,
\* nobody else is passed over, and an acknowledgement announced late does not
\* bring an old state back.  Datagrams that get lost are not counted.
\* And what waits for an acknowledgement can be acknowledged with the time
\* stamp GetEventInformation reports for it.
OperatorsKnow ==
  /\ \A r \in Recipients \ hindered :
       TransitionTo(Event_State) \in Transitions[r] => shown[r] = Event_State
  /\ \A t \in TransitionKinds : ~ Acked_Transitions[t].bIsAcked =>
       /\ Acked_Transitions[t].Time_Stamp > 0
       /\ Acked_Transitions[t].Time_Stamp <= Event_Time_Stamps[t]

\* What asks for acknowledgement is acknowledged only by somebody who was told of
\* it, or of a later occurrence of the same kind: the notice of an earlier one is
\* refused, however often the value comes and goes before it is acknowledged.
AckedWasTold ==
  [][\A t \in TransitionKinds :
       ~ Acked_Transitions[t].bIsAcked /\ Acked_Transitions'[t].bIsAcked =>
         \E n \in told : n[1] = t /\ n[2] >= asked[t]]_vars

\* Where the state ends when the value stays at v.
Settled(v) ==
  IF v > High_Limit THEN {"HIGH_LIMIT"}
  ELSE IF v < Low_Limit THEN {"LOW_LIMIT"}
  ELSE {"NORMAL"} \cup
       (IF v >= High_Limit - Deadband THEN {"HIGH_LIMIT"} ELSE {}) \cup
       (IF v <= Low_Limit + Deadband THEN {"LOW_LIMIT"} ELSE {})

Watched ==
  settings.Limit_Enable = {"HIGH", "LOW"} /\ settings.Event_Enable = TransitionKinds

\* While the limits are watched, every acknowledgement is announced; and once
\* the value stays and nothing is written, the event state comes to agree with
\* it, whatever the delay, the acknowledgements and the state at the time.
AlarmFollowsValue ==
  <>[]Watched =>
    /\ []<>(~ bSendAckNotify)
    /\ <>[][~ (ValueChanges \/ Write_Property)]_vars =>
         <>[](Event_State \in Settled(Present_Value))

\* When nobody interferes any more, communication and the alarm both come to
\* rest where they should: a silence has its end, and the alarm its reason.
EventsSettle == SilenceEnds /\ AlarmFollowsValue
=============================================================================
