-------------------------------- MODULE Dcc --------------------------------
(***************************************************************************)
(* DeviceCommunicationControl (dcc.c, basic/service/h_dcc.c): a client     *)
(* stops the device's communication, or only what the device initiates,    *)
(* for a number of minutes or for ever; ReinitializeDevice starts it       *)
(* again.  What apdu_handler() lets through meanwhile is decided here.     *)
(***************************************************************************)
EXTENDS Integers

CONSTANTS MINUTE,    \* seconds in a minute: 60 in dcc.c
          Minutes,   \* durations asked for; 0 is for ever
          Statuses   \* statuses asked for

ASSUME DccConstants ==
  /\ MINUTE \in Nat \ {0} /\ Minutes \subseteq Nat
  /\ Statuses \subseteq {"ENABLE", "DISABLE", "DISABLE_INITIATION"}

VARIABLES DCC_Enable_Disable, DCC_Time_Duration_Seconds,
          indefinite   \* history: the last request asked for no end

dccVars == <<DCC_Enable_Disable, DCC_Time_Duration_Seconds, indefinite>>

DccInit ==
  /\ DCC_Enable_Disable = "ENABLE" /\ DCC_Time_Duration_Seconds = 0
  /\ indefinite = FALSE

dcc_communication_enabled  == DCC_Enable_Disable = "ENABLE"
dcc_communication_disabled == DCC_Enable_Disable = "DISABLE"

\* Requests other than these two services' are dropped while disabled.
apdu_confirmed_dcc_disabled == dcc_communication_disabled

\* Mutant: the counter of an earlier request goes on when there is no duration.
Mut_Duration(status, minutes) ==
  IF minutes = 0 THEN DCC_Time_Duration_Seconds ELSE minutes * MINUTE

Duration(status, minutes) ==
  IF status = "ENABLE" THEN 0 ELSE minutes * MINUTE

dcc_set_status_duration(status, minutes) ==
  /\ DCC_Enable_Disable' = status
  /\ DCC_Time_Duration_Seconds' = Duration(status, minutes)
  /\ indefinite' = (status # "ENABLE" /\ minutes = 0)

\* Requests with another password, or an unknown status, change nothing.
handler_device_communication_control ==
  \E status \in Statuses, minutes \in Minutes :
    dcc_set_status_duration(status, minutes)

\* A cold or warm start; the other requests change nothing.
Device_Reinitialize == dcc_set_status_duration("ENABLE", 0)

\* Mutant: communication stays off when the time is over.
Mut_StatusAfter(seconds) == DCC_Enable_Disable

StatusAfter(seconds) == IF seconds = 0 THEN "ENABLE" ELSE DCC_Enable_Disable

dcc_timer_seconds ==
  /\ DCC_Time_Duration_Seconds > 0
  /\ DCC_Time_Duration_Seconds' = DCC_Time_Duration_Seconds - 1
  /\ DCC_Enable_Disable' = StatusAfter(DCC_Time_Duration_Seconds')
  /\ UNCHANGED indefinite

DccRequest == handler_device_communication_control \/ Device_Reinitialize

\* A device is silent without a counter exactly when it was told to be so for
\* ever: no order of requests and seconds leaves it silent with no end, or
\* counts an end for a device that communicates.
SilenceHasEnd ==
  /\ dcc_communication_enabled => DCC_Time_Duration_Seconds = 0
  /\ ~ dcc_communication_enabled => (DCC_Time_Duration_Seconds = 0 <=> indefinite)

DccTypeOK ==
  /\ DCC_Enable_Disable \in Statuses \cup {"ENABLE"}
  /\ DCC_Time_Duration_Seconds \in Nat
  /\ indefinite \in BOOLEAN
  /\ SilenceHasEnd

\* Unless requests keep coming, the device comes to be silent for good or to
\* communicate, as the last of them asked: a silence for some minutes ends, and
\* one without an end does not, whatever was asked before and had not run out.
SilenceEnds ==
  \/ []<><<DccRequest>>_dccVars
  \/ <>[](dcc_communication_enabled <=> ~ indefinite)
=============================================================================
