----------------------------- MODULE CovObjects -----------------------------
(***************************************************************************)
(* The objects behind the COV service (Cov): Analog Input and Value        *)
(* (basic/object/ai.c, av.c), Binary Input (bi.c) and Multi-state Value    *)
(* (msv.c).  Each decides by itself whether a write raises its COV flag;   *)
(* a notification carries what the object shows when it is sent.           *)
(***************************************************************************)
EXTENDS Cov, Sequences

CONSTANTS Kinds,      \* kinds of object there are
          Values,     \* kind -> values Present_Value may be given
          Increments, \* COV_Increments; the first is the initial one
          Unknown     \* nothing told yet

\* What a subscriber is told of an object.
Picture == [value : Int, out_of_service : BOOLEAN, increment : Nat, polarity : BOOLEAN]

Analog == {"ANALOG_INPUT", "ANALOG_VALUE"}

ASSUME CovObjectsConstants ==
  /\ Kinds \subseteq Analog \cup {"BINARY_INPUT", "MULTISTATE_VALUE"}
  /\ \A k \in Kinds \cap Analog : Values[k] \subseteq Int /\ 0 \in Values[k]
  /\ "BINARY_INPUT" \in Kinds => Values["BINARY_INPUT"] = {0, 1}
  /\ "MULTISTATE_VALUE" \in Kinds =>
       Values["MULTISTATE_VALUE"] \subseteq Nat \ {0} /\ 1 \in Values["MULTISTATE_VALUE"]
  /\ Increments \in Seq(Nat) /\ Increments # <<>>
  /\ Unknown \notin Picture

VARIABLES object,    \* the objects' properties
          told       \* history: what each subscription was told last

coVars == <<covVars, object, told>>

\* Prior_Value and COV_Increment are an analog object's, Polarity is a Binary
\* Input's: FALSE for POLARITY_NORMAL.
Object == [kind : Kinds, Present_Value : Int, Prior_Value : Int,
           COV_Increment : Nat, Out_Of_Service : BOOLEAN, Polarity : BOOLEAN]

Device_Init ==
  object \in [Objects ->
    {[kind |-> k, Present_Value |-> IF k = "MULTISTATE_VALUE" THEN 1 ELSE 0,
      Prior_Value |-> 0, COV_Increment |-> Increments[1], Out_Of_Service |-> FALSE,
      Polarity |-> FALSE] : k \in Kinds}]

CoInit == CovInit /\ Device_Init /\ told = [s \in Subs |-> Unknown]

cov_delta(m, n) == IF m > n THEN m - n ELSE n - m

----------------------------------------------------------------------------
(* Writes to the objects.                                                  *)

\* The object becomes new, with or without its flag raised.
Becomes(o, new, flagged) ==
  /\ object' = [object EXCEPT ![o] = new]
  /\ IF flagged THEN Change(o) ELSE UNCHANGED covVars
  /\ UNCHANGED told

\* Mutant: the prior value follows every write.
Mut_Detected(new) == [new EXCEPT !.Prior_Value = new.Present_Value]

\* Analog_*_COV_Detect(): the change is measured from the value at which the
\* flag was raised last, not from the one that was told last.
Detects(new) == cov_delta(new.Prior_Value, new.Present_Value) >= new.COV_Increment

Detected(new) ==
  IF Detects(new) THEN [new EXCEPT !.Prior_Value = new.Present_Value] ELSE new

\* A Binary Input keeps the value as it is before the polarity.
Present_Value_Set(o) ==
  \E value \in Values[object[o].kind] :
    LET stored == IF object[o].Polarity THEN 1 - value ELSE value
        new    == [object[o] EXCEPT !.Present_Value = stored]
    IN  IF object[o].kind \in Analog THEN Becomes(o, Detected(new), Detects(new))
        ELSE Becomes(o, new, stored # object[o].Present_Value)

COV_Increment_Set(o) ==
  /\ object[o].kind \in Analog
  /\ \E i \in DOMAIN Increments :
       LET new == [object[o] EXCEPT !.COV_Increment = Increments[i]]
       IN  Becomes(o, Detected(new), Detects(new))

\* Mutant: the flag was not being set when a client wrote to Out_Of_Service.
Mut_OutOfServiceFlags(o, v) == FALSE

\* A write to an Analog Value goes past its Out_Of_Service_Set().
OutOfServiceFlags(o, v) ==
  object[o].kind # "ANALOG_VALUE" /\ v # object[o].Out_Of_Service

Out_Of_Service_Set(o) ==
  \E v \in BOOLEAN :
    Becomes(o, [object[o] EXCEPT !.Out_Of_Service = v], OutOfServiceFlags(o, v))

\* The value shown is another one, and the flag is not raised.
Polarity_Set(o) ==
  /\ object[o].kind = "BINARY_INPUT"
  /\ \E v \in BOOLEAN : Becomes(o, [object[o] EXCEPT !.Polarity = v], FALSE)

\* By a client's WriteProperty, or by the application: it samples an input with
\* the same setter, also while the input is in service.
Write(o) ==
  \/ Present_Value_Set(o) \/ COV_Increment_Set(o)
  \/ Out_Of_Service_Set(o) \/ Polarity_Set(o)

----------------------------------------------------------------------------
(* What subscribers see.                                                   *)

\* Device_Encode_Value_List(), and the settings it is made under.
Encode_Value_List(o) ==
  LET e == object[o] IN
  [value |-> IF e.Polarity THEN 1 - e.Present_Value ELSE e.Present_Value,
   out_of_service |-> e.Out_Of_Service,
   increment |-> e.COV_Increment, polarity |-> e.Polarity]

\* A subscription is told something when its request to send is served.
Told ==
  told' = [s \in Subs |->
    LET e == COV_Subscriptions[s]
        f == COV_Subscriptions'[s]
    IN  IF ~ f.valid \/ f.dest_index # e.dest_index THEN Unknown
        ELSE IF e.send_requested /\ ~ f.send_requested
          THEN Encode_Value_List(f.object)
        ELSE told[s]]

Quietly == Told /\ UNCHANGED object

CoNext ==
  \/ CovService /\ Quietly
  \/ \E o \in Objects : Write(o)

CoSpec == CoInit /\ [][CoNext]_coVars

\* The main loop calls the task and the TSM timer for ever.
CoFairSpec ==
  /\ CoSpec
  /\ WF_coVars(handler_cov_fsm /\ Quietly) /\ WF_coVars(TsmTimer /\ Quietly)

----------------------------------------------------------------------------
(* Properties.                                                             *)

\* The value a subscriber was told is as good as the object's increments make
\* it.  An analog value may be off by an increment when it is told and by
\* another one after that.
ValueKnown(s) ==
  LET o    == COV_Subscriptions[s].object
      now  == Encode_Value_List(o)
      off  == cov_delta(told[s].value, now.value)
  IN  \/ off = 0
      \/ object[o].kind \in Analog /\ off < told[s].increment + now.increment

\* Polarity, and the Out_Of_Service of an Analog Value, change without a flag.
Follows(s) ==
  LET o   == COV_Subscriptions[s].object
      now == Encode_Value_List(o)
  IN  /\ told[s] # Unknown
      /\ told[s].polarity = now.polarity => ValueKnown(s)
      /\ \/ told[s].out_of_service = now.out_of_service
         \/ object[o].kind = "ANALOG_VALUE"

\* A subscriber whose picture of the object is wrong is not forgotten: its
\* notification is asked for, or its object is flagged and the MARK pass has
\* yet to find it.  So much depends on the objects raising their flags in time
\* (ai.c, av.c, bi.c, msv.c) and on the passes not losing them (h_cov.c).
WrongAreMarked ==
  \A s \in Subs : LET e == COV_Subscriptions[s] IN
    e.valid /\ ~ Follows(s) => e.send_requested \/ e.object \in changed

\* A subscriber whose picture of the object is wrong is told, or its
\* subscription ends: however slowly the value drifts, however often it is
\* written or the increment changed, and whatever the passes of the task, the
\* retries of a notification and lost acknowledgements have kept back.
SubscribersFollow ==
  /\ ChangesReported
  /\ \A s \in Subs : LET Wrong == COV_Subscriptions[s].valid /\ ~ Follows(s)
                     IN  Wrong ~> ~ Wrong
=============================================================================
