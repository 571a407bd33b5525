----------------------------- MODULE MstpMaster -----------------------------
(***************************************************************************)
(* MS/TP: the master node state machine (MSTP_Master_Node_FSM() of         *)
(* datalink/mstp.c) of the stations of one RS-485 bus, run by a loop that  *)
(* alternates it with the receive state machine (dlmstp_master_fsm_task() *)
(* of ports/linux/dlmstp.c).                                               *)
(*                                                                         *)
(* A frame is received as a whole.  Time passes in ticks, and only when no *)
(* station has anything left to do: every station answers well within      *)
(* Tusage_timeout (the standard's Tusage_delay).  The durations are in     *)
(* ticks, in the order of the source's: Tslot and Tusage_timeout, then     *)
(* Treply_delay, Treply_timeout, Tno_token.                                *)
(*                                                                         *)
(* Frames get damaged or lost, and stations are switched on and off, at    *)
(* most MAX_FAULTS times.                                                  *)
(***************************************************************************)
EXTENDS Naturals, Sequences, FiniteSets

CONSTANTS Masters,            \* addresses of the stations
          Nmax_master,        \* highest address that is polled
          Nmax_info_frames, Npoll, Nretry_token,
          Tslot, Tusage_timeout, Treply_delay, Treply_timeout, Tno_token,
          Traffic,            \* types of data frames the stations send
          StartsOn,           \* stations that are on from the start
          MAX_RX,             \* frames that wait in a station's UART
          NoFrame,            \* neither ReceivedValidFrame nor the other flag
          Invalid,            \* ReceivedInvalidFrame
          MAX_FAULTS

ASSUME MstpConstants ==
  /\ {Nmax_master, Nmax_info_frames, Npoll, Nretry_token, Tslot,
      Tusage_timeout, Treply_delay, Treply_timeout, Tno_token,
      MAX_RX, MAX_FAULTS} \subseteq Nat
  /\ Masters \subseteq 0 .. Nmax_master
  /\ Nmax_info_frames > 0 /\ MAX_RX > 0 /\ Npoll > 1 /\ Tslot > 0
  /\ Tusage_timeout < Treply_delay /\ Treply_delay + 1 < Treply_timeout
  /\ Treply_timeout < Tno_token
  /\ Traffic \subseteq {"DATA_EXPECTING_REPLY", "DATA_NOT_EXPECTING_REPLY"}
  /\ StartsOn \subseteq Masters
  /\ NoFrame # Invalid

VARIABLES port,     \* mstp_port_struct_t of each station
          frame,    \* what its receive state machine hands to the master's
          rx,       \* frames on the wire that it has not received yet
          faults,   \* faults so far
          upset     \* history: a fault happened that may cost the token

mstpVars == <<port, frame, rx, faults, upset>>

BROADCAST == Nmax_master + 1              \* MSTP_BROADCAST_ADDRESS
Stations  == 0 .. Nmax_master

DataTypes  == {"DATA_EXPECTING_REPLY", "DATA_NOT_EXPECTING_REPLY"}
FrameTypes == DataTypes \cup
  {"TOKEN", "POLL_FOR_MASTER", "REPLY_TO_POLL_FOR_MASTER", "REPLY_POSTPONED"}

Frame == [type : FrameTypes, dest : Stations \cup {BROADCAST}, src : Masters]

ASSUME MstpFlags == NoFrame \notin Frame /\ Invalid \notin Frame

States == {"OFF", "INITIALIZE", "IDLE", "USE_TOKEN", "WAIT_FOR_REPLY",
           "DONE_WITH_TOKEN", "PASS_TOKEN", "NO_TOKEN", "POLL_FOR_MASTER",
           "ANSWER_DATA_REQUEST"}

\* No time-out is longer; the timer counts no further.
MaxSilence == Tno_token + Tslot * (Nmax_master + 1) + 1

\* SawOctets: EventCount > Nmin_octets, which every frame brings about.
\* Now: the last step asked for an immediate transition.
\* Sending: a data frame that needs no reply is on its way for this tick.
Port == [state : States, Next_Station : Stations, Poll_Station : Stations,
         TokenCount : 0 .. Npoll, FrameCount : 0 .. Nmax_info_frames,
         RetryCount : 0 .. Nretry_token, SoleMaster : BOOLEAN,
         SawOctets : BOOLEAN, Now : BOOLEAN, Sending : BOOLEAN,
         Silence : 0 .. MaxSilence]

Succ(s) == (s + 1) % (Nmax_master + 1)

----------------------------------------------------------------------------
(* The bus.                                                                *)

\* MSTP_Init()
InitPort(n) ==
  [state |-> "INITIALIZE", Next_Station |-> n, Poll_Station |-> n,
   TokenCount |-> 0, FrameCount |-> 0, RetryCount |-> 0, SoleMaster |-> FALSE,
   SawOctets |-> FALSE, Now |-> FALSE, Sending |-> FALSE, Silence |-> 0]

OffPort(n) == [InitPort(n) EXCEPT !.state = "OFF"]

MstpInit ==
  /\ port = [n \in Masters |-> IF n \in StartsOn THEN InitPort(n) ELSE OffPort(n)]
  /\ frame = [n \in Masters |-> NoFrame]
  /\ rx = [n \in Masters |-> << >>]
  /\ faults = 0 /\ upset = FALSE

On(n) == port[n].state # "OFF"

\* Station n may send.
HoldsToken(n) ==
  port[n].state \in {"USE_TOKEN", "WAIT_FOR_REPLY", "DONE_WITH_TOKEN",
                     "POLL_FOR_MASTER"}

Mut_TokenSlot(n) == port[n].Silence >= Tno_token

\* The token is on station n, as far as n knows.
TokenOn(n) == HoldsToken(n) \/ port[n].state = "PASS_TOKEN"

\* The slot of station n after the token was lost, or the end of all slots.
TokenSlot(n) ==
  LET slot(k) == Tno_token + Tslot * k
  IN  \/ slot(n) <= port[n].Silence /\ port[n].Silence < slot(n + 1)
      \/ port[n].Silence > slot(Nmax_master + 1)

\* Station n has something to do before time passes.
Ready(n) ==
  LET p == port[n]
      f == frame[n]
  IN  \/ p.Now
      \/ On(n) /\ f = NoFrame /\ rx[n] # << >>
      \/ p.state \in {"INITIALIZE", "USE_TOKEN"}
      \/ p.state = "DONE_WITH_TOKEN" /\ ~ p.Sending
      \/ p.state \in {"IDLE", "WAIT_FOR_REPLY", "POLL_FOR_MASTER"} /\ f # NoFrame
      \/ p.state = "IDLE" /\ p.Silence >= Tno_token
      \/ p.state = "WAIT_FOR_REPLY" /\ p.Silence >= Treply_timeout
      \/ p.state \in {"PASS_TOKEN", "POLL_FOR_MASTER"} /\ p.Silence > Tusage_timeout
      \/ p.state \in {"PASS_TOKEN", "NO_TOKEN"} /\ p.SawOctets
      \/ p.state = "NO_TOKEN" /\ TokenSlot(n)
      \/ p.state = "ANSWER_DATA_REQUEST" /\ p.Silence > Treply_delay

\* Station n sends f: every other station hears it, unless it gets damaged
\* (an octet is hit) or lost (nothing is heard) on the way to some of them.
\* A frame takes longer to send than a station takes to react to one, so no
\* station is more than one frame behind, except one in a state that leaves
\* a frame in the flags: what follows it waits in the UART.
Transmit(n, f) ==
  LET others == {m \in Masters \ {n} : On(m)}
      Heard(m, s) == IF Len(rx[m]) < MAX_RX THEN rx[m] \o s ELSE rx[m]
      Holding(m) == /\ frame[m] # NoFrame
                    /\ port[m].state \notin {"IDLE", "WAIT_FOR_REPLY",
                                            "POLL_FOR_MASTER"}
  IN  /\ \A m \in others : rx[m] = << >> \/ Holding(m) \/ (HoldsToken(m) /\ port[m].Now)
      /\ \E hit \in SUBSET others, noise \in {<<Invalid>>, << >>} :
           /\ hit = {} => noise = << >>
           /\ hit # {} => faults < MAX_FAULTS
           /\ rx' = [m \in Masters |->
                       IF m \in hit THEN Heard(m, noise)
                       ELSE IF m \in others THEN Heard(m, <<f>>) ELSE rx[m]]
           /\ faults' = IF hit = {} THEN faults ELSE faults + 1
           /\ upset' = (upset \/ hit # {})

\* A step of the master state machine of n to the port p, with the frame g
\* left in its flags, that sends f or nothing.
StepSends(n, p, g, f) ==
  /\ port' = [port EXCEPT ![n] = [p EXCEPT !.Silence = 0]]
  /\ frame' = [frame EXCEPT ![n] = g]
  /\ Transmit(n, f)

StepTo(n, p, g) ==
  /\ port' = [port EXCEPT ![n] = p]
  /\ frame' = [frame EXCEPT ![n] = g]
  /\ UNCHANGED <<rx, faults, upset>>

To(type, dest, n) == [type |-> type, dest |-> dest, src |-> n]

\* A frame that arrives is flagged as valid when it is for this station or
\* carries data: in SKIP_DATA the first data octet leads to DATA, so the end
\* of the frame is taken for the end of one that is for us.
Flagged(n, f) ==
  IF f = Invalid THEN Invalid
  ELSE IF f.dest \in {n, BROADCAST} \/ f.type \in DataTypes THEN f
  ELSE NoFrame

\* The loop runs the receive state machine while no flag is set, between two
\* calls of the master state machine that ask for no immediate transition.
Receive(n) ==
  /\ On(n) /\ ~ port[n].Now
  /\ frame[n] = NoFrame /\ rx[n] # << >>
  /\ rx' = [rx EXCEPT ![n] = Tail(@)]
  /\ frame' = [frame EXCEPT ![n] = Flagged(n, Head(rx[n]))]
  /\ port' = [port EXCEPT ![n] = [@ EXCEPT !.SawOctets = TRUE, !.Silence = 0]]
  /\ UNCHANGED <<faults, upset>>

----------------------------------------------------------------------------
(* The states of the master node.  `Now' is the function's result.         *)

In(n, state) == port[n].state = state

Initialize(n) ==
  /\ In(n, "INITIALIZE")
  /\ StepTo(n, [port[n] EXCEPT !.state = "IDLE", !.Next_Station = n,
                   !.Poll_Station = n, !.TokenCount = Npoll,
                   !.SoleMaster = FALSE, !.Now = TRUE], frame[n])

\* IDLE with a frame.  What a data frame brings goes to the higher layers.
IdleFrame(n) ==
  LET p == [port[n] EXCEPT !.Now = FALSE]
      f == frame[n]
      mine(type) == f # Invalid /\ f.type = type /\ f.dest = n
  IN  /\ In(n, "IDLE") /\ f # NoFrame
      /\ CASE mine("TOKEN") ->
                 StepTo(n, [p EXCEPT !.state = "USE_TOKEN", !.FrameCount = 0,
                              !.SoleMaster = FALSE, !.Now = TRUE], NoFrame)
           [] mine("POLL_FOR_MASTER") ->
                 StepSends(n, p, NoFrame, To("REPLY_TO_POLL_FOR_MASTER", f.src, n))
           [] mine("DATA_EXPECTING_REPLY") ->
                 StepTo(n, [p EXCEPT !.state = "ANSWER_DATA_REQUEST"], f)
           [] OTHER -> StepTo(n, p, NoFrame)

LostToken(n) ==
  /\ In(n, "IDLE") /\ frame[n] = NoFrame
  /\ port[n].Silence >= Tno_token
  /\ StepTo(n, [port[n] EXCEPT !.state = "NO_TOKEN", !.SawOctets = FALSE,
                   !.Now = TRUE], NoFrame)

\* Only the queue of the higher layers decides what is sent.
UseToken(n) ==
  LET p == [port[n] EXCEPT !.Now = FALSE]
  IN  /\ In(n, "USE_TOKEN")
      /\ \/ StepTo(n, [p EXCEPT !.FrameCount = Nmax_info_frames,
                          !.state = "DONE_WITH_TOKEN", !.Now = TRUE], frame[n])
         \/ \E type \in Traffic, dest \in (Stations \ {n}) \cup {BROADCAST} :
              LET waits == type = "DATA_EXPECTING_REPLY" /\ dest # BROADCAST
              IN  StepSends(n, [p EXCEPT !.FrameCount = @ + 1, !.Sending = ~ waits,
                              !.state = IF waits THEN "WAIT_FOR_REPLY"
                                        ELSE "DONE_WITH_TOKEN"],
                            frame[n], To(type, dest, n))

ReplyTimeout(n) ==
  /\ In(n, "WAIT_FOR_REPLY") /\ port[n].Silence >= Treply_timeout
  /\ StepTo(n, [port[n] EXCEPT !.FrameCount = Nmax_info_frames,
                   !.state = "DONE_WITH_TOKEN", !.Now = TRUE], frame[n])

Mut_WaitForReply(n) ==
  LET f == frame[n]
      reply == f = Invalid \/ (f.dest = n /\ f.type = "DATA_NOT_EXPECTING_REPLY")
  IN  /\ In(n, "WAIT_FOR_REPLY") /\ port[n].Silence < Treply_timeout
      /\ f # NoFrame
      /\ StepTo(n, [port[n] EXCEPT !.Now = TRUE,
                       !.state = IF reply THEN "DONE_WITH_TOKEN" ELSE "IDLE"],
                NoFrame)

WaitForReply(n) ==
  LET f == frame[n]
      reply == \/ f = Invalid
               \/ f.dest = n /\ f.type \in {"REPLY_POSTPONED",
                                            "DATA_NOT_EXPECTING_REPLY"}
  IN  /\ In(n, "WAIT_FOR_REPLY") /\ port[n].Silence < Treply_timeout
      /\ f # NoFrame
      /\ StepTo(n, [port[n] EXCEPT !.Now = TRUE,
                       !.state = IF reply THEN "DONE_WITH_TOKEN" ELSE "IDLE"],
                NoFrame)

\* Sending a token, and polling for a master.
PassTo(n, p, g) ==
  StepSends(n, [p EXCEPT !.RetryCount = 0, !.SawOctets = FALSE,
                  !.state = "PASS_TOKEN"], g, To("TOKEN", p.Next_Station, n))

Poll(n, p, g) ==
  StepSends(n, [p EXCEPT !.RetryCount = 0, !.state = "POLL_FOR_MASTER"], g,
            To("POLL_FOR_MASTER", p.Poll_Station, n))

\* The addresses up to the next station have been polled.
Mut_ResetMaintenancePFM(n, p, g) == PassTo(n, [p EXCEPT !.TokenCount = 1], g)

ResetMaintenancePFM(n, p, g) ==
  PassTo(n, [p EXCEPT !.Poll_Station = n, !.TokenCount = 1], g)

DoneWithToken(n) ==
  LET p  == [port[n] EXCEPT !.Now = FALSE]
      g  == frame[n]
  IN  /\ In(n, "DONE_WITH_TOKEN") /\ ~ p.Sending
      /\ IF p.FrameCount < Nmax_info_frames
           THEN StepTo(n, [p EXCEPT !.state = "USE_TOKEN", !.Now = TRUE], g)
         ELSE IF ~ p.SoleMaster /\ p.Next_Station = n
           THEN Poll(n, [p EXCEPT !.Poll_Station = Succ(n)], g)
         ELSE IF p.TokenCount < Npoll - 1
           THEN IF p.SoleMaster /\ p.Next_Station # Succ(n)
                  THEN StepTo(n, [p EXCEPT !.FrameCount = 0, !.TokenCount = @ + 1,
                                    !.state = "USE_TOKEN", !.Now = TRUE], g)
                  ELSE PassTo(n, [p EXCEPT !.TokenCount = @ + 1], g)
         ELSE IF Succ(p.Poll_Station) # p.Next_Station
           THEN Poll(n, [p EXCEPT !.Poll_Station = Succ(@)], g)
         ELSE IF p.SoleMaster
           THEN Poll(n, [p EXCEPT !.Poll_Station = Succ(p.Next_Station),
                                  !.Next_Station = n, !.TokenCount = 1], g)
         ELSE ResetMaintenancePFM(n, p, g)

\* SawTokenUser, in PASS_TOKEN; SawFrame, in NO_TOKEN.
SawFrame(n) ==
  LET p == port[n]
  IN  /\ \/ p.state = "PASS_TOKEN" /\ p.Silence <= Tusage_timeout
         \/ p.state = "NO_TOKEN" /\ ~ TokenSlot(n)
      /\ p.SawOctets
      /\ StepTo(n, [p EXCEPT !.state = "IDLE", !.Now = TRUE], frame[n])

Mut_FindNewSuccessor(n) ==
  LET p == port[n]
  IN  Poll(n, [p EXCEPT !.Poll_Station = Succ(p.Next_Station),
                        !.TokenCount = 0], frame[n])

\* The next station has failed; the one after it may be polled for now.
FindNewSuccessor(n) ==
  LET p == port[n]
  IN  Poll(n, [p EXCEPT !.Poll_Station = Succ(p.Next_Station),
                        !.Next_Station = n, !.TokenCount = 0], frame[n])

Mut_PassToken(n) ==
  LET p == port[n]
  IN  /\ In(n, "PASS_TOKEN") /\ p.Silence > Tusage_timeout
      /\ IF p.RetryCount <= Nretry_token
           THEN StepSends(n, [p EXCEPT !.RetryCount = @ + 1, !.SawOctets = FALSE],
                          frame[n], To("TOKEN", p.Next_Station, n))
           ELSE FindNewSuccessor(n)

PassToken(n) ==
  LET p == port[n]
  IN  /\ In(n, "PASS_TOKEN") /\ p.Silence > Tusage_timeout
      /\ IF p.RetryCount < Nretry_token
           THEN StepSends(n, [p EXCEPT !.RetryCount = @ + 1, !.SawOctets = FALSE],
                          frame[n], To("TOKEN", p.Next_Station, n))
           ELSE FindNewSuccessor(n)

GenerateToken(n) ==
  /\ In(n, "NO_TOKEN") /\ TokenSlot(n)
  /\ Poll(n, [port[n] EXCEPT !.Poll_Station = Succ(n), !.Next_Station = n,
                 !.TokenCount = 0, !.Now = FALSE], frame[n])

Mut_PollFrame(n) ==
  LET f == frame[n]
  IN  /\ In(n, "POLL_FOR_MASTER") /\ f \notin {NoFrame, Invalid}
      /\ IF f.dest = n /\ f.type = "REPLY_TO_POLL_FOR_MASTER"
           THEN PassTo(n, [port[n] EXCEPT !.SoleMaster = FALSE,
                             !.Next_Station = f.src, !.Poll_Station = n,
                             !.TokenCount = 0], NoFrame)
           ELSE StepTo(n, port[n], NoFrame)

\* POLL_FOR_MASTER with a frame: the reply, or anything else.
PollFrame(n) ==
  LET p == port[n]
      f == frame[n]
  IN  /\ In(n, "POLL_FOR_MASTER") /\ f \notin {NoFrame, Invalid}
      /\ IF f.dest = n /\ f.type = "REPLY_TO_POLL_FOR_MASTER"
           THEN PassTo(n, [p EXCEPT !.SoleMaster = FALSE, !.Next_Station = f.src,
                             !.Poll_Station = n, !.TokenCount = 0], NoFrame)
           ELSE StepTo(n, [p EXCEPT !.state = "IDLE", !.Now = TRUE], NoFrame)

PollTimeout(n) ==
  LET p == port[n]
      used == [p EXCEPT !.FrameCount = 0, !.state = "USE_TOKEN", !.Now = TRUE]
  IN  /\ In(n, "POLL_FOR_MASTER") /\ frame[n] \in {NoFrame, Invalid}
      /\ p.Silence > Tusage_timeout \/ frame[n] = Invalid
      /\ IF p.SoleMaster THEN StepTo(n, used, NoFrame)
         ELSE IF p.Next_Station # n THEN PassTo(n, p, NoFrame)
         ELSE IF Succ(p.Poll_Station) # n
           THEN Poll(n, [p EXCEPT !.Poll_Station = Succ(@)], NoFrame)
         ELSE StepTo(n, [used EXCEPT !.SoleMaster = TRUE], NoFrame)

\* The higher layers have the reply in time, or the request is put off.
AnswerDataRequest(n) ==
  /\ In(n, "ANSWER_DATA_REQUEST")
  /\ \/ /\ "DATA_NOT_EXPECTING_REPLY" \in Traffic
        /\ StepSends(n, [port[n] EXCEPT !.state = "IDLE"], NoFrame,
                     To("DATA_NOT_EXPECTING_REPLY", frame[n].src, n))
     \/ /\ port[n].Silence > Treply_delay
        /\ StepSends(n, [port[n] EXCEPT !.state = "IDLE"], NoFrame,
                     To("REPLY_POSTPONED", frame[n].src, n))

\* A state entered at once that has nothing to do yet.
Wait(n) ==
  LET p == port[n]
  IN  /\ p.Now
      /\ \/ p.state = "IDLE" /\ frame[n] = NoFrame /\ p.Silence < Tno_token
         \/ p.state = "NO_TOKEN" /\ ~ TokenSlot(n) /\ ~ p.SawOctets
      /\ StepTo(n, [p EXCEPT !.Now = FALSE], frame[n])

Master(n) ==
  \/ Wait(n) \/ Initialize(n) \/ IdleFrame(n) \/ LostToken(n) \/ UseToken(n)
  \/ ReplyTimeout(n) \/ WaitForReply(n) \/ DoneWithToken(n) \/ SawFrame(n)
  \/ PassToken(n) \/ GenerateToken(n) \/ PollFrame(n) \/ PollTimeout(n)
  \/ AnswerDataRequest(n)

----------------------------------------------------------------------------
(* The specification.                                                      *)

Tick ==
  /\ \A n \in Masters : ~ Ready(n)
  /\ port' = [n \in Masters |->
                [port[n] EXCEPT !.Sending = FALSE,
                   !.Silence = IF On(n) /\ @ < MaxSilence THEN @ + 1 ELSE @]]
  /\ UNCHANGED <<frame, rx, faults, upset>>

SwitchOn(n) ==
  /\ ~ On(n) /\ faults < MAX_FAULTS
  /\ port' = [port EXCEPT ![n] = InitPort(n)]
  /\ faults' = faults + 1
  /\ upset' = (upset \/ ~ \E m \in Masters : TokenOn(m))
  /\ UNCHANGED <<frame, rx>>

\* Station m was switched on and has not heard a frame since.
Deaf(m) ==
  /\ port[m].state \in {"INITIALIZE", "IDLE"} /\ ~ port[m].SawOctets
  /\ rx[m] = << >>

\* The token goes with station n, and somebody has not heard of it yet.
LeavesUnheard(n) ==
  /\ TokenOn(n) /\ \A m \in Masters \ {n} : ~ TokenOn(m)
  /\ \E m \in Masters \ {n} : Deaf(m)

SwitchOff(n) ==
  /\ On(n) /\ faults < MAX_FAULTS
  /\ port' = [port EXCEPT ![n] = OffPort(n)]
  /\ frame' = [frame EXCEPT ![n] = NoFrame]
  /\ rx' = [rx EXCEPT ![n] = << >>]
  /\ faults' = faults + 1
  /\ upset' = (upset \/ LeavesUnheard(n))

MstpNext ==
  \/ \E n \in Masters : Receive(n) \/ Master(n)
  \/ Tick
  \/ \E n \in Masters : SwitchOn(n) \/ SwitchOff(n)

MstpSpec == MstpInit /\ [][MstpNext]_mstpVars

\* Every station's loop runs for ever, and so does time.
MstpFairSpec ==
  /\ MstpSpec
  /\ \A n \in Masters : WF_mstpVars(Receive(n)) /\ WF_mstpVars(Master(n))
  /\ WF_mstpVars(Tick)

----------------------------------------------------------------------------
(* Properties.                                                             *)

\* The ports, flags and frames on the wire stay well typed.
MstpTypeOK ==
  /\ port \in [Masters -> Port]
  /\ frame \in [Masters -> Frame \cup {NoFrame, Invalid}]
  /\ rx \in [Masters -> Seq(Frame \cup {Invalid})]
  /\ faults \in 0 .. MAX_FAULTS
  /\ upset \in BOOLEAN

\* Stations that start together, join, or leave never make a second token:
\* the slots of NO_TOKEN, the polling and the retries leave at most one
\* station that may send, until a frame is damaged, a station joins while the
\* token is on nobody, or the token is switched off with its holder while a
\* station that joined has heard nothing: the silence it counts is shorter, so
\* its slot of NO_TOKEN may fall on another station's.
OneToken ==
  ~ upset => \A m, n \in Masters : HoldsToken(m) /\ HoldsToken(n) => m = n

\* On an undisturbed bus a holder gives the token up only by passing it: the
\* frames that make WAIT_FOR_REPLY and POLL_FOR_MASTER "drop the token"
\* (mstp.c:802 and 1023) are never seen, whatever the stations send.
TokenKept ==
  [][\A n \in Masters :
       HoldsToken(n) /\ ~ HoldsToken(n)' /\ ~ upset'
         => port'[n].state \in {"PASS_TOKEN", "OFF"}]_mstpVars

\* Every station that stays on gets the token again and again, after any
\* damaged frame, and whoever joined or left.
TokenGoesRound ==
  \A n \in Masters : <>[]On(n) => []<>(port[n].state = "USE_TOKEN")

\* After the faults, two tokens become one, for good.
Heals == <>[](\A m, n \in Masters : HoldsToken(m) /\ HoldsToken(n) => m = n)

\* Every station ends up with the next one that is on as its Next_Station:
\* stations that join are found and stations that leave are forgotten.
Successor(n) ==
  LET ahead(m) == (m + Nmax_master - n) % (Nmax_master + 1)
  IN  CHOOSE m \in Masters : On(m) /\ \A k \in Masters : On(k) => ahead(m) <= ahead(k)

RingForms ==
  <>[](\A n \in Masters : On(n) => port[n].Next_Station = Successor(n))

\* The ring lives and heals: the token comes to everyone, one is left of two, and
\* every station knows its successor.
RingHeals == TokenGoesRound /\ Heals /\ RingForms
=============================================================================
