-------------------------- MODULE MstpMaster_proofs --------------------------
(***************************************************************************)
(* Theorems about MstpMaster: the ports stay typed, and while the bus is   *)
(* calm - no frame was damaged, and who joined or left did so in a way     *)
(* that every station could follow - there is one token, and nobody drops  *)
(* it.                                                                     *)
(***************************************************************************)
EXTENDS MstpMaster, TLAPS

LEMMA ConstantsNat ==
  /\ Nmax_master \in Nat /\ Nmax_info_frames \in Nat /\ Npoll \in Nat
  /\ Nretry_token \in Nat /\ Tslot \in Nat /\ Tusage_timeout \in Nat
  /\ Treply_delay \in Nat /\ Treply_timeout \in Nat /\ Tno_token \in Nat
  /\ MAX_RX \in Nat /\ MAX_FAULTS \in Nat
  /\ Nmax_info_frames > 0 /\ MAX_RX > 0 /\ Npoll > 1 /\ Tslot > 0
  /\ Tusage_timeout < Treply_delay /\ Treply_delay + 1 < Treply_timeout
  /\ Treply_timeout < Tno_token
  /\ Masters \subseteq 0 .. Nmax_master
<1>1. /\ Nmax_master \in Nat /\ Nmax_info_frames \in Nat /\ Npoll \in Nat
      /\ Nretry_token \in Nat /\ Tslot \in Nat /\ Tusage_timeout \in Nat
      /\ Treply_delay \in Nat /\ Treply_timeout \in Nat /\ Tno_token \in Nat
      /\ MAX_RX \in Nat /\ MAX_FAULTS \in Nat
  BY MstpConstants
<1> QED
  BY <1>1, MstpConstants

\* When the turn of the station with address k comes, after the token is lost.
Slot(k) == Tno_token + Tslot * k

LEMMA SlotsApart ==
  ASSUME NEW k \in Nat, NEW l \in Nat
  PROVE  /\ Slot(k) \in Nat /\ Slot(k) >= Tno_token
         /\ k < l => Slot(k) < Slot(l)
<1>1. Tslot * k \in Nat /\ Tslot * l \in Nat
  BY ConstantsNat
<1>2. ASSUME k < l PROVE Tslot * k < Tslot * l
  <2>1. PICK d \in Nat : l = k + d /\ d > 0
    <3>1. l - k \in Nat /\ l = k + (l - k) /\ l - k > 0
      BY <1>2
    <3> QED
      BY <3>1
  <2>2. Tslot * l = Tslot * k + Tslot * d
    BY <2>1, ConstantsNat
  <2>3. Tslot * d > 0
    BY <2>1, ConstantsNat
  <2> QED
    BY <1>1, <2>1, <2>2, <2>3, ConstantsNat
<1> QED
  BY <1>1, <1>2, ConstantsNat DEF Slot

LEMMA MaxSilenceLate ==
  /\ MaxSilence \in Nat
  /\ \A k \in 0 .. Nmax_master : Slot(k) + 1 < MaxSilence
<1>1. MaxSilence = Slot(Nmax_master + 1) + 1
  BY ConstantsNat DEF MaxSilence, Slot
<1>2. Slot(Nmax_master + 1) \in Nat
  BY ConstantsNat, SlotsApart
<1>3. ASSUME NEW k \in 0 .. Nmax_master PROVE Slot(k) + 1 < MaxSilence
  <2>1. k \in Nat /\ Nmax_master + 1 \in Nat /\ k < Nmax_master + 1
    BY ConstantsNat
  <2>2. Slot(k) \in Nat /\ Slot(k) < Slot(Nmax_master + 1)
    BY <2>1, SlotsApart
  <2> QED
    BY <1>1, <1>2, <2>2
<1> QED
  BY <1>1, <1>2, <1>3

\* A station whose silence is not past its slot is in it exactly at its start.
LEMMA InSlot ==
  ASSUME NEW n \in Masters, port[n].Silence \in Nat, port[n].Silence <= Slot(n)
  PROVE  TokenSlot(n) <=> port[n].Silence = Slot(n)
<1>1. n \in 0 .. Nmax_master /\ n \in Nat /\ n + 1 \in Nat /\ n < n + 1
  BY ConstantsNat
<1>2. Slot(n) \in Nat /\ Slot(n) < Slot(n + 1) /\ Slot(n + 1) \in Nat
  BY <1>1, SlotsApart
<1>3. Slot(n) + 1 < MaxSilence /\ MaxSilence = Slot(Nmax_master + 1) + 1
  BY <1>1, MaxSilenceLate, ConstantsNat DEF MaxSilence, Slot
<1>4. Slot(Nmax_master + 1) \in Nat
  BY ConstantsNat, SlotsApart
<1>5. TokenSlot(n) <=> \/ Slot(n) <= port[n].Silence /\ port[n].Silence < Slot(n + 1)
                       \/ port[n].Silence > Slot(Nmax_master + 1)
  BY DEF TokenSlot, Slot
<1> QED
  BY <1>2, <1>3, <1>4, <1>5

----------------------------------------------------------------------------
(* Types.                                                                  *)

LEMMA ZeroCounts ==
  /\ 0 \in 0 .. Npoll /\ Npoll \in 0 .. Npoll /\ 1 \in 0 .. Npoll
  /\ 0 \in 0 .. Nmax_info_frames /\ Nmax_info_frames \in 0 .. Nmax_info_frames
  /\ 0 \in 0 .. Nretry_token /\ 0 \in 0 .. MaxSilence
BY ConstantsNat, MaxSilenceLate

\* A station that may use the token has not used it up.
TurnsLeft == \A n \in Masters :
  In(n, "USE_TOKEN") => port[n].FrameCount < Nmax_info_frames

\* A station that answers a request has it.
Requested == \A n \in Masters : In(n, "ANSWER_DATA_REQUEST") => frame[n] \in Frame

Typed == MstpTypeOK /\ TurnsLeft /\ Requested

\* States that nothing is asked of.
Plain == States \ {"USE_TOKEN", "ANSWER_DATA_REQUEST"}

LEMMA SuccStation ==
  ASSUME NEW s \in Stations
  PROVE  Succ(s) \in Stations
BY ConstantsNat DEF Succ, Stations

LEMMA StepToTyped ==
  ASSUME Typed, NEW n \in Masters, NEW p \in Port,
         NEW g \in Frame \cup {NoFrame, Invalid}, StepTo(n, p, g),
         p.state = "USE_TOKEN" => p.FrameCount < Nmax_info_frames,
         p.state = "ANSWER_DATA_REQUEST" => g \in Frame
  PROVE  Typed'
<1>1. port' \in [Masters -> Port] /\ frame' \in [Masters -> Frame \cup {NoFrame, Invalid}]
  BY DEF Typed, MstpTypeOK, StepTo
<1>2. TurnsLeft'
  BY DEF Typed, MstpTypeOK, TurnsLeft, StepTo, In
<1>3. Requested'
  BY DEF Typed, MstpTypeOK, Requested, StepTo, In
<1> QED
  BY <1>1, <1>2, <1>3 DEF Typed, MstpTypeOK, StepTo

LEMMA TransmitTyped ==
  ASSUME MstpTypeOK, NEW n \in Masters, NEW f \in Frame, Transmit(n, f)
  PROVE  /\ rx' \in [Masters -> Seq(Frame \cup {Invalid})]
         /\ faults' \in 0 .. MAX_FAULTS /\ upset' \in BOOLEAN
<1> DEFINE others == {m \in Masters \ {n} : On(m)}
           Heard(m, s) == IF Len(rx[m]) < MAX_RX THEN rx[m] \o s ELSE rx[m]
<1>1. PICK hit \in SUBSET others, noise \in {<<Invalid>>, << >>} :
        /\ hit # {} => faults < MAX_FAULTS
        /\ rx' = [m \in Masters |->
                    IF m \in hit THEN Heard(m, noise)
                    ELSE IF m \in others THEN Heard(m, <<f>>) ELSE rx[m]]
        /\ faults' = IF hit = {} THEN faults ELSE faults + 1
        /\ upset' = (upset \/ hit # {})
  BY DEF Transmit
<1>2. <<Invalid>> \in Seq(Frame \cup {Invalid}) /\ << >> \in Seq(Frame \cup {Invalid})
      /\ <<f>> \in Seq(Frame \cup {Invalid})
  OBVIOUS
<1>3. \A m \in Masters : rx[m] \in Seq(Frame \cup {Invalid})
  BY DEF MstpTypeOK
<1>4. \A m \in Masters, s \in Seq(Frame \cup {Invalid}) :
        Heard(m, s) \in Seq(Frame \cup {Invalid})
  BY <1>3
<1>5. rx' \in [Masters -> Seq(Frame \cup {Invalid})]
  <2> HIDE DEF Heard, others
  <2> QED
    BY <1>1, <1>2, <1>3, <1>4
<1>6. upset' \in BOOLEAN
  BY <1>1, Zenon
<1>7. faults' \in 0 .. MAX_FAULTS
  BY <1>1, ConstantsNat DEF MstpTypeOK
<1> QED
  BY <1>5, <1>6, <1>7

LEMMA StepSendsTyped ==
  ASSUME Typed, NEW n \in Masters, NEW p \in Port,
         NEW g \in Frame \cup {NoFrame, Invalid}, NEW f \in Frame,
         StepSends(n, p, g, f), p.state \in Plain
  PROVE  Typed'
<1>1. [p EXCEPT !.Silence = 0] \in Port /\ [p EXCEPT !.Silence = 0].state = p.state
  BY ZeroCounts DEF Port
<1>2. port' \in [Masters -> Port] /\ frame' \in [Masters -> Frame \cup {NoFrame, Invalid}]
  BY <1>1 DEF Typed, MstpTypeOK, StepSends
<1>3. TurnsLeft'
  BY <1>1 DEF Typed, MstpTypeOK, TurnsLeft, StepSends, In, Plain
<1>4. Requested'
  BY <1>1 DEF Typed, MstpTypeOK, Requested, StepSends, In, Plain
<1> QED
  BY <1>2, <1>3, <1>4, TransmitTyped DEF Typed, MstpTypeOK, StepSends

LEMMA FrameTyped ==
  ASSUME NEW n \in Masters, NEW type \in FrameTypes,
         NEW dest \in Stations \cup {BROADCAST}
  PROVE  To(type, dest, n) \in Frame
BY DEF To, Frame

LEMMA PassToTyped ==
  ASSUME Typed, NEW n \in Masters, NEW p \in Port,
         NEW g \in Frame \cup {NoFrame, Invalid}, PassTo(n, p, g)
  PROVE  Typed'
<1>1. [p EXCEPT !.RetryCount = 0, !.SawOctets = FALSE, !.state = "PASS_TOKEN"] \in Port
  BY ZeroCounts DEF Port, States, Plain
<1>2. To("TOKEN", p.Next_Station, n) \in Frame
  BY FrameTyped DEF FrameTypes, Port
<1>3. [p EXCEPT !.RetryCount = 0, !.SawOctets = FALSE, !.state = "PASS_TOKEN"].state \in Plain
  BY DEF Port, States, Plain
<1> QED
  BY <1>1, <1>2, <1>3, StepSendsTyped DEF PassTo

LEMMA PollTyped ==
  ASSUME Typed, NEW n \in Masters, NEW p \in Port,
         NEW g \in Frame \cup {NoFrame, Invalid}, Poll(n, p, g)
  PROVE  Typed'
<1>1. [p EXCEPT !.RetryCount = 0, !.state = "POLL_FOR_MASTER"] \in Port
  BY ZeroCounts DEF Port, States, Plain
<1>2. To("POLL_FOR_MASTER", p.Poll_Station, n) \in Frame
  BY FrameTyped DEF FrameTypes, Port
<1>3. [p EXCEPT !.RetryCount = 0, !.state = "POLL_FOR_MASTER"].state \in Plain
  BY DEF Port, States, Plain
<1> QED
  BY <1>1, <1>2, <1>3, StepSendsTyped DEF Poll

LEMMA ReceiveTyped ==
  ASSUME Typed, NEW n \in Masters, Receive(n)
  PROVE  Typed'
<1>1. /\ port[n] \in Port /\ rx[n] \in Seq(Frame \cup {Invalid}) /\ rx[n] # << >>
      /\ n \in Stations
  BY ConstantsNat DEF Typed, MstpTypeOK, Receive, Stations
<1>2. Head(rx[n]) \in Frame \cup {Invalid} /\ Tail(rx[n]) \in Seq(Frame \cup {Invalid})
  BY <1>1
<1>3. Flagged(n, Head(rx[n])) \in Frame \cup {NoFrame, Invalid}
  BY <1>2 DEF Flagged
<1>4. [port[n] EXCEPT !.SawOctets = TRUE, !.Silence = 0] \in Port
  BY <1>1, ZeroCounts DEF Port, States, Plain
<1>5. /\ port' \in [Masters -> Port] /\ frame' \in [Masters -> Frame \cup {NoFrame, Invalid}]
      /\ rx' \in [Masters -> Seq(Frame \cup {Invalid})]
  BY <1>2, <1>3, <1>4 DEF Typed, MstpTypeOK, Receive
<1>6. TurnsLeft'
  BY <1>1 DEF Typed, MstpTypeOK, Port, TurnsLeft, Receive, In
<1>7. Requested'
  BY <1>1, MstpFlags DEF Typed, MstpTypeOK, Port, Requested, Receive, In
<1> QED
  BY <1>5, <1>6, <1>7 DEF Typed, MstpTypeOK, Receive

LEMMA IdleTyped ==
  ASSUME Typed, NEW n \in Masters,
         Initialize(n) \/ IdleFrame(n) \/ LostToken(n) \/ Wait(n) \/ SawFrame(n)
  PROVE  Typed'
<1>1. /\ port[n] \in Port /\ frame[n] \in Frame \cup {NoFrame, Invalid}
      /\ n \in Stations
  BY ConstantsNat DEF Typed, MstpTypeOK, Stations
<1>2. CASE Initialize(n)
  <2>1. [port[n] EXCEPT !.state = "IDLE", !.Next_Station = n,
                   !.Poll_Station = n, !.TokenCount = Npoll,
                   !.SoleMaster = FALSE, !.Now = TRUE] \in Port
    BY <1>1, ZeroCounts DEF Port, States, Plain
  <2>2. [port[n] EXCEPT !.state = "IDLE", !.Next_Station = n,
                   !.Poll_Station = n, !.TokenCount = Npoll,
                   !.SoleMaster = FALSE, !.Now = TRUE].state = "IDLE"
    BY <1>1 DEF Port, States, Plain
  <2> QED
    BY <1>1, <1>2, <2>1, <2>2, StepToTyped DEF Plain, Initialize
<1>3. CASE IdleFrame(n)
  <2> DEFINE p == [port[n] EXCEPT !.Now = FALSE]
             used == [p EXCEPT !.state = "USE_TOKEN", !.FrameCount = 0,
                              !.SoleMaster = FALSE, !.Now = TRUE]
             answers == [p EXCEPT !.state = "ANSWER_DATA_REQUEST"]
             f == frame[n]
  <2>1. p \in Port /\ p.state = "IDLE"
    BY <1>1, <1>3 DEF Port, IdleFrame, In
  <2>2. used \in Port /\ answers \in Port /\ used.FrameCount = 0
        /\ answers.state = "ANSWER_DATA_REQUEST" /\ used.state = "USE_TOKEN"
    BY <2>1, ZeroCounts DEF Port, States, Plain
  <2>3. \/ StepTo(n, used, NoFrame)
        \/ f \in Frame /\ StepSends(n, p, NoFrame, To("REPLY_TO_POLL_FOR_MASTER", f.src, n))
        \/ f \in Frame /\ StepTo(n, answers, f)
        \/ StepTo(n, p, NoFrame)
    <3> HIDE DEF p, used, answers
    <3> QED
      BY <1>1, <1>3 DEF IdleFrame, p, used, answers
  <2>4. ASSUME f \in Frame
        PROVE  To("REPLY_TO_POLL_FOR_MASTER", f.src, n) \in Frame
    BY <2>4, FrameTyped, ConstantsNat DEF Frame, FrameTypes, Stations
  <2> HIDE DEF p, used, answers, f
  <2>6. CASE StepTo(n, used, NoFrame)
    BY <2>2, <2>6, StepToTyped, ConstantsNat
  <2>7. CASE /\ f \in Frame
             /\ StepSends(n, p, NoFrame, To("REPLY_TO_POLL_FOR_MASTER", f.src, n))
    BY <2>1, <2>4, <2>7, StepSendsTyped DEF Plain, States
  <2>8. CASE f \in Frame /\ StepTo(n, answers, f)
    BY <2>2, <2>8, StepToTyped
  <2>9. CASE StepTo(n, p, NoFrame)
    BY <2>1, <2>9, StepToTyped
  <2> QED
    BY <2>3, <2>6, <2>7, <2>8, <2>9
<1>4. CASE LostToken(n)
  <2>1. [port[n] EXCEPT !.state = "NO_TOKEN", !.SawOctets = FALSE, !.Now = TRUE] \in Port
    BY <1>1 DEF Port, States, Plain
  <2>2. [port[n] EXCEPT !.state = "NO_TOKEN", !.SawOctets = FALSE, !.Now = TRUE].state \in Plain
    BY <1>1 DEF Port, States, Plain
  <2> QED
    BY <1>4, <2>1, <2>2, StepToTyped DEF Plain, LostToken
<1>5. CASE Wait(n)
  <2>1. [port[n] EXCEPT !.Now = FALSE] \in Port
    BY <1>1 DEF Port, States, Plain
  <2>2. [port[n] EXCEPT !.Now = FALSE].state \in Plain
    BY <1>1, <1>5 DEF Port, Wait, States, Plain
  <2> QED
    BY <1>1, <1>5, <2>1, <2>2, StepToTyped DEF Plain, Wait
<1>6. CASE SawFrame(n)
  <2>1. [port[n] EXCEPT !.state = "IDLE", !.Now = TRUE] \in Port
    BY <1>1 DEF Port, States, Plain
  <2>2. [port[n] EXCEPT !.state = "IDLE", !.Now = TRUE].state \in Plain
    BY <1>1 DEF Port, States, Plain
  <2> QED
    BY <1>1, <1>6, <2>1, <2>2, StepToTyped DEF Plain, SawFrame
<1> QED
  BY <1>2, <1>3, <1>4, <1>5, <1>6

LEMMA HolderTyped ==
  ASSUME Typed, NEW n \in Masters,
         \/ UseToken(n) \/ ReplyTimeout(n) \/ WaitForReply(n) \/ AnswerDataRequest(n)
         \/ PollFrame(n)
  PROVE  Typed'
<1>1. /\ port[n] \in Port /\ frame[n] \in Frame \cup {NoFrame, Invalid}
      /\ n \in Stations
  BY ConstantsNat DEF Typed, MstpTypeOK, Stations
<1>2. CASE UseToken(n)
  <2> DEFINE p == [port[n] EXCEPT !.Now = FALSE]
             none == [p EXCEPT !.FrameCount = Nmax_info_frames,
                               !.state = "DONE_WITH_TOKEN", !.Now = TRUE]
             sent(waits) == [p EXCEPT !.FrameCount = @ + 1, !.Sending = ~ waits,
                              !.state = IF waits THEN "WAIT_FOR_REPLY"
                                        ELSE "DONE_WITH_TOKEN"]
  <2>1. p \in Port /\ p.FrameCount < Nmax_info_frames
    BY <1>1, <1>2 DEF Port, States, Plain, UseToken, In, Typed, TurnsLeft
  <2>2. none \in Port /\ none.state = "DONE_WITH_TOKEN"
    <3> HIDE DEF p
    <3> QED
      BY <2>1, ZeroCounts DEF Port, States, Plain
  <2>3. ASSUME NEW waits \in BOOLEAN
        PROVE  sent(waits) \in Port /\ sent(waits).state \in Plain
    <3> HIDE DEF p
    <3>1. p.FrameCount + 1 \in 0 .. Nmax_info_frames
      BY <2>1, ConstantsNat DEF Port, States, Plain
    <3>2. (IF waits THEN "WAIT_FOR_REPLY" ELSE "DONE_WITH_TOKEN") \in States
      BY DEF States
    <3>3. sent(waits) \in Port
      BY <2>1, <3>1, <3>2 DEF Port, States, Plain
    <3>4. sent(waits).state \in Plain
      BY <2>1 DEF Port, States, Plain
    <3> QED
      BY <3>3, <3>4
  <2>4. \/ StepTo(n, none, frame[n])
        \/ \E type \in Traffic, dest \in (Stations \ {n}) \cup {BROADCAST},
              waits \in BOOLEAN :
              StepSends(n, sent(waits), frame[n], To(type, dest, n))
    <3>1. ASSUME NEW type \in Traffic, NEW dest \in (Stations \ {n}) \cup {BROADCAST}
          PROVE  (type = "DATA_EXPECTING_REPLY" /\ dest # BROADCAST) \in BOOLEAN
      OBVIOUS
    <3> QED
      BY <1>2, <3>1 DEF UseToken
  <2>5. \A type \in Traffic, dest \in (Stations \ {n}) \cup {BROADCAST} :
          To(type, dest, n) \in Frame
    BY FrameTyped, MstpConstants DEF FrameTypes, DataTypes
  <2> HIDE DEF none, sent
  <2>6. CASE StepTo(n, none, frame[n])
    BY <1>1, <2>2, <2>6, StepToTyped DEF Plain
  <2>7. ASSUME NEW type \in Traffic, NEW dest \in (Stations \ {n}) \cup {BROADCAST},
               NEW waits \in BOOLEAN,
               StepSends(n, sent(waits), frame[n], To(type, dest, n))
        PROVE  Typed'
    BY <1>1, <2>3, <2>5, <2>7, StepSendsTyped
  <2> QED
    BY <2>4, <2>6, <2>7
<1>3. CASE ReplyTimeout(n)
  <2> DEFINE p == [port[n] EXCEPT !.FrameCount = Nmax_info_frames,
                   !.state = "DONE_WITH_TOKEN", !.Now = TRUE]
  <2>1. p \in Port /\ p.state \in Plain
    BY <1>1, ZeroCounts DEF Port, States, Plain
  <2> QED
    BY <1>1, <1>3, <2>1, StepToTyped DEF Plain, ReplyTimeout
<1>4. CASE WaitForReply(n)
  <2> DEFINE p(s) == [port[n] EXCEPT !.Now = TRUE, !.state = s]
  <2>1. \A s \in {"DONE_WITH_TOKEN", "IDLE"} : p(s) \in Port /\ p(s).state \in Plain
    BY <1>1 DEF Port, States, Plain
  <2>2. \E s \in {"DONE_WITH_TOKEN", "IDLE"} : StepTo(n, p(s), NoFrame)
    BY <1>4 DEF WaitForReply
  <2> HIDE DEF p
  <2> QED
    BY <2>1, <2>2, StepToTyped DEF Plain
<1>5. CASE AnswerDataRequest(n)
  <2> DEFINE p == [port[n] EXCEPT !.state = "IDLE"]
  <2>1. p \in Port /\ p.state \in Plain
    BY <1>1 DEF Port, States, Plain
  <2>2. frame[n].src \in Stations
    BY <1>5, ConstantsNat DEF AnswerDataRequest, Typed, Requested, Frame, Stations
  <2>3. \E type \in {"DATA_NOT_EXPECTING_REPLY", "REPLY_POSTPONED"} :
          StepSends(n, p, NoFrame, To(type, frame[n].src, n))
    BY <1>5 DEF AnswerDataRequest
  <2>4. \A type \in {"DATA_NOT_EXPECTING_REPLY", "REPLY_POSTPONED"} :
          To(type, frame[n].src, n) \in Frame
    BY <2>2, FrameTyped DEF FrameTypes, DataTypes
  <2> HIDE DEF p
  <2> QED
    BY <2>1, <2>3, <2>4, StepSendsTyped
<1>6. CASE PollFrame(n)
  <2> DEFINE f == frame[n]
             p == [port[n] EXCEPT !.SoleMaster = FALSE, !.Next_Station = f.src,
                             !.Poll_Station = n, !.TokenCount = 0]
             q == [port[n] EXCEPT !.state = "IDLE", !.Now = TRUE]
  <2>1. f \in Frame /\ f.src \in Stations
    BY <1>1, <1>6, ConstantsNat DEF PollFrame, Frame, Stations
  <2>2. p \in Port
    <3> HIDE DEF f
    <3> QED
      BY <1>1, <2>1, ZeroCounts DEF Port, States, Plain
  <2>3. q \in Port /\ q.state \in Plain
    BY <1>1 DEF Port, States, Plain
  <2>4. PassTo(n, p, NoFrame) \/ StepTo(n, q, NoFrame)
    BY <1>6 DEF PollFrame
  <2> HIDE DEF p, q
  <2> QED
    BY <2>2, <2>3, <2>4, PassToTyped, StepToTyped DEF Plain
<1> QED
  BY <1>2, <1>3, <1>4, <1>5, <1>6

LEMMA DoneTyped ==
  ASSUME Typed, NEW n \in Masters,
         DoneWithToken(n) \/ PassToken(n) \/ GenerateToken(n) \/ PollTimeout(n)
  PROVE  Typed'
<1>1. /\ port[n] \in Port /\ frame[n] \in Frame \cup {NoFrame, Invalid}
      /\ n \in Stations /\ Succ(n) \in Stations
      /\ Succ(port[n].Next_Station) \in Stations /\ Succ(port[n].Poll_Station) \in Stations
  <2>1. port[n] \in Port /\ n \in Stations
    BY ConstantsNat DEF Typed, MstpTypeOK, Stations
  <2>2. port[n].Next_Station \in Stations /\ port[n].Poll_Station \in Stations
    BY <2>1 DEF Port
  <2> QED
    BY <2>1, <2>2, SuccStation DEF Typed, MstpTypeOK
<1>2. CASE DoneWithToken(n)
  <2> DEFINE p == [port[n] EXCEPT !.Now = FALSE]
             g == frame[n]
             counted == [p EXCEPT !.TokenCount = @ + 1]
             again == [p EXCEPT !.state = "USE_TOKEN", !.Now = TRUE]
             alone == [p EXCEPT !.FrameCount = 0, !.TokenCount = @ + 1,
                                !.state = "USE_TOKEN", !.Now = TRUE]
             wide == [p EXCEPT !.Poll_Station = Succ(p.Next_Station),
                               !.Next_Station = n, !.TokenCount = 1]
             reset == [p EXCEPT !.Poll_Station = n, !.TokenCount = 1]
  <2>1. /\ p \in Port /\ p.Next_Station = port[n].Next_Station
        /\ p.Poll_Station = port[n].Poll_Station
    BY <1>1 DEF Port
  <2> HIDE DEF p, g
  <2>2. g \in Frame \cup {NoFrame, Invalid}
    BY <1>1 DEF g
  <2>3. again \in Port /\ again.state = "USE_TOKEN" /\ again.FrameCount = p.FrameCount
    BY <2>1 DEF Port, States
  <2>4. ASSUME p.TokenCount < Npoll - 1
        PROVE  /\ alone \in Port /\ alone.state = "USE_TOKEN" /\ alone.FrameCount = 0
               /\ counted \in Port
    <3>1. p.TokenCount + 1 \in 0 .. Npoll
      BY <2>1, <2>4, ConstantsNat DEF Port
    <3> QED
      BY <2>1, <3>1, ZeroCounts DEF Port, States
  <2>5. wide \in Port /\ reset \in Port
    BY <1>1, <2>1, ZeroCounts DEF Port
  <2>6. \A t \in Stations : [p EXCEPT !.Poll_Station = t] \in Port
    BY <2>1 DEF Port
  <2>7. \/ p.FrameCount < Nmax_info_frames /\ StepTo(n, again, g)
        \/ Poll(n, [p EXCEPT !.Poll_Station = Succ(n)], g)
        \/ p.TokenCount < Npoll - 1 /\ (StepTo(n, alone, g) \/ PassTo(n, counted, g))
        \/ Poll(n, [p EXCEPT !.Poll_Station = Succ(p.Poll_Station)], g)
        \/ Poll(n, wide, g) \/ PassTo(n, reset, g)
    BY <1>2, <2>1 DEF DoneWithToken, ResetMaintenancePFM, p, g
  <2> HIDE DEF counted, again, alone, wide, reset
  <2>8. CASE p.FrameCount < Nmax_info_frames /\ StepTo(n, again, g)
    BY <2>2, <2>3, <2>8, StepToTyped
  <2>9. CASE Poll(n, [p EXCEPT !.Poll_Station = Succ(n)], g)
    BY <1>1, <2>2, <2>6, <2>9, PollTyped
  <2>10. CASE p.TokenCount < Npoll - 1 /\ (StepTo(n, alone, g) \/ PassTo(n, counted, g))
    BY <2>2, <2>4, <2>10, StepToTyped, PassToTyped, ConstantsNat
  <2>11. CASE Poll(n, [p EXCEPT !.Poll_Station = Succ(p.Poll_Station)], g)
    BY <1>1, <2>1, <2>2, <2>6, <2>11, PollTyped
  <2>12. CASE Poll(n, wide, g) \/ PassTo(n, reset, g)
    BY <2>2, <2>5, <2>12, PollTyped, PassToTyped
  <2> QED
    BY <2>7, <2>8, <2>9, <2>10, <2>11, <2>12
<1>3. CASE PassToken(n)
  <2> DEFINE p == [port[n] EXCEPT !.RetryCount = @ + 1, !.SawOctets = FALSE]
             q == [port[n] EXCEPT !.Poll_Station = Succ(port[n].Next_Station),
                                  !.Next_Station = n, !.TokenCount = 0]
  <2>1. port[n].state = "PASS_TOKEN"
    BY <1>3 DEF PassToken, In
  <2>2. ASSUME port[n].RetryCount < Nretry_token
        PROVE  p \in Port /\ p.state \in Plain
    <3>1. port[n].RetryCount + 1 \in 0 .. Nretry_token
      BY <1>1, <2>2, ConstantsNat DEF Port
    <3> QED
      BY <1>1, <2>1, <3>1 DEF Port, States, Plain
  <2>3. q \in Port
    BY <1>1, ZeroCounts DEF Port
  <2>4. \/ /\ port[n].RetryCount < Nretry_token
           /\ StepSends(n, p, frame[n], To("TOKEN", port[n].Next_Station, n))
        \/ Poll(n, q, frame[n])
    BY <1>3 DEF PassToken, FindNewSuccessor
  <2>5. To("TOKEN", port[n].Next_Station, n) \in Frame
    BY <1>1, FrameTyped DEF FrameTypes, Port
  <2> HIDE DEF p, q
  <2> QED
    BY <1>1, <2>2, <2>3, <2>4, <2>5, StepSendsTyped, PollTyped
<1>4. CASE GenerateToken(n)
  <2> DEFINE p == [port[n] EXCEPT !.Poll_Station = Succ(n), !.Next_Station = n,
                                  !.TokenCount = 0, !.Now = FALSE]
  <2>1. p \in Port
    BY <1>1, ZeroCounts DEF Port
  <2> QED
    BY <1>1, <1>4, <2>1, PollTyped DEF GenerateToken
<1>5. CASE PollTimeout(n)
  <2> DEFINE p == port[n]
             used == [p EXCEPT !.FrameCount = 0, !.state = "USE_TOKEN", !.Now = TRUE]
             sole == [used EXCEPT !.SoleMaster = TRUE]
             next == [p EXCEPT !.Poll_Station = Succ(p.Poll_Station)]
  <2>1. used \in Port /\ used.state = "USE_TOKEN" /\ used.FrameCount = 0
    BY <1>1, ZeroCounts DEF Port, States
  <2>2. sole \in Port /\ sole.state = "USE_TOKEN" /\ sole.FrameCount = 0
    <3> HIDE DEF used
    <3> QED
      BY <2>1 DEF Port
  <2>3. next \in Port /\ p \in Port
    BY <1>1 DEF Port
  <2>4. \/ StepTo(n, used, NoFrame) \/ PassTo(n, p, NoFrame)
        \/ Poll(n, next, NoFrame) \/ StepTo(n, sole, NoFrame)
    BY <1>5 DEF PollTimeout
  <2> HIDE DEF used, sole, next, p
  <2> QED
    BY <2>1, <2>2, <2>3, <2>4, StepToTyped, PassToTyped, PollTyped, ConstantsNat
<1> QED
  BY <1>2, <1>3, <1>4, <1>5

LEMMA InitPortTyped ==
  ASSUME NEW n \in Masters
  PROVE  InitPort(n) \in Port /\ OffPort(n) \in Port
<1>1. n \in Stations
  BY ConstantsNat DEF Stations
<1>2. InitPort(n) \in Port
  BY <1>1, ZeroCounts DEF InitPort, Port, States
<1> QED
  BY <1>2 DEF OffPort, Port, States

LEMMA BusTyped ==
  ASSUME Typed, Tick \/ \E n \in Masters : SwitchOn(n) \/ SwitchOff(n)
  PROVE  Typed'
<1>1. \A n \in Masters : port[n] \in Port
  BY DEF Typed, MstpTypeOK
<1>2. CASE Tick
  <2> DEFINE q(n) == [port[n] EXCEPT !.Sending = FALSE,
                   !.Silence = IF On(n) /\ @ < MaxSilence THEN @ + 1 ELSE @]
  <2>1. ASSUME NEW n \in Masters
        PROVE  /\ q(n) \in Port /\ q(n).state = port[n].state
               /\ q(n).FrameCount = port[n].FrameCount
    <3>1. (IF On(n) /\ port[n].Silence < MaxSilence THEN port[n].Silence + 1
           ELSE port[n].Silence) \in 0 .. MaxSilence
      BY <1>1, MaxSilenceLate DEF Port
    <3> QED
      BY <1>1, <3>1 DEF Port
  <2>2. port' = [n \in Masters |-> q(n)]
    BY <1>2 DEF Tick
  <2> HIDE DEF q
  <2>3. port' \in [Masters -> Port]
    BY <2>1, <2>2
  <2>4. TurnsLeft' /\ Requested'
    BY <1>2, <2>1, <2>2 DEF Typed, TurnsLeft, Requested, Tick, In
  <2> QED
    BY <1>2, <2>3, <2>4 DEF Tick, Typed, MstpTypeOK
<1>3. ASSUME NEW n \in Masters, SwitchOn(n) PROVE Typed'
  <2>1. InitPort(n) \in Port /\ InitPort(n).state = "INITIALIZE"
    BY InitPortTyped DEF InitPort
  <2>2. port' \in [Masters -> Port] /\ TurnsLeft' /\ Requested'
    BY <1>3, <2>1 DEF SwitchOn, Typed, MstpTypeOK, TurnsLeft, Requested, In
  <2>3. faults' \in 0 .. MAX_FAULTS
    BY <1>3, ConstantsNat DEF SwitchOn, Typed, MstpTypeOK
  <2>4. upset' \in BOOLEAN
    BY <1>3, Zenon DEF SwitchOn
  <2> QED
    BY <1>3, <2>2, <2>3, <2>4 DEF SwitchOn, Typed, MstpTypeOK
<1>4. ASSUME NEW n \in Masters, SwitchOff(n) PROVE Typed'
  <2>1. OffPort(n) \in Port /\ OffPort(n).state = "OFF"
    BY InitPortTyped DEF InitPort, OffPort
  <2>2. /\ port' \in [Masters -> Port]
        /\ frame' \in [Masters -> Frame \cup {NoFrame, Invalid}]
    BY <1>4, <2>1 DEF SwitchOff, Typed, MstpTypeOK
  <2>3. TurnsLeft' /\ Requested'
    BY <1>4, <2>1 DEF SwitchOff, Typed, MstpTypeOK, TurnsLeft, Requested, In
  <2>4. faults' \in 0 .. MAX_FAULTS
    BY <1>4, ConstantsNat DEF SwitchOff, Typed, MstpTypeOK
  <2>5. upset' \in BOOLEAN
    BY <1>4, Zenon DEF SwitchOff
  <2>6. rx' \in [Masters -> Seq(Frame \cup {Invalid})]
    BY <1>4 DEF SwitchOff, Typed, MstpTypeOK
  <2> QED
    BY <2>2, <2>3, <2>4, <2>5, <2>6 DEF Typed, MstpTypeOK
<1> QED
  BY <1>2, <1>3, <1>4

LEMMA TypedInit == MstpInit => Typed
<1> SUFFICES ASSUME MstpInit PROVE Typed
  OBVIOUS
<1>1. port \in [Masters -> Port]
  BY InitPortTyped DEF MstpInit
<1>2. rx \in [Masters -> Seq(Frame \cup {Invalid})]
  BY DEF MstpInit
<1>3. TurnsLeft /\ Requested
  BY DEF MstpInit, TurnsLeft, Requested, In, InitPort, OffPort
<1>4. frame \in [Masters -> Frame \cup {NoFrame, Invalid}]
  BY DEF MstpInit
<1>5. faults \in 0 .. MAX_FAULTS
  BY ConstantsNat DEF MstpInit
<1>6. upset \in BOOLEAN
  BY DEF MstpInit
<1> QED
  BY <1>1, <1>2, <1>3, <1>4, <1>5, <1>6 DEF Typed, MstpTypeOK

LEMMA TypedStep == Typed /\ [MstpNext]_mstpVars => Typed'
<1> SUFFICES ASSUME Typed, [MstpNext]_mstpVars PROVE Typed'
  OBVIOUS
<1>1. CASE UNCHANGED mstpVars
  BY <1>1 DEF mstpVars, Typed, MstpTypeOK, TurnsLeft, Requested, In
<1>2. ASSUME NEW n \in Masters, Receive(n) \/ Master(n) PROVE Typed'
  BY <1>2, ReceiveTyped, IdleTyped, HolderTyped, DoneTyped DEF Master
<1> QED
  BY <1>1, <1>2, BusTyped DEF MstpNext

\* Whatever the stations do, and whatever is damaged, the ports, the flags and
\* the frames on the wire are what mstp_port_struct_t and the UART can hold:
\* the counters of mstp.c stay within their parameters.
THEOREM MstpTypeCorrect == MstpSpec => []MstpTypeOK
<1>1. Typed => MstpTypeOK
  BY DEF Typed
<1> QED
  BY <1>1, TypedInit, TypedStep, PTL DEF MstpSpec

----------------------------------------------------------------------------
(* The calm bus.                                                           *)

\* A frame that makes station x do something, and the frames x has yet to
\* handle.
Calling    == {"TOKEN", "POLL_FOR_MASTER", "DATA_EXPECTING_REPLY"}
Live(x, g) == g \in Frame /\ g.dest = x /\ g.type \in Calling
Inbox(x)   == {rx[x][i] : i \in 1 .. Len(rx[x])} \cup {frame[x]}
Calls(x)   == {g \in Inbox(x) : Live(x, g)}

\* A station that passed the token has heard somebody use it, or will.
Stale(n) == port[n].SawOctets \/ rx[n] # << >>

\* How long station m has heard nothing, counting what it has yet to handle.
Quiet(m) == IF rx[m] = << >> THEN port[m].Silence ELSE 0

\* The frames a holder of the token waits for, and those it sent before.
Wants(h, g) ==
  \/ /\ In(h, "WAIT_FOR_REPLY")
     /\ g.type \in {"REPLY_POSTPONED", "DATA_NOT_EXPECTING_REPLY"}
  \/ In(h, "POLL_FOR_MASTER") /\ g.type = "REPLY_TO_POLL_FOR_MASTER"
Asks(h, g) ==
  \/ In(h, "WAIT_FOR_REPLY") /\ g.type = "DATA_EXPECTING_REPLY"
  \/ In(h, "POLL_FOR_MASTER") /\ g.type = "POLL_FOR_MASTER"

\* What is in the flags of station m was received just now, but for the
\* request that it answers.
Flags(m) ==
  /\ ~ On(m) => rx[m] = << >> /\ frame[m] = NoFrame
  /\ frame[m] # Invalid /\ rx[m] \in Seq(Frame)
  /\ frame[m] # NoFrame =>
       /\ port[m].SawOctets
       /\ port[m].state \notin {"USE_TOKEN", "DONE_WITH_TOKEN"}
       /\ (In(m, "ANSWER_DATA_REQUEST") \/ port[m].Silence = 0)
  /\ port[m].Sending => In(m, "DONE_WITH_TOKEN")

\* No state lasts longer than its time-out.
Timers(m) ==
  /\ In(m, "INITIALIZE") => port[m].Silence = 0
  /\ port[m].state \in {"IDLE", "NO_TOKEN"} =>
       /\ port[m].Silence <= Slot(m)
       /\ (rx[m] # << >> => port[m].Silence < Slot(m))
  /\ In(m, "ANSWER_DATA_REQUEST") => port[m].Silence <= Treply_delay + 1
  /\ port[m].state \in {"USE_TOKEN", "WAIT_FOR_REPLY", "DONE_WITH_TOKEN"} =>
       port[m].Silence <= Treply_timeout
  /\ port[m].state \in {"PASS_TOKEN", "POLL_FOR_MASTER"} =>
       port[m].Silence <= Tusage_timeout + 1
  /\ In(m, "PASS_TOKEN") /\ Stale(m) => port[m].Silence = 0
  /\ port[m].Sending => port[m].Silence = 0

\* Nothing follows a frame that calls a station, and a holder of the token
\* hears nothing but the answer to what it sent.
Boxes(m) ==
  /\ \A i \in 1 .. Len(rx[m]) : Live(m, rx[m][i]) => i = Len(rx[m])
  /\ Live(m, frame[m]) => rx[m] = << >>
  /\ In(m, "ANSWER_DATA_REQUEST") =>
       Live(m, frame[m]) /\ frame[m].type = "DATA_EXPECTING_REPLY"
  /\ port[m].state \in {"USE_TOKEN", "DONE_WITH_TOKEN"} => rx[m] = << >>
  /\ port[m].state \in {"WAIT_FOR_REPLY", "POLL_FOR_MASTER"} =>
       /\ \A g \in Inbox(m) \ {NoFrame} : g.dest = m /\ Wants(m, g)
       /\ Len(rx[m]) <= 1 /\ (frame[m] # NoFrame => rx[m] = << >>)
       /\ (Inbox(m) # {NoFrame} => \A x \in Masters : Calls(x) = {})
  /\ In(m, "WAIT_FOR_REPLY") /\ rx[m] # << >> => port[m].Silence <= Treply_delay + 1
  /\ In(m, "POLL_FOR_MASTER") /\ rx[m] # << >> => port[m].Silence = 0

\* One station at most is called, ...
OneCall == \A x, y \in Masters : Calls(x) # {} /\ Calls(y) # {} => x = y

OneHolder == \A m, n \in Masters : HoldsToken(m) /\ HoldsToken(n) => m = n

\* ... by the holder of the token, if there is one, and in time.
HolderCalls == \A h, x \in Masters : HoldsToken(h) => \A g \in Calls(x) :
  /\ g.src = h /\ Asks(h, g)
  /\ port[h].Silence <= (IF In(x, "ANSWER_DATA_REQUEST") THEN port[x].Silence ELSE 0)

\* A station that passed the token and has not heard of it is the only one,
\* and by the end of its time-out nobody has got the token.
Passing == \A n \in Masters : In(n, "PASS_TOKEN") /\ ~ Stale(n) =>
  /\ \A k \in Masters : In(k, "PASS_TOKEN") /\ ~ Stale(k) => k = n
  /\ \A x \in Masters : \A g \in Calls(x) : g.type = "TOKEN" /\ port[n].Silence = 0
  /\ \A h \in Masters : HoldsToken(h) =>
       /\ port[n].Silence = 0
       /\ (In(h, "USE_TOKEN") \/ (In(h, "DONE_WITH_TOKEN") /\ ~ port[h].Sending))

\* All stations count the same silence, but for those that joined while the
\* token is on somebody: they count less.
InStep == \A m, k \in Masters : On(m) /\ On(k) =>
  \/ Quiet(m) <= Quiet(k)
  \/ Deaf(k) /\ \E n \in Masters : TokenOn(n)

Calm ==
  /\ \A m \in Masters : Flags(m)
  /\ \A m \in Masters : Timers(m)
  /\ \A m \in Masters : Boxes(m)
  /\ OneCall /\ OneHolder /\ HolderCalls /\ Passing /\ InStep

MstpIInv == Typed /\ (~ upset => Calm)

LEMMA PortFields ==
  ASSUME Typed, NEW m \in Masters
  PROVE  /\ port[m] \in Port /\ port[m].Silence \in Nat /\ port[m].state \in States
         /\ rx[m] \in Seq(Frame \cup {Invalid}) /\ Len(rx[m]) \in Nat
         /\ frame[m] \in Frame \cup {NoFrame, Invalid}
         /\ m \in Nat /\ m \in 0 .. Nmax_master
         /\ Slot(m) \in Nat /\ Slot(m) >= Tno_token /\ Quiet(m) \in Nat
<1>1. port[m] \in Port /\ rx[m] \in Seq(Frame \cup {Invalid})
      /\ frame[m] \in Frame \cup {NoFrame, Invalid}
  BY DEF Typed, MstpTypeOK
<1>2. port[m].Silence \in Nat /\ port[m].state \in States
  BY <1>1, MaxSilenceLate DEF Port
<1>3. m \in Nat /\ m \in 0 .. Nmax_master
  BY ConstantsNat
<1> QED
  BY <1>1, <1>2, <1>3, SlotsApart DEF Quiet

\* A frame sent on a bus that stays calm: everybody else who is on hears it.
LEMMA Sent ==
  ASSUME Typed, NEW n \in Masters, NEW p \in Port, NEW f \in Frame,
         StepSends(n, p, NoFrame, f), ~ upset'
  PROVE  /\ ~ upset
         /\ port'[n] = [p EXCEPT !.Silence = 0] /\ frame'[n] = NoFrame /\ rx'[n] = rx[n]
         /\ \A m \in Masters \ {n} :
              /\ port'[m] = port[m] /\ frame'[m] = frame[m]
              /\ ~ On(m) => rx'[m] = rx[m]
              /\ On(m) => \/ rx'[m] = Append(rx[m], f)
                          \/ rx'[m] = rx[m] /\ rx[m] # << >>
<1> DEFINE others == {m \in Masters \ {n} : On(m)}
           Heard(m, s) == IF Len(rx[m]) < MAX_RX THEN rx[m] \o s ELSE rx[m]
<1>1. PICK hit \in SUBSET others, noise \in {<<Invalid>>, << >>} :
        /\ rx' = [m \in Masters |->
                    IF m \in hit THEN Heard(m, noise)
                    ELSE IF m \in others THEN Heard(m, <<f>>) ELSE rx[m]]
        /\ upset' = (upset \/ hit # {})
  BY DEF StepSends, Transmit
<1>2. ~ upset /\ hit = {}
  BY <1>1
<1>3. /\ port'[n] = [p EXCEPT !.Silence = 0] /\ frame'[n] = NoFrame
      /\ \A m \in Masters \ {n} : port'[m] = port[m] /\ frame'[m] = frame[m]
  BY DEF StepSends, Typed, MstpTypeOK
<1>4. rx'[n] = rx[n]
  BY <1>1, <1>2
<1>5. ASSUME NEW m \in Masters \ {n}
      PROVE  /\ ~ On(m) => rx'[m] = rx[m]
             /\ On(m) => \/ rx'[m] = Append(rx[m], f)
                         \/ rx'[m] = rx[m] /\ rx[m] # << >>
  <2>1. rx'[m] = IF m \in others THEN Heard(m, <<f>>) ELSE rx[m]
    BY <1>1, <1>2
  <2>2. rx[m] \in Seq(Frame \cup {Invalid})
    BY PortFields
  <2>3. rx[m] \o <<f>> = Append(rx[m], f)
    BY <2>2
  <2>4. ~ (Len(rx[m]) < MAX_RX) => rx[m] # << >>
    BY <2>2, ConstantsNat
  <2> QED
    BY <2>1, <2>3, <2>4
<1> QED
  BY <1>2, <1>3, <1>4, <1>5

LEMMA HeardFrame ==
  ASSUME NEW s \in Seq(Frame), NEW f \in Frame, NEW t,
         t = Append(s, f) \/ (t = s /\ s # << >>)
  PROVE  /\ t \in Seq(Frame) /\ t # << >> /\ Len(t) \in Nat
         /\ s = << >> => Len(t) = 1 /\ t[1] = f
         /\ \A i \in 1 .. Len(t) : \/ i \in 1 .. Len(s) /\ t[i] = s[i]
                                   \/ i = Len(t) /\ t[i] = f
<1>1. CASE t = Append(s, f)
  <2>1. /\ t \in Seq(Frame) /\ Len(t) = Len(s) + 1 /\ Len(s) \in Nat
        /\ t[Len(s) + 1] = f /\ \A i \in 1 .. Len(s) : t[i] = s[i]
    BY <1>1
  <2>2. t # << >>
    BY <2>1
  <2>3. s = << >> => Len(s) = 0
    OBVIOUS
  <2> QED
    BY <2>1, <2>2, <2>3
<1>2. CASE t = s /\ s # << >>
  BY <1>2
<1> QED
  BY <1>1, <1>2

\* A frame sent on the calm bus by station n, whose turn it is: as the answer
\* to the holder of the token, or as the one that has the token.
SpeaksInTurn(n, p, f) ==
  /\ On(n) /\ p.state \notin {"OFF", "USE_TOKEN", "ANSWER_DATA_REQUEST", "INITIALIZE",
                              "NO_TOKEN"}
  /\ rx[n] = << >> /\ f.src = n
  /\ p.Sending => p.state = "DONE_WITH_TOKEN"
  /\ \A x \in Masters \ {n} : Calls(x) = {}
  /\ \A k \in Masters \ {n} : In(k, "PASS_TOKEN") => port[k].Silence = 0
  /\ \A m \in Masters \ {n} :
       port[m].state \in {"IDLE", "NO_TOKEN"} => port[m].Silence < Slot(m)
  /\ \/ /\ p.state = "IDLE" /\ f.type \notin Calling
        /\ \A h \in Masters \ {n} : HoldsToken(h) =>
             /\ Wants(h, f) /\ f.dest = h /\ Inbox(h) = {NoFrame}
             /\ In(h, "POLL_FOR_MASTER") => port[h].Silence = 0
             /\ In(h, "WAIT_FOR_REPLY") => port[h].Silence <= Treply_delay + 1
     \/ /\ \A h \in Masters \ {n} : ~ HoldsToken(h)
        /\ \/ p.state = "DONE_WITH_TOKEN" /\ p.Sending /\ \A x \in Masters : ~ Live(x, f)
           \/ p.state = "WAIT_FOR_REPLY" /\ f.type = "DATA_EXPECTING_REPLY"
           \/ p.state = "POLL_FOR_MASTER" /\ f.type = "POLL_FOR_MASTER"
           \/ p.state = "PASS_TOKEN" /\ ~ p.SawOctets /\ f.type = "TOKEN"

LEMMA EmptyInbox ==
  ASSUME NEW m, rx[m] \in Seq(Frame)
  PROVE  /\ Inbox(m) = {NoFrame} <=> rx[m] = << >> /\ frame[m] = NoFrame
         /\ rx[m] = << >> => Inbox(m) = {frame[m]}
         /\ ~ Live(m, NoFrame)
<1>1. rx[m] = << >> => Inbox(m) = {frame[m]}
  BY DEF Inbox
<1>2. ASSUME Inbox(m) = {NoFrame} PROVE rx[m] = << >> /\ frame[m] = NoFrame
  <2>1. frame[m] = NoFrame
    BY <1>2 DEF Inbox
  <2>2. ASSUME rx[m] # << >> PROVE FALSE
    <3>1. 1 \in 1 .. Len(rx[m]) /\ rx[m][1] \in Frame
      BY <2>2
    <3>2. rx[m][1] \in Inbox(m)
      BY <3>1 DEF Inbox
    <3> QED
      BY <1>2, <3>1, <3>2, MstpFlags
  <2> QED
    BY <2>1, <2>2
<1> QED
  BY <1>1, <1>2, MstpFlags DEF Live

LEMMA SpeakKeeps ==
  ASSUME Typed, Calm, NEW n \in Masters, NEW p \in Port, NEW f \in Frame,
         StepSends(n, p, NoFrame, f), ~ upset', SpeaksInTurn(n, p, f)
  PROVE  Calm'
<1> DEFINE q == [p EXCEPT !.Silence = 0]
<1>1. /\ port'[n] = q /\ frame'[n] = NoFrame /\ rx'[n] = << >>
      /\ \A m \in Masters \ {n} :
           /\ port'[m] = port[m] /\ frame'[m] = frame[m]
           /\ ~ On(m) => rx'[m] = rx[m]
           /\ On(m) => \/ rx'[m] = Append(rx[m], f)
                       \/ rx'[m] = rx[m] /\ rx[m] # << >>
  BY Sent DEF SpeaksInTurn
<1>2. /\ q.state = p.state /\ q.Silence = 0 /\ q.Sending = p.Sending
      /\ q.SawOctets = p.SawOctets
  BY DEF Port
<1> HIDE DEF q
<1>3. \A m \in Masters : Flags(m) /\ Timers(m) /\ Boxes(m)
  BY DEF Calm
<1>4. \A m \in Masters : rx[m] \in Seq(Frame)
  BY <1>3 DEF Flags
<1>5. ASSUME NEW m \in Masters \ {n}, On(m)
      PROVE  /\ rx'[m] \in Seq(Frame) /\ rx'[m] # << >> /\ Len(rx'[m]) \in Nat
             /\ rx[m] = << >> => Len(rx'[m]) = 1 /\ rx'[m][1] = f
             /\ \A i \in 1 .. Len(rx'[m]) :
                  \/ i \in 1 .. Len(rx[m]) /\ rx'[m][i] = rx[m][i]
                  \/ i = Len(rx'[m]) /\ rx'[m][i] = f
  BY <1>1, <1>4, <1>5, HeardFrame
\* Nobody but the one the frame is for is called now.
<1>6. Inbox(n)' = {NoFrame} /\ Calls(n)' = {}
  <2>1. Inbox(n)' = {NoFrame}
    BY <1>1 DEF Inbox
  <2> QED
    BY <2>1, MstpFlags DEF Calls, Live
<1>7. ASSUME NEW m \in Masters \ {n}
      PROVE  /\ Inbox(m)' \subseteq Inbox(m) \cup {f}
             /\ ~ On(m) => Inbox(m)' = Inbox(m)
             /\ Calls(m) = {} /\ Calls(m)' \subseteq {f}
             /\ \A g \in Calls(m)' : g = f /\ Live(m, f)
  <2>1. ~ On(m) => Inbox(m)' = Inbox(m)
    BY <1>1 DEF Inbox
  <2>2. On(m) => Inbox(m)' \subseteq Inbox(m) \cup {f}
    BY <1>1, <1>5 DEF Inbox
  <2>3. Calls(m) = {}
    BY DEF SpeaksInTurn
  <2>4. \A g \in Calls(m)' : g = f /\ Live(m, f)
    BY <2>1, <2>2, <2>3 DEF Calls, Live
  <2> QED
    BY <2>1, <2>2, <2>3, <2>4
<1>8. \A m \in Masters : On(m)' <=> On(m)
  BY <1>1, <1>2 DEF On, SpeaksInTurn
<1>9. \A m \in Masters \ {n} : /\ HoldsToken(m)' <=> HoldsToken(m)
                               /\ \A s \in States : In(m, s)' <=> In(m, s)
  BY <1>1 DEF HoldsToken, In
<1>10. \A m \in Masters : Flags(m)'
  <2> TAKE m \in Masters
  <2>1. CASE m = n
    <3>1. NoFrame # Invalid /\ rx'[n] \in Seq(Frame)
      BY <1>1, MstpConstants
    <3> QED
      BY <1>1, <1>2, <2>1, <3>1 DEF Flags, On, In, SpeaksInTurn
  <2>2. CASE m # n
    BY <1>1, <1>3, <1>5, <2>2 DEF Flags, On, In
  <2> QED
    BY <2>1, <2>2
<1>11. \A m \in Masters : Timers(m)'
  <2> TAKE m \in Masters
  <2>0. Slot(m) \in Nat /\ Slot(m) >= Tno_token /\ Slot(m)' = Slot(m)
    BY PortFields DEF Slot
  <2>1. CASE m = n
    BY <1>1, <1>2, <2>0, <2>1, ConstantsNat DEF Timers, In, SpeaksInTurn
  <2>2. CASE m # n
    <3>1. In(m, "PASS_TOKEN") => port[m].Silence = 0
      BY <2>2 DEF SpeaksInTurn
    <3>2. port[m].state \in {"IDLE", "NO_TOKEN"} => port[m].Silence < Slot(m)
      BY <2>2 DEF SpeaksInTurn
    <3>3. Timers(m)
      BY <1>3
    <3> QED
      BY <1>1, <2>0, <2>2, <3>1, <3>2, <3>3 DEF Timers, In
  <2> QED
    BY <2>1, <2>2
<1>12. \A m \in Masters : Boxes(m)'
  <2> TAKE m \in Masters
  <2>1. CASE m = n
    <3>1. ~ Live(n, frame'[n])
      BY <1>1, EmptyInbox, <1>4
    <3>2. port'[n].state \notin {"ANSWER_DATA_REQUEST"}
      BY <1>1, <1>2 DEF SpeaksInTurn
    <3>3. \A g \in Inbox(n)' \ {NoFrame} : FALSE
      BY <1>6
    <3>4. Len(rx'[n]) = 0
      BY <1>1
    <3> QED
      BY <1>1, <1>6, <2>1, <3>1, <3>2, <3>3, <3>4 DEF Boxes, In, Live
  <2>2. CASE m # n /\ ~ On(m)
    <3>1. port'[m].state = "OFF" /\ rx'[m] = << >> /\ frame'[m] = NoFrame
      BY <1>1, <1>3, <2>2 DEF Flags, On
    <3>2. Len(rx'[m]) = 0 /\ ~ Live(m, frame'[m])
      BY <3>1, <1>4, EmptyInbox
    <3> QED
      BY <3>1, <3>2 DEF Boxes, In, Live
  <2>3. CASE m # n /\ On(m)
    <3>1. m \in Masters \ {n} /\ Calls(m) = {} /\ Boxes(m)
      BY <1>3, <1>7, <2>3
    <3>2. ~ Live(m, frame'[m])
      BY <1>1, <3>1 DEF Calls, Inbox
    <3>3. ~ In(m, "ANSWER_DATA_REQUEST")
      BY <1>1, <3>1, <3>2 DEF Boxes
    <3>4. \A i \in 1 .. Len(rx'[m]) : Live(m, rx'[m][i]) => i = Len(rx'[m])
      BY <1>5, <2>3, <3>1 DEF Calls, Inbox
    <3>5. ASSUME HoldsToken(m)
          PROVE  /\ p.state = "IDLE" /\ f.type \notin Calling
                 /\ Wants(m, f) /\ f.dest = m /\ Inbox(m) = {NoFrame}
                 /\ In(m, "POLL_FOR_MASTER") => port[m].Silence = 0
                 /\ In(m, "WAIT_FOR_REPLY") => port[m].Silence <= Treply_delay + 1
      BY <3>1, <3>5 DEF SpeaksInTurn
    <3>6. ~ (port[m].state \in {"USE_TOKEN", "DONE_WITH_TOKEN"})
      BY <3>5 DEF Wants, In, HoldsToken
    <3>7. ASSUME port[m].state \in {"WAIT_FOR_REPLY", "POLL_FOR_MASTER"}
          PROVE  /\ \A g \in Inbox(m)' \ {NoFrame} : g.dest = m /\ Wants(m, g)'
                 /\ Len(rx'[m]) <= 1 /\ frame'[m] = NoFrame
                 /\ \A x \in Masters : Calls(x)' = {}
                 /\ In(m, "POLL_FOR_MASTER") => port[m].Silence = 0
                 /\ In(m, "WAIT_FOR_REPLY") => port[m].Silence <= Treply_delay + 1
      <4>1. HoldsToken(m)
        BY <3>7 DEF HoldsToken
      <4>2. rx[m] = << >> /\ frame[m] = NoFrame
        BY <1>4, <3>1, <3>5, <4>1, EmptyInbox
      <4>3. Inbox(m)' \subseteq {NoFrame, f} /\ Wants(m, f)'
        BY <1>1, <1>7, <3>1, <3>5, <4>1 DEF Wants, In
      <4>4. Len(rx'[m]) = 1
        BY <1>5, <2>3, <3>1, <4>2
      <4>5. \A x \in Masters : Calls(x)' = {}
        BY <1>6, <1>7, <3>5, <4>1 DEF Live
      <4> QED
        BY <1>1, <3>1, <3>5, <4>1, <4>2, <4>3, <4>4, <4>5
    <3>8. port'[m] = port[m]
      BY <1>1, <3>1
    <3> QED
      BY <3>2, <3>3, <3>4, <3>6, <3>7, <3>8 DEF Boxes, In
  <2> QED
    BY <2>1, <2>2, <2>3
<1>13. OneCall'
  <2> SUFFICES ASSUME NEW x \in Masters, NEW y \in Masters,
                      Calls(x)' # {}, Calls(y)' # {}
               PROVE  x = y
    BY DEF OneCall
  <2>1. x # n /\ y # n
    BY <1>6
  <2>2. Live(x, f) /\ Live(y, f)
    BY <1>7, <2>1
  <2> QED
    BY <2>2 DEF Live
<1>14. HoldsToken(n)' => \A h \in Masters \ {n} : ~ HoldsToken(h)
  BY <1>1, <1>2 DEF HoldsToken, SpeaksInTurn
<1>15. OneHolder'
  BY <1>9, <1>14 DEF OneHolder, Calm
<1>16. HolderCalls'
  <2> SUFFICES ASSUME NEW h \in Masters, NEW x \in Masters, HoldsToken(h)',
                      NEW g \in Calls(x)'
               PROVE  /\ g.src = h /\ Asks(h, g)'
                      /\ port'[h].Silence = 0
                      /\ ~ In(x, "ANSWER_DATA_REQUEST")'
    <3>1. ASSUME NEW h \in Masters, NEW x \in Masters, NEW g,
                 port'[h].Silence = 0, ~ In(x, "ANSWER_DATA_REQUEST")'
          PROVE  port'[h].Silence <= (IF In(x, "ANSWER_DATA_REQUEST")'
                                        THEN port'[x].Silence ELSE 0)
      BY <3>1
    <3> QED
      BY <3>1 DEF HolderCalls
  <2>1. x # n /\ g = f /\ Live(x, f)
    BY <1>6, <1>7
  <2>2. h = n
    <3> SUFFICES ASSUME h # n PROVE FALSE
      OBVIOUS
    <3>1. HoldsToken(h) /\ h \in Masters \ {n}
      BY <1>9
    <3> QED
      BY <2>1, <3>1 DEF SpeaksInTurn, Live
  <2>3. Asks(n, f)'
    BY <1>1, <1>2, <2>1, <2>2 DEF SpeaksInTurn, Asks, In, HoldsToken, Live
  <2>4. ~ In(x, "ANSWER_DATA_REQUEST")'
    <3>1. ~ In(x, "ANSWER_DATA_REQUEST")
      BY <1>3, <1>7, <2>1 DEF Boxes, Calls, Inbox
    <3> QED
      BY <1>1, <2>1, <3>1 DEF In
  <2> QED
    BY <1>1, <1>2, <2>1, <2>2, <2>3, <2>4 DEF SpeaksInTurn
<1>17. \A k \in Masters \ {n} : In(k, "PASS_TOKEN") => Stale(k)'
  <2> TAKE k \in Masters \ {n}
  <2>1. In(k, "PASS_TOKEN") => On(k)
    BY DEF In, On
  <2> QED
    BY <1>5, <2>1 DEF Stale
<1>18. Passing'
  <2> SUFFICES ASSUME NEW k \in Masters, In(k, "PASS_TOKEN")', ~ Stale(k)'
               PROVE  /\ \A m \in Masters : In(m, "PASS_TOKEN")' /\ ~ Stale(m)' => m = k
                      /\ \A x \in Masters : \A g \in Calls(x)' :
                           g.type = "TOKEN" /\ port'[k].Silence = 0
                      /\ \A h \in Masters : ~ HoldsToken(h)'
    BY DEF Passing
  <2>1. \A m \in Masters \ {n} : In(m, "PASS_TOKEN")' => Stale(m)'
    BY <1>1, <1>17 DEF In
  <2>2. k = n
    BY <2>1
  <2>3. p.state = "PASS_TOKEN"
    BY <1>1, <1>2, <2>2 DEF In
  <2>4. f.type = "TOKEN" /\ \A h \in Masters \ {n} : ~ HoldsToken(h)
    BY <2>3 DEF SpeaksInTurn
  <2>5. ~ HoldsToken(n)'
    BY <1>1, <1>2, <2>3 DEF HoldsToken
  <2> QED
    BY <1>1, <1>2, <1>6, <1>7, <1>9, <2>1, <2>2, <2>4, <2>5
<1>19. \A m \in Masters : On(m)' => Quiet(m)' = 0
  <2> TAKE m \in Masters
  <2>1. CASE m = n
    BY <1>1, <1>2, <2>1 DEF Quiet
  <2>2. CASE m # n
    BY <1>5, <1>8, <2>2 DEF Quiet
  <2> QED
    BY <2>1, <2>2
<1>20. InStep'
  BY <1>19 DEF InStep
<1> QED
  BY <1>10, <1>11, <1>12, <1>13, <1>15, <1>16, <1>18, <1>20 DEF Calm

----------------------------------------------------------------------------
(* Steps that send nothing.                                                *)

\* Station n goes to p, with the frame g left, which may call nobody new.
MovesTo(n, p, g) ==
  /\ On(n) /\ ~ In(n, "ANSWER_DATA_REQUEST")
  /\ g \in {frame[n], NoFrame} /\ p.Silence = port[n].Silence
  /\ p.state \notin {"OFF", "INITIALIZE", "PASS_TOKEN", "WAIT_FOR_REPLY",
                     "POLL_FOR_MASTER"}
  /\ p.Sending = port[n].Sending /\ ~ (p.Sending /\ p.state # "DONE_WITH_TOKEN")
  \* what is left in the flags
  /\ g # NoFrame => p.SawOctets /\ (p.state = "ANSWER_DATA_REQUEST" \/ p.Silence = 0)
                    /\ p.state \notin {"USE_TOKEN", "DONE_WITH_TOKEN"}
  \* the time-outs
  /\ p.state \in {"IDLE", "NO_TOKEN"} =>
       p.Silence <= Slot(n) /\ (rx[n] # << >> => p.Silence < Slot(n))
  /\ p.state = "ANSWER_DATA_REQUEST" =>
       p.Silence = 0 /\ Live(n, g) /\ g.type = "DATA_EXPECTING_REPLY"
  \* who has the token
  /\ p.state \in {"USE_TOKEN", "DONE_WITH_TOKEN"} =>
       /\ p.Silence <= Treply_timeout /\ rx[n] = << >>
       /\ \A x \in Masters \ {n} : Calls(x) = {}
       /\ HoldsToken(n) \/ \A h \in Masters : ~ HoldsToken(h)
       /\ \A k \in Masters \ {n} : In(k, "PASS_TOKEN") /\ ~ Stale(k) =>
            port[k].Silence = 0 /\ ~ p.Sending
  \* who keeps step
  /\ \/ p.state \in {"USE_TOKEN", "DONE_WITH_TOKEN"} \/ ~ TokenOn(n)
     \/ Quiet(n) = 0 /\ ~ Deaf(n)
  /\ Deaf(n) => \/ p.state = "IDLE" /\ ~ p.SawOctets
                \/ \A m \in Masters : ~ TokenOn(m)

LEMMA MoveKeeps ==
  ASSUME Typed, Calm, NEW n \in Masters, NEW p \in Port, NEW g,
         StepTo(n, p, g), MovesTo(n, p, g)
  PROVE  Calm'
<1>1. /\ port'[n] = p /\ frame'[n] = g /\ rx' = rx
      /\ \A m \in Masters \ {n} : port'[m] = port[m] /\ frame'[m] = frame[m]
  BY DEF StepTo, Typed, MstpTypeOK
<1>2. \A m \in Masters : Flags(m) /\ Timers(m) /\ Boxes(m)
  BY DEF Calm
<1>3. \A m \in Masters : rx[m] \in Seq(Frame) /\ ~ Live(m, NoFrame)
  BY <1>2, MstpFlags DEF Flags, Live
<1>4. \A m \in Masters \ {n} : Inbox(m)' = Inbox(m) /\ Calls(m)' = Calls(m)
  BY <1>1 DEF Inbox, Calls, Live
<1>5. Calls(n)' \subseteq Calls(n)
  BY <1>1, <1>3 DEF Inbox, Calls, Live, MovesTo
<1>6. \A m \in Masters : On(m)' <=> On(m)
  BY <1>1 DEF On, MovesTo
<1>7. \A m \in Masters \ {n} :
        /\ HoldsToken(m)' <=> HoldsToken(m)
        /\ TokenOn(m)' <=> TokenOn(m)
        /\ Deaf(m)' <=> Deaf(m)
        /\ Stale(m)' <=> Stale(m)
        /\ \A s : In(m, s)' <=> In(m, s)
  BY <1>1 DEF HoldsToken, In, TokenOn, Deaf, Stale
<1>8. \A m \in Masters : Flags(m)'
  <2> TAKE m \in Masters
  <2>1. CASE m = n
    <3>1. Flags(n) /\ NoFrame # Invalid
      BY <1>2, MstpConstants
    <3> QED
      BY <1>1, <2>1, <3>1 DEF Flags, On, In, MovesTo
  <2>2. CASE m # n
    BY <1>1, <1>2, <2>2 DEF Flags, On, In
  <2> QED
    BY <2>1, <2>2
<1>9. \A m \in Masters : Timers(m)'
  <2> TAKE m \in Masters
  <2>0. Slot(m)' = Slot(m)
    BY DEF Slot
  <2>1. CASE m = n
    BY <1>1, <1>2, <2>0, <2>1, ConstantsNat DEF Timers, In, MovesTo
  <2>2. CASE m # n
    BY <1>1, <1>2, <2>0, <2>2 DEF Timers, In, Stale
  <2> QED
    BY <2>1, <2>2
<1>10. \A m \in Masters : Boxes(m)'
  <2> TAKE m \in Masters
  <2>1. CASE m = n
    <3>1. Boxes(n)
      BY <1>2
    <3>2. Live(n, g) => rx[n] = << >>
      BY <1>3, <3>1 DEF Boxes, MovesTo
    <3>3. \A i \in 1 .. Len(rx[n]) : Live(n, rx[n][i])' => i = Len(rx[n])
      BY <1>1, <3>1 DEF Boxes, Live
    <3> QED
      BY <1>1, <2>1, <3>2, <3>3 DEF Boxes, In, MovesTo, Live
  <2>2. CASE m # n
    <3>1. Boxes(m) /\ port'[m] = port[m] /\ frame'[m] = frame[m] /\ rx' = rx
          /\ Inbox(m)' = Inbox(m)
      BY <1>1, <1>2, <1>4, <2>2
    <3>2. (\A x \in Masters : Calls(x) = {}) => (\A x \in Masters : Calls(x)' = {})
      BY <1>4, <1>5
    <3>3. \A h : Wants(m, h)' <=> Wants(m, h)
      BY <3>1 DEF Wants, In
    <3> QED
      BY <3>1, <3>2, <3>3 DEF Boxes, In, Live
  <2> QED
    BY <2>1, <2>2
<1>11. OneCall'
  BY <1>4, <1>5 DEF OneCall, Calm
<1>12. HoldsToken(n)' => p.state \in {"USE_TOKEN", "DONE_WITH_TOKEN"}
  BY <1>1 DEF HoldsToken, MovesTo
<1>13. HoldsToken(n)' => HoldsToken(n) \/ \A h \in Masters : ~ HoldsToken(h)
  BY <1>12 DEF MovesTo
<1>14. OneHolder'
  BY <1>7, <1>13 DEF OneHolder, Calm
<1>15. HoldsToken(n)' => \A x \in Masters : Calls(x)' = {}
  <2> SUFFICES ASSUME HoldsToken(n)' PROVE \A x \in Masters : Calls(x)' = {}
    OBVIOUS
  <2>1. rx[n] = << >> /\ g = NoFrame /\ \A x \in Masters \ {n} : Calls(x) = {}
    BY <1>12 DEF MovesTo
  <2>2. Calls(n)' = {}
    BY <1>1, <1>3, <2>1 DEF Calls, Inbox, Live
  <2> QED
    BY <1>4, <2>1, <2>2
<1>16. HolderCalls'
  <2> SUFFICES ASSUME NEW h \in Masters, NEW x \in Masters, HoldsToken(h)',
                      NEW c \in Calls(x)'
               PROVE  /\ c.src = h /\ Asks(h, c)'
                      /\ port'[h].Silence <= (IF In(x, "ANSWER_DATA_REQUEST")'
                                                THEN port'[x].Silence ELSE 0)
    BY DEF HolderCalls
  <2>1. h # n /\ HoldsToken(h) /\ c \in Calls(x)
    BY <1>4, <1>5, <1>7, <1>15
  <2>2. /\ c.src = h /\ Asks(h, c)
        /\ port[h].Silence <= (IF In(x, "ANSWER_DATA_REQUEST") THEN port[x].Silence ELSE 0)
    BY <2>1 DEF Calm, HolderCalls
  <2>3. Asks(h, c)' /\ port'[h] = port[h]
    BY <1>1, <2>1, <2>2 DEF Asks, In
  <2>4. CASE x # n
    BY <1>1, <2>2, <2>3, <2>4 DEF In
  <2>5. CASE x = n
    <3>1. In(n, "ANSWER_DATA_REQUEST")' => port'[n].Silence = 0
      BY <1>1 DEF In, MovesTo
    <3>2. ~ In(n, "ANSWER_DATA_REQUEST")
      BY DEF MovesTo
    <3> QED
      BY <2>2, <2>3, <2>5, <3>1, <3>2
  <2> QED
    BY <2>4, <2>5
<1>17. Passing'
  <2> SUFFICES ASSUME NEW k \in Masters, In(k, "PASS_TOKEN")', ~ Stale(k)'
               PROVE  /\ \A m \in Masters : In(m, "PASS_TOKEN")' /\ ~ Stale(m)' => m = k
                      /\ \A x \in Masters : \A c \in Calls(x)' :
                           c.type = "TOKEN" /\ port'[k].Silence = 0
                      /\ \A h \in Masters : HoldsToken(h)' =>
                           /\ port'[k].Silence = 0
                           /\ (In(h, "USE_TOKEN")'
                               \/ (In(h, "DONE_WITH_TOKEN")' /\ ~ port'[h].Sending))
    BY DEF Passing
  <2>1. ~ In(n, "PASS_TOKEN")'
    BY <1>1 DEF In, MovesTo
  <2>2. k # n /\ In(k, "PASS_TOKEN") /\ ~ Stale(k) /\ port'[k] = port[k]
    BY <1>1, <1>7, <2>1
  <2>3. /\ \A m \in Masters : In(m, "PASS_TOKEN") /\ ~ Stale(m) => m = k
        /\ \A x \in Masters : \A c \in Calls(x) : c.type = "TOKEN" /\ port[k].Silence = 0
        /\ \A h \in Masters : HoldsToken(h) =>
             /\ port[k].Silence = 0
             /\ (In(h, "USE_TOKEN") \/ (In(h, "DONE_WITH_TOKEN") /\ ~ port[h].Sending))
    BY <2>2 DEF Calm, Passing
  <2>4. \A m \in Masters : In(m, "PASS_TOKEN")' /\ ~ Stale(m)' => m = k
    BY <1>7, <2>1, <2>3
  <2>5. \A x \in Masters : \A c \in Calls(x)' : c.type = "TOKEN" /\ port'[k].Silence = 0
    BY <1>4, <1>5, <2>2, <2>3
  <2>6. ASSUME NEW h \in Masters, HoldsToken(h)'
        PROVE  /\ port'[k].Silence = 0
               /\ (In(h, "USE_TOKEN")' \/ (In(h, "DONE_WITH_TOKEN")' /\ ~ port'[h].Sending))
    <3>1. CASE h = n
      <4>1. p.state \in {"USE_TOKEN", "DONE_WITH_TOKEN"}
        BY <1>12, <2>6, <3>1
      <4>2. port[k].Silence = 0 /\ ~ p.Sending
        BY <2>2, <4>1 DEF MovesTo
      <4> QED
        BY <1>1, <2>2, <3>1, <4>1, <4>2 DEF In
    <3>2. CASE h # n
      BY <1>1, <1>7, <2>2, <2>3, <2>6, <3>2
    <3> QED
      BY <3>1, <3>2
  <2> QED
    BY <2>4, <2>5, <2>6
<1>18. \A m \in Masters : Quiet(m)' = Quiet(m)
  BY <1>1 DEF Quiet, MovesTo
<1>19. InStep'
  <2> SUFFICES ASSUME NEW m \in Masters, NEW k \in Masters, On(m), On(k)
               PROVE  \/ Quiet(m) <= Quiet(k)
                      \/ Deaf(k)' /\ \E t \in Masters : TokenOn(t)'
    BY <1>6, <1>18 DEF InStep
  <2>1. \A i, j \in Masters : On(i) /\ On(j) => \/ Quiet(i) <= Quiet(j)
                                                \/ Deaf(j) /\ \E t \in Masters : TokenOn(t)
    BY DEF Calm, InStep
  <2>2. SUFFICES ASSUME Deaf(k), NEW t \in Masters, TokenOn(t)
                 PROVE  \/ Quiet(m) <= Quiet(k)
                        \/ Deaf(k)' /\ \E j \in Masters : TokenOn(j)'
    BY <2>1
  <2>3. Deaf(k)'
    <3>1. Deaf(n) => p.state = "IDLE" /\ ~ p.SawOctets
      BY <2>2 DEF MovesTo
    <3>2. Deaf(n) => Deaf(n)'
      BY <1>1, <3>1 DEF Deaf
    <3> QED
      BY <1>7, <2>2, <3>2
  <2>4. CASE t # n \/ p.state \in {"USE_TOKEN", "DONE_WITH_TOKEN"}
    <3>1. t # n => TokenOn(t)'
      BY <1>7, <2>2
    <3>2. p.state \in {"USE_TOKEN", "DONE_WITH_TOKEN"} => TokenOn(n)'
      BY <1>1 DEF TokenOn, HoldsToken
    <3> QED
      BY <2>3, <2>4, <3>1, <3>2
  <2>5. CASE t = n /\ ~ (p.state \in {"USE_TOKEN", "DONE_WITH_TOKEN"})
    <3>1. Quiet(n) = 0 /\ ~ Deaf(n) /\ On(n)
      BY <2>2, <2>5 DEF MovesTo
    <3>2. Quiet(m) <= 0
      BY <2>1, <3>1
    <3> QED
      BY <3>2, PortFields
  <2> QED
    BY <2>4, <2>5
<1> QED
  BY <1>8, <1>9, <1>10, <1>11, <1>14, <1>16, <1>17, <1>19 DEF Calm

----------------------------------------------------------------------------
(* What the bus is like when station n may act.                            *)

\* The others count no more silence than a station that has not just joined,
\* so none of them is in its slot of NO_TOKEN.
LEMMA NoOtherSlot ==
  ASSUME Typed, Calm, NEW n \in Masters, On(n), ~ Deaf(n), Quiet(n) < Tno_token,
         NEW m \in Masters, port[m].state \in {"IDLE", "NO_TOKEN"}
  PROVE  port[m].Silence < Slot(m)
<1>1. Quiet(m) <= Quiet(n)
  BY DEF Calm, InStep, On
<1>2. Timers(m)
  BY DEF Calm
<1>3. rx[m] # << >> => port[m].Silence < Slot(m)
  BY <1>2 DEF Timers
<1>4. rx[m] = << >> => port[m].Silence < Tno_token
  BY <1>1, PortFields, ConstantsNat DEF Quiet
<1>5. /\ Slot(m) \in Nat /\ Slot(m) >= Tno_token /\ port[m].Silence \in Nat
      /\ Tno_token \in Nat
  BY PortFields, ConstantsNat
<1> QED
  BY <1>3, <1>4, <1>5

\* A holder of the token that is not waiting has called nobody, and has heard
\* all there was to hear.
LEMMA HolderFree ==
  ASSUME Typed, Calm, NEW n \in Masters,
         port[n].state \in {"USE_TOKEN", "DONE_WITH_TOKEN"}
  PROVE  /\ On(n) /\ HoldsToken(n) /\ TokenOn(n) /\ ~ Deaf(n)
         /\ frame[n] = NoFrame /\ rx[n] = << >> /\ Quiet(n) < Tno_token
         /\ port[n].Silence <= Treply_timeout
         /\ \A x \in Masters : Calls(x) = {}
         /\ \A h \in Masters \ {n} : ~ HoldsToken(h)
         /\ \A k \in Masters : In(k, "PASS_TOKEN") => port[k].Silence = 0
<1>1. On(n) /\ HoldsToken(n) /\ TokenOn(n) /\ ~ Deaf(n)
  BY DEF On, HoldsToken, TokenOn, Deaf
<1>2. Flags(n) /\ Timers(n) /\ Boxes(n)
  BY DEF Calm
<1>3. frame[n] = NoFrame /\ rx[n] = << >> /\ port[n].Silence <= Treply_timeout
  BY <1>2 DEF Flags, Timers, Boxes
<1>4. Quiet(n) < Tno_token
  BY <1>3, PortFields, ConstantsNat DEF Quiet
<1>5. \A x \in Masters : Calls(x) = {}
  BY <1>1 DEF Calm, HolderCalls, Asks, In
<1>6. \A h \in Masters \ {n} : ~ HoldsToken(h)
  BY <1>1 DEF Calm, OneHolder
<1>7. ASSUME NEW k \in Masters, In(k, "PASS_TOKEN") PROVE port[k].Silence = 0
  <2>1. Stale(k) => port[k].Silence = 0
    BY <1>7 DEF Calm, Timers
  <2>2. ~ Stale(k) => port[k].Silence = 0
    BY <1>1, <1>7 DEF Calm, Passing
  <2> QED
    BY <2>1, <2>2
<1> QED
  BY <1>1, <1>3, <1>4, <1>5, <1>6, <1>7

\* A station in POLL_FOR_MASTER that has got its answer, or has waited in
\* vain, or one in WAIT_FOR_REPLY that has: nobody is called any more.
LEMMA WaiterFree ==
  ASSUME Typed, Calm, NEW n \in Masters,
         port[n].state \in {"WAIT_FOR_REPLY", "POLL_FOR_MASTER"},
         \/ frame[n] # NoFrame
         \/ In(n, "POLL_FOR_MASTER") /\ port[n].Silence > Tusage_timeout
         \/ In(n, "WAIT_FOR_REPLY") /\ port[n].Silence >= Treply_timeout
  PROVE  /\ On(n) /\ HoldsToken(n) /\ TokenOn(n) /\ ~ Deaf(n)
         /\ rx[n] = << >> /\ Quiet(n) < Tno_token
         /\ port[n].Silence <= Treply_timeout
         /\ \A x \in Masters : Calls(x) = {}
         /\ \A h \in Masters \ {n} : ~ HoldsToken(h)
         /\ \A k \in Masters : In(k, "PASS_TOKEN") => port[k].Silence = 0 /\ Stale(k)
         /\ frame[n] # NoFrame => /\ port[n].Silence = 0
                                  /\ frame[n] \in Frame /\ frame[n].dest = n
                                  /\ Wants(n, frame[n]) /\ port[n].SawOctets
<1>1. On(n) /\ HoldsToken(n) /\ TokenOn(n) /\ ~ Deaf(n)
  BY DEF On, HoldsToken, TokenOn, Deaf
<1>2. Flags(n) /\ Timers(n) /\ Boxes(n) /\ port[n].Silence \in Nat
  BY PortFields DEF Calm
<1>3. frame[n] # NoFrame => port[n].Silence = 0 /\ rx[n] = << >> /\ port[n].SawOctets
  BY <1>2 DEF Flags, Boxes, In
<1>4. rx[n] = << >>
  BY <1>2, <1>3, ConstantsNat DEF Boxes, In
<1>5. port[n].Silence <= Treply_timeout
  BY <1>2, ConstantsNat DEF Timers, In
<1>6. Quiet(n) < Tno_token
  BY <1>2, <1>4, <1>5, ConstantsNat DEF Quiet
<1>7. frame[n] # NoFrame => /\ frame[n] \in Frame /\ frame[n].dest = n
                            /\ Wants(n, frame[n])
  <2>1. frame[n] \in Inbox(n)
    BY DEF Inbox
  <2>2. frame[n] \in Frame \cup {NoFrame}
    BY <1>2, PortFields DEF Flags
  <2> QED
    BY <1>2, <2>1, <2>2 DEF Boxes
<1>8. ASSUME NEW x \in Masters, NEW g \in Calls(x) PROVE FALSE
  <2>1. frame[n] = NoFrame
    <3>1. frame[n] # NoFrame => Inbox(n) # {NoFrame}
      BY DEF Inbox
    <3> QED
      BY <1>2, <1>8, <3>1 DEF Boxes
  <2>2. /\ Asks(n, g)
        /\ port[n].Silence <= (IF In(x, "ANSWER_DATA_REQUEST") THEN port[x].Silence ELSE 0)
    BY <1>1, <1>8 DEF Calm, HolderCalls
  <2>3. In(x, "ANSWER_DATA_REQUEST")
    BY <1>2, <2>1, <2>2, ConstantsNat
  <2>4. frame[x] \in Calls(x) /\ frame[x].type = "DATA_EXPECTING_REPLY"
    BY <2>3 DEF Calm, Boxes, Calls, Inbox
  <2>5. port[x].Silence <= Treply_delay + 1 /\ port[x].Silence \in Nat
    BY <2>3, PortFields DEF Calm, Timers
  <2>6. In(n, "WAIT_FOR_REPLY")
    BY <1>1, <2>4 DEF Calm, HolderCalls, Asks
  <2> QED
    BY <1>2, <2>1, <2>2, <2>3, <2>5, <2>6, ConstantsNat DEF In
<1>9. \A h \in Masters \ {n} : ~ HoldsToken(h)
  BY <1>1 DEF Calm, OneHolder
<1>10. ASSUME NEW k \in Masters, In(k, "PASS_TOKEN")
       PROVE  port[k].Silence = 0 /\ Stale(k)
  <2>1. Stale(k)
    BY <1>1, <1>10 DEF Calm, Passing, In
  <2> QED
    BY <1>10, <2>1 DEF Calm, Timers
<1> QED
  BY <1>1, <1>3, <1>4, <1>5, <1>6, <1>7, <1>8, <1>9, <1>10

\* A station that is called: nobody else is, and the holder waits for it.
LEMMA CalledFree ==
  ASSUME Typed, Calm, NEW n \in Masters, Live(n, frame[n]),
         frame[n].type # "TOKEN"
  PROVE  /\ rx[n] = << >> /\ port[n].SawOctets
         /\ \A x \in Masters \ {n} : Calls(x) = {}
         /\ \A k \in Masters : In(k, "PASS_TOKEN") => Stale(k) /\ port[k].Silence = 0
         /\ \A h \in Masters : HoldsToken(h) =>
              /\ frame[n].src = h /\ Asks(h, frame[n]) /\ Inbox(h) = {NoFrame}
              /\ port[h].Silence <= (IF In(n, "ANSWER_DATA_REQUEST")
                                       THEN port[n].Silence ELSE 0)
<1>1. frame[n] \in Calls(n)
  BY DEF Calls, Inbox
<1>2. rx[n] = << >> /\ port[n].SawOctets
  BY MstpFlags DEF Calm, Boxes, Flags, Live
<1>3. \A x \in Masters \ {n} : Calls(x) = {}
  BY <1>1 DEF Calm, OneCall
<1>4. ASSUME NEW k \in Masters, In(k, "PASS_TOKEN")
      PROVE  Stale(k) /\ port[k].Silence = 0
  <2>1. Stale(k)
    BY <1>1, <1>4 DEF Calm, Passing
  <2> QED
    BY <1>4, <2>1 DEF Calm, Timers
<1>5. ASSUME NEW h \in Masters, HoldsToken(h)
      PROVE  /\ frame[n].src = h /\ Asks(h, frame[n]) /\ Inbox(h) = {NoFrame}
             /\ port[h].Silence <= (IF In(n, "ANSWER_DATA_REQUEST")
                                      THEN port[n].Silence ELSE 0)
  <2>1. /\ frame[n].src = h /\ Asks(h, frame[n])
        /\ port[h].Silence <= (IF In(n, "ANSWER_DATA_REQUEST")
                                 THEN port[n].Silence ELSE 0)
    BY <1>1, <1>5 DEF Calm, HolderCalls
  <2>2. port[h].state \in {"WAIT_FOR_REPLY", "POLL_FOR_MASTER"}
    BY <2>1 DEF Asks, In
  <2>3. Inbox(h) = {NoFrame}
    BY <1>1, <2>2 DEF Calm, Boxes
  <2> QED
    BY <2>1, <2>3
<1> QED
  BY <1>2, <1>3, <1>4, <1>5

----------------------------------------------------------------------------
(* The steps of the stations keep the bus calm.                            *)

LEMMA IdleFields ==
  ASSUME Typed, Calm, NEW n \in Masters
  PROVE  /\ port[n].state \in {"IDLE", "NO_TOKEN"} => port[n].Silence <= Slot(n)
         /\ frame[n] \in Frame \cup {NoFrame}
         /\ frame[n] # NoFrame /\ ~ In(n, "ANSWER_DATA_REQUEST") => port[n].Silence = 0
         /\ frame[n] # NoFrame => port[n].SawOctets /\ On(n)
         /\ ~ In(n, "DONE_WITH_TOKEN") => ~ port[n].Sending
         /\ port[n].Sending \in BOOLEAN
         /\ In(n, "INITIALIZE") => port[n].Silence = 0
BY PortFields DEF Calm, Flags, Timers, Port

LEMMA InitializeCalm ==
  ASSUME Typed, Calm, NEW n \in Masters, Initialize(n)
  PROVE  Calm'
<1> DEFINE p == [port[n] EXCEPT !.state = "IDLE", !.Next_Station = n,
                   !.Poll_Station = n, !.TokenCount = Npoll,
                   !.SoleMaster = FALSE, !.Now = TRUE]
<1>1. port[n] \in Port /\ n \in Stations /\ In(n, "INITIALIZE")
  BY PortFields DEF Initialize, Stations
<1>2. /\ p \in Port /\ p.state = "IDLE" /\ p.Silence = port[n].Silence
      /\ p.SawOctets = port[n].SawOctets /\ p.Sending = port[n].Sending
  BY <1>1, ZeroCounts DEF Port, States
<1>3. StepTo(n, p, frame[n])
  BY DEF Initialize
<1> HIDE DEF p
<1>4. MovesTo(n, p, frame[n])
  BY <1>1, <1>2, IdleFields, PortFields, ConstantsNat
     DEF MovesTo, In, On, TokenOn, HoldsToken, Deaf
<1> QED
  BY <1>2, <1>3, <1>4, MoveKeeps

LEMMA WaitCalm ==
  ASSUME Typed, Calm, NEW n \in Masters, Wait(n)
  PROVE  Calm'
<1> DEFINE p == [port[n] EXCEPT !.Now = FALSE]
<1>1. port[n] \in Port /\ port[n].state \in {"IDLE", "NO_TOKEN"} /\ Timers(n)
  BY PortFields DEF Wait, Calm
<1>2. /\ p \in Port /\ p.state = port[n].state /\ p.Silence = port[n].Silence
      /\ p.SawOctets = port[n].SawOctets /\ p.Sending = port[n].Sending
  BY <1>1 DEF Port, States
<1>3. StepTo(n, p, frame[n])
  BY DEF Wait
<1> HIDE DEF p
<1>4. MovesTo(n, p, frame[n])
  BY <1>1, <1>2, IdleFields DEF MovesTo, In, On, TokenOn, HoldsToken, Deaf, Timers
<1> QED
  BY <1>2, <1>3, <1>4, MoveKeeps

\* A station whose silence has reached Tno_token is in step with all others,
\* and nobody has the token.
LEMMA Silent ==
  ASSUME Typed, Calm, NEW n \in Masters, port[n].state \in {"IDLE", "NO_TOKEN"},
         rx[n] = << >>, port[n].Silence >= Tno_token
  PROVE  /\ \A m \in Masters : ~ TokenOn(m)
         /\ \A m \in Masters : On(m) => Quiet(m) = port[n].Silence
<1>1. Quiet(n) = port[n].Silence /\ Quiet(n) \in Nat /\ On(n)
  BY PortFields DEF Quiet, On
<1>2. ASSUME NEW m \in Masters, TokenOn(m) PROVE FALSE
  <2>1. On(m) /\ ~ Deaf(m)
    BY <1>2 DEF On, TokenOn, HoldsToken, Deaf
  <2>2. Quiet(n) <= Quiet(m)
    BY <1>1, <2>1 DEF Calm, InStep
  <2>3. port[m].Silence < Tno_token
    BY <1>2, PortFields, ConstantsNat DEF Calm, Timers, TokenOn, HoldsToken
  <2> QED
    BY <1>1, <2>2, <2>3, PortFields, ConstantsNat DEF Quiet
<1>3. \A m \in Masters : On(m) => Quiet(m) = Quiet(n)
  <2> TAKE m \in Masters
  <2>1. On(m) => Quiet(m) <= Quiet(n) /\ Quiet(n) <= Quiet(m)
    BY <1>1, <1>2 DEF Calm, InStep
  <2>2. Quiet(m) \in Nat
    BY PortFields
  <2> QED
    BY <1>1, <2>1, <2>2
<1> QED
  BY <1>1, <1>2, <1>3

LEMMA LostTokenCalm ==
  ASSUME Typed, Calm, NEW n \in Masters, LostToken(n)
  PROVE  Calm'
<1> DEFINE p == [port[n] EXCEPT !.state = "NO_TOKEN", !.SawOctets = FALSE, !.Now = TRUE]
<1>1. /\ port[n] \in Port /\ In(n, "IDLE") /\ frame[n] = NoFrame
      /\ port[n].Silence >= Tno_token /\ Timers(n)
  BY PortFields DEF LostToken, Calm
<1>2. /\ p \in Port /\ p.state = "NO_TOKEN" /\ p.Silence = port[n].Silence
      /\ p.Sending = port[n].Sending
  BY <1>1 DEF Port, States
<1>3. StepTo(n, p, NoFrame)
  BY DEF LostToken
<1>4. Deaf(n) => \A m \in Masters : ~ TokenOn(m)
  BY <1>1, Silent DEF Deaf, In
<1> HIDE DEF p
<1>5. MovesTo(n, p, NoFrame)
  BY <1>1, <1>2, <1>4, IdleFields DEF MovesTo, In, On, TokenOn, HoldsToken, Timers
<1> QED
  BY <1>2, <1>3, <1>5, MoveKeeps

LEMMA SawFrameCalm ==
  ASSUME Typed, Calm, NEW n \in Masters, SawFrame(n)
  PROVE  Calm'
<1> DEFINE p == [port[n] EXCEPT !.state = "IDLE", !.Now = TRUE]
<1>1. /\ port[n] \in Port /\ port[n].state \in {"PASS_TOKEN", "NO_TOKEN"}
      /\ port[n].SawOctets /\ Timers(n)
  BY PortFields DEF SawFrame, Calm
<1>2. /\ p \in Port /\ p.state = "IDLE" /\ p.Silence = port[n].Silence
      /\ p.Sending = port[n].Sending /\ p.SawOctets = port[n].SawOctets
  BY <1>1 DEF Port, States
<1>3. StepTo(n, p, frame[n])
  BY DEF SawFrame
<1>4. In(n, "PASS_TOKEN") => port[n].Silence = 0
  BY <1>1 DEF Timers, Stale
<1>5. Quiet(n) = 0 \/ ~ In(n, "PASS_TOKEN")
  BY <1>4 DEF Quiet
<1>6. Slot(n) \in Nat /\ Slot(n) > 0
  BY PortFields, ConstantsNat
<1> HIDE DEF p
<1>7. MovesTo(n, p, frame[n])
  BY <1>1, <1>2, <1>4, <1>5, <1>6, IdleFields
     DEF MovesTo, In, On, TokenOn, HoldsToken, Timers, Deaf
<1> QED
  BY <1>2, <1>3, <1>7, MoveKeeps

\* Station n, and nobody else, has the token.
HasTurn(n) ==
  /\ On(n) /\ rx[n] = << >>
  /\ \A x \in Masters \ {n} : Calls(x) = {}
  /\ \A k \in Masters \ {n} : In(k, "PASS_TOKEN") => port[k].Silence = 0
  /\ \A m \in Masters \ {n} :
       port[m].state \in {"IDLE", "NO_TOKEN"} => port[m].Silence < Slot(m)
  /\ \A h \in Masters \ {n} : ~ HoldsToken(h)

LEMMA PassKeeps ==
  ASSUME Typed, Calm, NEW n \in Masters, NEW p \in Port, ~ p.Sending,
         PassTo(n, p, NoFrame), ~ upset', HasTurn(n)
  PROVE  Calm'
<1> DEFINE q == [p EXCEPT !.RetryCount = 0, !.SawOctets = FALSE, !.state = "PASS_TOKEN"]
           f == To("TOKEN", p.Next_Station, n)
<1>1. /\ q \in Port /\ q.state = "PASS_TOKEN" /\ ~ q.SawOctets /\ ~ q.Sending
  BY ZeroCounts DEF Port, States
<1>2. f \in Frame /\ f.type = "TOKEN" /\ f.src = n
  BY FrameTyped DEF FrameTypes, Port, To
<1>3. StepSends(n, q, NoFrame, f)
  BY DEF PassTo
<1> HIDE DEF q, f
<1>4. SpeaksInTurn(n, q, f)
  BY <1>1, <1>2 DEF SpeaksInTurn, HasTurn
<1> QED
  BY <1>1, <1>2, <1>3, <1>4, SpeakKeeps

LEMMA PollKeeps ==
  ASSUME Typed, Calm, NEW n \in Masters, NEW p \in Port, ~ p.Sending,
         Poll(n, p, NoFrame), ~ upset', HasTurn(n)
  PROVE  Calm'
<1> DEFINE q == [p EXCEPT !.RetryCount = 0, !.state = "POLL_FOR_MASTER"]
           f == To("POLL_FOR_MASTER", p.Poll_Station, n)
<1>1. /\ q \in Port /\ q.state = "POLL_FOR_MASTER" /\ ~ q.Sending
  BY ZeroCounts DEF Port, States
<1>2. f \in Frame /\ f.type = "POLL_FOR_MASTER" /\ f.src = n
  BY FrameTyped DEF FrameTypes, Port, To
<1>3. StepSends(n, q, NoFrame, f)
  BY DEF Poll
<1> HIDE DEF q, f
<1>4. SpeaksInTurn(n, q, f)
  BY <1>1, <1>2 DEF SpeaksInTurn, HasTurn
<1> QED
  BY <1>1, <1>2, <1>3, <1>4, SpeakKeeps

LEMMA TurnOf ==
  ASSUME Typed, Calm, NEW n \in Masters, On(n), rx[n] = << >>, ~ Deaf(n),
         Quiet(n) < Tno_token,
         \A x \in Masters \ {n} : Calls(x) = {},
         \A k \in Masters \ {n} : In(k, "PASS_TOKEN") => port[k].Silence = 0,
         \A h \in Masters \ {n} : ~ HoldsToken(h)
  PROVE  HasTurn(n)
BY NoOtherSlot DEF HasTurn

LEMMA IdleFrameCalm ==
  ASSUME Typed, Calm, NEW n \in Masters, IdleFrame(n), ~ upset'
  PROVE  Calm'
<1> DEFINE p == [port[n] EXCEPT !.Now = FALSE]
           used == [p EXCEPT !.state = "USE_TOKEN", !.FrameCount = 0,
                            !.SoleMaster = FALSE, !.Now = TRUE]
           answers == [p EXCEPT !.state = "ANSWER_DATA_REQUEST"]
           f == frame[n]
           reply == To("REPLY_TO_POLL_FOR_MASTER", f.src, n)
           mine(type) == f # Invalid /\ f.type = type /\ f.dest = n
<1>1. /\ In(n, "IDLE") /\ f # NoFrame /\ port[n] \in Port /\ f \in Frame
      /\ port[n].Silence = 0 /\ port[n].SawOctets /\ ~ port[n].Sending /\ On(n)
      /\ ~ Deaf(n) /\ ~ HoldsToken(n) /\ ~ TokenOn(n) /\ Timers(n) /\ Quiet(n) = 0
      /\ Slot(n) \in Nat /\ Slot(n) > 0 /\ n \in Stations
  <2>1. In(n, "IDLE") /\ f # NoFrame
    BY DEF IdleFrame
  <2>2. f \in Frame /\ port[n].Silence = 0 /\ port[n].SawOctets /\ ~ port[n].Sending
    BY <2>1, IdleFields DEF In
  <2>3. Slot(n) \in Nat /\ Slot(n) > 0 /\ n \in Stations /\ port[n] \in Port
    BY PortFields, ConstantsNat DEF Stations
  <2> QED
    BY <2>1, <2>2, <2>3 DEF In, On, Deaf, HoldsToken, TokenOn, Calm, Quiet
<1>2. /\ p \in Port /\ p.state = "IDLE" /\ p.Silence = 0 /\ p.SawOctets /\ ~ p.Sending
      /\ used \in Port /\ used.state = "USE_TOKEN" /\ used.Silence = 0 /\ ~ used.Sending
      /\ answers \in Port /\ answers.state = "ANSWER_DATA_REQUEST" /\ answers.Silence = 0
      /\ ~ answers.Sending /\ answers.SawOctets
      /\ p.Sending = port[n].Sending /\ used.Sending = port[n].Sending
      /\ answers.Sending = port[n].Sending
  <2>1. /\ p \in Port /\ p.state = "IDLE" /\ p.Silence = 0 /\ p.SawOctets /\ ~ p.Sending
        /\ p.Sending = port[n].Sending
    BY <1>1 DEF Port, In
  <2> HIDE DEF p
  <2>2. /\ used \in Port /\ used.state = "USE_TOKEN" /\ used.Silence = 0
        /\ used.Sending = p.Sending
    BY <2>1, ZeroCounts DEF Port, States
  <2>3. /\ answers \in Port /\ answers.state = "ANSWER_DATA_REQUEST"
        /\ answers.Silence = 0 /\ answers.Sending = p.Sending /\ answers.SawOctets
    BY <2>1 DEF Port, States
  <2> QED
    BY <2>1, <2>2, <2>3
<1>3. \/ mine("TOKEN") /\ StepTo(n, used, NoFrame)
      \/ mine("POLL_FOR_MASTER") /\ StepSends(n, p, NoFrame, reply)
      \/ mine("DATA_EXPECTING_REPLY") /\ StepTo(n, answers, f)
      \/ StepTo(n, p, NoFrame)
  <2> HIDE DEF p, used, answers, reply
  <2> QED
    BY DEF IdleFrame, p, used, answers, reply
<1>4. \A type \in Calling : mine(type) => Live(n, f)
  BY <1>1 DEF Live
<1>5. Live(n, f) => f \in Calls(n) /\ rx[n] = << >>
  BY DEF Calls, Inbox, Calm, Boxes
<1> HIDE DEF p, used, answers, reply, f
<1>6. CASE mine("TOKEN") /\ StepTo(n, used, NoFrame)
  <2>1. f \in Calls(n) /\ f.type = "TOKEN" /\ rx[n] = << >>
    BY <1>4, <1>5, <1>6 DEF Calling
  <2>2. \A x \in Masters \ {n} : Calls(x) = {}
    BY <2>1 DEF Calm, OneCall
  <2>3. \A h \in Masters : ~ HoldsToken(h)
    BY <2>1 DEF Calm, HolderCalls, Asks
  <2>4. \A k \in Masters \ {n} : In(k, "PASS_TOKEN") /\ ~ Stale(k) => port[k].Silence = 0
    BY <2>1 DEF Calm, Passing
  <2>5. MovesTo(n, used, NoFrame)
    BY <1>1, <1>2, <2>1, <2>2, <2>3, <2>4, ConstantsNat DEF MovesTo, In
  <2> QED
    BY <1>2, <1>6, <2>5, MoveKeeps
<1>7. CASE mine("POLL_FOR_MASTER") /\ StepSends(n, p, NoFrame, reply)
  <2>1. Live(n, frame[n]) /\ frame[n].type = "POLL_FOR_MASTER"
    BY <1>4, <1>7 DEF Calling, f
  <2>2. /\ rx[n] = << >>
        /\ \A x \in Masters \ {n} : Calls(x) = {}
        /\ \A k \in Masters : In(k, "PASS_TOKEN") => Stale(k) /\ port[k].Silence = 0
        /\ \A h \in Masters : HoldsToken(h) =>
              /\ f.src = h /\ Asks(h, f) /\ Inbox(h) = {NoFrame}
              /\ port[h].Silence <= 0
    BY <1>1, <2>1, CalledFree DEF f, In
  <2>3. reply \in Frame /\ reply.src = n /\ reply.dest = f.src
        /\ reply.type = "REPLY_TO_POLL_FOR_MASTER"
    BY <1>1, FrameTyped, ConstantsNat DEF reply, To, Frame, FrameTypes, Stations
  <2>4. \A m \in Masters \ {n} :
          port[m].state \in {"IDLE", "NO_TOKEN"} => port[m].Silence < Slot(m)
    BY <1>1, NoOtherSlot, ConstantsNat
  <2>5. ASSUME NEW h \in Masters \ {n}, HoldsToken(h)
        PROVE  /\ Wants(h, reply) /\ reply.dest = h /\ Inbox(h) = {NoFrame}
               /\ port[h].Silence = 0
    BY <2>1, <2>2, <2>3, <2>5, PortFields DEF Asks, Wants, In, f
  <2>6. reply.type \notin Calling
    BY <2>3 DEF Calling
  <2>7. SpeaksInTurn(n, p, reply)
    BY <1>1, <1>2, <2>2, <2>3, <2>4, <2>5, <2>6, ConstantsNat DEF SpeaksInTurn
  <2> QED
    BY <1>2, <1>7, <2>3, <2>7, SpeakKeeps
<1>8. CASE mine("DATA_EXPECTING_REPLY") /\ StepTo(n, answers, f)
  <2>1. Live(n, f) /\ f.type = "DATA_EXPECTING_REPLY" /\ f = frame[n]
    BY <1>4, <1>8 DEF Calling, f
  <2>2. MovesTo(n, answers, f)
    BY <1>1, <1>2, <2>1 DEF MovesTo, In
  <2> QED
    BY <1>2, <1>8, <2>2, MoveKeeps
<1>9. CASE StepTo(n, p, NoFrame)
  <2>1. MovesTo(n, p, NoFrame)
    BY <1>1, <1>2 DEF MovesTo, In
  <2> QED
    BY <1>2, <1>9, <2>1, MoveKeeps
<1> QED
  BY <1>3, <1>6, <1>7, <1>8, <1>9

LEMMA UseTokenCalm ==
  ASSUME Typed, Calm, NEW n \in Masters, UseToken(n), ~ upset'
  PROVE  Calm'
<1> DEFINE p == [port[n] EXCEPT !.Now = FALSE]
           none == [p EXCEPT !.FrameCount = Nmax_info_frames,
                             !.state = "DONE_WITH_TOKEN", !.Now = TRUE]
           sent(waits) == [p EXCEPT !.FrameCount = @ + 1, !.Sending = ~ waits,
                            !.state = IF waits THEN "WAIT_FOR_REPLY"
                                      ELSE "DONE_WITH_TOKEN"]
<1>1. /\ In(n, "USE_TOKEN") /\ port[n] \in Port /\ ~ port[n].Sending
      /\ port[n].FrameCount < Nmax_info_frames /\ n \in Stations
  BY IdleFields, PortFields DEF UseToken, In, Typed, TurnsLeft, Stations
<1>2. /\ On(n) /\ HoldsToken(n) /\ TokenOn(n) /\ ~ Deaf(n)
      /\ frame[n] = NoFrame /\ rx[n] = << >> /\ Quiet(n) < Tno_token
      /\ port[n].Silence <= Treply_timeout
      /\ \A x \in Masters : Calls(x) = {}
      /\ \A h \in Masters \ {n} : ~ HoldsToken(h)
      /\ \A k \in Masters : In(k, "PASS_TOKEN") => port[k].Silence = 0
  BY <1>1, HolderFree DEF In
<1>3. /\ p \in Port /\ p.FrameCount = port[n].FrameCount /\ p.Silence = port[n].Silence
      /\ ~ p.Sending /\ p.Sending = port[n].Sending
  BY <1>1 DEF Port
<1>4. \/ StepTo(n, none, NoFrame)
      \/ \E type \in Traffic, dest \in (Stations \ {n}) \cup {BROADCAST}, waits \in BOOLEAN :
           /\ waits <=> (type = "DATA_EXPECTING_REPLY" /\ dest # BROADCAST)
           /\ StepSends(n, sent(waits), NoFrame, To(type, dest, n))
  <2>1. ASSUME NEW type \in Traffic, NEW dest \in (Stations \ {n}) \cup {BROADCAST}
        PROVE  (type = "DATA_EXPECTING_REPLY" /\ dest # BROADCAST) \in BOOLEAN
    OBVIOUS
  <2> QED
    BY <1>2, <2>1 DEF UseToken
<1> HIDE DEF p
<1>5. CASE StepTo(n, none, NoFrame)
  <2>1. /\ none \in Port /\ none.state = "DONE_WITH_TOKEN" /\ none.Silence = p.Silence
        /\ none.Sending = p.Sending
    BY <1>3, ZeroCounts DEF Port, States
  <2> HIDE DEF none
  <2>2. MovesTo(n, none, NoFrame)
    BY <1>1, <1>2, <1>3, <2>1 DEF MovesTo, In
  <2> QED
    BY <1>5, <2>1, <2>2, MoveKeeps
<1>6. ASSUME NEW type \in Traffic, NEW dest \in (Stations \ {n}) \cup {BROADCAST},
             NEW waits \in BOOLEAN,
             waits <=> (type = "DATA_EXPECTING_REPLY" /\ dest # BROADCAST),
             StepSends(n, sent(waits), NoFrame, To(type, dest, n))
      PROVE  Calm'
  <2> DEFINE f == To(type, dest, n)
             q == sent(waits)
  <2>1. f \in Frame /\ f.type = type /\ f.dest = dest /\ f.src = n
        /\ type \in DataTypes
    BY FrameTyped, MstpConstants DEF To, FrameTypes, DataTypes
  <2>2. /\ q \in Port
        /\ waits => q.state = "WAIT_FOR_REPLY" /\ ~ q.Sending
        /\ ~ waits => q.state = "DONE_WITH_TOKEN" /\ q.Sending
    <3>1. p.FrameCount + 1 \in 0 .. Nmax_info_frames
      BY <1>1, <1>3, ConstantsNat DEF Port
    <3>2. (IF waits THEN "WAIT_FOR_REPLY" ELSE "DONE_WITH_TOKEN") \in States
      BY DEF States
    <3> QED
      BY <1>3, <3>1, <3>2 DEF Port
  <2>3. StepSends(n, q, NoFrame, f)
    BY <1>6
  <2> HIDE DEF f, q, sent
  <2>4. \A m \in Masters \ {n} :
          port[m].state \in {"IDLE", "NO_TOKEN"} => port[m].Silence < Slot(m)
    BY <1>2, NoOtherSlot
  <2>5. ~ waits => \A x \in Masters : ~ Live(x, f)
    <3>1. BROADCAST \notin Masters
      BY ConstantsNat DEF BROADCAST
    <3> QED
      BY <1>6, <2>1, <3>1 DEF Live, Calling, DataTypes
  <2>6. waits => f.type = "DATA_EXPECTING_REPLY"
    BY <1>6, <2>1
  <2>7. q.state \in {"WAIT_FOR_REPLY", "DONE_WITH_TOKEN"}
        /\ (q.Sending => q.state = "DONE_WITH_TOKEN")
    BY <2>2
  <2>8. \/ q.state = "DONE_WITH_TOKEN" /\ q.Sending /\ \A x \in Masters : ~ Live(x, f)
        \/ q.state = "WAIT_FOR_REPLY" /\ f.type = "DATA_EXPECTING_REPLY"
    BY <2>2, <2>5, <2>6
  <2>9. SpeaksInTurn(n, q, f)
    BY <1>2, <2>1, <2>4, <2>7, <2>8 DEF SpeaksInTurn
  <2> QED
    BY <2>1, <2>2, <2>3, <2>9, SpeakKeeps
<1> QED
  BY <1>4, <1>5, <1>6

LEMMA ReplyCalm ==
  ASSUME Typed, Calm, NEW n \in Masters, ReplyTimeout(n) \/ WaitForReply(n)
  PROVE  Calm'
<1> DEFINE late == [port[n] EXCEPT !.FrameCount = Nmax_info_frames,
                      !.state = "DONE_WITH_TOKEN", !.Now = TRUE]
           done == [port[n] EXCEPT !.Now = TRUE, !.state = "DONE_WITH_TOKEN"]
           f == frame[n]
<1>1. In(n, "WAIT_FOR_REPLY") /\ port[n] \in Port /\ ~ port[n].Sending
  BY IdleFields, PortFields DEF ReplyTimeout, WaitForReply, In
<1>2. /\ On(n) /\ HoldsToken(n) /\ TokenOn(n) /\ ~ Deaf(n) /\ rx[n] = << >>
      /\ port[n].Silence <= Treply_timeout
      /\ \A x \in Masters : Calls(x) = {}
      /\ \A k \in Masters : In(k, "PASS_TOKEN") => port[k].Silence = 0 /\ Stale(k)
      /\ f # NoFrame => port[n].Silence = 0 /\ f \in Frame /\ f.dest = n /\ Wants(n, f)
  BY <1>1, WaiterFree DEF In, ReplyTimeout, WaitForReply
<1>3. /\ late \in Port /\ late.state = "DONE_WITH_TOKEN" /\ late.Silence = port[n].Silence
      /\ late.Sending = port[n].Sending
      /\ done \in Port /\ done.state = "DONE_WITH_TOKEN" /\ done.Silence = port[n].Silence
      /\ done.Sending = port[n].Sending
  BY <1>1, ZeroCounts DEF Port, States
<1>4. \/ StepTo(n, late, NoFrame)
      \/ StepTo(n, done, NoFrame)
  <2>1. CASE ReplyTimeout(n)
    <3>1. f = NoFrame
      BY <1>2, <2>1, ConstantsNat DEF ReplyTimeout
    <3> QED
      BY <2>1, <3>1 DEF ReplyTimeout
  <2>2. CASE WaitForReply(n)
    <3>1. f # NoFrame
      BY <2>2 DEF WaitForReply
    <3>2. f.dest = n /\ f.type \in {"REPLY_POSTPONED", "DATA_NOT_EXPECTING_REPLY"}
      BY <1>1, <1>2, <3>1 DEF Wants, In
    <3> QED
      BY <2>2, <3>2 DEF WaitForReply
  <2> QED
    BY <2>1, <2>2
<1> HIDE DEF late, done, f
<1>5. ASSUME NEW q \in Port, q.state = "DONE_WITH_TOKEN", q.Silence = port[n].Silence,
             q.Sending = port[n].Sending
      PROVE  MovesTo(n, q, NoFrame)
  BY <1>1, <1>2, <1>5 DEF MovesTo, In
<1> QED
  BY <1>3, <1>4, <1>5, MoveKeeps

\* In DONE_WITH_TOKEN, a station goes on to use the token, passes it or polls.
LEMMA DoneSteps ==
  ASSUME Typed, NEW n \in Masters, DoneWithToken(n)
  PROVE  \E q \in Port :
           /\ q.Silence = port[n].Silence /\ ~ q.Sending /\ ~ port[n].Sending
           /\ \/ q.state = "USE_TOKEN" /\ StepTo(n, q, frame[n])
              \/ PassTo(n, q, frame[n])
              \/ Poll(n, q, frame[n])
<1> DEFINE p    == [port[n] EXCEPT !.Now = FALSE]
           g    == frame[n]
           more == [p EXCEPT !.state = "USE_TOKEN", !.Now = TRUE]
           alone == [p EXCEPT !.FrameCount = 0, !.TokenCount = @ + 1,
                              !.state = "USE_TOKEN", !.Now = TRUE]
           find == [p EXCEPT !.Poll_Station = Succ(n)]
           pass == [p EXCEPT !.TokenCount = @ + 1]
           poll == [p EXCEPT !.Poll_Station = Succ(@)]
           again == [p EXCEPT !.Poll_Station = Succ(p.Next_Station),
                              !.Next_Station = n, !.TokenCount = 1]
           reset == [p EXCEPT !.Poll_Station = n, !.TokenCount = 1]
<1>1. port[n] \in Port /\ ~ port[n].Sending /\ n \in Stations
  BY PortFields DEF DoneWithToken, Stations, Port
<1>2. /\ p \in Port /\ p.Silence = port[n].Silence /\ ~ p.Sending
      /\ p.Next_Station \in Stations /\ p.Poll_Station \in Stations
      /\ p.TokenCount \in 0 .. Npoll
  BY <1>1 DEF Port
<1>3. \/ StepTo(n, more, g)
      \/ p.TokenCount < Npoll - 1 /\ StepTo(n, alone, g)
      \/ Poll(n, find, g) \/ Poll(n, poll, g) \/ Poll(n, again, g)
      \/ p.TokenCount < Npoll - 1 /\ PassTo(n, pass, g)
      \/ PassTo(n, reset, g)
  <2> HIDE DEF more, alone, find, pass, poll, again, reset
  <2> QED
    BY DEF DoneWithToken, ResetMaintenancePFM, more, alone, find, pass, poll, again, reset
<1> HIDE DEF p
<1>4. more \in Port /\ more.state = "USE_TOKEN" /\ more.Silence = p.Silence /\ ~ more.Sending
  BY <1>2 DEF Port, States
<1>5. /\ find \in Port /\ ~ find.Sending /\ poll \in Port /\ ~ poll.Sending
      /\ again \in Port /\ ~ again.Sending /\ reset \in Port /\ ~ reset.Sending
      /\ find.Silence = p.Silence /\ poll.Silence = p.Silence
      /\ again.Silence = p.Silence /\ reset.Silence = p.Silence
  BY <1>1, <1>2, SuccStation, ZeroCounts DEF Port
<1>6. ASSUME p.TokenCount < Npoll - 1
      PROVE  /\ pass \in Port /\ ~ pass.Sending /\ pass.Silence = p.Silence
             /\ alone \in Port /\ alone.state = "USE_TOKEN" /\ alone.Silence = p.Silence
             /\ ~ alone.Sending
  <2>1. p.TokenCount + 1 \in 0 .. Npoll
    BY <1>2, <1>6, ConstantsNat
  <2> QED
    BY <1>2, <2>1, ZeroCounts DEF Port, States
<1> HIDE DEF more, alone, find, pass, poll, again, reset, g
<1>7. CASE StepTo(n, more, g)
  BY <1>1, <1>2, <1>4, <1>7 DEF g
<1>8. CASE p.TokenCount < Npoll - 1 /\ (StepTo(n, alone, g) \/ PassTo(n, pass, g))
  BY <1>1, <1>2, <1>6, <1>8 DEF g
<1>9. CASE \/ Poll(n, find, g) \/ Poll(n, poll, g) \/ Poll(n, again, g)
           \/ PassTo(n, reset, g)
  BY <1>1, <1>2, <1>5, <1>9 DEF g
<1> QED
  BY <1>3, <1>7, <1>8, <1>9

LEMMA DoneCalm ==
  ASSUME Typed, Calm, NEW n \in Masters, DoneWithToken(n), ~ upset'
  PROVE  Calm'
<1>1. In(n, "DONE_WITH_TOKEN")
  BY DEF DoneWithToken
<1>2. /\ On(n) /\ HoldsToken(n) /\ TokenOn(n) /\ ~ Deaf(n)
      /\ frame[n] = NoFrame /\ rx[n] = << >> /\ Quiet(n) < Tno_token
      /\ port[n].Silence <= Treply_timeout
      /\ \A x \in Masters : Calls(x) = {}
      /\ \A h \in Masters \ {n} : ~ HoldsToken(h)
      /\ \A k \in Masters : In(k, "PASS_TOKEN") => port[k].Silence = 0
  BY <1>1, HolderFree DEF In
<1>3. HasTurn(n)
  BY <1>2, TurnOf
<1>4. PICK q \in Port :
        /\ q.Silence = port[n].Silence /\ ~ q.Sending /\ ~ port[n].Sending
        /\ \/ q.state = "USE_TOKEN" /\ StepTo(n, q, NoFrame)
           \/ PassTo(n, q, NoFrame)
           \/ Poll(n, q, NoFrame)
  BY <1>2, DoneSteps
<1>5. CASE q.state = "USE_TOKEN" /\ StepTo(n, q, NoFrame)
  <2>1. q.Sending = port[n].Sending
    BY <1>4, PortFields DEF Port
  <2>2. MovesTo(n, q, NoFrame)
    BY <1>1, <1>2, <1>4, <1>5, <2>1 DEF MovesTo, In
  <2> QED
    BY <1>5, <2>2, MoveKeeps
<1>6. CASE PassTo(n, q, NoFrame)
  BY <1>3, <1>4, <1>6, PassKeeps
<1>7. CASE Poll(n, q, NoFrame)
  BY <1>3, <1>4, <1>7, PollKeeps
<1> QED
  BY <1>4, <1>5, <1>6, <1>7

LEMMA PassTokenCalm ==
  ASSUME Typed, Calm, NEW n \in Masters, PassToken(n), ~ upset'
  PROVE  Calm'
<1> DEFINE p     == port[n]
           retry == [p EXCEPT !.RetryCount = @ + 1, !.SawOctets = FALSE]
           find  == [p EXCEPT !.Poll_Station = Succ(p.Next_Station),
                              !.Next_Station = n, !.TokenCount = 0]
           f     == To("TOKEN", p.Next_Station, n)
<1>1. /\ In(n, "PASS_TOKEN") /\ p.Silence > Tusage_timeout /\ p \in Port /\ ~ p.Sending
      /\ n \in Stations /\ p.Silence \in Nat /\ p.Silence <= Tusage_timeout + 1
      /\ Flags(n) /\ Timers(n)
  BY IdleFields, PortFields DEF PassToken, Stations, In, Calm, Timers
<1>2. ~ Stale(n)
  BY <1>1, ConstantsNat DEF Timers
<1>3. rx[n] = << >> /\ frame[n] = NoFrame /\ On(n) /\ ~ Deaf(n)
  BY <1>1, <1>2 DEF Stale, Flags, On, Deaf, In
<1>4. Quiet(n) < Tno_token
  BY <1>1, <1>3, ConstantsNat DEF Quiet
<1>5. /\ \A k \in Masters : In(k, "PASS_TOKEN") /\ ~ Stale(k) => k = n
      /\ \A x \in Masters : \A g \in Calls(x) : p.Silence = 0
      /\ \A h \in Masters : HoldsToken(h) => p.Silence = 0
  BY <1>1, <1>2 DEF Calm, Passing
<1>6. /\ \A x \in Masters : Calls(x) = {}
      /\ \A h \in Masters : ~ HoldsToken(h)
  BY <1>1, <1>5, ConstantsNat
<1>7. \A k \in Masters \ {n} : In(k, "PASS_TOKEN") => port[k].Silence = 0
  BY <1>5 DEF Calm, Timers
<1>8. HasTurn(n)
  BY <1>3, <1>4, <1>6, <1>7, TurnOf
<1>9. CASE p.RetryCount < Nretry_token
  <2>1. /\ retry \in Port /\ retry.state = "PASS_TOKEN" /\ ~ retry.Sending
        /\ ~ retry.SawOctets
    <3>1. p.RetryCount + 1 \in 0 .. Nretry_token
      BY <1>1, <1>9, ConstantsNat DEF Port
    <3>2. p \in Port /\ p.state = "PASS_TOKEN" /\ ~ p.Sending
      BY <1>1 DEF In
    <3> HIDE DEF p
    <3> QED
      BY <3>1, <3>2 DEF Port
  <2>2. f \in Frame /\ f.type = "TOKEN" /\ f.src = n
    BY <1>1, FrameTyped DEF FrameTypes, Port, To
  <2>3. StepSends(n, retry, NoFrame, f)
    BY <1>3, <1>9 DEF PassToken
  <2> HIDE DEF retry, f
  <2>4. SpeaksInTurn(n, retry, f)
    BY <1>8, <2>1, <2>2 DEF SpeaksInTurn, HasTurn
  <2> QED
    BY <2>1, <2>2, <2>3, <2>4, SpeakKeeps
<1>10. CASE ~ (p.RetryCount < Nretry_token)
  <2>1. find \in Port /\ ~ find.Sending
    BY <1>1, SuccStation, ZeroCounts DEF Port
  <2>2. Poll(n, find, NoFrame)
    BY <1>3, <1>10 DEF PassToken, FindNewSuccessor
  <2> HIDE DEF find
  <2> QED
    BY <1>8, <2>1, <2>2, PollKeeps
<1> QED
  BY <1>9, <1>10

\* A station that generates a token is the first whose slot has come: all the
\* others count the same silence, and wait for theirs.
LEMMA GenerateCalm ==
  ASSUME Typed, Calm, NEW n \in Masters, GenerateToken(n), ~ upset'
  PROVE  Calm'
<1> DEFINE p == [port[n] EXCEPT !.Poll_Station = Succ(n), !.Next_Station = n,
                   !.TokenCount = 0, !.Now = FALSE]
<1>1. /\ In(n, "NO_TOKEN") /\ TokenSlot(n) /\ port[n] \in Port /\ ~ port[n].Sending
      /\ n \in Stations /\ n \in Nat /\ Timers(n) /\ port[n].Silence \in Nat
      /\ Slot(n) \in Nat /\ Slot(n) >= Tno_token /\ Treply_delay + 1 < Tno_token
      /\ Treply_delay \in Nat /\ Tno_token \in Nat
  BY IdleFields, PortFields, ConstantsNat DEF GenerateToken, Stations, In, Calm
<1>2. port[n].Silence = Slot(n)
  BY <1>1, InSlot DEF Timers, In
<1>3. rx[n] = << >> /\ On(n)
  BY <1>1, <1>2 DEF Timers, In, On
<1>4. /\ \A m \in Masters : ~ TokenOn(m)
      /\ \A m \in Masters : On(m) => Quiet(m) = Slot(n)
  BY <1>1, <1>2, <1>3, Silent DEF In
<1>5. ASSUME NEW x \in Masters
      PROVE  rx[x] = << >> /\ frame[x] = NoFrame /\ (On(x) => port[x].Silence = Slot(n))
  <2>1. Flags(x) /\ Timers(x) /\ port[x].Silence \in Nat
    BY <1>5, PortFields DEF Calm
  <2>2. CASE On(x)
    <3>1. rx[x] = << >> /\ port[x].Silence = Slot(n)
      BY <1>1, <1>4, <2>2 DEF Quiet
    <3> QED
      BY <1>1, <2>1, <3>1 DEF Flags, Timers
  <2>3. CASE ~ On(x)
    BY <2>1, <2>3 DEF Flags
  <2> QED
    BY <2>2, <2>3
<1>6. \A x \in Masters : Calls(x) = {}
  BY <1>5, MstpFlags DEF Calls, Inbox, Live
<1>7. ASSUME NEW m \in Masters \ {n}, port[m].state \in {"IDLE", "NO_TOKEN"}
      PROVE  port[m].Silence < Slot(m)
  <2>1. port[m].Silence = Slot(n) /\ port[m].Silence <= Slot(m)
    BY <1>5, <1>7 DEF On, Calm, Timers
  <2>2. m \in Nat /\ (m < n \/ n < m) /\ Slot(m) \in Nat
    BY <1>1, <1>7, PortFields
  <2>3. Slot(m) < Slot(n) \/ Slot(n) < Slot(m)
    BY <1>1, <2>2, SlotsApart
  <2> QED
    BY <1>1, <2>1, <2>2, <2>3
<1>8. HasTurn(n)
  BY <1>3, <1>4, <1>6, <1>7 DEF HasTurn, TokenOn, In
<1>9. p \in Port /\ ~ p.Sending
  BY <1>1, SuccStation, ZeroCounts DEF Port
<1>10. Poll(n, p, NoFrame)
  BY <1>5 DEF GenerateToken
<1> HIDE DEF p
<1> QED
  BY <1>8, <1>9, <1>10, PollKeeps

LEMMA PollCalm ==
  ASSUME Typed, Calm, NEW n \in Masters, PollFrame(n) \/ PollTimeout(n), ~ upset'
  PROVE  Calm'
<1> DEFINE p     == port[n]
           f     == frame[n]
           found == [p EXCEPT !.SoleMaster = FALSE, !.Next_Station = f.src,
                              !.Poll_Station = n, !.TokenCount = 0]
           used  == [p EXCEPT !.FrameCount = 0, !.state = "USE_TOKEN", !.Now = TRUE]
           sole  == [used EXCEPT !.SoleMaster = TRUE]
           next  == [p EXCEPT !.Poll_Station = Succ(@)]
<1>1. /\ In(n, "POLL_FOR_MASTER") /\ p \in Port /\ ~ p.Sending /\ n \in Stations
      /\ f \in Frame \cup {NoFrame} /\ f # Invalid
  BY IdleFields, PortFields, MstpFlags, MstpConstants DEF PollFrame, PollTimeout, Stations, In
<1>2. /\ On(n) /\ HoldsToken(n) /\ TokenOn(n) /\ ~ Deaf(n)
      /\ rx[n] = << >> /\ Quiet(n) < Tno_token
      /\ p.Silence <= Treply_timeout
      /\ \A x \in Masters : Calls(x) = {}
      /\ \A h \in Masters \ {n} : ~ HoldsToken(h)
      /\ \A k \in Masters : In(k, "PASS_TOKEN") => port[k].Silence = 0 /\ Stale(k)
      /\ f # NoFrame => f \in Frame /\ f.dest = n /\ Wants(n, f)
  BY <1>1, WaiterFree DEF In, PollFrame, PollTimeout
<1>3. HasTurn(n)
  BY <1>2, TurnOf
<1>4. CASE PollFrame(n)
  <2>1. f \in Frame /\ f.dest = n /\ f.type = "REPLY_TO_POLL_FOR_MASTER"
    BY <1>1, <1>2, <1>4 DEF PollFrame, Wants, In
  <2>2. PassTo(n, found, NoFrame)
    BY <1>4, <2>1 DEF PollFrame
  <2>3. found \in Port /\ ~ found.Sending
    <3>1. f.src \in Stations
      BY <2>1, ConstantsNat DEF Frame, Stations
    <3> QED
      BY <1>1, <3>1, ZeroCounts DEF Port
  <2> HIDE DEF found
  <2> QED
    BY <1>3, <2>2, <2>3, PassKeeps
<1>5. CASE PollTimeout(n)
  <2>1. \/ StepTo(n, used, NoFrame) \/ PassTo(n, p, NoFrame)
        \/ Poll(n, next, NoFrame) \/ StepTo(n, sole, NoFrame)
    <3> HIDE DEF sole, next
    <3> QED
      BY <1>5 DEF PollTimeout, sole, next
  <2>2. /\ used \in Port /\ used.state = "USE_TOKEN" /\ used.Silence = p.Silence
        /\ used.Sending = p.Sending
    BY <1>1, ZeroCounts DEF Port, States
  <2>3. /\ sole \in Port /\ sole.state = "USE_TOKEN" /\ sole.Silence = p.Silence
        /\ sole.Sending = p.Sending
    <3> HIDE DEF used
    <3> QED
      BY <2>2 DEF Port
  <2>4. next \in Port /\ ~ next.Sending
    BY <1>1, SuccStation DEF Port
  <2> HIDE DEF used, sole, next
  <2>5. ASSUME NEW q \in Port, q.state = "USE_TOKEN", q.Silence = p.Silence,
               q.Sending = p.Sending
        PROVE  MovesTo(n, q, NoFrame)
    BY <1>1, <1>2, <2>5 DEF MovesTo, In
  <2>6. CASE StepTo(n, used, NoFrame) \/ StepTo(n, sole, NoFrame)
    BY <2>2, <2>3, <2>5, <2>6, MoveKeeps
  <2>7. CASE PassTo(n, p, NoFrame)
    BY <1>1, <1>3, <2>7, PassKeeps
  <2>8. CASE Poll(n, next, NoFrame)
    BY <1>3, <2>4, <2>8, PollKeeps
  <2> QED
    BY <2>1, <2>6, <2>7, <2>8
<1> QED
  BY <1>4, <1>5

LEMMA AnswerCalm ==
  ASSUME Typed, Calm, NEW n \in Masters, AnswerDataRequest(n), ~ upset'
  PROVE  Calm'
<1> DEFINE p == [port[n] EXCEPT !.state = "IDLE"]
           g == frame[n]
<1>1. /\ In(n, "ANSWER_DATA_REQUEST") /\ port[n] \in Port /\ ~ port[n].Sending
      /\ Live(n, g) /\ g.type = "DATA_EXPECTING_REPLY" /\ On(n) /\ ~ Deaf(n)
      /\ port[n].Silence <= Treply_delay + 1 /\ port[n].Silence \in Nat
  BY IdleFields, PortFields DEF AnswerDataRequest, In, Calm, Boxes, On, Deaf, Timers
<1>2. /\ rx[n] = << >>
      /\ \A x \in Masters \ {n} : Calls(x) = {}
      /\ \A k \in Masters : In(k, "PASS_TOKEN") => Stale(k) /\ port[k].Silence = 0
      /\ \A h \in Masters : HoldsToken(h) =>
           /\ g.src = h /\ Asks(h, g) /\ Inbox(h) = {NoFrame}
           /\ port[h].Silence <= port[n].Silence
  BY <1>1, CalledFree
<1>3. PICK type \in {"DATA_NOT_EXPECTING_REPLY", "REPLY_POSTPONED"} :
        StepSends(n, p, NoFrame, To(type, g.src, n))
  BY DEF AnswerDataRequest
<1> DEFINE f == To(type, g.src, n)
<1>4. /\ f \in Frame /\ f.src = n /\ f.dest = g.src
      /\ f.type \in {"DATA_NOT_EXPECTING_REPLY", "REPLY_POSTPONED"}
  <2>1. g.src \in Stations
    BY <1>1, ConstantsNat DEF Live, Frame, Stations
  <2>2. type \in FrameTypes
    BY DEF FrameTypes, DataTypes
  <2> QED
    BY <2>1, <2>2, FrameTyped DEF To
<1>5. p \in Port /\ p.state = "IDLE" /\ ~ p.Sending
  BY <1>1 DEF Port, States
<1>6. StepSends(n, p, NoFrame, f)
  BY <1>3
<1> HIDE DEF p, f, g
<1>7. \A m \in Masters \ {n} :
        port[m].state \in {"IDLE", "NO_TOKEN"} => port[m].Silence < Slot(m)
  <2>1. Quiet(n) < Tno_token
    BY <1>1, <1>2, ConstantsNat DEF Quiet
  <2> QED
    BY <1>1, <2>1, NoOtherSlot
<1>8. ASSUME NEW h \in Masters \ {n}, HoldsToken(h)
      PROVE  /\ In(h, "WAIT_FOR_REPLY") /\ ~ In(h, "POLL_FOR_MASTER")
             /\ Wants(h, f) /\ f.dest = h /\ Inbox(h) = {NoFrame}
             /\ port[h].Silence <= Treply_delay + 1
  <2>1. In(h, "WAIT_FOR_REPLY")
    BY <1>1, <1>2, <1>8 DEF Asks
  <2>2. port[h].Silence <= port[n].Silence /\ port[h].Silence \in Nat
    BY <1>2, <1>8, PortFields
  <2> QED
    BY <1>1, <1>2, <1>4, <1>8, <2>1, <2>2, ConstantsNat DEF Wants, In
<1>9. f.type \notin Calling
  BY <1>4 DEF Calling
<1>10. SpeaksInTurn(n, p, f)
  BY <1>1, <1>2, <1>4, <1>5, <1>7, <1>8, <1>9 DEF SpeaksInTurn
<1> QED
  BY <1>4, <1>5, <1>6, <1>10, SpeakKeeps

----------------------------------------------------------------------------
(* The steps of the bus keep it calm.                                      *)

LEMMA ReceiveCalm ==
  ASSUME Typed, Calm, NEW n \in Masters, Receive(n)
  PROVE  Calm'
<1> DEFINE s == rx[n]
           g == Flagged(n, Head(s))
<1>1. /\ On(n) /\ frame[n] = NoFrame /\ s # << >>
      /\ port[n] \in Port /\ s \in Seq(Frame)
      /\ Flags(n) /\ Timers(n) /\ Boxes(n) /\ ~ Live(n, NoFrame)
  BY PortFields, MstpFlags DEF Receive, Calm, Flags, Live
<1>2. ~ In(n, "ANSWER_DATA_REQUEST") /\ port[n].state \notin {"USE_TOKEN", "DONE_WITH_TOKEN"}
  BY <1>1 DEF Boxes
<1>3. /\ rx'[n] = Tail(s) /\ frame'[n] = g
      /\ port'[n].state = port[n].state /\ port'[n].SawOctets /\ port'[n].Silence = 0
      /\ port'[n].Sending = port[n].Sending
      /\ \A m \in Masters \ {n} :
           port'[m] = port[m] /\ frame'[m] = frame[m] /\ rx'[m] = rx[m]
  BY <1>1 DEF Receive, Typed, MstpTypeOK, Port
<1>4. /\ Tail(s) \in Seq(Frame) /\ Head(s) = s[1] /\ Head(s) \in Frame
      /\ Len(s) \in Nat /\ Len(s) > 0 /\ Len(Tail(s)) = Len(s) - 1
      /\ \A i \in 1 .. Len(Tail(s)) : i + 1 \in 1 .. Len(s) /\ Tail(s)[i] = s[i + 1]
      /\ Len(s) = 1 => Tail(s) = << >>
  <2> HIDE DEF s
  <2>1. Len(s) \in Nat /\ Len(s) > 0 /\ Head(s) = s[1] /\ Head(s) \in Frame
    BY <1>1
  <2>2. Tail(s) \in Seq(Frame) /\ Len(Tail(s)) = Len(s) - 1
    BY <1>1
  <2>3. \A i \in 1 .. Len(Tail(s)) : i + 1 \in 1 .. Len(s) /\ Tail(s)[i] = s[i + 1]
    BY <1>1, <2>1, <2>2
  <2>4. Len(s) = 1 => Tail(s) = << >>
    <3> DEFINE t == Tail(s)
    <3>1. t \in Seq(Frame) /\ Len(t) = Len(s) - 1
      BY <2>2
    <3> HIDE DEF t
    <3>2. Len(s) = 1 => Len(t) = 0
      BY <3>1
    <3>3. Len(t) = 0 => t = << >>
      BY <3>1
    <3>4. Len(s) = 1 => t = << >>
      BY <3>2, <3>3
    <3> QED
      BY <3>4 DEF t
  <2> QED
    BY <2>1, <2>2, <2>3, <2>4
<1>5. /\ g \in {Head(s), NoFrame} /\ g # Invalid
      /\ Head(s) \in Inbox(n)
  <2>1. Head(s) # Invalid /\ NoFrame # Invalid
    BY <1>4, MstpFlags, MstpConstants
  <2>2. 1 \in 1 .. Len(s)
    BY <1>4
  <2> QED
    BY <1>4, <2>1, <2>2 DEF Flagged, Inbox
<1> HIDE DEF g
<1>6. Inbox(n)' \subseteq Inbox(n)
  <2> SUFFICES ASSUME NEW c \in Inbox(n)' PROVE c \in Inbox(n)
    OBVIOUS
  <2>1. c = g \/ \E i \in 1 .. Len(Tail(s)) : c = Tail(s)[i]
    BY <1>3 DEF Inbox
  <2>2. CASE c = g
    BY <1>1, <1>5, <2>2 DEF Inbox
  <2>3. ASSUME NEW i \in 1 .. Len(Tail(s)), c = Tail(s)[i] PROVE c \in Inbox(n)
    BY <1>4, <2>3 DEF Inbox
  <2> QED
    BY <2>1, <2>2, <2>3
<1>7. \A m \in Masters \ {n} : Inbox(m)' = Inbox(m) /\ Calls(m)' = Calls(m)
  BY <1>3 DEF Inbox, Calls, Live
<1>8. \A m \in Masters : Calls(m)' \subseteq Calls(m)
  BY <1>6, <1>7 DEF Calls, Live
<1>9. /\ \A m \in Masters : /\ On(m)' <=> On(m)
                            /\ HoldsToken(m)' <=> HoldsToken(m)
                            /\ TokenOn(m)' <=> TokenOn(m)
                            /\ \A st : In(m, st)' <=> In(m, st)
                            /\ port'[m].Sending = port[m].Sending
      /\ \A m \in Masters \ {n} : (Deaf(m)' <=> Deaf(m)) /\ (Stale(m)' <=> Stale(m))
      /\ ~ Deaf(n) /\ Stale(n)'
  BY <1>1, <1>3 DEF On, HoldsToken, TokenOn, In, Deaf, Stale
<1>10. \A m \in Masters : Flags(m)'
  <2> TAKE m \in Masters
  <2>1. CASE m = n
    BY <1>1, <1>2, <1>3, <1>4, <1>5, <1>9, <2>1 DEF Flags, In
  <2>2. CASE m # n
    <3>1. Flags(m)
      BY DEF Calm
    <3> QED
      BY <1>3, <1>9, <2>2, <3>1 DEF Flags
  <2> QED
    BY <2>1, <2>2
<1>11. \A m \in Masters : Timers(m)'
  <2> TAKE m \in Masters
  <2>1. Slot(m)' = Slot(m) /\ Slot(m) \in Nat /\ Slot(m) > 0
    BY PortFields, ConstantsNat DEF Slot
  <2>2. CASE m = n
    BY <1>3, <2>1, <2>2, ConstantsNat DEF Timers
  <2>3. CASE m # n
    <3>1. Timers(m)
      BY DEF Calm
    <3> QED
      BY <1>3, <1>9, <2>1, <2>3, <3>1 DEF Timers
  <2> QED
    BY <2>2, <2>3
<1>12. \A m \in Masters : Boxes(m)'
  <2> TAKE m \in Masters
  <2>1. CASE m = n
    <3>1. \A i \in 1 .. Len(Tail(s)) : Live(n, Tail(s)[i]) => i = Len(Tail(s))
      BY <1>1, <1>4 DEF Boxes
    <3>2. Live(n, g) => Tail(s) = << >>
      <4>1. SUFFICES ASSUME Live(n, g) PROVE Len(s) = 1
        BY <1>4
      <4>2. Live(n, s[1]) /\ 1 \in 1 .. Len(s)
        BY <1>1, <1>4, <1>5, <4>1
      <4> QED
        BY <1>1, <4>2 DEF Boxes
    <3>3. ASSUME port[n].state \in {"WAIT_FOR_REPLY", "POLL_FOR_MASTER"}
          PROVE  /\ \A c \in Inbox(n)' \ {NoFrame} : c.dest = n /\ Wants(n, c)'
                 /\ Tail(s) = << >>
                 /\ \A x \in Masters : Calls(x)' = {}
      <4>1. /\ \A c \in Inbox(n) \ {NoFrame} : c.dest = n /\ Wants(n, c)
            /\ Len(s) <= 1
            /\ Inbox(n) # {NoFrame} => \A x \in Masters : Calls(x) = {}
        BY <1>1, <3>3 DEF Boxes
      <4>2. \A c : Wants(n, c)' <=> Wants(n, c)
        BY <1>9 DEF Wants
      <4>3. Inbox(n) # {NoFrame}
        BY <1>1, EmptyInbox
      <4>4. \A x \in Masters : Calls(x)' = {}
        BY <1>8, <4>1, <4>3
      <4>5. Tail(s) = << >>
        BY <1>4, <4>1
      <4> QED
        BY <1>6, <4>1, <4>2, <4>4, <4>5
    <3> HIDE DEF s
    <3>4. /\ (\A i \in 1 .. Len(rx[n]) : Live(n, rx[n][i]) => i = Len(rx[n]))'
          /\ (Live(n, frame[n]) => rx[n] = << >>)'
      BY <1>3, <3>1, <3>2 DEF Live
    <3>5. ASSUME port'[n].state \in {"WAIT_FOR_REPLY", "POLL_FOR_MASTER"}
          PROVE  rx'[n] = << >> /\ Len(rx'[n]) <= 1
      <4>1. rx'[n] = << >>
        BY <1>3, <3>3, <3>5
      <4>2. Len(<< >>) <= 1
        OBVIOUS
      <4> QED
        BY <4>1, <4>2
    <3> QED
      BY <1>2, <1>3, <1>9, <2>1, <3>3, <3>4, <3>5 DEF Boxes, In
  <2>2. CASE m # n
    <3>1. Boxes(m) /\ port'[m] = port[m] /\ frame'[m] = frame[m] /\ rx'[m] = rx[m]
          /\ Inbox(m)' = Inbox(m)
      BY <1>3, <1>7, <2>2 DEF Calm
    <3>2. (\A x \in Masters : Calls(x) = {}) => (\A x \in Masters : Calls(x)' = {})
      BY <1>8
    <3>3. \A h : Wants(m, h)' <=> Wants(m, h)
      BY <3>1 DEF Wants, In
    <3> QED
      BY <3>1, <3>2, <3>3 DEF Boxes, In, Live
  <2> QED
    BY <2>1, <2>2
<1>13. OneCall'
  BY <1>8 DEF OneCall, Calm
<1>14. OneHolder'
  BY <1>9 DEF OneHolder, Calm
<1>15. HolderCalls'
  <2> SUFFICES ASSUME NEW h \in Masters, NEW x \in Masters, HoldsToken(h)',
                      NEW c \in Calls(x)'
               PROVE  /\ c.src = h /\ Asks(h, c)'
                      /\ port'[h].Silence <= (IF In(x, "ANSWER_DATA_REQUEST")'
                                                THEN port'[x].Silence ELSE 0)
    BY DEF HolderCalls
  <2>1. /\ c.src = h /\ Asks(h, c)
        /\ port[h].Silence <= (IF In(x, "ANSWER_DATA_REQUEST") THEN port[x].Silence ELSE 0)
    BY <1>8, <1>9 DEF Calm, HolderCalls
  <2>2. Asks(h, c)'
    BY <1>9, <2>1 DEF Asks
  <2>3. CASE h = n
    <3>1. In(x, "ANSWER_DATA_REQUEST")' => x # n /\ port'[x].Silence \in Nat
      BY <1>2, <1>3, <1>9, PortFields
    <3> QED
      BY <1>3, <2>1, <2>2, <2>3, <3>1
  <2>4. CASE h # n
    <3>1. CASE x = n
      BY <1>2, <1>3, <1>9, <2>1, <2>2, <2>4, <3>1
    <3>2. CASE x # n
      BY <1>3, <1>9, <2>1, <2>2, <2>4, <3>2
    <3> QED
      BY <3>1, <3>2
  <2> QED
    BY <2>3, <2>4
<1>16. Passing'
  <2> SUFFICES ASSUME NEW k \in Masters, In(k, "PASS_TOKEN")', ~ Stale(k)'
               PROVE  /\ \A m \in Masters : In(m, "PASS_TOKEN")' /\ ~ Stale(m)' => m = k
                      /\ \A x \in Masters : \A c \in Calls(x)' :
                           c.type = "TOKEN" /\ port'[k].Silence = 0
                      /\ \A h \in Masters : HoldsToken(h)' =>
                           /\ port'[k].Silence = 0
                           /\ (In(h, "USE_TOKEN")'
                               \/ (In(h, "DONE_WITH_TOKEN")' /\ ~ port'[h].Sending))
    BY DEF Passing
  <2>1. k # n /\ In(k, "PASS_TOKEN") /\ ~ Stale(k) /\ port'[k] = port[k]
    BY <1>3, <1>9
  <2>2. /\ \A m \in Masters : In(m, "PASS_TOKEN") /\ ~ Stale(m) => m = k
        /\ \A x \in Masters : \A c \in Calls(x) : c.type = "TOKEN" /\ port[k].Silence = 0
        /\ \A h \in Masters : HoldsToken(h) =>
             /\ port[k].Silence = 0
             /\ (In(h, "USE_TOKEN") \/ (In(h, "DONE_WITH_TOKEN") /\ ~ port[h].Sending))
    BY <2>1 DEF Calm, Passing
  <2> QED
    BY <1>8, <1>9, <2>1, <2>2
<1>17. \A m \in Masters : Quiet(m)' = Quiet(m)
  BY <1>1, <1>3 DEF Quiet
<1>18. InStep'
  BY <1>9, <1>17 DEF InStep, Calm
<1> QED
  BY <1>10, <1>11, <1>12, <1>13, <1>14, <1>15, <1>16, <1>18 DEF Calm

\* No silence is longer than the wait for the station's own slot.
LEMMA SilenceShort ==
  ASSUME Typed, Calm, NEW m \in Masters, On(m)
  PROVE  port[m].Silence <= Slot(m) /\ port[m].Silence < MaxSilence
<1>1. /\ Timers(m) /\ port[m].Silence \in Nat /\ port[m].state \in States
      /\ Slot(m) \in Nat /\ Slot(m) >= Tno_token /\ m \in 0 .. Nmax_master
  BY PortFields DEF Calm
<1>2. Slot(m) + 1 < MaxSilence /\ MaxSilence \in Nat
  BY <1>1, MaxSilenceLate
<1>3. port[m].Silence <= Slot(m)
  BY <1>1, ConstantsNat DEF Timers, In, On, States
<1> QED
  BY <1>1, <1>2, <1>3

\* Time passes only when everything that was sent has been handled, but for
\* the request that a station is answering.
LEMMA QuietTick ==
  ASSUME Typed, Calm, NEW m \in Masters, ~ Ready(m)
  PROVE  /\ rx[m] = << >>
         /\ frame[m] # NoFrame => In(m, "ANSWER_DATA_REQUEST")
<1>1. Flags(m) /\ Boxes(m) /\ port[m].state \in States
  BY PortFields DEF Calm
<1>2. On(m) => frame[m] # NoFrame \/ rx[m] = << >>
  BY DEF Ready
<1>3. frame[m] # NoFrame => In(m, "ANSWER_DATA_REQUEST")
  BY <1>1 DEF Flags, Ready, States, In, On
<1>4. In(m, "ANSWER_DATA_REQUEST") => rx[m] = << >>
  BY <1>1 DEF Boxes
<1> QED
  BY <1>1, <1>2, <1>3, <1>4 DEF Flags

LEMMA TickCalm ==
  ASSUME Typed, Calm, Tick
  PROVE  Calm'
<1>1. \A m \in Masters : rx[m] = << >> /\ (frame[m] # NoFrame => In(m, "ANSWER_DATA_REQUEST"))
  BY QuietTick DEF Tick
<1>2. /\ rx' = rx /\ frame' = frame
      /\ \A m \in Masters :
           /\ port'[m].state = port[m].state /\ port'[m].SawOctets = port[m].SawOctets
           /\ ~ port'[m].Sending
           /\ On(m) => port'[m].Silence = port[m].Silence + 1
           /\ port[m].Silence \in Nat
  <2> DEFINE q(m) == [port[m] EXCEPT !.Sending = FALSE,
                   !.Silence = IF On(m) /\ @ < MaxSilence THEN @ + 1 ELSE @]
  <2>1. port' = [m \in Masters |-> q(m)] /\ rx' = rx /\ frame' = frame
    BY DEF Tick
  <2>2. ASSUME NEW m \in Masters
        PROVE  /\ q(m).state = port[m].state /\ q(m).SawOctets = port[m].SawOctets
               /\ ~ q(m).Sending
               /\ On(m) => q(m).Silence = port[m].Silence + 1
               /\ port[m].Silence \in Nat
    BY SilenceShort, PortFields DEF Port
  <2> HIDE DEF q
  <2> QED
    BY <2>1, <2>2
<1>3. /\ \A m \in Masters : /\ On(m)' <=> On(m)
                            /\ HoldsToken(m)' <=> HoldsToken(m)
                            /\ TokenOn(m)' <=> TokenOn(m)
                            /\ \A st : In(m, st)' <=> In(m, st)
                            /\ Deaf(m)' <=> Deaf(m)
                            /\ Stale(m)' <=> Stale(m)
  BY <1>2 DEF On, HoldsToken, TokenOn, In, Deaf, Stale
<1>4. \A m \in Masters : Inbox(m)' = Inbox(m) /\ Calls(m)' = Calls(m)
  BY <1>2 DEF Inbox, Calls, Live
<1>5. ASSUME NEW x \in Masters, NEW c \in Calls(x)
      PROVE  In(x, "ANSWER_DATA_REQUEST") /\ c.type = "DATA_EXPECTING_REPLY"
  <2>1. rx[x] = << >> /\ rx[x] \in Seq(Frame) /\ ~ Live(x, NoFrame)
    BY <1>1, MstpFlags DEF Calm, Flags, Live
  <2>2. Inbox(x) = {frame[x]}
    BY <2>1, EmptyInbox
  <2>3. c = frame[x] /\ frame[x] # NoFrame
    BY <1>5, <2>1, <2>2 DEF Calls
  <2> QED
    BY <1>1, <2>3 DEF Calm, Boxes
<1>6. \A m \in Masters : Flags(m)'
  <2> TAKE m \in Masters
  <2>1. Flags(m)
    BY DEF Calm
  <2> QED
    BY <1>1, <1>2, <1>3, <2>1 DEF Flags
<1>7. \A m \in Masters : Timers(m)'
  <2> TAKE m \in Masters
  <2>1. /\ Timers(m) /\ ~ Ready(m) /\ port[m].Silence \in Nat
        /\ Slot(m) \in Nat /\ Slot(m) >= Tno_token /\ Slot(m)' = Slot(m)
    BY PortFields DEF Calm, Tick, Slot
  <2>2. ~ In(m, "INITIALIZE") /\ ~ In(m, "USE_TOKEN")
    BY <2>1 DEF Ready, In
  <2>3. In(m, "IDLE") => port[m].Silence + 1 <= Slot(m)
    BY <2>1, ConstantsNat DEF Ready, In
  <2>4. In(m, "NO_TOKEN") => port[m].Silence + 1 <= Slot(m)
    <3>1. In(m, "NO_TOKEN") => ~ TokenSlot(m) /\ port[m].Silence <= Slot(m)
      BY <2>1 DEF Ready, In, Timers
    <3>2. In(m, "NO_TOKEN") => port[m].Silence # Slot(m)
      BY <2>1, <3>1, InSlot
    <3> QED
      BY <2>1, <3>1, <3>2
  <2>5. In(m, "ANSWER_DATA_REQUEST") => port[m].Silence + 1 <= Treply_delay + 1
    BY <2>1, ConstantsNat DEF Ready, In
  <2>6. In(m, "WAIT_FOR_REPLY") => port[m].Silence + 1 <= Treply_timeout
    BY <2>1, ConstantsNat DEF Ready, In
  <2>7. In(m, "DONE_WITH_TOKEN") => port[m].Silence + 1 <= Treply_timeout
    <3>1. In(m, "DONE_WITH_TOKEN") => port[m].Silence = 0
      BY <2>1 DEF Ready, In, Timers
    <3> QED
      BY <3>1, ConstantsNat
  <2>8. In(m, "PASS_TOKEN") \/ In(m, "POLL_FOR_MASTER") =>
          port[m].Silence + 1 <= Tusage_timeout + 1
    BY <2>1, ConstantsNat DEF Ready, In
  <2>9. In(m, "PASS_TOKEN") => ~ Stale(m)
    BY <1>1, <2>1 DEF Ready, In, Stale
  <2>10. rx'[m] = << >> /\ ~ port'[m].Sending
         /\ (On(m) => port'[m].Silence = port[m].Silence + 1)
    BY <1>1, <1>2
  <2>11. port[m].state # "OFF" => port'[m].Silence = port[m].Silence + 1
    BY <2>10 DEF On
  <2> QED
    BY <1>2, <1>3, <2>1, <2>2, <2>3, <2>4, <2>5, <2>6, <2>7, <2>8, <2>9, <2>10, <2>11
       DEF Timers, In
<1>8. \A m \in Masters : Boxes(m)'
  <2> TAKE m \in Masters
  <2>1. Boxes(m) /\ rx[m] = << >> /\ rx' = rx /\ frame' = frame
    BY <1>1, <1>2 DEF Calm
  <2>2. \A g : Wants(m, g)' <=> Wants(m, g)
    BY <1>3 DEF Wants
  <2> QED
    BY <1>2, <1>3, <1>4, <2>1, <2>2 DEF Boxes, Live
<1>9. OneCall' /\ OneHolder'
  BY <1>3, <1>4 DEF OneCall, OneHolder, Calm
<1>10. HolderCalls'
  <2> SUFFICES ASSUME NEW h \in Masters, NEW x \in Masters, HoldsToken(h),
                      NEW c \in Calls(x)
               PROVE  /\ c.src = h /\ Asks(h, c)'
                      /\ port'[h].Silence <= (IF In(x, "ANSWER_DATA_REQUEST")'
                                                THEN port'[x].Silence ELSE 0)
    BY <1>3, <1>4 DEF HolderCalls
  <2>1. /\ c.src = h /\ Asks(h, c)
        /\ port[h].Silence <= (IF In(x, "ANSWER_DATA_REQUEST") THEN port[x].Silence ELSE 0)
    BY DEF Calm, HolderCalls
  <2>2. In(x, "ANSWER_DATA_REQUEST") /\ In(x, "ANSWER_DATA_REQUEST")'
    BY <1>3, <1>5
  <2>3. On(h) /\ On(x)
    BY <2>2 DEF On, HoldsToken, In
  <2>4. port'[h].Silence <= port'[x].Silence
    BY <1>2, <2>1, <2>2, <2>3
  <2>5. Asks(h, c)'
    BY <1>3, <2>1 DEF Asks
  <2> QED
    BY <2>1, <2>2, <2>4, <2>5
<1>11. Passing'
  <2> SUFFICES ASSUME NEW k \in Masters, In(k, "PASS_TOKEN"), ~ Stale(k)
               PROVE  /\ \A m \in Masters : In(m, "PASS_TOKEN") /\ ~ Stale(m) => m = k
                      /\ \A x \in Masters : Calls(x) = {}
                      /\ \A h \in Masters : ~ HoldsToken(h)
    BY <1>3, <1>4 DEF Passing
  <2>1. /\ \A m \in Masters : In(m, "PASS_TOKEN") /\ ~ Stale(m) => m = k
        /\ \A x \in Masters : \A c \in Calls(x) : c.type = "TOKEN"
        /\ \A h \in Masters : HoldsToken(h) =>
             In(h, "USE_TOKEN") \/ (In(h, "DONE_WITH_TOKEN") /\ ~ port[h].Sending)
    BY DEF Calm, Passing
  <2>2. \A x \in Masters : Calls(x) = {}
    BY <1>5, <2>1
  <2>3. \A h \in Masters : ~ HoldsToken(h)
    BY <2>1 DEF Tick, Ready, In
  <2> QED
    BY <2>1, <2>2, <2>3
<1>12. \A m \in Masters : On(m) => Quiet(m)' = Quiet(m) + 1 /\ Quiet(m) \in Nat
  BY <1>1, <1>2, PortFields DEF Quiet
<1>13. InStep'
  <2> SUFFICES ASSUME NEW m \in Masters, NEW k \in Masters, On(m), On(k)
               PROVE  \/ Quiet(m)' <= Quiet(k)'
                      \/ Deaf(k) /\ \E n \in Masters : TokenOn(n)
    BY <1>3 DEF InStep
  <2>1. \/ Quiet(m) <= Quiet(k)
        \/ Deaf(k) /\ \E n \in Masters : TokenOn(n)
    BY DEF Calm, InStep
  <2> QED
    BY <1>12, <2>1
<1> QED
  BY <1>6, <1>7, <1>8, <1>9, <1>10, <1>11, <1>13 DEF Calm

\* Station n is switched on or off: the others stay as they are, it has no
\* frames, and does not hold the token.
LEMMA SwitchCalm ==
  ASSUME Typed, Calm, NEW n \in Masters, SwitchOn(n) \/ SwitchOff(n), ~ upset'
  PROVE  Calm'
<1>1. /\ rx'[n] = << >> /\ frame'[n] = NoFrame
      /\ port'[n].state = (IF SwitchOn(n) THEN "INITIALIZE" ELSE "OFF")
      /\ ~ port'[n].SawOctets /\ ~ port'[n].Sending /\ port'[n].Silence = 0
      /\ \A m \in Masters \ {n} :
           port'[m] = port[m] /\ frame'[m] = frame[m] /\ rx'[m] = rx[m]
  <2>1. CASE SwitchOn(n)
    <3>1. Flags(n) /\ ~ On(n)
      BY <2>1 DEF Calm, SwitchOn
    <3> QED
      BY <2>1, <3>1 DEF SwitchOn, Flags, InitPort, Typed, MstpTypeOK
  <2>2. CASE ~ SwitchOn(n)
    BY <2>2 DEF SwitchOff, OffPort, InitPort, Typed, MstpTypeOK
  <2> QED
    BY <2>1, <2>2
<1>2. \A m \in Masters \ {n} :
        /\ On(m)' <=> On(m)
        /\ HoldsToken(m)' <=> HoldsToken(m)
        /\ TokenOn(m)' <=> TokenOn(m)
        /\ \A st : In(m, st)' <=> In(m, st)
        /\ Deaf(m)' <=> Deaf(m)
        /\ Stale(m)' <=> Stale(m)
        /\ Inbox(m)' = Inbox(m) /\ Calls(m)' = Calls(m) /\ Quiet(m)' = Quiet(m)
  BY <1>1 DEF On, HoldsToken, TokenOn, In, Deaf, Stale, Inbox, Calls, Live, Quiet
<1>3. /\ ~ HoldsToken(n)' /\ ~ TokenOn(n)' /\ Quiet(n)' = 0
      /\ ~ In(n, "PASS_TOKEN")' /\ ~ In(n, "ANSWER_DATA_REQUEST")'
  BY <1>1 DEF HoldsToken, TokenOn, Quiet, In
<1>4. Calls(n)' = {}
  BY <1>1, MstpFlags DEF Calls, Inbox, Live
<1>5. \A m \in Masters : Flags(m)'
  <2> TAKE m \in Masters
  <2>1. CASE m = n
    <3>1. << >> \in Seq(Frame) /\ NoFrame # Invalid
      BY MstpConstants
    <3> QED
      BY <1>1, <2>1, <3>1 DEF Flags
  <2>2. CASE m # n
    <3>1. Flags(m)
      BY DEF Calm
    <3> QED
      BY <1>1, <1>2, <2>2, <3>1 DEF Flags
  <2> QED
    BY <2>1, <2>2
<1>6. \A m \in Masters : Timers(m)'
  <2> TAKE m \in Masters
  <2>1. Slot(m)' = Slot(m)
    BY DEF Slot
  <2>2. CASE m = n
    BY <1>1, <2>2 DEF Timers, In
  <2>3. CASE m # n
    <3>1. Timers(m)
      BY DEF Calm
    <3> QED
      BY <1>1, <1>2, <2>1, <2>3, <3>1 DEF Timers
  <2> QED
    BY <2>2, <2>3
<1>7. \A m \in Masters : Boxes(m)'
  <2> TAKE m \in Masters
  <2>1. CASE m = n
    BY <1>1, <2>1, MstpFlags DEF Boxes, In, Live
  <2>2. CASE m # n
    <3>1. Boxes(m) /\ port'[m] = port[m] /\ frame'[m] = frame[m] /\ rx'[m] = rx[m]
          /\ Inbox(m)' = Inbox(m)
      BY <1>1, <1>2, <2>2 DEF Calm
    <3>2. (\A x \in Masters : Calls(x) = {}) => (\A x \in Masters : Calls(x)' = {})
      BY <1>2, <1>4
    <3>3. \A h : Wants(m, h)' <=> Wants(m, h)
      BY <3>1 DEF Wants, In
    <3> QED
      BY <3>1, <3>2, <3>3 DEF Boxes, In, Live
  <2> QED
    BY <2>1, <2>2
<1>8. OneCall' /\ OneHolder'
  BY <1>2, <1>3, <1>4 DEF OneCall, OneHolder, Calm
<1>9. HolderCalls'
  <2> SUFFICES ASSUME NEW h \in Masters, NEW x \in Masters, HoldsToken(h)',
                      NEW c \in Calls(x)'
               PROVE  /\ c.src = h /\ Asks(h, c)'
                      /\ port'[h].Silence <= (IF In(x, "ANSWER_DATA_REQUEST")'
                                                THEN port'[x].Silence ELSE 0)
    BY DEF HolderCalls
  <2>1. h # n /\ x # n /\ HoldsToken(h) /\ c \in Calls(x)
    BY <1>2, <1>3, <1>4
  <2>2. /\ c.src = h /\ Asks(h, c)
        /\ port[h].Silence <= (IF In(x, "ANSWER_DATA_REQUEST") THEN port[x].Silence ELSE 0)
    BY <2>1 DEF Calm, HolderCalls
  <2>3. Asks(h, c)'
    BY <1>2, <2>1, <2>2 DEF Asks
  <2> QED
    BY <1>1, <1>2, <2>1, <2>2, <2>3
<1>10. Passing'
  <2> SUFFICES ASSUME NEW k \in Masters, In(k, "PASS_TOKEN")', ~ Stale(k)'
               PROVE  /\ \A m \in Masters : In(m, "PASS_TOKEN")' /\ ~ Stale(m)' => m = k
                      /\ \A x \in Masters : \A c \in Calls(x)' :
                           c.type = "TOKEN" /\ port'[k].Silence = 0
                      /\ \A h \in Masters : HoldsToken(h)' =>
                           /\ port'[k].Silence = 0
                           /\ (In(h, "USE_TOKEN")'
                               \/ (In(h, "DONE_WITH_TOKEN")' /\ ~ port'[h].Sending))
    BY DEF Passing
  <2>1. k # n /\ In(k, "PASS_TOKEN") /\ ~ Stale(k) /\ port'[k] = port[k]
    BY <1>1, <1>2, <1>3
  <2>2. /\ \A m \in Masters : In(m, "PASS_TOKEN") /\ ~ Stale(m) => m = k
        /\ \A x \in Masters : \A c \in Calls(x) : c.type = "TOKEN" /\ port[k].Silence = 0
        /\ \A h \in Masters : HoldsToken(h) =>
             /\ port[k].Silence = 0
             /\ (In(h, "USE_TOKEN") \/ (In(h, "DONE_WITH_TOKEN") /\ ~ port[h].Sending))
    BY <2>1 DEF Calm, Passing
  <2> QED
    BY <1>1, <1>2, <1>3, <1>4, <2>1, <2>2
<1>11. InStep'
  <2> SUFFICES ASSUME NEW m \in Masters, NEW k \in Masters, On(m)', On(k)'
               PROVE  \/ Quiet(m)' <= Quiet(k)'
                      \/ Deaf(k)' /\ \E t \in Masters : TokenOn(t)'
    BY DEF InStep
  <2>1. CASE SwitchOn(n)
    <3>1. ~ On(n) /\ \E t \in Masters : TokenOn(t)
      BY <2>1 DEF SwitchOn
    <3>2. \A t \in Masters : TokenOn(t) => TokenOn(t)'
      BY <1>2, <3>1 DEF On, TokenOn, HoldsToken
    <3>3. Deaf(n)'
      BY <1>1, <2>1 DEF Deaf
    <3>4. CASE k = n
      BY <3>1, <3>2, <3>3, <3>4
    <3>5. CASE k # n /\ m = n
      BY <1>2, <1>3, <3>5, PortFields
    <3>6. CASE k # n /\ m # n
      <4>1. \/ Quiet(m) <= Quiet(k)
            \/ Deaf(k) /\ \E t \in Masters : TokenOn(t)
        BY <1>2, <3>6 DEF Calm, InStep
      <4> QED
        BY <1>2, <3>2, <3>6, <4>1
    <3> QED
      BY <3>4, <3>5, <3>6
  <2>2. CASE ~ SwitchOn(n)
    <3>1. m # n /\ k # n /\ ~ LeavesUnheard(n)
      BY <1>1, <2>2 DEF On, SwitchOff
    <3>2. \/ Quiet(m) <= Quiet(k)
          \/ Deaf(k) /\ \E t \in Masters : TokenOn(t)
      BY <1>2, <3>1 DEF Calm, InStep
    <3>3. ASSUME Deaf(k), NEW t \in Masters, TokenOn(t)
          PROVE  \E u \in Masters \ {n} : TokenOn(u)
      BY <3>1, <3>3 DEF LeavesUnheard
    <3> QED
      BY <1>2, <3>1, <3>2, <3>3
  <2> QED
    BY <2>1, <2>2
<1> QED
  BY <1>5, <1>6, <1>7, <1>8, <1>9, <1>10, <1>11 DEF Calm

----------------------------------------------------------------------------
(* The theorems.                                                           *)

LEMMA CalmInit == MstpInit => Calm
<1> SUFFICES ASSUME MstpInit PROVE Calm
  OBVIOUS
<1>1. \A m \in Masters :
        /\ rx[m] = << >> /\ frame[m] = NoFrame
        /\ port[m].state \in {"INITIALIZE", "OFF"}
        /\ port[m].Silence = 0 /\ ~ port[m].Sending
  BY DEF MstpInit, InitPort, OffPort
<1>2. \A m \in Masters : ~ HoldsToken(m) /\ Quiet(m) = 0 /\ Calls(m) = {}
  BY <1>1, MstpFlags DEF HoldsToken, Quiet, Calls, Inbox, Live
<1>3. << >> \in Seq(Frame) /\ NoFrame # Invalid
  BY MstpConstants
<1>4. \A m \in Masters : Flags(m) /\ Timers(m)
  BY <1>1, <1>3 DEF Flags, Timers, In
<1>5. \A m \in Masters : Boxes(m)
  BY <1>1, MstpFlags DEF Boxes, In, Live
<1>6. OneCall /\ OneHolder /\ HolderCalls /\ Passing /\ InStep
  BY <1>1, <1>2 DEF OneCall, OneHolder, HolderCalls, Passing, InStep, In
<1> QED
  BY <1>4, <1>5, <1>6 DEF Calm

\* A step of a station changes its own port only, and what upset the bus stays
\* on record.
LEMMA OwnStep ==
  ASSUME Typed, NEW n \in Masters, Master(n)
  PROVE  (upset => upset') /\ \A m \in Masters \ {n} : port'[m] = port[m]
<1>1. port \in [Masters -> Port]
  BY DEF Typed, MstpTypeOK
<1>2. ASSUME NEW p, NEW g, StepTo(n, p, g)
      PROVE  (upset => upset') /\ \A m \in Masters \ {n} : port'[m] = port[m]
  BY <1>1, <1>2 DEF StepTo
<1>3. ASSUME NEW p, NEW g, NEW f, StepSends(n, p, g, f)
      PROVE  (upset => upset') /\ \A m \in Masters \ {n} : port'[m] = port[m]
  <2>1. upset => upset'
    BY <1>3 DEF StepSends, Transmit
  <2> QED
    BY <1>1, <1>3, <2>1 DEF StepSends
<1>4. CASE \/ Wait(n) \/ Initialize(n) \/ LostToken(n) \/ ReplyTimeout(n)
           \/ WaitForReply(n) \/ SawFrame(n)
  BY <1>2, <1>4 DEF Wait, Initialize, LostToken, ReplyTimeout, WaitForReply, SawFrame
<1>5. CASE IdleFrame(n) \/ UseToken(n)
  BY <1>2, <1>3, <1>5 DEF IdleFrame, UseToken
<1>6. CASE DoneWithToken(n)
  BY <1>2, <1>3, <1>6 DEF DoneWithToken, ResetMaintenancePFM, PassTo, Poll
<1>7. CASE PassToken(n) \/ GenerateToken(n)
  BY <1>3, <1>7 DEF PassToken, FindNewSuccessor, GenerateToken, Poll
<1>8. CASE PollFrame(n) \/ PollTimeout(n)
  BY <1>2, <1>3, <1>8 DEF PollFrame, PollTimeout, PassTo, Poll
<1>9. CASE AnswerDataRequest(n)
  BY <1>3, <1>9 DEF AnswerDataRequest
<1> QED
  BY <1>4, <1>5, <1>6, <1>7, <1>8, <1>9 DEF Master

LEMMA UpsetStays ==
  ASSUME Typed, [MstpNext]_mstpVars, upset
  PROVE  upset'
<1>1. ASSUME NEW n \in Masters, Receive(n) \/ SwitchOn(n) \/ SwitchOff(n) PROVE upset'
  BY <1>1 DEF Receive, SwitchOn, SwitchOff
<1> QED
  BY <1>1, OwnStep DEF MstpNext, Tick, mstpVars

LEMMA CalmStep ==
  ASSUME Typed, Calm, [MstpNext]_mstpVars, ~ upset'
  PROVE  Calm'
<1>1. ASSUME NEW n \in Masters, Master(n) PROVE Calm'
  BY <1>1, WaitCalm, InitializeCalm, IdleFrameCalm, LostTokenCalm, UseTokenCalm,
     ReplyCalm, DoneCalm, SawFrameCalm, PassTokenCalm, GenerateCalm, PollCalm,
     AnswerCalm DEF Master
<1>2. CASE UNCHANGED mstpVars
  <2>1. port' = port /\ frame' = frame /\ rx' = rx
    BY <1>2 DEF mstpVars
  <2>2. \A m : /\ On(m)' <=> On(m)
               /\ HoldsToken(m)' <=> HoldsToken(m)
               /\ TokenOn(m)' <=> TokenOn(m)
               /\ \A st : In(m, st)' <=> In(m, st)
               /\ Deaf(m)' <=> Deaf(m)
               /\ Stale(m)' <=> Stale(m)
               /\ Inbox(m)' = Inbox(m) /\ Calls(m)' = Calls(m) /\ Quiet(m)' = Quiet(m)
               /\ Slot(m)' = Slot(m)
               /\ \A g : Live(m, g)' <=> Live(m, g)
    BY <2>1 DEF On, HoldsToken, TokenOn, In, Deaf, Stale, Inbox, Calls, Live, Quiet, Slot
  <2>3. \A m, g : (Wants(m, g)' <=> Wants(m, g)) /\ (Asks(m, g)' <=> Asks(m, g))
    BY <2>2 DEF Wants, Asks
  <2>4. \A m \in Masters : Flags(m)' /\ Timers(m)' /\ Boxes(m)'
    <3> TAKE m \in Masters
    <3>1. Flags(m) /\ Timers(m) /\ Boxes(m)
      BY DEF Calm
    <3>2. Flags(m)'
      BY <2>1, <2>2, <3>1 DEF Flags
    <3>3. Timers(m)'
      BY <2>1, <2>2, <3>1 DEF Timers
    <3>4. Boxes(m)'
      BY <2>1, <2>2, <2>3, <3>1 DEF Boxes
    <3> QED
      BY <3>2, <3>3, <3>4
  <2>5. OneCall' /\ OneHolder' /\ Passing' /\ InStep'
    BY <2>1, <2>2 DEF Calm, OneCall, OneHolder, Passing, InStep
  <2>6. HolderCalls'
    BY <2>1, <2>2, <2>3 DEF Calm, HolderCalls
  <2> QED
    BY <2>4, <2>5, <2>6 DEF Calm
<1> QED
  BY <1>1, <1>2, ReceiveCalm, TickCalm, SwitchCalm DEF MstpNext

LEMMA MstpIInvHolds == MstpSpec => []MstpIInv
<1>1. MstpInit => MstpIInv
  BY TypedInit, CalmInit DEF MstpIInv
<1>2. MstpIInv /\ [MstpNext]_mstpVars => MstpIInv'
  BY TypedStep, CalmStep, UpsetStays DEF MstpIInv
<1> QED
  BY <1>1, <1>2, PTL DEF MstpSpec

\* While nothing upsets the bus, one station at most may send as the holder of
\* the token: the slots of NO_TOKEN (mstp.c:947), the polling of
\* POLL_FOR_MASTER and the retries of PASS_TOKEN never make a second token,
\* for any number of stations, who start, join and leave, with any parameters
\* in the order that mstp.c gives them.
THEOREM OneTokenHolds == MstpSpec => []OneToken
<1>1. MstpIInv => OneToken
  BY DEF MstpIInv, Calm, OneHolder, OneToken
<1> QED
  BY <1>1, MstpIInvHolds, PTL


\* Where a step takes a station that holds the token.
LEMMA HolderStep ==
  ASSUME Typed, Calm, NEW n \in Masters, Master(n), HoldsToken(n)
  PROVE  HoldsToken(n)' \/ port'[n].state = "PASS_TOKEN"
<1> DEFINE Kept(p) == p.state \in {"USE_TOKEN", "WAIT_FOR_REPLY", "DONE_WITH_TOKEN",
                                   "POLL_FOR_MASTER", "PASS_TOKEN"}
<1>1. port[n] \in Port /\ port \in [Masters -> Port]
  BY DEF Typed, MstpTypeOK
<1>2. SUFFICES Kept(port'[n])
  BY DEF HoldsToken
<1>3. ASSUME NEW p, NEW g, StepTo(n, p, g), Kept(p)
      PROVE  Kept(port'[n])
  BY <1>1, <1>3 DEF StepTo
<1>4. ASSUME NEW p \in Port, NEW g, NEW f, StepSends(n, p, g, f), Kept(p)
      PROVE  Kept(port'[n])
  BY <1>1, <1>4 DEF StepSends, Port
<1>5. ASSUME NEW p \in Port, NEW g, PassTo(n, p, g) \/ Poll(n, p, g)
      PROVE  Kept(port'[n])
  BY <1>1, <1>5 DEF PassTo, Poll, StepSends, Port
<1>6. CASE UseToken(n)
  <2> DEFINE p == [port[n] EXCEPT !.Now = FALSE]
             none == [p EXCEPT !.FrameCount = Nmax_info_frames,
                               !.state = "DONE_WITH_TOKEN", !.Now = TRUE]
             sent(waits) == [p EXCEPT !.FrameCount = @ + 1, !.Sending = ~ waits,
                              !.state = IF waits THEN "WAIT_FOR_REPLY"
                                        ELSE "DONE_WITH_TOKEN"]
  <2>1. none.state = "DONE_WITH_TOKEN"
    BY <1>1 DEF Port
  <2>2. ASSUME NEW waits, NEW g, NEW f, StepSends(n, sent(waits), g, f)
        PROVE  Kept(port'[n])
    BY <1>1, <2>2 DEF StepSends, Port
  <2>3. CASE StepTo(n, none, frame[n])
    BY <1>3, <2>1, <2>3
  <2> HIDE DEF none, sent, Kept
  <2> QED
    BY <1>6, <2>2, <2>3 DEF UseToken, none, sent
<1>7. CASE ReplyTimeout(n) \/ WaitForReply(n)
  <2>1. WaitForReply(n) => /\ frame[n].dest = n
                           /\ frame[n].type \in {"REPLY_POSTPONED",
                                                 "DATA_NOT_EXPECTING_REPLY"}
    BY WaiterFree DEF WaitForReply, In, Wants
  <2> QED
    BY <1>1, <1>7, <2>1 DEF ReplyTimeout, WaitForReply, StepTo, Port
<1>8. CASE DoneWithToken(n)
  <2>1. PICK q \in Port :
          \/ q.state = "USE_TOKEN" /\ StepTo(n, q, frame[n])
          \/ PassTo(n, q, frame[n]) \/ Poll(n, q, frame[n])
    BY <1>8, DoneSteps
  <2> QED
    BY <1>3, <1>5, <2>1
<1>9. CASE PollFrame(n)
  <2>1. frame[n].dest = n /\ frame[n].type = "REPLY_TO_POLL_FOR_MASTER"
    BY <1>9, WaiterFree DEF PollFrame, In, Wants
  <2> QED
    BY <1>1, <1>9, <2>1 DEF PollFrame, PassTo, StepSends, Port
<1>10. CASE PollTimeout(n)
  BY <1>1, <1>10 DEF PollTimeout, PassTo, Poll, StepTo, StepSends, Port
<1> QED
  BY <1>6, <1>7, <1>8, <1>9, <1>10
     DEF Master, HoldsToken, In, Wait, Initialize, IdleFrame, LostToken, SawFrame,
         PassToken, GenerateToken, AnswerDataRequest

\* On an undisturbed bus a station that holds the token gives it up only by
\* passing it, or when it is switched off: the frames that WAIT_FOR_REPLY and
\* POLL_FOR_MASTER take for somebody else's token (mstp.c:802 and 1023) never
\* reach a holder, whatever the stations send.
THEOREM TokenIsKept == MstpSpec => TokenKept
<1> DEFINE Kept == \A n \in Masters :
             HoldsToken(n) /\ ~ HoldsToken(n)' /\ ~ upset'
               => port'[n].state \in {"PASS_TOKEN", "OFF"}
<1>1. ASSUME MstpIInv, [MstpNext]_mstpVars PROVE Kept
  <2> SUFFICES ASSUME NEW n \in Masters, HoldsToken(n), ~ HoldsToken(n)', ~ upset'
               PROVE  port'[n].state \in {"PASS_TOKEN", "OFF"}
    OBVIOUS
  <2>1. Typed /\ Calm /\ port \in [Masters -> Port]
    BY <1>1, UpsetStays DEF MstpIInv, Typed, MstpTypeOK
  <2>2. port'[n] # port[n] /\ port'[n].state # port[n].state
    BY DEF HoldsToken
  <2>3. CASE UNCHANGED mstpVars \/ Tick
    <3>1. \A m \in Masters : port[m] \in Port
      BY <2>1
    <3> QED
      BY <2>2, <2>3, <3>1 DEF mstpVars, Tick, Port
  <2>4. ASSUME NEW k \in Masters, Master(k)
        PROVE  port'[n].state \in {"PASS_TOKEN", "OFF"}
    BY <2>1, <2>2, <2>4, OwnStep, HolderStep
  <2>5. ASSUME NEW k \in Masters, Receive(k)
        PROVE  port'[n].state \in {"PASS_TOKEN", "OFF"}
    BY <2>1, <2>2, <2>5 DEF Receive, Port
  <2>6. ASSUME NEW k \in Masters, SwitchOn(k) \/ SwitchOff(k)
        PROVE  port'[n].state \in {"PASS_TOKEN", "OFF"}
    BY <2>1, <2>2, <2>6 DEF SwitchOn, SwitchOff, OffPort, InitPort, On, HoldsToken
  <2> QED
    BY <1>1, <2>3, <2>4, <2>5, <2>6 DEF MstpNext
<1>2. MstpIInv /\ [MstpNext]_mstpVars => [Kept]_mstpVars
  BY <1>1
<1> QED
  BY <1>2, MstpIInvHolds, PTL DEF MstpSpec, TokenKept
=============================================================================
