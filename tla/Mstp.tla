-------------------------------- MODULE Mstp --------------------------------
(***************************************************************************)
(* mstp.c: masters on one RS-485 line hand a token around; who holds it    *)
(* may send.  Each station runs MSTP_Master_Node_FSM over what             *)
(* MSTP_Receive_Frame_FSM heard (see MstpFrame for the octets) and over    *)
(* the time the line has been silent.                                      *)
(*                                                                         *)
(* Frames take no time of their own: time passes (SilenceGrows) when       *)
(* nothing is on the line and no station has anything to do, which is the  *)
(* promptness the timeouts of mstp.c count on.  Two stations that start    *)
(* sending at the same moment garble each other's frame.                   *)
(***************************************************************************)
EXTENDS Integers, FiniteSets

CONSTANTS Masters,          \* the stations there are
          Nmax_master,      \* the highest address polled for
          Npoll,            \* tokens between two polls for masters
          Nretry_token,
          Nmax_info_frames, \* frames per token, of each station
          Tusage_timeout, Treply_timeout, Tno_token, Tslot, \* silence, in ticks
          MaxUpsets,        \* bound: frames heard wrong, collisions, test requests
          MaxSwitches       \* bound: stations switched on or off

ASSUME MstpAssumption ==
    /\ Nmax_master \in Nat /\ Masters \subseteq 0 .. Nmax_master
    /\ Npoll \in Nat \ {0} /\ Nretry_token \in Nat /\ Nmax_info_frames \in [Masters -> Nat \ {0}]
    /\ Tslot \in Nat \ {0}
    /\ {Tusage_timeout, Treply_timeout, Tno_token} \subseteq Nat
    /\ 0 < Tusage_timeout /\ Tusage_timeout < Treply_timeout /\ Treply_timeout < Tno_token

VARIABLES On,       \* the stations that run
          port,     \* mstp_port of each
          line,     \* the frames being sent
          upsets, switches

mstpVars == << On, port, line, upsets, switches >>

MSTP_BROADCAST_ADDRESS == Nmax_master + 1     \* past all stations, as 255 is
NoFrame == [type |-> "none", dest |-> MSTP_BROADCAST_ADDRESS, src |-> MSTP_BROADCAST_ADDRESS]
After(station) == (station + 1) % (Nmax_master + 1)
Longest == Tno_token + Tslot * (Nmax_master + 2)

States == {"initialize", "idle", "use_token", "wait_for_reply", "done_with_token", "pass_token",
           "no_token", "poll_for_master", "answer_data_request"}

Fresh(s) ==                         \* MSTP_Init
    [state |-> "initialize", next |-> s, poll |-> s, tokens |-> 0, sole |-> FALSE, frames |-> 0,
     retries |-> 0, active |-> FALSE, valid |-> NoFrame, invalid |-> FALSE, silence |-> 0]

MstpInit ==
    /\ On \in SUBSET Masters \ {{}}
    /\ port = [s \in Masters |-> Fresh(s)]
    /\ line = {}
    /\ upsets = 0 /\ switches = 0

-----------------------------------------------------------------------------
Frame(type, dest, src) == [type |-> type, dest |-> dest, src |-> src]

Senders == {f.src : f \in line}
Listeners == On \ Senders

\* One call of the state machine: the port's new contents, and a frame sent
\* or none.  Sending starts the silence anew.
Becomes(s, p) == port' = [port EXCEPT ![s] = p] /\ UNCHANGED << On, line, upsets, switches >>
Puts(s, p, type, dest, upsetting) ==
    /\ port' = [port EXCEPT ![s] = [p EXCEPT !.silence = 0]]
    /\ line' = line \cup {Frame(type, dest, s)}
    /\ upsets' = IF line = {} /\ ~upsetting THEN upsets ELSE upsets + 1
    /\ upsets' <= MaxUpsets
    /\ UNCHANGED << On, switches >>
Sends(s, p, type, dest) == Puts(s, p, type, dest, FALSE)

\* sending is not left before the frame is out
In(s, state) == s \in On \ Senders /\ port[s].state = state
Moved(s, state) == [port[s] EXCEPT !.state = state]
Used(p) == [p EXCEPT !.valid = NoFrame]
ReceivedValidFrame(s) == port[s].valid # NoFrame
ForMe(s) == port[s].valid.dest = s

Initialize(s) ==
    /\ In(s, "initialize")
    /\ Becomes(s, [Moved(s, "idle") EXCEPT !.next = s, !.poll = s, !.tokens = Npoll, !.sole = FALSE])

-----------------------------------------------------------------------------
\* IDLE
LostToken(s) ==
    /\ In(s, "idle") /\ port[s].silence >= Tno_token
    /\ Becomes(s, [Used(Moved(s, "no_token")) EXCEPT !.active = FALSE, !.invalid = FALSE])

ReceivedInvalidFrame(s) ==
    /\ In(s, "idle") /\ port[s].silence < Tno_token /\ port[s].invalid
    /\ Becomes(s, [port[s] EXCEPT !.invalid = FALSE])

Listens(s) ==
    In(s, "idle") /\ port[s].silence < Tno_token /\ ~port[s].invalid /\ ReceivedValidFrame(s)

ReceivedToken(s) ==
    /\ Listens(s) /\ port[s].valid.type = "token" /\ ForMe(s)
    /\ Becomes(s, [Used(Moved(s, "use_token")) EXCEPT !.frames = 0, !.sole = FALSE])

ReceivedPFM(s) ==
    /\ Listens(s) /\ port[s].valid.type = "poll_for_master"
    /\ Sends(s, Used(port[s]), "reply_to_poll", port[s].valid.src)

ReceivedTestRequest(s) ==
    /\ Listens(s) /\ port[s].valid.type = "test_request"
    /\ Sends(s, Used(port[s]), "test_response", port[s].valid.src)

\* (mutant: forgets that somebody waits)
DataNotAnswered(s) ==
    /\ Listens(s) /\ port[s].valid.type = "data_expecting_reply" /\ ForMe(s)
    /\ Becomes(s, Used(port[s]))

\* the frame stays where it is: its source is who is answered
ReceivedDataNeedingReply(s) ==
    /\ Listens(s) /\ port[s].valid.type = "data_expecting_reply" /\ ForMe(s)
    /\ Becomes(s, Moved(s, "answer_data_request"))

ReceivedOther(s) ==
    /\ Listens(s)
    /\ \/ port[s].valid.type \notin {"token", "poll_for_master", "test_request", "data_expecting_reply"}
       \/ port[s].valid.type \in {"token", "data_expecting_reply"} /\ ~ForMe(s)
    /\ Becomes(s, Used(port[s]))

-----------------------------------------------------------------------------
\* USE_TOKEN: the upper layer has nothing to send, or a frame of some kind.
NothingToSend(s) ==
    /\ In(s, "use_token")
    /\ Becomes(s, [Moved(s, "done_with_token") EXCEPT !.frames = Nmax_info_frames[s]])

SendFrame(s, type, dest) ==
    /\ In(s, "use_token") /\ type \in {"data", "data_expecting_reply"}
    /\ Sends(s, [Moved(s, IF type = "data_expecting_reply" /\ dest # MSTP_BROADCAST_ADDRESS
                          THEN "wait_for_reply" ELSE "done_with_token") EXCEPT !.frames = @ + 1],
             type, dest)

\* a response costs the token (see ReceivedReply), so this counts as an upset
SendTestRequest(s, dest) ==
    /\ In(s, "use_token")
    /\ Puts(s, [Moved(s, "wait_for_reply") EXCEPT !.frames = @ + 1], "test_request", dest, TRUE)

\* WAIT_FOR_REPLY
ReplyTimeout(s) ==
    /\ In(s, "wait_for_reply") /\ port[s].silence >= Treply_timeout
    /\ Becomes(s, [Moved(s, "done_with_token") EXCEPT !.frames = Nmax_info_frames[s]])

InvalidReply(s) ==
    /\ In(s, "wait_for_reply") /\ port[s].silence < Treply_timeout /\ port[s].invalid
    /\ Becomes(s, [Moved(s, "done_with_token") EXCEPT !.invalid = FALSE])

\* (mutant: keeps the token whatever is received)
ReceivedReplyOrNot(s) ==
    /\ In(s, "wait_for_reply") /\ port[s].silence < Treply_timeout
    /\ ~port[s].invalid /\ ReceivedValidFrame(s)
    /\ Becomes(s, Used(Moved(s, "done_with_token")))

\* anything but an answer means that somebody else believes to hold the token
ReceivedReply(s) ==
    /\ In(s, "wait_for_reply") /\ port[s].silence < Treply_timeout
    /\ ~port[s].invalid /\ ReceivedValidFrame(s)
    /\ Becomes(s, Used(Moved(s, IF ForMe(s) /\ port[s].valid.type \in {"reply_postponed", "data"}
                                THEN "done_with_token" ELSE "idle")))

-----------------------------------------------------------------------------
\* DONE_WITH_TOKEN
Done(s) == In(s, "done_with_token")
LastFrame(s) == Done(s) /\ port[s].frames >= Nmax_info_frames[s]

SendAnotherFrame(s) ==
    /\ Done(s) /\ port[s].frames < Nmax_info_frames[s]
    /\ Becomes(s, Moved(s, "use_token"))

SoleMasterAgain(s) ==
    /\ LastFrame(s) /\ port[s].tokens < Npoll - 1
    /\ port[s].sole /\ port[s].next # After(s)
    /\ Becomes(s, [Moved(s, "use_token") EXCEPT !.frames = 0, !.tokens = @ + 1])

\* Pass the token on: p is the port but for the state and the counters.
PassesToken(s, p) ==
    Sends(s, [p EXCEPT !.state = "pass_token", !.retries = 0, !.active = FALSE], "token", p.next)

PassToken(s) ==
    /\ LastFrame(s) /\ port[s].tokens < Npoll - 1
    /\ ~port[s].sole \/ port[s].next = After(s)
    /\ PassesToken(s, [port[s] EXCEPT !.tokens = @ + 1])

\* time to poll, but there is nobody between this station and the next
ResetMaintenance(s) ==
    /\ LastFrame(s) /\ port[s].tokens >= Npoll - 1
    /\ After(port[s].poll) = port[s].next /\ ~port[s].sole
    /\ PassesToken(s, [port[s] EXCEPT !.poll = s, !.tokens = 1])

Polls(s, p) ==
    Sends(s, [p EXCEPT !.state = "poll_for_master", !.retries = 0], "poll_for_master", p.poll)

SoleMasterRestart(s) ==
    /\ LastFrame(s) /\ port[s].tokens >= Npoll - 1
    /\ After(port[s].poll) = port[s].next /\ port[s].sole
    /\ Polls(s, [port[s] EXCEPT !.poll = After(port[s].next), !.next = s, !.tokens = 1])

MaintenancePFM(s) ==
    /\ LastFrame(s) /\ port[s].tokens >= Npoll - 1
    /\ After(port[s].poll) # port[s].next
    /\ Polls(s, [port[s] EXCEPT !.poll = After(@)])

-----------------------------------------------------------------------------
\* PASS_TOKEN
SawTokenUser(s) ==
    /\ In(s, "pass_token") /\ port[s].silence <= Tusage_timeout /\ port[s].active
    /\ Becomes(s, Moved(s, "idle"))

\* (mutant: does not count the retries)
RetriesUncounted(s) ==
    /\ In(s, "pass_token") /\ port[s].silence > Tusage_timeout /\ port[s].retries < Nretry_token
    /\ Sends(s, [port[s] EXCEPT !.active = FALSE], "token", port[s].next)

RetrySendToken(s) ==
    /\ In(s, "pass_token") /\ port[s].silence > Tusage_timeout /\ port[s].retries < Nretry_token
    /\ Sends(s, [port[s] EXCEPT !.retries = @ + 1, !.active = FALSE], "token", port[s].next)

FindNewSuccessor(s) ==
    /\ In(s, "pass_token") /\ port[s].silence > Tusage_timeout /\ port[s].retries >= Nretry_token
    /\ Polls(s, [port[s] EXCEPT !.poll = After(port[s].next), !.next = s, !.tokens = 0])

-----------------------------------------------------------------------------
\* NO_TOKEN: each station has a slot of its own to make a new one in.
MyTurn(s) == Tno_token + Tslot * s

SawFrame(s) ==
    /\ In(s, "no_token") /\ port[s].silence < MyTurn(s) /\ port[s].active
    /\ Becomes(s, Moved(s, "idle"))

\* (mutant: does not wait for its slot)
GenerateAtOnce(s) ==
    /\ In(s, "no_token") /\ port[s].silence >= Tno_token
    /\ Polls(s, [port[s] EXCEPT !.poll = After(s), !.next = s, !.tokens = 0])

GenerateToken(s) ==
    /\ In(s, "no_token") /\ port[s].silence \in MyTurn(s) .. MyTurn(s + 1) - 1
    /\ Polls(s, [port[s] EXCEPT !.poll = After(s), !.next = s, !.tokens = 0])

-----------------------------------------------------------------------------
\* POLL_FOR_MASTER
ReceivedReplyToPFM(s) ==
    /\ In(s, "poll_for_master") /\ ReceivedValidFrame(s)
    /\ ForMe(s) /\ port[s].valid.type = "reply_to_poll"
    /\ PassesToken(s, [Used(port[s]) EXCEPT !.sole = FALSE, !.next = port[s].valid.src,
                                            !.poll = s, !.tokens = 0])

ReceivedUnexpectedFrame(s) ==
    /\ In(s, "poll_for_master") /\ ReceivedValidFrame(s)
    /\ ~ForMe(s) \/ port[s].valid.type # "reply_to_poll"
    /\ Becomes(s, Used(Moved(s, "idle")))

NobodyAnswers(s) ==
    /\ In(s, "poll_for_master") /\ ~ReceivedValidFrame(s)
    /\ port[s].silence > Tusage_timeout \/ port[s].invalid
Calm(p) == [p EXCEPT !.invalid = FALSE]

SoleMaster(s) ==
    /\ NobodyAnswers(s) /\ port[s].sole
    /\ Becomes(s, [Calm(Moved(s, "use_token")) EXCEPT !.frames = 0])

DoneWithPFM(s) ==
    /\ NobodyAnswers(s) /\ ~port[s].sole /\ port[s].next # s
    /\ PassesToken(s, Calm(port[s]))

SendNextPFM(s) ==
    /\ NobodyAnswers(s) /\ ~port[s].sole /\ port[s].next = s /\ After(port[s].poll) # s
    /\ Polls(s, [Calm(port[s]) EXCEPT !.poll = After(@)])

DeclareSoleMaster(s) ==
    /\ NobodyAnswers(s) /\ ~port[s].sole /\ port[s].next = s /\ After(port[s].poll) = s
    /\ Becomes(s, [Calm(Moved(s, "use_token")) EXCEPT !.sole = TRUE, !.frames = 0])

\* ANSWER_DATA_REQUEST: the answer if the upper layer has it, else a promise
Reply(s, type) ==
    /\ In(s, "answer_data_request") /\ type \in {"data", "reply_postponed"}
    /\ Sends(s, Used(Moved(s, "idle")), type, port[s].valid.src)

-----------------------------------------------------------------------------
\* Every running station hears what is on the line: MSTP_Receive_Frame_FSM.
\* Garbled and damaged frames leave octets and, when the header or the data was
\* reached, an invalid frame.
FrameEnds(damaged, noticed) ==
    /\ line # {}
    /\ Cardinality(line) > 1 => damaged = Listeners
    /\ upsets' = IF damaged = {} \/ Cardinality(line) > 1 THEN upsets ELSE upsets + 1
    /\ upsets' <= MaxUpsets
    /\ port' = [s \in Masters |->
           LET p == [port[s] EXCEPT !.active = TRUE, !.silence = 0]
               f == CHOOSE g \in line : TRUE
           IN  CASE s \notin Listeners -> port[s]
                 [] s \in Listeners /\ s \in damaged -> [p EXCEPT !.invalid = @ \/ noticed]
                 [] s \in Listeners /\ s \notin damaged ->
                      IF f.dest \in {s, MSTP_BROADCAST_ADDRESS} THEN [p EXCEPT !.valid = f] ELSE p]
    /\ line' = {}
    /\ UNCHANGED << On, switches >>

\* There is nothing for the station to do before something is heard or time passes.
Waits(s) ==
    LET p == port[s]
    IN  CASE p.state = "idle" -> p.silence < Tno_token /\ ~p.invalid /\ ~ReceivedValidFrame(s)
          [] p.state = "wait_for_reply" -> p.silence < Treply_timeout /\ ~p.invalid /\ ~ReceivedValidFrame(s)
          [] p.state = "pass_token" -> p.silence <= Tusage_timeout /\ ~p.active
          [] p.state = "no_token" -> IF p.silence < MyTurn(s) THEN ~p.active
                                     ELSE p.silence >= MyTurn(s + 1)
          [] p.state = "poll_for_master" -> p.silence <= Tusage_timeout /\ ~p.invalid /\ ~ReceivedValidFrame(s)
          [] OTHER -> FALSE

SilenceGrows ==
    /\ line = {}
    /\ \A s \in On : Waits(s)
    /\ \E s \in On : port[s].silence < Longest
    /\ port' = [s \in Masters |->
           IF s \in On /\ port[s].silence < Longest THEN [port[s] EXCEPT !.silence = @ + 1] ELSE port[s]]
    /\ UNCHANGED << On, line, upsets, switches >>

SwitchOff(s) ==
    /\ s \in On /\ On # {s} /\ switches < MaxSwitches
    /\ On' = On \ {s}
    /\ port' = [port EXCEPT ![s] = Fresh(s)]
    /\ switches' = switches + 1
    /\ UNCHANGED << line, upsets >>

SwitchOn(s) ==
    /\ s \in Masters \ On /\ switches < MaxSwitches
    /\ On' = On \cup {s}
    /\ switches' = switches + 1
    /\ UNCHANGED << port, line, upsets >>

Station(s) ==
    \/ Initialize(s)
    \/ LostToken(s) \/ ReceivedInvalidFrame(s) \/ ReceivedToken(s) \/ ReceivedPFM(s)
    \/ ReceivedTestRequest(s) \/ ReceivedDataNeedingReply(s) \/ ReceivedOther(s)
    \/ NothingToSend(s)
    \/ \E d \in (Masters \cup {MSTP_BROADCAST_ADDRESS}) \ {s} :
           SendFrame(s, "data", d) \/ SendFrame(s, "data_expecting_reply", d)
    \/ \E d \in Masters \ {s} : SendTestRequest(s, d)
    \/ ReplyTimeout(s) \/ InvalidReply(s) \/ ReceivedReply(s)
    \/ SendAnotherFrame(s) \/ SoleMasterAgain(s) \/ PassToken(s) \/ ResetMaintenance(s)
    \/ SoleMasterRestart(s) \/ MaintenancePFM(s)
    \/ SawTokenUser(s) \/ RetrySendToken(s) \/ FindNewSuccessor(s)
    \/ SawFrame(s) \/ GenerateToken(s)
    \/ ReceivedReplyToPFM(s) \/ ReceivedUnexpectedFrame(s)
    \/ SoleMaster(s) \/ DoneWithPFM(s) \/ SendNextPFM(s) \/ DeclareSoleMaster(s)
    \/ Reply(s, "data") \/ Reply(s, "reply_postponed")

MstpNext ==
    \/ \E s \in Masters : Station(s) \/ SwitchOff(s) \/ SwitchOn(s)
    \/ \E damaged \in SUBSET Listeners, noticed \in BOOLEAN : FrameEnds(damaged, noticed)
    \/ SilenceGrows

-----------------------------------------------------------------------------
\* The main program calls the state machine of every running station over and
\* over; what is on the line reaches the others; time passes.
MstpSpec ==
    /\ MstpInit /\ [][MstpNext]_mstpVars
    /\ \A s \in Masters : WF_mstpVars(Station(s))
    /\ WF_mstpVars(\E damaged \in SUBSET Listeners : FrameEnds(damaged, FALSE))
    /\ WF_mstpVars(SilenceGrows)

Holds(s) ==
    s \in On /\ port[s].state \in {"use_token", "wait_for_reply", "done_with_token", "poll_for_master"}
GetsToken(s) == s \in On /\ ReceivedValidFrame(s) /\ ForMe(s) /\ port[s].valid.type = "token"

Orderly ==
    /\ Cardinality({s \in Masters : Holds(s) \/ GetsToken(s)}) <= 1
    /\ Cardinality(line) <= 1

(* Among stations that were started together there is never more than one  *)
(* that has the token or is about to, and never more than one that sends,  *)
(* whatever frames are lost: retries, polls and the slots after a lost     *)
(* token keep them apart.                                                  *)
OneHolder == switches = 0 => Orderly

(* Stations that are started at different times measure the silence from   *)
(* different moments, may fall into the same slot and both take the token; *)
(* but they find out, and from some time on there is one token again.      *)
Settles == <>[]Orderly

(* Every station that runs gets to use the token over and over: tokens     *)
(* that are lost are made anew, stations that went silent are passed over, *)
(* and one that was switched on later is found by polling.                 *)
Returns == \A s \in Masters : []<>(s \in On => port[s].state = "use_token")

(* A station waits for a reply in vain only when a frame was garbled or a  *)
(* station was switched off: the one that was asked answers, or promises   *)
(* to, before Treply_timeout.                                              *)
Answered == [][\A s \in Masters : ReplyTimeout(s) => upsets > 0 \/ switches > 0 \/ On # Masters]_mstpVars
=============================================================================
