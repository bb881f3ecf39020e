----------------------------- MODULE PttService -----------------------------
(***************************************************************************)
(* The event side of ptt_demo_service.py: the thread that listens on the   *)
(* event socket (EslClient), keeps the calls that were answered, logs      *)
(* those that ended (PttState), and starts over after every exception      *)
(* (DemoService._event_loop).                                              *)
(*                                                                         *)
(* The buffer of the client is not emptied by connect, and connect does    *)
(* not close the socket it replaces; an exception inside connect leaves    *)
(* the loop reading from whatever socket there is.  The connection for     *)
(* commands is only the outcome of a broadcast.  MaxFaults bounds what     *)
(* goes wrong: connections that break or are refused, answers later than   *)
(* the 8 seconds connect waits, broadcasts and file look-ups that raise.   *)
(***************************************************************************)
EXTENDS EslListener

CONSTANTS MaxLogs,   \* PttState.max_logs
          MaxFaults

ASSUME ServiceAssumption == MaxLogs \in Nat \ {0} /\ MaxFaults \in Nat

VARIABLES pc,               \* place of the event thread
          buffer,           \* EslClient.buffer
          active, logs,     \* PttState.active_calls, logs
          call,             \* [Calls -> "new", "up" or "over"], in the switch
          keyed,            \* calls that have sent a DTMF digit
          order, logged,    \* the calls that ended, and all that were logged, in order
          seen,             \* calls all of whose events were sent to this connection
          faults

clientVars == <<pc, buffer>>
stateVars == <<active, logs, logged>>
callVars == <<call, keyed, order>>
vars == <<listenerVars, clientVars, stateVars, callVars, seen, faults>>

TypeOK ==
    /\ ListenerTypeOK
    /\ pc \in {"greeting", "auth", "event", "loop", "dtmf", "raised"}
    /\ buffer \in Seq(Units)
    /\ active \subseteq Calls /\ logs \in Seq(Calls) /\ Len(logs) <= MaxLogs
    /\ call \in [Calls -> {"new", "up", "over"}] /\ keyed \subseteq Calls
    /\ order \in Seq(Calls) /\ logged \in Seq(Calls) /\ seen \subseteq Calls
    /\ faults \in 0 .. MaxFaults

(* DemoService.start has connected and subscribed. *)
Init ==
    /\ srv = "events" /\ cmds = << >> /\ wire = << >>
    /\ pc = "loop" /\ buffer = << >>
    /\ active = {} /\ logs = << >>
    /\ call = [c \in Calls |-> "new"] /\ keyed = {} /\ order = << >> /\ logged = << >>
    /\ seen = {} /\ faults = 0

Fault == faults < MaxFaults /\ faults' = faults + 1

-----------------------------------------------------------------------------
(* EslClient._recv_frame and _try_parse_frame_from_buffer *)

FrameLen == IF Head(buffer).t = "head" THEN 1 + BodyLen ELSE 1
HasFrame == buffer # << >> /\ FrameLen <= Len(buffer)
Rest == SubSeq(buffer, FrameLen + 1, Len(buffer))

(* What the first frame is: an event is known by the first unit of its body;
   a body that is something else has no Event-Name, and a part of a body that
   is taken for a header has no Content-Type. *)
Frame ==
    IF Head(buffer).t = "head" /\ buffer[2].part = 1
    THEN [t |-> buffer[2].t, call |-> buffer[2].call]
    ELSE [t |-> IF Head(buffer).part = 0 THEN Head(buffer).t ELSE "none", call |-> NoCall]

Reading == pc \in {"greeting", "auth", "event", "loop"}

(* Slip: what was there is overwritten. *)
RecvOverwrites ==
    /\ Reading /\ ~HasFrame
    /\ \E n \in 1 .. Len(wire) :
          /\ buffer' = SubSeq(wire, 1, n)
          /\ wire' = SubSeq(wire, n + 1, Len(wire))
    /\ UNCHANGED <<srv, cmds, pc, stateVars, callVars, seen, faults>>

Recv ==
    /\ Reading /\ ~HasFrame
    /\ \E n \in 1 .. Len(wire) :
          /\ buffer' = buffer \o SubSeq(wire, 1, n)
          /\ wire' = SubSeq(wire, n + 1, Len(wire))
    /\ UNCHANGED <<srv, cmds, pc, stateVars, callVars, seen, faults>>

(* Slip: the end of the stream is taken for a timeout. *)
RecvEndQuiet ==
    /\ Reading /\ ~HasFrame /\ AtEnd
    /\ pc' = "loop"
    /\ UNCHANGED <<listenerVars, buffer, stateVars, callVars, seen, faults>>

(* recv returns nothing: "ESL socket closed".  In connect the exception ends
   in _event_loop's inner handler, which goes back to reading. *)
RecvEnd ==
    /\ Reading /\ ~HasFrame /\ AtEnd
    /\ pc' = IF pc = "loop" THEN "raised" ELSE "loop"
    /\ UNCHANGED <<listenerVars, buffer, stateVars, callVars, seen, faults>>

(* The 8 seconds of _read_until_auth_request and _read_command_reply are over:
   nothing came and nothing will, or it comes later. *)
Deadline ==
    /\ pc \in {"greeting", "auth", "event"} /\ ~HasFrame /\ srv # "closed"
    /\ IF Quiet THEN UNCHANGED faults ELSE Fault
    /\ pc' = "loop"
    /\ UNCHANGED <<listenerVars, buffer, stateVars, callVars, seen>>

-----------------------------------------------------------------------------
(* EslClient.connect *)

(* The frames that are skipped include events left in the buffer. *)
AwaitGreeting ==
    /\ pc = "greeting" /\ HasFrame /\ buffer' = Rest
    /\ IF Frame.t = "auth" THEN pc' = "auth" /\ Command("auth") ELSE UNCHANGED <<pc, cmds>>
    /\ UNCHANGED <<srv, wire, stateVars, callVars, seen, faults>>

AwaitReply ==
    /\ pc \in {"auth", "event"} /\ HasFrame /\ buffer' = Rest
    /\ \/ Frame.t # "ok" /\ UNCHANGED <<pc, cmds>>
       \/ Frame.t = "ok" /\ pc = "auth" /\ pc' = "event" /\ Command("event")
       \/ Frame.t = "ok" /\ pc = "event" /\ pc' = "loop" /\ UNCHANGED cmds
    /\ UNCHANGED <<srv, wire, stateVars, callVars, seen, faults>>

Connect ==
    /\ pc = "raised"
    /\ \/ Accept /\ pc' = "greeting" /\ seen' = {} /\ UNCHANGED faults
       \/ Fault /\ pc' = "loop" /\ UNCHANGED <<listenerVars, seen>>   \* refused
    /\ UNCHANGED <<buffer, stateVars, callVars>>

-----------------------------------------------------------------------------
(* DemoService._event_loop *)

LastOf(l, n) == IF Len(l) <= n THEN l ELSE SubSeq(l, Len(l) - n + 1, Len(l))

OnAnswer(c) ==
    /\ active' = active \cup {c}
    /\ UNCHANGED <<pc, logs, logged, seen, faults>>

(* Slip: the call stays among the active ones. *)
OnHangupKeeps(c) ==
    /\ IF c \in active THEN /\ logged' = Append(logged, c)
                             /\ logs' = LastOf(Append(logs, c), MaxLogs)
                        ELSE UNCHANGED <<logs, logged>>
    /\ UNCHANGED <<active, pc, seen, faults>>

(* The call is taken out first; looking at its recording may raise. *)
OnHangup(c) ==
    /\ active' = active \ {c}
    /\ \/ /\ c \in active /\ logged' = Append(logged, c)
          /\ logs' = LastOf(Append(logs, c), MaxLogs)
          /\ UNCHANGED <<pc, seen, faults>>
       \/ /\ c \in active /\ Fault /\ pc' = "raised" /\ seen' = seen \ {c}
          /\ UNCHANGED <<logs, logged>>
       \/ c \notin active /\ UNCHANGED <<pc, logs, logged, seen, faults>>

OnDtmf(c) ==
    /\ pc' = IF c \in active THEN "dtmf" ELSE "loop"
    /\ UNCHANGED <<active, logs, logged, seen, faults>>

ReadEvent ==
    /\ pc = "loop" /\ HasFrame /\ buffer' = Rest
    /\ CASE Frame.t = "answer" -> OnAnswer(Frame.call)
         [] Frame.t = "hangup" -> OnHangup(Frame.call)
         [] Frame.t = "dtmf"   -> OnDtmf(Frame.call)
         [] OTHER              -> UNCHANGED <<pc, stateVars, seen, faults>>
    /\ UNCHANGED <<listenerVars, callVars>>

(* broadcast_file returns, or its second attempt raises as well. *)
Broadcast ==
    /\ pc = "dtmf"
    /\ \/ pc' = "loop" /\ UNCHANGED faults
       \/ pc' = "raised" /\ Fault
    /\ UNCHANGED <<listenerVars, buffer, stateVars, callVars, seen>>

EventThread ==
    \/ Recv \/ RecvEnd \/ Deadline \/ AwaitGreeting \/ AwaitReply \/ Connect
    \/ ReadEvent \/ Broadcast

-----------------------------------------------------------------------------
(* The switch: calls and connections. *)

Answer(c) ==
    /\ call[c] = "new" /\ call' = [call EXCEPT ![c] = "up"] /\ Send("answer", c)
    /\ seen' = IF srv = "events" THEN seen \cup {c} ELSE seen
    /\ UNCHANGED <<clientVars, stateVars, keyed, order, faults>>

Key(c) ==
    /\ call[c] = "up" /\ c \notin keyed /\ keyed' = keyed \cup {c} /\ Send("dtmf", c)
    /\ UNCHANGED <<clientVars, stateVars, call, order, seen, faults>>

Hangup(c) ==
    /\ call[c] = "up" /\ call' = [call EXCEPT ![c] = "over"] /\ Send("hangup", c)
    /\ order' = Append(order, c)
    /\ UNCHANGED <<clientVars, stateVars, keyed, seen, faults>>

(* The client answers in far less than 25 seconds when it answers at all. *)
Expire ==
    /\ pc = "loop" /\ AuthTimeout
    /\ UNCHANGED <<clientVars, stateVars, callVars, seen, faults>>

Listen == Serve /\ UNCHANGED <<clientVars, stateVars, callVars, seen, faults>>

Lose == Break /\ Fault /\ seen' = {} /\ UNCHANGED <<clientVars, stateVars, callVars>>

Next ==
    \/ EventThread \/ Listen \/ Expire \/ Lose
    \/ \E c \in Calls : Answer(c) \/ Key(c) \/ Hangup(c)

Spec == Init /\ [][Next]_vars

(* The thread runs and the listener does; calls need not end. *)
FairSpec == Spec /\ WF_vars(EventThread) /\ WF_vars(Listen) /\ WF_vars(Expire)

-----------------------------------------------------------------------------
(* Properties. *)

(* Every call is logged once at most, in the order in which the calls ended,
   whatever was lost, cut or left in the buffer, and /api/logs shows the last
   of them; a call that is logged has ended and is not active. *)
LogsSound ==
    /\ \A i, j \in DOMAIN logged : i < j =>
          \E m, n \in DOMAIN order : m < n /\ order[m] = logged[i] /\ order[n] = logged[j]
    /\ \A i \in DOMAIN logged : call[logged[i]] = "over" /\ logged[i] \notin active
    /\ logs = LastOf(logged, MaxLogs)

(* Connected and subscribed, with a loop that reads. *)
Listening == srv = "events" /\ pc = "loop"

(* connect has given up on the answer to auth, which came later: nobody
   subscribes, and the server has no reason to close the connection. *)
Deaf == srv = "authed" /\ pc = "loop"

(* After every exception the loop comes back to listening; only an answer
   that is too late leaves it deaf. *)
ListensAgain == ~Listening ~> (Listening \/ Deaf)

(* A call whose answer and hangup were sent on one connection is logged,
   unless that connection breaks or is given up. *)
EndedIsLogged ==
    \A c \in Calls : (call[c] = "over" /\ c \in seen)
        ~> (c \notin seen \/ \E i \in DOMAIN logged : logged[i] = c)
=============================================================================
