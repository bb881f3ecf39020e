--------------------------- MODULE PttJavaClient ---------------------------
(***************************************************************************)
(* EslClient.java and PttEventMonitor.runForever up to the event loop: the *)
(* client connects, waits for the greeting, authenticates and subscribes.  *)
(* It reads with readNBytes(65535) on a socket with a timeout of two       *)
(* seconds: readNBytes goes on until it has all 65535 bytes, the stream    *)
(* ends or the socket throws, and what it had read by then is gone.        *)
(***************************************************************************)
EXTENDS EslListener

CONSTANT Waits   \* timeouts that fit into the 8 seconds of a wait

VARIABLES pc,       \* place in connect, or "loop" (eventLoop), or "closed"
          buffer,   \* EslClient.buffer
          chunk,    \* read by the readNBytes in progress
          waited    \* timeouts since the wait began

vars == <<listenerVars, pc, buffer, chunk, waited>>

Init ==
    /\ srv = "closed" /\ cmds = << >> /\ wire = << >>
    /\ pc = "closed" /\ buffer = << >> /\ chunk = << >> /\ waited = 0

Connecting == pc \in {"greeting", "auth", "event"}

(* close(), and a new socket; the server is there. *)
Connect ==
    /\ pc = "closed" /\ Accept
    /\ pc' = "greeting" /\ buffer' = << >> /\ chunk' = << >> /\ waited' = 0

(* tryParseFrame and what waitAuthRequest and requireCommandOk make of it;
   before the subscription no frame has a body. *)
ParseFrame ==
    /\ Connecting /\ buffer # << >> /\ chunk = << >>
    /\ buffer' = Tail(buffer)
    /\ CASE pc = "greeting" /\ Head(buffer).t = "auth" -> pc' = "auth" /\ Command("auth") /\ waited' = 0
         [] pc = "auth" /\ Head(buffer).t = "ok"       -> pc' = "event" /\ Command("event") /\ waited' = 0
         [] pc = "event" /\ Head(buffer).t = "ok"      -> pc' = "loop" /\ UNCHANGED <<cmds, waited>>
         [] OTHER                                      -> UNCHANGED <<pc, cmds, waited>>
    /\ UNCHANGED <<srv, wire, chunk>>

(* readNBytes takes what has come, and wants more. *)
ReadSome ==
    /\ Connecting /\ buffer = << >> /\ wire # << >>
    /\ chunk' = chunk \o wire /\ wire' = << >>
    /\ UNCHANGED <<srv, cmds, pc, buffer, waited>>

(* SocketTimeoutException: recvFrame returns null. *)
ReadTimesOut ==
    /\ Connecting /\ buffer = << >> /\ Quiet /\ waited < Waits
    /\ chunk' = << >> /\ waited' = waited + 1
    /\ UNCHANGED <<listenerVars, pc, buffer>>

(* The stream ends: readNBytes returns what it has; nothing is null again. *)
ReadEnds ==
    /\ Connecting /\ buffer = << >> /\ AtEnd /\ waited < Waits
    /\ buffer' = chunk /\ chunk' = << >>
    /\ waited' = IF chunk = << >> THEN waited + 1 ELSE waited
    /\ UNCHANGED <<listenerVars, pc>>

(* "Timeout waiting ...": runForever closes the socket and sleeps. *)
GiveUp ==
    /\ Connecting /\ buffer = << >> /\ waited = Waits
    /\ pc' = "closed" /\ srv' = "closed" /\ cmds' = << >> /\ wire' = << >>
    /\ UNCHANGED <<buffer, chunk, waited>>

Monitor == Connect \/ ParseFrame \/ ReadSome \/ ReadTimesOut \/ ReadEnds \/ GiveUp

Listen == Serve /\ UNCHANGED <<pc, buffer, chunk, waited>>

(* The listener's 25 seconds are more than the client's 8. *)
Lose == Break /\ UNCHANGED <<pc, buffer, chunk, waited>>

Next == Monitor \/ Listen \/ Lose

(* The monitor runs, the server answers; connections may break or not. *)
FairSpec == Init /\ [][Next]_vars /\ WF_vars(Monitor) /\ WF_vars(Listen)

(* While the server is there and connections do not break, connect returns
   in the end and "ESL connected" is printed. *)
EslConnected == <>[][~Lose]_vars => <>(pc = "loop")
=============================================================================
