---------------------------- MODULE EslListener ----------------------------
(***************************************************************************)
(* The server side of one event socket connection, listener_run of         *)
(* mod_event_socket.c, as its client sees it: a greeting, replies to       *)
(* commands, events once they are subscribed, and the end of the stream.   *)
(*                                                                         *)
(* What travels is a sequence of units.  A frame without a body is one     *)
(* unit; an event is a header, which announces BodyLen units, and these.   *)
(* The first unit of an event's body carries its name and its call.        *)
(***************************************************************************)
EXTENDS Naturals, Sequences

CONSTANTS Calls, NoCall,
          BodyLen    \* units in the body of an event

ASSUME ListenerAssumption == BodyLen \in Nat \ {0} /\ NoCall \notin Calls

VARIABLES srv,     \* "greeted", "authed", "events" (LFLAG_EVENTS) or "closed"
          cmds,    \* commands sent to the listener and not yet read
          wire     \* units sent to the client and not yet received

listenerVars == <<srv, cmds, wire>>

Kinds == {"answer", "hangup", "dtmf"}
Unit(t) == [t |-> t, call |-> NoCall, part |-> 0]
Part(k, c, i) == [t |-> k, call |-> c, part |-> i]
Units == {Unit(t) : t \in {"auth", "ok", "bye", "head"}}
            \cup {Part(k, c, i) : k \in Kinds, c \in Calls, i \in 1 .. BodyLen}

ListenerTypeOK ==
    /\ srv \in {"greeted", "authed", "events", "closed"}
    /\ cmds \in Seq({"auth", "event"}) /\ wire \in Seq(Units)

(* A connection is accepted and greeted. *)
Accept == srv' = "greeted" /\ cmds' = << >> /\ wire' = <<Unit("auth")>>

(* parse_command: auth with the right password, and event. *)
Serve ==
    /\ srv # "closed" /\ cmds # << >>
    /\ srv' = IF Head(cmds) = "auth" THEN "authed" ELSE "events"
    /\ cmds' = Tail(cmds)
    /\ wire' = Append(wire, Unit("ok"))

(* The end of listener_run: a notice, then the socket is closed. *)
Goodbye == srv' = "closed" /\ cmds' = << >> /\ wire' = Append(wire, Unit("bye"))

(* read_packet gives a client that does not authenticate 25 seconds. *)
AuthTimeout == srv = "greeted" /\ cmds = << >> /\ Goodbye

(* The listener stops, or the connection breaks and what was under way is
   lost from some point on. *)
Break ==
    /\ srv # "closed"
    /\ \/ Goodbye
       \/ \E n \in 0 .. Len(wire) : wire' = SubSeq(wire, 1, n) /\ srv' = "closed" /\ cmds' = << >>

(* event_handler and read_packet: header and body, if events are on. *)
Send(k, c) ==
    /\ wire' = IF srv # "events" THEN wire
               ELSE wire \o <<Unit("head")>> \o [i \in 1 .. BodyLen |-> Part(k, c, i)]
    /\ UNCHANGED <<srv, cmds>>

(* The client's end: its command, what it receives, the end of the stream. *)
Command(m) == cmds' = IF srv = "closed" THEN cmds ELSE Append(cmds, m)
AtEnd == srv = "closed" /\ wire = << >>
Quiet == wire = << >> /\ cmds = << >> /\ srv # "closed"
=============================================================================
