------------------------------ MODULE EventBus ------------------------------
(***************************************************************************)
(* What switch_event.c promises those who fire events and those who bind   *)
(* to them: an event waits in line, is taken off it in its turn, is given  *)
(* once to each node that is bound when its delivery begins, and then is   *)
(* gone; a node joins or leaves only between deliveries.  An event is      *)
(* discarded only when nobody will deliver it any more.                    *)
(***************************************************************************)
EXTENDS Sequences

CONSTANTS Events, Nodes,
          Mark             \* what tells a dispatch thread to leave

VARIABLES life,            \* [Events -> where the event is in its life]
          line,            \* the events in line, and marks
          calls,           \* [Events -> nodes it has still to be given to]
          members,         \* the nodes that are bound
          stopped

busVars == <<life, line, calls, members, stopped>>

Init ==
    /\ life = [e \in Events |-> "new"] /\ line = << >>
    /\ calls = [e \in Events |-> {}] /\ members = {} /\ stopped = FALSE

(* The event moves on from one place to the next. *)
Moves(e, from, to) == life[e] = from /\ life' = [life EXCEPT ![e] = to]

(* The event leaves the system undelivered. *)
Discard(e, from) == stopped /\ Moves(e, from, "gone")

Send(e) ==
    /\ (~stopped /\ Moves(e, "new", "sent")) \/ Discard(e, "new")
    /\ UNCHANGED <<line, calls, members, stopped>>

Queue(e) ==
    /\ Moves(e, "sent", "waiting") /\ line' = Append(line, e)
    /\ UNCHANGED <<calls, members, stopped>>

TakeEvent ==
    /\ line # << >> /\ Head(line) \in Events
    /\ Moves(Head(line), "waiting", "taken") \/ Discard(Head(line), "waiting")
    /\ line' = Tail(line)
    /\ UNCHANGED <<calls, members, stopped>>

Deliver(e) ==
    /\ \/ ~stopped /\ Moves(e, "taken", "delivered") /\ calls' = [calls EXCEPT ![e] = members]
       \/ Discard(e, "taken") /\ UNCHANGED calls
    /\ UNCHANGED <<line, members, stopped>>

Call(e, n) ==
    /\ life[e] = "delivered" /\ n \in calls[e] /\ calls' = [calls EXCEPT ![e] = @ \ {n}]
    /\ UNCHANGED <<life, line, members, stopped>>

Done(e) ==
    /\ calls[e] = {} /\ Moves(e, "delivered", "gone")
    /\ UNCHANGED <<line, calls, members, stopped>>

Rebind(ns) ==
    /\ \A e \in Events : life[e] # "delivered"
    /\ members' = ns
    /\ UNCHANGED <<life, line, calls, stopped>>

Stop ==
    /\ ~stopped /\ stopped' = TRUE
    /\ UNCHANGED <<life, line, calls, members>>

PutMark ==
    /\ stopped /\ line' = Append(line, Mark)
    /\ UNCHANGED <<life, calls, members, stopped>>

TakeMark ==
    /\ line # << >> /\ Head(line) = Mark /\ line' = Tail(line)
    /\ UNCHANGED <<life, calls, members, stopped>>

Next ==
    \/ \E e \in Events : Send(e) \/ Queue(e) \/ Deliver(e) \/ Done(e) \/ \E n \in Nodes : Call(e, n)
    \/ \E ns \in SUBSET Nodes : Rebind(ns)
    \/ TakeEvent \/ Stop \/ PutMark \/ TakeMark

Spec == Init /\ [][Next]_busVars
=============================================================================
