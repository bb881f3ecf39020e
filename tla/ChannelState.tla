---------------------------- MODULE ChannelState ----------------------------
(***************************************************************************)
(* The channel's states and the transitions switch_channel_set_state       *)
(* accepts (switch_types.h, switch_channel.c).                             *)
(***************************************************************************)
EXTENDS Integers

CS_NEW == 0
CS_INIT == 1
CS_ROUTING == 2
CS_SOFT_EXECUTE == 3
CS_EXECUTE == 4
CS_EXCHANGE_MEDIA == 5
CS_PARK == 6
CS_CONSUME_MEDIA == 7
CS_HIBERNATE == 8
CS_RESET == 9
CS_HANGUP == 10
CS_REPORTING == 11
CS_DESTROY == 12
CS_NONE == 13

States == CS_NEW .. CS_DESTROY

(* The states a live call moves between. *)
Midlife == {CS_ROUTING, CS_SOFT_EXECUTE, CS_EXECUTE, CS_EXCHANGE_MEDIA,
            CS_PARK, CS_CONSUME_MEDIA, CS_HIBERNATE, CS_RESET}

(* Slip: CS_PARK is missing from the cases of a live state. *)
AcceptsNoPark(last, state) ==
    CASE last \in {CS_NEW, CS_RESET} -> TRUE
      [] last \in (Midlife \cup {CS_INIT}) \ {CS_RESET} -> state \in Midlife \ {last, CS_PARK}
      [] OTHER -> state > last /\ state <= CS_DESTROY

(* The nested switch of switch_channel_perform_set_state: ok++ *)
Accepts(last, state) ==
    CASE last \in {CS_NEW, CS_RESET} -> TRUE
      [] last = CS_HIBERNATE -> state \in (Midlife \cup {CS_INIT}) \ {CS_HIBERNATE}
      [] last \in (Midlife \cup {CS_INIT}) \ {CS_RESET, CS_HIBERNATE} ->
            state \in Midlife \ {last}
      [] last = CS_HANGUP -> state \in {CS_REPORTING, CS_DESTROY}
      [] last = CS_REPORTING -> state = CS_DESTROY
      [] OTHER -> FALSE

(* The early exits: the state it already has, or back from the end. *)
Ignores(last, state) == last = state \/ (last >= CS_HANGUP /\ state < last)

(* The request trips switch_assert(channel->state >= CS_HANGUP). *)
Crashes(last, state) ==
    ~Ignores(last, state) /\ ~Accepts(last, state) /\ last < CS_HANGUP
=============================================================================
