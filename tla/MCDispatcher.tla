---------------------------- MODULE MCDispatcher ----------------------------
(***************************************************************************)
(* An instance of Dispatcher: stdout, two channels that share the name     *)
(* "ops", a Slack channel and the PostgreSQL store under their defaults.   *)
(***************************************************************************)
EXTENDS Dispatcher

CONSTANTS k1, k2

MCAlerts == [log |-> FALSE, stdout |-> TRUE, jsonl |-> << <<"ops">> >>,
             webhooks |-> << <<"ops">> >>, slack |-> <<Unnamed>>, postgres |-> <<Unnamed>>]

\* Version 2 sends k1 to the two of one name, and k2 to a channel that is not there.
MCRoutes == <<[k \in Keys |-> IF k = k1 THEN AllChannels ELSE {<<"log">>, <<"postgres">>}],
              [k \in Keys |-> IF k = k1 THEN {<<"ops">>} ELSE {<<"webhook">>}]>>

\* An event in which both versions find the same.
Event(keys) == [v \in DOMAIN MCRoutes |-> keys]

\* One event with two findings, and two events with one.
MCBatches == { << Event(<<k1, k2>>) >>, << Event(<<k2>>), Event(<<k1>>) >> }

=============================================================================
