----------------------------- MODULE AlertNames -----------------------------
(***************************************************************************)
(* The names of the alert channels.  They are made up twice: by            *)
(* AlertsConfig::channels (alerts/config.rs) for the validate command, and *)
(* by Dispatcher::from_config (alerts/dispatcher.rs) for routing.          *)
(*                                                                         *)
(* A name is a tuple: <<"log">>, <<"webhook">>, <<"webhook", 2>> for       *)
(* webhook-2, <<"ops">> for a custom one; Unnamed is an absent `name`.  An *)
(* AlertsConfig is a record: switches of log and stdout, the enabled jsonl *)
(* and postgres channels as sequences of at most one `name`, and the       *)
(* `name`s of the webhooks and Slack channels.                             *)
(***************************************************************************)
EXTENDS Naturals, Sequences, SequencesExt

Unnamed == <<>>

Given(name, default) == IF name = Unnamed THEN default ELSE name

Switch(on, kind) == IF on THEN << <<kind>> >> ELSE <<>>

\* AlertsConfig::channels numbers every unnamed entry and ignores the names of the
\* jsonl and postgres channels.
ConfigNames(a) ==
  Switch(a.log, "log") \o Switch(a.stdout, "stdout")
  \o [i \in DOMAIN a.jsonl |-> <<"jsonl">>]
  \o [i \in DOMAIN a.webhooks |-> Given(a.webhooks[i], <<"webhook", i>>)]
  \o [i \in DOMAIN a.slack |-> Given(a.slack[i], <<"slack", i>>)]
  \o [i \in DOMAIN a.postgres |-> <<"postgres">>]

\* from_config numbers unnamed entries only when there are several of the kind.
Default(kind, entries, i) == IF Len(entries) = 1 THEN <<kind>> ELSE <<kind, i>>

DispatcherNames(a) ==
  Switch(a.log, "log") \o Switch(a.stdout, "stdout")
  \o [i \in DOMAIN a.jsonl |-> Given(a.jsonl[i], <<"jsonl">>)]
  \o [i \in DOMAIN a.webhooks |-> Given(a.webhooks[i], Default("webhook", a.webhooks, i))]
  \o [i \in DOMAIN a.slack |-> Given(a.slack[i], Default("slack", a.slack, i))]
  \o [i \in DOMAIN a.postgres |-> Given(a.postgres[i], <<"postgres">>)]

\* The kinds of the channels, in the same order.
Kinds(a) ==
  (IF a.log THEN <<"log">> ELSE <<>>) \o (IF a.stdout THEN <<"stdout">> ELSE <<>>)
  \o [i \in DOMAIN a.jsonl |-> "jsonl"] \o [i \in DOMAIN a.webhooks |-> "webhook"]
  \o [i \in DOMAIN a.slack |-> "slack"] \o [i \in DOMAIN a.postgres |-> "postgres"]

\* The channels a rule names that are none of names: what both the dispatcher's
\* validate_channel_routing and the validate command warn about.  A route is a set of
\* names; a rule without `channels` is routed to AllChannels, a set no list can be.
AllChannels == {Unnamed}

UnknownChannels(route, names) == IF route = AllChannels THEN {} ELSE route \ ToSet(names)

=============================================================================
