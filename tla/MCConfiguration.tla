-------------------------- MODULE MCConfiguration --------------------------
(***************************************************************************)
(* An instance of Configuration: a sound configuration and every pair of   *)
(* the faults below, in the file or in what surrounds it.                  *)
(***************************************************************************)
EXTENDS Configuration

Key(path) == [kind |-> "file", path |-> path]

Db(dbname) == [host |-> <<"h">>, dbname |-> <<dbname>>, wrong |-> {}, password |-> {Key("pw")}, scan |-> {}]

Rule == [type |-> "regex", finds |-> {}, valid |-> {}, allow |-> {}, raises |-> {}, scope |-> AnyScope,
         spec |-> "ok", badAllow |-> FALSE, channels |-> {Unnamed}]

Hook == [name |-> Unnamed, url |-> "http", headers |-> {Key("key")}, badHeaderName |-> FALSE]
Bot == [name |-> Unnamed, token |-> Inline(<<"t">>), blankChannel |-> FALSE]
Table == [name |-> Unnamed, identifiers |-> TRUE, password |-> {}]

MCDefaults == [databases |-> <<>>, rules_file |-> {}, scan |-> "all", log |-> TRUE, stdout |-> FALSE,
               log_file |-> {}, otlp |-> {},
               jsonl |-> <<>>, webhooks |-> <<>>, slack |-> <<>>, postgres |-> <<>>]

MCWorld ==
  [files     |-> [p \in {"pw", "key", "token"} |-> IF p = "key" THEN <<"t", "nl">> ELSE <<"t">>],
   rules     |-> [p \in {"r1", "r2"} |-> IF p = "r1" THEN {<<Rule, Rule>>} ELSE {}],
   tooLarge  |-> {},
   opens     |-> {"alerts.jsonl", "pgsense.log"},
   exporters |-> {"http://localhost:4317"},
   watchable |-> {"r1", "r2"},
   reachable |-> {<<"h", "a">>, <<"h", "b">>, <<"webhook", 1>>, <<"slack", 1>>, <<"postgres", 1>>},
   usable    |-> {<<"h", "a">>, <<"h", "b">>, <<"postgres", 1>>},
   published |-> {<<"h", "a">>, <<"h", "b">>}]

Sound == [malformed |-> FALSE, env |-> << >>, rules |-> {}, connect |-> FALSE, world |-> MCWorld,
          file |-> [databases |-> <<Db("a"), Db("b")>>, rules_file |-> {"r1"}, webhooks |-> <<Hook>>,
                    jsonl |-> <<[name |-> Unnamed, path |-> "alerts.jsonl"]>>,
                    slack |-> <<Bot>>, postgres |-> <<Table>>]]

\* What can be wrong or different, one thing at a time.
Variants(in) ==
  {in,
   [in EXCEPT !.connect = TRUE],
   [in EXCEPT !.malformed = TRUE],
   [in EXCEPT !.file = << >>],
   [in EXCEPT !.env = [rules_file |-> {"r2"}]],
   [in EXCEPT !.rules = {"r3"}]}
  \cup {[in EXCEPT !.world.files = [p \in DOMAIN @ \ {gone} |-> @[p]]] : gone \in {"pw", "key"}}
  \cup {[in EXCEPT !.world.tooLarge = {"r1"}], [in EXCEPT !.world.opens = @ \ {"alerts.jsonl"}],
        [in EXCEPT !.world.opens = @ \ {"pgsense.log"}],
        [in EXCEPT !.world.exporters = {}], [in EXCEPT !.world.watchable = {}],
        [in EXCEPT !.world.published = @ \ {<<"h", "a">>}]}
  \cup {[in EXCEPT !.world.usable = @ \ {down}] : down \in {<<"h", "b">>, <<"postgres", 1>>}}
  \cup {[in EXCEPT !.world.reachable = @ \ {down}, !.world.usable = @ \ {down}] :
          down \in MCWorld.reachable}
  \cup (IF in.file = << >> THEN {} ELSE
    {[in EXCEPT !.file.rules_file = {}],
     [in EXCEPT !.file = @ @@ [log_file |-> {"pgsense.log"}]],
     [in EXCEPT !.file = @ @@ [otlp |-> {"http://localhost:4317"}]],
     [in EXCEPT !.file.databases = <<>>],
     [in EXCEPT !.file.databases = <<Db("a"), Db("a")>>],
     [in EXCEPT !.file.databases = <<[Db("b") EXCEPT !.dbname = <<"a", "b">>], [Db("b") EXCEPT !.host = <<"h", "a">>]>>],
     [in EXCEPT !.file.databases = <<Db("a"), [Db("b") EXCEPT !.wrong = {"publication"}]>>],
     [in EXCEPT !.file.webhooks[1].url = "other"],
     [in EXCEPT !.file.webhooks[1].badHeaderName = TRUE],
     [in EXCEPT !.file.webhooks[1].headers = {Inline(<<"t", "nl">>)}],
     [in EXCEPT !.file.slack[1].token = Key("token")],
     [in EXCEPT !.file.slack[1].token = Inline(<<>>)],
     [in EXCEPT !.file.slack[1].token = Inline(<<"t", "nl">>)],
     [in EXCEPT !.file.slack[1].blankChannel = TRUE],
     [in EXCEPT !.file.slack[1].name = <<"log">>],
     [in EXCEPT !.file.postgres[1].identifiers = FALSE],
     [in EXCEPT !.file.postgres[1].password = {Key("pw")}]})
  \cup {[in EXCEPT !.world.rules["r1"] = {<<Rule, rule>>}] : rule \in
          {[Rule EXCEPT !.spec = "bad"], [Rule EXCEPT !.spec = "missing"],
           [Rule EXCEPT !.type = "script", !.spec = "bad"], [Rule EXCEPT !.badAllow = TRUE],
           [Rule EXCEPT !.scope.include_tables = {"t"}, !.scope.exclude_tables = {"t"}],
           [Rule EXCEPT !.channels = {<<"webhook">>}], [Rule EXCEPT !.channels = {<<"slack", 1>>, <<"log">>}]}}

MCInputs == UNION {Variants(in) : in \in Variants(Sound)}

MCRulesCommands ==
  {[kind |-> "list"], [kind |-> "test"]}
  \cup {[kind |-> "bench", iterations |-> n, source |-> source, path |-> "key", count |-> n] :
          n \in {0, 1}, source \in {"input", "file", "generate"}}

MCGlobs == [g \in {} |-> {}]

=============================================================================
