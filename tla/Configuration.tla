--------------------------- MODULE Configuration ---------------------------
(***************************************************************************)
(* config/mod.rs, config/secret.rs, pipeline/config.rs, alerts/config.rs   *)
(* commands/validate and commands/rules: the validate command on a         *)
(* configuration, then the start of the scan command, or the rules         *)
(* command, on the same files.                                             *)
(*                                                                         *)
(* A text is a sequence over "t" and "nl", white space that no HTTP header *)
(* may hold.  A Secret is [kind, text] or [kind, path].  An Option is a    *)
(* set of at most one element.  Of a database, wrong has the fields that   *)
(* are blank or 0.  The world is what both commands find outside: the      *)
(* texts of readable files, the rules of rules files ({} when malformed),  *)
(* the paths that open for appending, the OTLP endpoints an exporter is    *)
(* made for (all of them in a build without otel), what can be reached and *)
(* used, where the publication exists, and the rules files a watcher takes.*)
(***************************************************************************)
EXTENDS RuleEngine, AlertNames

CONSTANTS Defaults,  \* key -> value of Config::default
          Inputs,    \* [malformed, file, env, rules, connect, world]
          RulesCommands  \* [kind] and, of a bench, [iterations, source, path, count]

VARIABLES input,     \* the arguments and all they lead to
          stage,     \* the step the commands are at
          config,    \* the loaded configuration of the running command
          issues,    \* of the report of validate
          accepted,  \* whether validate exited with 0
          built,     \* the channels, then the units, the scan command has made
          outcome    \* of the scan command, or of the rules command

vars == <<input, stage, config, issues, accepted, built, outcome>>

---------------------------------------------------------------------------
(* Secrets                                                                 *)

Inline(text) == [kind |-> "inline", text |-> text]

\* str::trim_end
TrimEnd(text) ==
  SubSeq(text, 1, CHOOSE n \in 0..Len(text) : /\ n = 0 \/ text[n] # "nl"
                                              /\ \A i \in (n + 1)..Len(text) : text[i] = "nl")

Readable(secret, world) == secret.kind = "file" => secret.path \in DOMAIN world.files

\* Secret::resolve
Resolve(secret, world) == IF secret.kind = "file" THEN Inline(TrimEnd(world.files[secret.path])) ELSE secret

\* Secret::expose panics on a file that was not resolved.
Exposable(secret) == secret.kind = "inline"

\* What HeaderValue::from_str takes.
IsHeaderValue(text) == "nl" \notin ToSet(text)

SecretsOf(c) ==
  UNION {db.password : db \in ToSet(c.databases)} \cup UNION {pg.password : pg \in ToSet(c.postgres)}
  \cup {s.token : s \in ToSet(c.slack)} \cup UNION {w.headers : w \in ToSet(c.webhooks)}

ResolvedAll(secrets, world) == {Resolve(s, world) : s \in secrets}

ResolvedPasswords(entries, world) ==
  [i \in DOMAIN entries |-> [entries[i] EXCEPT !.password = ResolvedAll(@, world)]]
ResolvedTokens(entries, world) ==
  [i \in DOMAIN entries |-> [entries[i] EXCEPT !.token = Resolve(@, world)]]
ResolvedHeaders(entries, world) ==
  [i \in DOMAIN entries |-> [entries[i] EXCEPT !.headers = ResolvedAll(@, world)]]

\* A definition whose name starts with Mut is a deliberately wrong variant of the one
\* that follows it, used nowhere.
MutResolveSecrets(c, world) ==
  [c EXCEPT !.databases = ResolvedPasswords(@, world), !.postgres = ResolvedPasswords(@, world),
            !.slack = ResolvedTokens(@, world)]
\* Config::resolve_secrets, when every file can be read.
ResolveSecrets(c, world) ==
  [c EXCEPT !.databases = ResolvedPasswords(@, world), !.postgres = ResolvedPasswords(@, world),
            !.slack = ResolvedTokens(@, world), !.webhooks = ResolvedHeaders(@, world)]

---------------------------------------------------------------------------
(* Loading and validating a configuration                                  *)

\* load: environment over file over defaults; a file that does not exist has no keys.
Layered(in) ==
  [k \in DOMAIN Defaults |-> IF k \in DOMAIN in.env THEN in.env[k]
                             ELSE IF k \in DOMAIN in.file THEN in.file[k] ELSE Defaults[k]]

\* A host and a database name are sequences of parts between slashes.
DatabaseId(db) == db.host \o db.dbname

IsDuplicate(c, i) == \E j \in 1..(i - 1) : DatabaseId(c.databases[j]) = DatabaseId(c.databases[i])

Duplicates(c) == {i \in DOMAIN c.databases : IsDuplicate(c, i)}

\* DatabaseConfig::validate
DatabaseErrors(c) == UNION {{<<i, field>> : field \in c.databases[i].wrong} : i \in DOMAIN c.databases}

WebhookErrors(w) == IF w.url = "http" THEN {} ELSE {w.url}

SlackErrors(s) == (IF s.token = Inline(<<>>) THEN {"token is empty"} ELSE {})
                  \cup (IF s.blankChannel THEN {"channel is empty"} ELSE {})

PostgresErrors(pg) == IF pg.identifiers THEN {} ELSE {"invalid identifier"}

\* JsonlAlertConfig::validate opens the file, as the channel will.
JsonlErrors(j, world) == IF j.path \in world.opens THEN {} ELSE {"cannot open"}

\* AlertsConfig::validate
AlertErrors(c, world) ==
  UNION ({WebhookErrors(w) : w \in ToSet(c.webhooks)} \cup {SlackErrors(s) : s \in ToSet(c.slack)}
         \cup {PostgresErrors(pg) : pg \in ToSet(c.postgres)}
         \cup {JsonlErrors(j, world) : j \in ToSet(c.jsonl)})

MutIsValid(c, world) ==
  c.databases # <<>> /\ Duplicates(c) = {} /\ DatabaseErrors(c) = {}
\* Config::validate
IsValid(c, world) ==
  c.databases # <<>> /\ Duplicates(c) = {} /\ DatabaseErrors(c) = {} /\ AlertErrors(c, world) = {}

\* Databases without a filter of their own take the global one.
Filtering(databases, default) ==
  [i \in DOMAIN databases |-> [databases[i] EXCEPT !.scan = IF @ = {} THEN {default} ELSE @]]

WithFilters(c) == [c EXCEPT !.databases = Filtering(@, c.scan)]

\* Config::load
Load(in) ==
  LET c == Layered(in)
      resolved == WithFilters(ResolveSecrets(c, in.world))
  IN  IF in.malformed \/ \E s \in SecretsOf(c) : ~Readable(s, in.world) THEN {}
      ELSE {r \in {resolved} : IsValid(r, in.world)}

NamesIn(entries) == [i \in DOMAIN entries |-> entries[i].name]

AlertsOf(c) == [log |-> c.log, stdout |-> c.stdout, jsonl |-> NamesIn(c.jsonl),
                webhooks |-> NamesIn(c.webhooks), slack |-> NamesIn(c.slack),
                postgres |-> NamesIn(c.postgres)]

\* The rules file named on the command line, or else in the configuration.
RulesPath(in, c) == IF in.rules # {} THEN in.rules ELSE c.rules_file

\* load_rules
LoadRules(path, world) == IF path \in DOMAIN world.rules THEN world.rules[path] ELSE {}

---------------------------------------------------------------------------
(* What a file, the environment and the world may hold                     *)

Secrets == [kind : {"inline"}, text : Seq({"t", "nl"})] \cup [kind : {"file"}, path : STRING]

\* A `name` in the configuration.
GivenNames == Seq(STRING)

IsOption(S) == \A a, b \in S : a = b

DatabaseConfigs == [host : Seq(STRING), dbname : Seq(STRING), wrong : SUBSET STRING,
                    password : SUBSET Secrets, scan : SUBSET STRING]
JsonlConfigs == [name : GivenNames, path : STRING]
WebhookConfigs == [name : GivenNames, url : STRING, headers : SUBSET Secrets,
                   badHeaderName : BOOLEAN]
SlackConfigs == [name : GivenNames, token : Secrets, blankChannel : BOOLEAN]
PostgresConfigs == [name : GivenNames, identifiers : BOOLEAN, password : SUBSET Secrets]

\* A configuration as it is written.
IsConfig(c) == /\ c.databases \in Seq(DatabaseConfigs)
               /\ c.jsonl \in Seq(JsonlConfigs)
               /\ c.webhooks \in Seq(WebhookConfigs)
               /\ c.slack \in Seq(SlackConfigs)
               /\ c.postgres \in Seq(PostgresConfigs)
               /\ {c.log, c.stdout} \subseteq BOOLEAN
               /\ IsOption(c.rules_file) /\ IsOption(c.log_file) /\ IsOption(c.otlp)

ASSUME ConfigurationAssumption ==
  /\ {"databases", "jsonl", "webhooks", "slack", "postgres", "log", "stdout", "rules_file", "scan",
      "log_file", "otlp"} \subseteq DOMAIN Defaults
  /\ \A in \in Inputs :
       /\ IsConfig(Layered(in))
       /\ IsOption(in.rules)
       /\ \A p \in DOMAIN in.world.rules :
            IsOption(in.world.rules[p]) /\ in.world.rules[p] \subseteq Seq(Rules)
  /\ \A rulesCommand \in RulesCommands : rulesCommand.kind \in {"list", "test", "bench"}

---------------------------------------------------------------------------
(* The validate command                                                    *)

Issue(phase, severity, about) == [phase |-> phase, severity |-> severity, about |-> about]

Errors(phase, abouts) == {Issue(phase, "error", a) : a \in abouts}
Warnings(phase, abouts) == {Issue(phase, "warning", a) : a \in abouts}

Loaded == CHOOSE c \in config : TRUE

Check(from, to, new) == /\ stage = from
                        /\ stage' = to
                        /\ issues' = issues \cup new
                        /\ UNCHANGED <<input, config, accepted, built, outcome>>

ValidateConfig == /\ stage = "config"
                  /\ config' = Load(input)
                  /\ issues' = IF config' = {} THEN {Issue("config", "error", "load")} ELSE {}
                  /\ stage' = IF config' = {} THEN "report" ELSE "databases"
                  /\ UNCHANGED <<input, accepted, built, outcome>>

\* The step for the store, which only names it, is left out.
ValidateDatabases == Check("databases", "rules",
  (IF Loaded.databases = <<>> THEN Errors("databases", {"none"}) ELSE {})
  \cup Warnings("databases", Duplicates(Loaded))
  \cup Errors("databases", DatabaseErrors(Loaded)))

ValidateRule(rule) == /\ ScopeIsValid(rule.scope)
                      /\ ~rule.badAllow
                      /\ rule.spec # "missing"
                      /\ IF rule.type = "script" THEN CompileScript(rule) = "ok" ELSE rule.spec # "bad"

\* Errors of rules that do not compile, warnings of channels that are not configured.
RuleIssues(rules) ==
  Errors("rules", {i \in DOMAIN rules : ~ValidateRule(rules[i])})
  \cup UNION {Warnings("rules", {<<i, ch>> :
         ch \in UnknownChannels(rules[i].channels, ConfigNames(AlertsOf(Loaded)))}) : i \in DOMAIN rules}

ValidateRules ==
  LET path == RulesPath(input, Loaded)
      found == UNION {LoadRules(p, input.world) : p \in path}
  IN  Check("rules", "alerts", IF path = {} THEN Warnings("rules", {"no rules file"})
                               ELSE IF found = {} THEN Errors("rules", {"load"})
                               ELSE UNION {RuleIssues(rules) : rules \in found})

ValidateAlerts ==
  LET names == ConfigNames(AlertsOf(Loaded))
      again == {i \in DOMAIN names : \E j \in 1..(i - 1) : names[i] = names[j]}
  IN  Check("alerts", IF input.connect THEN "connect" ELSE "report",
            Warnings("alerts", {names[i] : i \in again}) \cup Errors("alerts", AlertErrors(Loaded, input.world)))

\* Any answer of a webhook's server will do.
HeadCheck(i) == <<"webhook", i>> \in input.world.reachable

\* Slack's server must accept the token.
AuthTest(i) == <<"slack", i>> \in input.world.reachable

\* check_alerts and check_databases; the databases and the alert store must answer SELECT 1.
Connect ==
  Check("connect", "report",
    Errors("connect", {DatabaseId(db) : db \in ToSet(Loaded.databases)} \ input.world.reachable)
    \cup Errors("connect", {<<"webhook", i>> : i \in {w \in DOMAIN Loaded.webhooks : ~HeadCheck(w)}})
    \cup Errors("connect", {<<"slack", i>> : i \in {sl \in DOMAIN Loaded.slack : ~AuthTest(sl)}})
    \cup Errors("connect", {<<"postgres", i>> : i \in DOMAIN Loaded.postgres} \ input.world.reachable))

Report == /\ stage = "report"
          /\ accepted' = (\A issue \in issues : issue.severity # "error")
          /\ stage' = "load"
          /\ config' = {}
          /\ UNCHANGED <<input, issues, built, outcome>>

---------------------------------------------------------------------------
(* The start of the scan command                                           *)

Goes(from, to) == /\ stage = from
                  /\ stage' = to
                  /\ UNCHANGED <<input, issues, accepted>>

Ends(result) == outcome' = result /\ stage' = "done"

LoadConfig == /\ Goes("load", IF Load(input) = {} THEN "done" ELSE "logging")
              /\ config' = Load(input)
              /\ outcome' = IF config' = {} THEN "error" ELSE outcome
              /\ UNCHANGED built

LogOpens(c, world) == c.log_file \subseteq world.opens

\* init_tracer, when telemetry is enabled.
ExporterIsMade(c, world) == c.otlp \subseteq world.exporters

\* logging::setup
SetupLogging ==
  LET isSet == LogOpens(Loaded, input.world) /\ ExporterIsMade(Loaded, input.world)
  IN  /\ Goes("logging", IF isSet THEN "scanner" ELSE "done")
      /\ outcome' = IF isSet THEN outcome ELSE "error"
      /\ UNCHANGED <<config, built>>

\* The engine's RegexSet has a size limit of its own.
SetFits(path, world) == path \notin world.tooLarge

\* The rules c leads to, {} when there is no file or it does not load.
RulesOf(c) == UNION {LoadRules(p, input.world) : p \in RulesPath(input, c)}

Compiled(c) ==
  LET engines == {NewEngine(rules) : rules \in RulesOf(c)}
  IN  IF engines = {} \/ (engines = {"ok"} /\ \E p \in RulesPath(input, c) : ~SetFits(p, input.world))
      THEN "error" ELSE CHOOSE engine \in engines : TRUE

BuildScanner ==
  LET verdict == Compiled(Loaded)
  IN  /\ Goes("scanner", IF verdict = "ok" THEN "channels" ELSE "done")
      /\ outcome' = IF verdict = "ok" THEN outcome ELSE verdict
      /\ UNCHANGED <<config, built>>

\* The secrets a channel exposes when it is made, and whether that goes well: header
\* values and the Slack token must be header values, the alert store must be usable.
NewWebhook(w) == IF \E s \in w.headers : ~Exposable(s) THEN "panic"
                 ELSE IF w.badHeaderName \/ \E s \in w.headers : ~IsHeaderValue(s.text) THEN "error" ELSE "ok"

NewSlack(s) == IF ~Exposable(s.token) THEN "panic"
               ELSE IF IsHeaderValue(s.token.text) THEN "ok" ELSE "error"

NewJsonl(j) == IF JsonlErrors(j, input.world) = {} THEN "ok" ELSE "error"

NewPostgres(pg, i) == IF PostgresErrors(pg) # {} THEN "error"
                      ELSE IF \E s \in pg.password : ~Exposable(s) THEN "panic"
                      ELSE IF <<"postgres", i>> \in input.world.usable THEN "ok" ELSE "error"

\* What making each channel comes to, in from_config's order.
Makings == LET c == Loaded
           IN  [i \in DOMAIN Switch(c.log, "log") |-> "ok"]
               \o [i \in DOMAIN Switch(c.stdout, "stdout") |-> "ok"]
               \o [i \in DOMAIN c.jsonl |-> NewJsonl(c.jsonl[i])]
               \o [i \in DOMAIN c.webhooks |-> NewWebhook(c.webhooks[i])]
               \o [i \in DOMAIN c.slack |-> NewSlack(c.slack[i])]
               \o [i \in DOMAIN c.postgres |-> NewPostgres(c.postgres[i], i)]

MakeChannel == /\ stage = "channels"
               /\ built < Len(Makings)
               /\ IF Makings[built + 1] = "ok" THEN built' = built + 1 /\ UNCHANGED <<stage, outcome>>
                  ELSE Ends(Makings[built + 1]) /\ UNCHANGED built
               /\ UNCHANGED <<input, config, issues, accepted>>

ChannelsMade == /\ Goes("channels", "units")
                /\ built = Len(Makings)
                /\ built' = 0
                /\ UNCHANGED <<config, outcome>>

\* DatabaseConfig::to_pg_connection_config exposes the password.
ToPgConnectionConfig(db) == IF \A s \in db.password : Exposable(s) THEN "ok" ELSE "panic"

ToPipelineConfig(db) == IF "publication" \in db.wrong THEN "error" ELSE "ok"

\* The etl pipeline needs its publication.
Publishes(db, world) == DatabaseId(db) \in world.published

\* PipelineRunner::new and start take more of the database than SELECT 1.
NewRunner(db) == IF ToPgConnectionConfig(db) = "panic" THEN "panic"
                 ELSE IF DatabaseId(db) \in input.world.usable /\ Publishes(db, input.world)
                      THEN ToPipelineConfig(db) ELSE "error"

\* Supervisor::start goes through the units one by one, in an order that does not matter
\* here.
StartUnit ==
  /\ stage = "units"
  /\ built < Len(Loaded.databases)
  /\ LET made == NewRunner(Loaded.databases[built + 1])
     IN  IF made = "ok" THEN built' = built + 1 /\ UNCHANGED <<stage, outcome>>
         ELSE Ends(made) /\ UNCHANGED built
  /\ UNCHANGED <<input, config, issues, accepted>>

UnitsStarted == /\ Goes("units", "watcher")
                /\ built = Len(Loaded.databases)
                /\ UNCHANGED <<config, built, outcome>>

\* watch_file: the path is resolved, a watcher made and the directory watched.
IsWatchable(path, world) == path \in world.watchable

\* Units that have started by then end with the process.
WatchRules ==
  /\ stage = "watcher"
  /\ Ends(IF \A p \in RulesPath(input, Loaded) : IsWatchable(p, input.world) THEN "running" ELSE "error")
  /\ UNCHANGED <<input, config, issues, accepted, built>>

---------------------------------------------------------------------------
(* The rules command, run instead of the scan command                      *)

\* bench_inputs: one value, the lines of a file, {} when unreadable, or made-up ones.
BenchInputs(bench, world) ==
  CASE bench.source = "input"    -> {1}
    [] bench.source = "file"     -> IF bench.path \in DOMAIN world.files
                                    THEN {Len(world.files[bench.path])} ELSE {}
    [] bench.source = "generate" -> {bench.count} \ {0}

\* bench_rules compiles every rule alone and then all together, which stops at the same
\* rule as NewEngine.
BenchRules(rules, bench) ==
  IF bench.iterations = 0 \/ rules = <<>> \/ BenchInputs(bench, input.world) \subseteq {0}
  THEN "usage" ELSE Compiled(Layered(input))

\* The rules command reads the configuration as it is written: secrets stay unresolved and
\* nothing is validated.  list only prints the rules, test compiles them as scan does.
RulesCommand ==
  \E rulesCommand \in RulesCommands :
    /\ Goes("load", "done")
    /\ config' = IF input.malformed THEN {} ELSE {Layered(input)}
    /\ outcome' = IF input.malformed \/ RulesOf(Layered(input)) = {} THEN "error"
                  ELSE CASE rulesCommand.kind = "list"  -> "listed"
                         [] rulesCommand.kind = "test"  -> Compiled(Layered(input))
                         [] rulesCommand.kind = "bench" ->
                              BenchRules(CHOOSE rules \in RulesOf(Layered(input)) : TRUE, rulesCommand)
    /\ UNCHANGED built

Init == /\ input \in Inputs
        /\ stage = "config"
        /\ config = {}
        /\ issues = {}
        /\ accepted = FALSE
        /\ built = 0
        /\ outcome = "none"

Next == \/ ValidateConfig \/ ValidateDatabases \/ ValidateRules \/ ValidateAlerts \/ Connect \/ Report
        \/ LoadConfig \/ SetupLogging \/ BuildScanner \/ MakeChannel \/ ChannelsMade \/ StartUnit
        \/ UnitsStarted \/ WatchRules \/ RulesCommand

Spec == Init /\ [][Next]_vars

---------------------------------------------------------------------------

\* What the scan command needs and validate does not look at: a log file that opens, an
\* OTLP endpoint, the presence of a rules file, the size of the rules together, headers and
\* tokens that HTTP can carry, of the databases and the alert store whether they can be
\* used, not only reached, the publications, and whether the rules file can be watched.
Unchecked(c) ==
  \/ ~LogOpens(c, input.world)
  \/ ~ExporterIsMade(c, input.world)
  \/ RulesPath(input, c) = {}
  \/ \E p \in RulesPath(input, c) : ~SetFits(p, input.world) \/ ~IsWatchable(p, input.world)
  \/ \E w \in ToSet(c.webhooks) : w.badHeaderName \/ \E s \in w.headers : ~IsHeaderValue(s.text)
  \/ \E s \in ToSet(c.slack) : ~IsHeaderValue(s.token.text)
  \/ \E db \in ToSet(c.databases) : DatabaseId(db) \notin input.world.usable
  \/ \E db \in ToSet(c.databases) : ~Publishes(db, input.world)
  \/ \E i \in DOMAIN c.postgres : <<"postgres", i>> \notin input.world.usable

\* A configuration that validate accepts starts, unless it lacks what validate never
\* looks at, and its rules can be listed and tested; neither the start of the scan command
\* nor the rules command ever panics on it.
AcceptedStarts ==
  stage = "done" /\ accepted =>
    /\ outcome # "panic"
    /\ outcome = "error" => Unchecked(Loaded)

\* A configuration that validate rejects, connectivity aside, never starts.
RejectedNeverStarts ==
  stage = "done" /\ (\E issue \in issues : issue.severity = "error" /\ issue.phase # "connect")
    => outcome # "running"

\* docs/src/ops/multi-database.md: validate --connect "confirms each database is reachable,
\* the publication exists, and credentials work".
ConnectConfirmsPublications ==
  stage = "load" /\ accepted /\ input.connect =>
    \A c \in Load(input) : \A db \in ToSet(c.databases) : Publishes(db, input.world)

\* docs/src/cli/validate.md: it "Warns for any rule that routes to a channels name that
\* no enabled channel matches", which are the names the dispatcher does not know.
WarnsOfUnknownChannels ==
  stage = "load" =>
    \A c \in Load(input) : \A p \in RulesPath(input, c) : \A rules \in LoadRules(p, input.world) :
      \A i \in DOMAIN rules : \A ch \in rules[i].channels \ {Unnamed} :
        (Issue("rules", "warning", <<i, ch>>) \in issues)
          <=> ch \in UnknownChannels(rules[i].channels, DispatcherNames(AlertsOf(c)))

=============================================================================
