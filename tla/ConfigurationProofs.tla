----------------------- MODULE ConfigurationProofs -----------------------
(***************************************************************************)
(* Proofs about Configuration, for every input and every subcommand of     *)
(* rules.                                                                  *)
(*                                                                         *)
(* validate and the commands after it load the same input, so what the     *)
(* report says can be compared with what the later steps meet.  The        *)
(* inductive invariant says that the report has an error, connectivity     *)
(* aside, exactly when the configuration does not load or a rule would not *)
(* compile (Faulty), and that the scan command reaches its channels only   *)
(* when neither is the case.                                               *)
(***************************************************************************)
EXTENDS Configuration, WellFoundedInduction, SequenceTheorems, TLAPS

\* A set of natural numbers that is not empty has a least element.
LEMMA LeastElement ==
  ASSUME NEW S \in SUBSET Nat, S # {}
  PROVE  \E n \in S : \A k \in S : n <= k
<1>1. PICK n \in S : \A k \in S : ~ <<k, n>> \in OpToRel(<, Nat)
  BY NatLessThanWellFounded, WFMin
<1>2. \A k \in S : <<k, n>> \in Nat \X Nat
  OBVIOUS
<1>3. \A k \in S : ~ k < n
  BY <1>1, <1>2 DEF OpToRel
<1>4. \A k \in S : k \in Nat /\ n \in Nat
  OBVIOUS
<1>5. \A k \in S : n <= k
  BY <1>3, <1>4
<1> QED
  BY <1>5

\* An issue for which validate rejects, other than an endpoint that does not answer.
Rejects(issue) == issue.severity = "error" /\ issue.phase # "connect"

\* The rules that c leads to are missing from their file, or one does not compile.
BadRules(c) ==
  /\ RulesPath(input, c) # {}
  /\ \/ RulesOf(c) = {}
     \/ \E rules \in RulesOf(c) : \E i \in DOMAIN rules : ~ ValidateRule(rules[i])

Faulty == Load(input) = {} \/ \E c \in Load(input) : BadRules(c)

IsReported == (\E issue \in issues : Rejects(issue)) <=> Faulty

\* A configuration that Config::load returned is in use.
IsInUse == config = Load(input) /\ config # {}

Done == stage = "done"

\* What validate has found so far.
ReportInv ==
  /\ stage \in {"databases", "rules", "alerts", "connect"} => IsInUse
  /\ stage \in {"databases", "rules"} => \A issue \in issues : ~ Rejects(issue)
  /\ stage \notin {"config", "databases", "rules"} => IsReported
  /\ accepted => stage \notin {"config", "databases", "rules", "alerts", "connect", "report"}
  /\ accepted => ~ Faulty

\* How far the commands after it have come.
StartInv ==
  /\ ~ Done => outcome = "none"
  /\ built \in Nat
  /\ stage \in {"logging", "scanner", "channels", "units", "watcher"} => IsInUse
  /\ stage \in {"channels", "units", "watcher"} => ~ Faulty
  /\ outcome = "running" => ~ Faulty

ConfigurationInv == /\ input \in Inputs
                    /\ ReportInv
                    /\ StartInv
                    /\ AcceptedStarts

---------------------------------------------------------------------------
(* Rules *)

\* RuleEngine::new fails or panics on exactly the rules that validate reports.
LEMMA RuleVerdicts ==
  ASSUME NEW rule \in Rules
  PROVE  CompileRule(rule) = "ok" <=> ValidateRule(rule)
  BY DEF Rules, CompileRule, ValidateRule, CompileScript

\* It succeeds exactly when every rule compiles, the first that does not deciding how it
\* fails.
LEMMA EngineVerdicts ==
  ASSUME NEW rules \in Seq(Rules)
  PROVE  NewEngine(rules) = "ok" <=> \A i \in DOMAIN rules : ValidateRule(rules[i])
<1> DEFINE wrong == {i \in DOMAIN rules : CompileRule(rules[i]) # "ok"}
<1>1. DOMAIN rules \subseteq Nat /\ \A i \in DOMAIN rules : rules[i] \in Rules
  OBVIOUS
<1>2. wrong = {} <=> \A i \in DOMAIN rules : ValidateRule(rules[i])
  BY <1>1, RuleVerdicts
<1>3. CASE wrong = {}
  BY <1>2, <1>3 DEF NewEngine
<1>4. CASE wrong # {}
  <2> DEFINE first == CHOOSE i \in wrong : \A j \in wrong : i <= j
  <2>1. \E i \in wrong : \A j \in wrong : i <= j
    <3>1. wrong \in SUBSET Nat
      BY <1>1
    <3> HIDE DEF wrong
    <3> QED
      BY <1>4, <3>1, LeastElement
  <2>2. first \in wrong
    <3> HIDE DEF wrong
    <3> QED
      BY <2>1
  <2>3. NewEngine(rules) = CompileRule(rules[first])
    BY <1>4 DEF NewEngine
  <2> QED
    BY <1>2, <1>4, <2>2, <2>3
<1> QED
  BY <1>3, <1>4

---------------------------------------------------------------------------
(* The configuration that is loaded *)

\* Config::resolve_secrets leaves no secret that expose would panic on.
LEMMA ResolvedIsExposable ==
  ASSUME NEW s \in Secrets, NEW world
  PROVE  Exposable(Resolve(s, world))
  BY DEF Secrets, Resolve, Exposable, Inline

\* Each list of the configuration with its secrets resolved.
LEMMA PasswordsFacts ==
  ASSUME NEW world, NEW entries, NEW i \in DOMAIN entries,
         entries[i] \in DatabaseConfigs \/ entries[i] \in PostgresConfigs
  PROVE  LET e == ResolvedPasswords(entries, world)[i]
         IN  /\ \A s \in e.password : Exposable(s)
             /\ entries[i] \in DatabaseConfigs => e.wrong = entries[i].wrong
             /\ e = [f \in DOMAIN e |-> e[f]]
<1> DEFINE old == entries[i]
           e == ResolvedPasswords(entries, world)[i]
<1>1. e = [old EXCEPT !.password = ResolvedAll(old.password, world)]
  BY DEF ResolvedPasswords
<1>2. /\ old = [f \in DOMAIN old |-> old[f]] /\ "password" \in DOMAIN old
      /\ old.password \subseteq Secrets
      /\ old \in DatabaseConfigs => "wrong" \in DOMAIN old
  BY DEF DatabaseConfigs, PostgresConfigs
<1> HIDE DEF old, e
<1>3. /\ e.password = ResolvedAll(old.password, world)
      /\ old \in DatabaseConfigs => e.wrong = old.wrong
      /\ e = [f \in DOMAIN e |-> e[f]]
  BY <1>1, <1>2
<1>4. \A s \in e.password : Exposable(s)
  BY <1>2, <1>3, ResolvedIsExposable DEF ResolvedAll
<1> QED
  BY <1>3, <1>4 DEF old, e

LEMMA TokensFacts ==
  ASSUME NEW world, NEW entries, NEW i \in DOMAIN entries, entries[i] \in SlackConfigs
  PROVE  Exposable(ResolvedTokens(entries, world)[i].token)
<1> DEFINE old == entries[i]
           e == ResolvedTokens(entries, world)[i]
<1>1. e = [old EXCEPT !.token = Resolve(old.token, world)]
  BY DEF ResolvedTokens
<1>2. /\ old = [f \in DOMAIN old |-> old[f]] /\ "token" \in DOMAIN old
      /\ old.token \in Secrets
  BY DEF SlackConfigs
<1> HIDE DEF old, e
<1>3. e.token = Resolve(old.token, world)
  BY <1>1, <1>2
<1>4. Exposable(e.token)
  BY <1>2, <1>3, ResolvedIsExposable
<1> QED
  BY <1>4 DEF old, e

LEMMA HeadersFacts ==
  ASSUME NEW world, NEW entries, NEW i \in DOMAIN entries, entries[i] \in WebhookConfigs
  PROVE  \A s \in ResolvedHeaders(entries, world)[i].headers : Exposable(s)
<1> DEFINE old == entries[i]
           e == ResolvedHeaders(entries, world)[i]
<1>1. e = [old EXCEPT !.headers = ResolvedAll(old.headers, world)]
  BY DEF ResolvedHeaders
<1>2. /\ old = [f \in DOMAIN old |-> old[f]] /\ "headers" \in DOMAIN old
      /\ old.headers \subseteq Secrets
  BY DEF WebhookConfigs
<1> HIDE DEF old, e
<1>3. e.headers = ResolvedAll(old.headers, world)
  BY <1>1, <1>2
<1>4. \A s \in e.headers : Exposable(s)
  BY <1>2, <1>3, ResolvedIsExposable DEF ResolvedAll
<1> QED
  BY <1>4 DEF old, e

\* Taking the global filter touches nothing else.
LEMMA FilteringFacts ==
  ASSUME NEW default, NEW entries, NEW i \in DOMAIN entries,
         entries[i] = [f \in DOMAIN entries[i] |-> entries[i][f]]
  PROVE  Filtering(entries, default)[i].password = entries[i].password
<1> DEFINE old == entries[i]
           e == Filtering(entries, default)[i]
           filter == IF old.scan = {} THEN {default} ELSE old.scan
<1>1. e = [old EXCEPT !.scan = filter]
  BY DEF Filtering
<1>2. old = [f \in DOMAIN old |-> old[f]]
  OBVIOUS
<1> HIDE DEF old, e, filter
<1>3. e.password = old.password
  BY <1>1, <1>2
<1> QED
  BY <1>3 DEF old, e

\* What Load makes of a configuration.
LEMMA LoadedFacts ==
  ASSUME NEW in \in Inputs, NEW r \in Load(in)
  PROVE  LET c == Layered(in)
         IN  /\ Load(in) = {r}
             /\ ~ in.malformed
             /\ IsValid(r, in.world)
             /\ r.rules_file = c.rules_file
             /\ r.log = c.log /\ r.stdout = c.stdout
             /\ r.jsonl = c.jsonl
             /\ r.databases =
                  Filtering(ResolvedPasswords(c.databases, in.world), c.scan)
             /\ r.webhooks = ResolvedHeaders(c.webhooks, in.world)
             /\ r.slack = ResolvedTokens(c.slack, in.world)
             /\ r.postgres = ResolvedPasswords(c.postgres, in.world)
<1> DEFINE c == Layered(in)
           d == ResolvedPasswords(c.databases, in.world)
           p == ResolvedPasswords(c.postgres, in.world)
           k == ResolvedTokens(c.slack, in.world)
           w == ResolvedHeaders(c.webhooks, in.world)
           x == [c EXCEPT !.databases = d, !.postgres = p, !.slack = k, !.webhooks = w]
<1>1. /\ {"databases", "jsonl", "webhooks", "slack", "postgres", "log", "stdout", "rules_file", "scan"}
           \subseteq DOMAIN c
      /\ c = [key \in DOMAIN c |-> c[key]]
  BY ConfigurationAssumption DEF ConfigurationAssumption, Layered
<1>2. ~ in.malformed
  BY DEF Load
<1>3. r = WithFilters(ResolveSecrets(c, in.world)) /\ IsValid(r, in.world) /\ Load(in) = {r}
  BY <1>2 DEF Load
<1>4. ResolveSecrets(c, in.world) = x
  <2> HIDE DEF c
  <2> QED
    BY DEF ResolveSecrets
<1>5. /\ x.databases = d /\ x.postgres = p /\ x.slack = k /\ x.webhooks = w
      /\ x.rules_file = c.rules_file /\ x.log = c.log /\ x.stdout = c.stdout
      /\ x.jsonl = c.jsonl /\ x.scan = c.scan
      /\ DOMAIN x = DOMAIN c /\ x = [key \in DOMAIN x |-> x[key]]
  <2> HIDE DEF c, d, p, k, w
  <2> QED
    BY <1>1
<1> HIDE DEF c, d, p, k, w, x
<1>6. WithFilters(x) = [x EXCEPT !.databases = Filtering(x.databases, x.scan)]
  BY DEF WithFilters
<1>7. r = [x EXCEPT !.databases = Filtering(d, c.scan)] /\ "databases" \in DOMAIN x
  BY <1>1, <1>3, <1>4, <1>5, <1>6
<1>8. /\ r.databases = Filtering(d, c.scan) /\ r.postgres = p /\ r.slack = k /\ r.webhooks = w
      /\ r.rules_file = c.rules_file /\ r.log = c.log /\ r.stdout = c.stdout
      /\ r.jsonl = c.jsonl
  BY <1>5, <1>7
<1> QED
  BY <1>2, <1>3, <1>8 DEF c, d, p, k, w

\* What Config::load returned is valid, and nothing expose would panic on is left in it.
LEMMA LoadedIsExposable ==
  ASSUME NEW in \in Inputs, NEW r \in Load(in)
  PROVE  /\ \A i \in DOMAIN r.databases : \A s \in r.databases[i].password : Exposable(s)
         /\ \A i \in DOMAIN r.webhooks : \A s \in r.webhooks[i].headers : Exposable(s)
         /\ \A i \in DOMAIN r.slack : Exposable(r.slack[i].token)
         /\ \A i \in DOMAIN r.postgres : \A s \in r.postgres[i].password : Exposable(s)
<1> DEFINE c == Layered(in)
           d == ResolvedPasswords(c.databases, in.world)
<1>1. /\ r.databases = Filtering(d, c.scan)
      /\ r.webhooks = ResolvedHeaders(c.webhooks, in.world)
      /\ r.slack = ResolvedTokens(c.slack, in.world)
      /\ r.postgres = ResolvedPasswords(c.postgres, in.world)
  BY LoadedFacts
<1>2. IsConfig(c)
  BY ConfigurationAssumption DEF ConfigurationAssumption
<1> HIDE DEF c
<1>3. /\ \A i \in DOMAIN c.databases : c.databases[i] \in DatabaseConfigs
      /\ \A i \in DOMAIN c.webhooks : c.webhooks[i] \in WebhookConfigs
      /\ \A i \in DOMAIN c.slack : c.slack[i] \in SlackConfigs
      /\ \A i \in DOMAIN c.postgres : c.postgres[i] \in PostgresConfigs
  BY <1>2 DEF IsConfig
<1>4. /\ DOMAIN d = DOMAIN c.databases /\ DOMAIN r.databases = DOMAIN d
      /\ DOMAIN r.webhooks = DOMAIN c.webhooks
      /\ DOMAIN r.slack = DOMAIN c.slack
      /\ DOMAIN r.postgres = DOMAIN c.postgres
  BY <1>1 DEF Filtering, ResolvedPasswords, ResolvedHeaders, ResolvedTokens
<1>5. ASSUME NEW i \in DOMAIN r.databases
      PROVE  \A s \in r.databases[i].password : Exposable(s)
  <2>1. /\ \A s \in d[i].password : Exposable(s)
        /\ d[i] = [f \in DOMAIN d[i] |-> d[i][f]]
    BY <1>3, <1>4, <1>5, PasswordsFacts
  <2> HIDE DEF d
  <2> QED
    BY <1>1, <1>4, <1>5, <2>1, FilteringFacts
<1>6. ASSUME NEW i \in DOMAIN r.webhooks
      PROVE  \A s \in r.webhooks[i].headers : Exposable(s)
  BY <1>1, <1>3, <1>4, <1>6, HeadersFacts
<1>7. ASSUME NEW i \in DOMAIN r.slack
      PROVE  Exposable(r.slack[i].token)
  BY <1>1, <1>3, <1>4, <1>7, TokensFacts
<1>8. ASSUME NEW i \in DOMAIN r.postgres
      PROVE  \A s \in r.postgres[i].password : Exposable(s)
  <2>1. i \in DOMAIN c.postgres /\ c.postgres[i] \in PostgresConfigs
    BY <1>3, <1>4, <1>8
  <2>2. \A s \in ResolvedPasswords(c.postgres, in.world)[i].password : Exposable(s)
    BY <2>1, PasswordsFacts
  <2> QED
    BY <1>1, <2>2
<1> QED
  BY <1>5, <1>6, <1>7, <1>8

---------------------------------------------------------------------------
(* The rules a configuration leads to *)

\* There is at most one rules file, and it holds at most one list of rules.
LEMMA RulesOfFacts ==
  ASSUME input \in Inputs, NEW c, IsOption(c.rules_file)
  PROVE  IsOption(RulesPath(input, c)) /\ IsOption(RulesOf(c)) /\ RulesOf(c) \subseteq Seq(Rules)
<1>1. /\ IsOption(input.rules)
      /\ \A p \in DOMAIN input.world.rules :
           IsOption(input.world.rules[p]) /\ input.world.rules[p] \subseteq Seq(Rules)
  BY ConfigurationAssumption DEF ConfigurationAssumption
<1>2. IsOption(RulesPath(input, c))
  BY <1>1 DEF RulesPath
<1>3. \A p : /\ IsOption(LoadRules(p, input.world))
             /\ LoadRules(p, input.world) \subseteq Seq(Rules)
  BY <1>1 DEF LoadRules, IsOption
<1>4. IsOption(RulesOf(c))
  BY <1>2, <1>3 DEF RulesOf, IsOption
<1>5. RulesOf(c) \subseteq Seq(Rules)
  BY <1>3 DEF RulesOf
<1> QED
  BY <1>2, <1>4, <1>5

\* What compiling them comes to: it goes well only without a bad rule, and without one it
\* fails only for what validate does not look at.
LEMMA CompiledFacts ==
  ASSUME input \in Inputs, NEW c, IsOption(c.rules_file)
  PROVE  /\ Compiled(c) \in {"ok", "error", "panic"}
         /\ Compiled(c) = "ok" => ~ BadRules(c)
         /\ ~ BadRules(c) => Compiled(c) # "panic"
         /\ ~ BadRules(c) /\ Compiled(c) = "error" => Unchecked(c)
<1> DEFINE fit == \A p \in RulesPath(input, c) : SetFits(p, input.world)
<1>1. IsOption(RulesOf(c)) /\ RulesOf(c) \subseteq Seq(Rules)
  BY RulesOfFacts
<1>2. ~ fit => Unchecked(c)
  BY DEF Unchecked
<1>3. CASE RulesOf(c) = {}
  <2>1. Compiled(c) = "error"
    BY <1>3 DEF Compiled
  <2>2. ~ BadRules(c) => RulesPath(input, c) = {}
    BY <1>3 DEF BadRules
  <2>3. BadRules(c) \/ Unchecked(c)
    BY <2>2 DEF Unchecked
  <2> QED
    BY <2>1, <2>3
<1>4. CASE RulesOf(c) # {}
  <2>1. PICK rules \in Seq(Rules) : RulesOf(c) = {rules}
    BY <1>1, <1>4 DEF IsOption
  <2>2. {NewEngine(other) : other \in RulesOf(c)} = {NewEngine(rules)}
    BY <2>1
  <2>3. Compiled(c) = IF NewEngine(rules) = "ok" /\ ~ fit THEN "error" ELSE NewEngine(rules)
    <3> DEFINE engines == {NewEngine(other) : other \in RulesOf(c)}
    <3>1. (CHOOSE engine \in {NewEngine(rules)} : TRUE) = NewEngine(rules)
      OBVIOUS
    <3>2. Compiled(c) = IF engines = {} \/ (engines = {"ok"}
                             /\ \E p \in RulesPath(input, c) : ~ SetFits(p, input.world))
                        THEN "error" ELSE CHOOSE engine \in engines : TRUE
      BY Zenon DEF Compiled
    <3>3. engines = {NewEngine(rules)}
      BY <2>2
    <3>4. (\E p \in RulesPath(input, c) : ~ SetFits(p, input.world)) <=> ~ fit
      OBVIOUS
    <3> HIDE DEF engines, fit
    <3> QED
      BY <3>1, <3>2, <3>3, <3>4
  <2>4. RulesPath(input, c) # {}
    BY <1>4 DEF RulesOf
  <2>5. BadRules(c) <=> NewEngine(rules) # "ok"
    BY <2>1, <2>4, EngineVerdicts DEF BadRules
  <2>6. NewEngine(rules) \in {"ok", "error", "panic"}
    BY DEF NewEngine, CompileRule
  <2> HIDE DEF fit
  <2> QED
    BY <1>2, <2>3, <2>5, <2>6
<1> QED
  BY <1>3, <1>4

\* What Config::load returns leads to the rules of the configuration as it is written.
LEMMA SameRules ==
  ASSUME input \in Inputs, NEW r \in Load(input)
  PROVE  /\ IsOption(r.rules_file)
         /\ RulesPath(input, r) = RulesPath(input, Layered(input))
         /\ BadRules(r) <=> BadRules(Layered(input))
<1>1. r.rules_file = Layered(input).rules_file
  BY LoadedFacts
<1>2. IsOption(Layered(input).rules_file)
  BY ConfigurationAssumption DEF ConfigurationAssumption, IsConfig
<1>3. RulesPath(input, r) = RulesPath(input, Layered(input))
  BY <1>1 DEF RulesPath
<1>4. RulesOf(r) = RulesOf(Layered(input))
  BY <1>3 DEF RulesOf
<1> QED
  BY <1>1, <1>2, <1>3, <1>4 DEF BadRules

\* The configuration in use is the one Config::load returned, and the only one.
LEMMA InUse ==
  ASSUME input \in Inputs, IsInUse
  PROVE  /\ Loaded \in Load(input) /\ Load(input) = {Loaded} /\ config = {Loaded}
         /\ Faulty <=> BadRules(Loaded)
<1>1. Loaded \in Load(input)
  BY DEF IsInUse, Loaded
<1>2. Load(input) = {Loaded}
  BY <1>1, LoadedFacts
<1> QED
  BY <1>1, <1>2 DEF IsInUse, Faulty

---------------------------------------------------------------------------
(* The validate command *)

USE DEF Done

LEMMA ValidateConfigKeeps ==
  ASSUME ConfigurationInv, ValidateConfig
  PROVE  ConfigurationInv'
<1>1. /\ UNCHANGED <<input, accepted, built, outcome>>
      /\ stage = "config" /\ stage' \in {"report", "databases"}
      /\ ~ accepted /\ outcome = "none"
  BY DEF ConfigurationInv, ReportInv, StartInv, ValidateConfig
<1>2. Faulty' <=> Faulty
  BY <1>1 DEF Faulty, BadRules, RulesOf
<1>3. CASE Load(input) = {}
  <2>1. Faulty' /\ stage' = "report" /\ issues' = {Issue("config", "error", "load")}
    BY <1>2, <1>3 DEF Faulty, ValidateConfig
  <2>2. IsReported'
    BY <2>1 DEF IsReported, Rejects, Issue
  <2> QED
    BY <1>1, <2>1, <2>2 DEF ConfigurationInv, ReportInv, StartInv, AcceptedStarts
<1>4. CASE Load(input) # {}
  <2>1. IsInUse' /\ stage' = "databases" /\ issues' = {}
    BY <1>1, <1>4 DEF IsInUse, ValidateConfig
  <2> QED
    BY <1>1, <2>1 DEF ConfigurationInv, ReportInv, StartInv, AcceptedStarts
<1> QED
  BY <1>3, <1>4

\* A step of the report that finds nothing to reject for, or what makes the configuration
\* faulty.
LEMMA CheckKeeps ==
  ASSUME ConfigurationInv, NEW from, NEW to, NEW new, Check(from, to, new),
         <<from, to>> \in {<<"databases", "rules">>, <<"rules", "alerts">>, <<"alerts", "connect">>,
                           <<"alerts", "report">>, <<"connect", "report">>},
         (\E issue \in new : Rejects(issue)) <=> (from = "rules" /\ Faulty)
  PROVE  ConfigurationInv'
<1>1. /\ UNCHANGED <<input, config, accepted, built, outcome>>
      /\ stage = from /\ stage' = to /\ issues' = issues \cup new
      /\ ~ accepted /\ outcome = "none" /\ IsInUse
  BY DEF ConfigurationInv, ReportInv, StartInv, Check
<1>2. (Faulty' <=> Faulty) /\ IsInUse'
  BY <1>1 DEF Faulty, BadRules, RulesOf, IsInUse
<1>3. (\E issue \in issues' : Rejects(issue))
        <=> (\E issue \in issues : Rejects(issue)) \/ \E issue \in new : Rejects(issue)
  BY <1>1
<1>4. /\ stage' = "rules" => \A issue \in issues' : ~ Rejects(issue)
      /\ stage' # "rules" => IsReported'
  BY <1>1, <1>2, <1>3 DEF ConfigurationInv, ReportInv, IsReported
<1> QED
  BY <1>1, <1>2, <1>4 DEF ConfigurationInv, ReportInv, StartInv, AcceptedStarts

\* A warning rejects nothing, an error does unless it is about connectivity.
LEMMA Rejecting ==
  ASSUME NEW phase, NEW abouts
  PROVE  /\ \A issue \in Warnings(phase, abouts) : ~ Rejects(issue)
         /\ \A issue \in Errors("connect", abouts) : ~ Rejects(issue)
         /\ phase # "connect" =>
              ((\E issue \in Errors(phase, abouts) : Rejects(issue)) <=> abouts # {})
<1>1. ASSUME NEW issue \in Warnings(phase, abouts)
      PROVE  ~ Rejects(issue)
  <2>1. PICK a \in abouts : issue = Issue(phase, "warning", a)
    BY DEF Warnings
  <2> QED
    BY <2>1 DEF Issue, Rejects
<1>2. ASSUME NEW issue \in Errors("connect", abouts)
      PROVE  ~ Rejects(issue)
  <2>1. PICK a \in abouts : issue = Issue("connect", "error", a)
    BY DEF Errors
  <2> QED
    BY <2>1 DEF Issue, Rejects
<1>3. ASSUME phase # "connect", NEW a \in abouts
      PROVE  \E issue \in Errors(phase, abouts) : Rejects(issue)
  <2>1. Issue(phase, "error", a) \in Errors(phase, abouts)
    BY DEF Errors
  <2>2. Rejects(Issue(phase, "error", a))
    BY <1>3 DEF Issue, Rejects
  <2> QED
    BY <2>1, <2>2
<1>4. abouts = {} => Errors(phase, abouts) = {}
  BY DEF Errors
<1> QED
  BY <1>1, <1>2, <1>3, <1>4

LEMMA ValidateDatabasesKeeps ==
  ASSUME ConfigurationInv, ValidateDatabases
  PROVE  ConfigurationInv'
<1> DEFINE none == IF Loaded.databases = <<>> THEN Errors("databases", {"none"}) ELSE {}
           again == Warnings("databases", Duplicates(Loaded))
           wrong == Errors("databases", DatabaseErrors(Loaded))
<1>1. Check("databases", "rules", none \cup again \cup wrong)
  BY DEF ValidateDatabases
<1>2. IsValid(Loaded, input.world)
  BY <1>1, InUse, LoadedFacts DEF ConfigurationInv, ReportInv, Check
<1>3. none = {} /\ \A issue \in wrong : ~ Rejects(issue)
  BY <1>2, Rejecting DEF IsValid
<1>4. \A issue \in again : ~ Rejects(issue)
  BY Rejecting
<1> HIDE DEF none, again, wrong
<1>5. ~ \E issue \in none \cup again \cup wrong : Rejects(issue)
  BY <1>3, <1>4
<1> QED
  BY <1>1, <1>5, CheckKeeps

\* The list of rules is reported to be in error exactly when a rule is.
LEMMA RuleIssuesReject ==
  ASSUME NEW rules
  PROVE  (\E issue \in RuleIssues(rules) : Rejects(issue))
           <=> \E i \in DOMAIN rules : ~ ValidateRule(rules[i])
<1> DEFINE bad == {i \in DOMAIN rules : ~ ValidateRule(rules[i])}
           unknown(i) == {<<i, ch>> : ch \in UnknownChannels(rules[i].channels,
                                                             ConfigNames(AlertsOf(Loaded)))}
<1>1. RuleIssues(rules)
        = Errors("rules", bad) \cup UNION {Warnings("rules", unknown(i)) : i \in DOMAIN rules}
  BY DEF RuleIssues
<1>2. \A i \in DOMAIN rules : \A issue \in Warnings("rules", unknown(i)) : ~ Rejects(issue)
  BY Rejecting
<1>3. (\E issue \in Errors("rules", bad) : Rejects(issue)) <=> bad # {}
  BY Rejecting
<1> HIDE DEF unknown
<1> QED
  BY <1>1, <1>2, <1>3

LEMMA ValidateRulesKeeps ==
  ASSUME ConfigurationInv, ValidateRules
  PROVE  ConfigurationInv'
<1> DEFINE path == RulesPath(input, Loaded)
           found == RulesOf(Loaded)
           new == IF path = {} THEN Warnings("rules", {"no rules file"})
                  ELSE IF found = {} THEN Errors("rules", {"load"})
                  ELSE UNION {RuleIssues(rules) : rules \in found}
<1>1. Check("rules", "alerts", new)
  BY DEF ValidateRules, RulesOf
<1>2. Faulty <=> BadRules(Loaded)
  BY <1>1, InUse DEF ConfigurationInv, ReportInv, Check
<1>3. (\E issue \in new : Rejects(issue)) <=> BadRules(Loaded)
  <2>1. BadRules(Loaded)
          <=> /\ path # {}
              /\ found = {} \/ \E rules \in found : \E i \in DOMAIN rules : ~ ValidateRule(rules[i])
    BY DEF BadRules
  <2> HIDE DEF path, found
  <2>2. CASE path = {}
    BY <2>1, <2>2, Rejecting
  <2>3. CASE path # {} /\ found = {}
    <3>1. new = Errors("rules", {"load"})
      BY <2>3
    <3>2. \E issue \in Errors("rules", {"load"}) : Rejects(issue)
      BY Rejecting
    <3> HIDE DEF new
    <3> QED
      BY <2>1, <2>3, <3>1, <3>2
  <2>4. CASE path # {} /\ found # {}
    <3>1. new = UNION {RuleIssues(rules) : rules \in found}
      BY <2>4
    <3> QED
      BY <2>1, <2>4, <3>1, RuleIssuesReject
  <2> QED
    BY <2>2, <2>3, <2>4
<1> HIDE DEF new
<1> QED
  BY <1>1, <1>2, <1>3, CheckKeeps

LEMMA ValidateAlertsKeeps ==
  ASSUME ConfigurationInv, ValidateAlerts
  PROVE  ConfigurationInv'
<1> DEFINE names == ConfigNames(AlertsOf(Loaded))
           again == {names[i] : i \in {i \in DOMAIN names : \E j \in 1..(i - 1) : names[i] = names[j]}}
           to == IF input.connect THEN "connect" ELSE "report"
           new == Warnings("alerts", again) \cup Errors("alerts", AlertErrors(Loaded, input.world))
<1>1. Check("alerts", to, new)
  BY DEF ValidateAlerts
<1>2. AlertErrors(Loaded, input.world) = {}
  BY <1>1, InUse, LoadedFacts DEF ConfigurationInv, ReportInv, Check, IsValid
<1> HIDE DEF again
<1>3. ~ \E issue \in new : Rejects(issue)
  BY <1>2, Rejecting
<1> HIDE DEF new
<1> QED
  BY <1>1, <1>3, CheckKeeps

LEMMA ConnectKeeps ==
  ASSUME ConfigurationInv, Connect
  PROVE  ConfigurationInv'
<1>1. PICK d, w, s, p : Check("connect", "report", Errors("connect", d) \cup Errors("connect", w)
                                \cup Errors("connect", s) \cup Errors("connect", p))
  BY DEF Connect
<1>2. ~ \E issue \in Errors("connect", d) \cup Errors("connect", w)
                       \cup Errors("connect", s) \cup Errors("connect", p) : Rejects(issue)
  BY Rejecting
<1> QED
  BY <1>1, <1>2, CheckKeeps

LEMMA ReportKeeps ==
  ASSUME ConfigurationInv, Report
  PROVE  ConfigurationInv'
<1>1. /\ UNCHANGED <<input, issues, built, outcome>>
      /\ stage = "report" /\ stage' = "load" /\ outcome = "none"
      /\ accepted' => \A issue \in issues : issue.severity # "error"
      /\ IsReported
  BY DEF ConfigurationInv, ReportInv, StartInv, Report
<1>2. Faulty' <=> Faulty
  BY <1>1 DEF Faulty, BadRules, RulesOf
<1>3. IsReported' /\ (accepted' => ~ Faulty')
  BY <1>1, <1>2 DEF IsReported, Rejects
<1> QED
  BY <1>1, <1>2, <1>3 DEF ConfigurationInv, ReportInv, StartInv, AcceptedStarts

---------------------------------------------------------------------------
(* The start of the scan command *)

\* The issues, and what is faulty, are settled by then.
LEMMA Settled ==
  ASSUME ConfigurationInv, UNCHANGED <<input, issues, accepted>>,
         stage \in {"load", "logging", "scanner", "channels", "units", "watcher"},
         stage' \in {"logging", "scanner", "channels", "units", "watcher", "done"}
  PROVE  input' \in Inputs /\ ReportInv' /\ (Faulty' <=> Faulty)
<1>1. Faulty' <=> Faulty
  BY DEF Faulty, BadRules, RulesOf
<1> QED
  BY <1>1 DEF ConfigurationInv, ReportInv, IsReported

LEMMA LoadConfigKeeps ==
  ASSUME ConfigurationInv, LoadConfig
  PROVE  ConfigurationInv'
<1>1. /\ UNCHANGED <<input, issues, accepted, built>>
      /\ stage = "load" /\ stage' = (IF Load(input) = {} THEN "done" ELSE "logging")
      /\ config' = Load(input)
      /\ outcome = "none" /\ outcome' \in {"error", outcome}
  BY DEF ConfigurationInv, StartInv, LoadConfig, Goes
<1>2. input' \in Inputs /\ ReportInv' /\ (Faulty' <=> Faulty)
  BY <1>1, Settled
<1>3. CASE Load(input) = {}
  <2>1. Faulty
    BY <1>3 DEF Faulty
  <2>2. ~ accepted' /\ stage' = "done"
    BY <1>1, <1>3, <2>1 DEF ConfigurationInv, ReportInv
  <2> QED
    BY <1>1, <1>2, <2>2 DEF ConfigurationInv, StartInv, AcceptedStarts
<1>4. CASE Load(input) # {}
  <2>1. IsInUse' /\ stage' = "logging" /\ outcome' = "none"
    BY <1>1, <1>4 DEF IsInUse, LoadConfig
  <2> QED
    BY <1>1, <1>2, <2>1 DEF ConfigurationInv, StartInv, AcceptedStarts
<1> QED
  BY <1>3, <1>4

LEMMA SetupLoggingKeeps ==
  ASSUME ConfigurationInv, SetupLogging
  PROVE  ConfigurationInv'
<1> DEFINE isSet == LogOpens(Loaded, input.world) /\ ExporterIsMade(Loaded, input.world)
<1>1. /\ UNCHANGED <<input, issues, accepted, config, built>>
      /\ stage = "logging" /\ stage' = (IF isSet THEN "scanner" ELSE "done")
      /\ outcome = "none" /\ outcome' = (IF isSet THEN outcome ELSE "error")
      /\ IsInUse
  BY DEF ConfigurationInv, StartInv, SetupLogging, Goes
<1>2. input' \in Inputs /\ ReportInv' /\ (Faulty' <=> Faulty)
  BY <1>1, Settled
<1>3. ~ isSet => Unchecked(Loaded)
  BY DEF Unchecked
<1>4. IsInUse' /\ (Unchecked(Loaded)' <=> Unchecked(Loaded))
  BY <1>1 DEF IsInUse, Loaded, Unchecked
<1> HIDE DEF isSet
<1> QED
  BY <1>1, <1>2, <1>3, <1>4 DEF ConfigurationInv, StartInv, AcceptedStarts

LEMMA BuildScannerKeeps ==
  ASSUME ConfigurationInv, BuildScanner
  PROVE  ConfigurationInv'
<1> DEFINE verdict == Compiled(Loaded)
<1>1. /\ UNCHANGED <<input, issues, accepted, config, built>>
      /\ stage = "scanner" /\ stage' = (IF verdict = "ok" THEN "channels" ELSE "done")
      /\ outcome = "none" /\ outcome' = (IF verdict = "ok" THEN outcome ELSE verdict)
      /\ IsInUse
  BY DEF ConfigurationInv, StartInv, BuildScanner, Goes
<1>2. input' \in Inputs /\ ReportInv' /\ (Faulty' <=> Faulty)
  BY <1>1, Settled
<1>3. /\ verdict \in {"ok", "error", "panic"}
      /\ verdict = "ok" => ~ Faulty
      /\ ~ Faulty => verdict # "panic"
      /\ ~ Faulty /\ verdict = "error" => Unchecked(Loaded)
  BY <1>1, InUse, SameRules, CompiledFacts DEF ConfigurationInv
<1>4. IsInUse' /\ (Unchecked(Loaded)' <=> Unchecked(Loaded))
  BY <1>1 DEF IsInUse, Loaded, Unchecked
<1>5. accepted => ~ Faulty
  BY DEF ConfigurationInv, ReportInv
<1> HIDE DEF verdict
<1> QED
  BY <1>1, <1>2, <1>3, <1>4, <1>5 DEF ConfigurationInv, StartInv, AcceptedStarts

\* Making the channels of a configuration in use fails only for what validate does not
\* look at, and never panics.
LEMMA MakingsFacts ==
  ASSUME input \in Inputs, IsInUse
  PROVE  /\ Len(Makings) \in Nat
         /\ \A i \in 1..Len(Makings) :
              Makings[i] = "ok" \/ (Makings[i] = "error" /\ Unchecked(Loaded))
<1> DEFINE c == Loaded
           T == IF Unchecked(c) THEN {"ok", "error"} ELSE {"ok"}
           log == [i \in DOMAIN Switch(c.log, "log") |-> "ok"]
           stdout == [i \in DOMAIN Switch(c.stdout, "stdout") |-> "ok"]
           jsonl == [i \in DOMAIN c.jsonl |-> NewJsonl(c.jsonl[i])]
           webhooks == [i \in DOMAIN c.webhooks |-> NewWebhook(c.webhooks[i])]
           slack == [i \in DOMAIN c.slack |-> NewSlack(c.slack[i])]
           postgres == [i \in DOMAIN c.postgres |-> NewPostgres(c.postgres[i], i)]
<1>1. c \in Load(input) /\ AlertErrors(c, input.world) = {}
  BY InUse, LoadedFacts DEF IsValid
<1>2. /\ \A j \in ToSet(c.jsonl) : JsonlErrors(j, input.world) = {}
      /\ \A pg \in ToSet(c.postgres) : PostgresErrors(pg) = {}
  BY <1>1 DEF AlertErrors
<1>3. /\ \E n \in Nat : DOMAIN c.jsonl = 1..n
      /\ \E n \in Nat : DOMAIN c.webhooks = 1..n
      /\ \E n \in Nat : DOMAIN c.slack = 1..n
      /\ \E n \in Nat : DOMAIN c.postgres = 1..n
  <2> DEFINE written == Layered(input)
  <2>1. /\ c.jsonl = written.jsonl
        /\ c.webhooks = ResolvedHeaders(written.webhooks, input.world)
        /\ c.slack = ResolvedTokens(written.slack, input.world)
        /\ c.postgres = ResolvedPasswords(written.postgres, input.world)
    BY <1>1, LoadedFacts
  <2>2. IsConfig(written)
    BY ConfigurationAssumption DEF ConfigurationAssumption
  <2> HIDE DEF c, written
  <2>3. /\ DOMAIN written.jsonl = 1..Len(written.jsonl) /\ Len(written.jsonl) \in Nat
        /\ DOMAIN written.webhooks = 1..Len(written.webhooks) /\ Len(written.webhooks) \in Nat
        /\ DOMAIN written.slack = 1..Len(written.slack) /\ Len(written.slack) \in Nat
        /\ DOMAIN written.postgres = 1..Len(written.postgres) /\ Len(written.postgres) \in Nat
    BY <2>2 DEF IsConfig
  <2> QED
    BY <2>1, <2>3 DEF ResolvedHeaders, ResolvedTokens, ResolvedPasswords
<1> HIDE DEF c
<1>4. log \in Seq(T) /\ stdout \in Seq(T)
  <2>1. \A on, kind : DOMAIN Switch(on, kind) \in {1..0, 1..1}
    BY DEF Switch
  <2>2. \A on, kind : [i \in DOMAIN Switch(on, kind) |-> "ok"] \in Seq(T)
    BY <2>1
  <2> HIDE DEF T
  <2> QED
    BY <2>2
<1>5. jsonl \in Seq(T)
  BY <1>2, <1>3 DEF NewJsonl, ToSet
<1>6. webhooks \in Seq(T)
  <2>1. ASSUME NEW i \in DOMAIN c.webhooks
        PROVE  NewWebhook(c.webhooks[i]) \in T
    <3>1. \A s \in c.webhooks[i].headers : Exposable(s)
      BY <1>1, LoadedIsExposable
    <3>2. c.webhooks[i] \in ToSet(c.webhooks)
      BY DEF ToSet
    <3> QED
      BY <3>1, <3>2 DEF NewWebhook, Unchecked
  <2> HIDE DEF T
  <2> QED
    BY <1>3, <2>1
<1>7. slack \in Seq(T)
  <2>1. ASSUME NEW i \in DOMAIN c.slack
        PROVE  NewSlack(c.slack[i]) \in T
    <3>1. Exposable(c.slack[i].token)
      BY <1>1, LoadedIsExposable
    <3>2. c.slack[i] \in ToSet(c.slack)
      BY DEF ToSet
    <3> QED
      BY <3>1, <3>2 DEF NewSlack, Unchecked
  <2> HIDE DEF T
  <2> QED
    BY <1>3, <2>1
<1>8. postgres \in Seq(T)
  <2>1. ASSUME NEW i \in DOMAIN c.postgres
        PROVE  NewPostgres(c.postgres[i], i) \in T
    <3>1. \A s \in c.postgres[i].password : Exposable(s)
      BY <1>1, LoadedIsExposable
    <3>2. PostgresErrors(c.postgres[i]) = {}
      BY <1>2 DEF ToSet
    <3> QED
      BY <3>1, <3>2 DEF NewPostgres, Unchecked
  <2> HIDE DEF T
  <2> QED
    BY <1>3, <2>1
<1>9. Makings = log \o stdout \o jsonl \o webhooks \o slack \o postgres
  BY DEF Makings, c
<1> HIDE DEF T, log, stdout, jsonl, webhooks, slack, postgres
<1>10. Makings \in Seq(T)
  BY <1>4, <1>5, <1>6, <1>7, <1>8, <1>9
<1>11. Len(Makings) \in Nat /\ \A i \in 1..Len(Makings) : Makings[i] \in T
  BY <1>10
<1> QED
  BY <1>11 DEF T, c

\* Starting its units neither.
LEMMA RunnerFacts ==
  ASSUME input \in Inputs, IsInUse, NEW i \in DOMAIN Loaded.databases
  PROVE  LET made == NewRunner(Loaded.databases[i])
         IN  made = "ok" \/ (made = "error" /\ Unchecked(Loaded))
<1> DEFINE c == Loaded
           db == c.databases[i]
<1>1. c \in Load(input) /\ DatabaseErrors(c) = {}
  BY InUse, LoadedFacts DEF IsValid
<1>2. \A s \in db.password : Exposable(s)
  BY <1>1, LoadedIsExposable
<1>3. db.wrong = {}
  <2>1. ASSUME NEW field \in db.wrong
        PROVE  FALSE
    <3>1. <<i, field>> \in {<<i, f>> : f \in c.databases[i].wrong}
      OBVIOUS
    <3>2. i \in DOMAIN c.databases
      OBVIOUS
    <3>3. <<i, field>> \in DatabaseErrors(c)
      <4> HIDE DEF c
      <4> QED
        BY <3>1, <3>2 DEF DatabaseErrors
    <3> QED
      BY <1>1, <3>3
  <2> QED
    BY <2>1
<1>4. db \in ToSet(c.databases)
  BY DEF ToSet
<1> HIDE DEF c
<1>5. ToPgConnectionConfig(db) = "ok" /\ ToPipelineConfig(db) = "ok"
  BY <1>2, <1>3 DEF ToPgConnectionConfig, ToPipelineConfig
<1>6. \/ DatabaseId(db) \in input.world.usable /\ Publishes(db, input.world)
      \/ Unchecked(c)
  BY <1>4 DEF Unchecked
<1> QED
  BY <1>5, <1>6 DEF NewRunner, c

\* A step that makes one more channel or starts one more unit, or ends in an error that
\* validate could not foresee, or gets to the next stage.
LEMMA StartKeeps ==
  ASSUME ConfigurationInv, stage \in {"channels", "units", "watcher"},
         UNCHANGED <<input, config, issues, accepted>>, built' \in Nat,
         \/ stage' \in {"channels", "units", "watcher"} /\ UNCHANGED outcome
         \/ stage' = "done" /\ outcome' = "error" /\ Unchecked(Loaded)
         \/ stage' = "done" /\ outcome' = "running"
  PROVE  ConfigurationInv'
<1>1. IsInUse /\ ~ Faulty /\ outcome = "none"
  BY DEF ConfigurationInv, StartInv
<1>2. input' \in Inputs /\ ReportInv' /\ (Faulty' <=> Faulty)
  BY Settled
<1>3. IsInUse' /\ (Unchecked(Loaded)' <=> Unchecked(Loaded))
  BY <1>1 DEF IsInUse, Loaded, Unchecked
<1> QED
  BY <1>1, <1>2, <1>3 DEF ConfigurationInv, StartInv, AcceptedStarts

LEMMA MakeChannelKeeps ==
  ASSUME ConfigurationInv, MakeChannel
  PROVE  ConfigurationInv'
<1>1. input \in Inputs /\ IsInUse /\ built \in Nat /\ stage = "channels"
  BY DEF ConfigurationInv, StartInv, MakeChannel
<1>2. Len(Makings) \in Nat /\ built < Len(Makings)
  BY <1>1, MakingsFacts DEF MakeChannel
<1>3. built + 1 \in 1..Len(Makings) /\ built + 1 \in Nat
  BY <1>1, <1>2
<1>4. \/ Makings[built + 1] = "ok"
      \/ Makings[built + 1] = "error" /\ Unchecked(Loaded)
  BY <1>1, <1>3, MakingsFacts
<1>5. /\ UNCHANGED <<input, config, issues, accepted>> /\ built' \in Nat
      /\ \/ stage' = "channels" /\ UNCHANGED outcome
         \/ stage' = "done" /\ outcome' = "error" /\ Unchecked(Loaded)
  BY <1>1, <1>3, <1>4 DEF MakeChannel, Ends
<1> QED
  BY <1>1, <1>5, StartKeeps

LEMMA StartUnitKeeps ==
  ASSUME ConfigurationInv, StartUnit
  PROVE  ConfigurationInv'
<1>1. input \in Inputs /\ IsInUse /\ built \in Nat /\ stage = "units"
  BY DEF ConfigurationInv, StartInv, StartUnit
<1>2. DOMAIN Loaded.databases = 1..Len(Loaded.databases) /\ Len(Loaded.databases) \in Nat
  <2> DEFINE written == Layered(input)
  <2>1. Loaded.databases = Filtering(ResolvedPasswords(written.databases, input.world), written.scan)
    BY <1>1, InUse, LoadedFacts
  <2>2. written.databases \in Seq(DatabaseConfigs)
    BY <1>1, ConfigurationAssumption DEF ConfigurationAssumption, IsConfig
  <2> HIDE DEF written
  <2>3. \E n \in Nat : DOMAIN written.databases = 1..n
    BY <2>2
  <2>4. \E n \in Nat : DOMAIN Loaded.databases = 1..n
    BY <2>1, <2>3 DEF Filtering, ResolvedPasswords
  <2>5. \E n \in Nat : Loaded.databases = [i \in 1..n |-> Loaded.databases[i]]
    BY <2>1, <2>4 DEF Filtering
  <2> QED
    BY <2>4, <2>5
<1>3. built + 1 \in DOMAIN Loaded.databases /\ built + 1 \in Nat
  BY <1>1, <1>2 DEF StartUnit
<1> DEFINE made == NewRunner(Loaded.databases[built + 1])
<1>4. made = "ok" \/ (made = "error" /\ Unchecked(Loaded))
  BY <1>1, <1>3, RunnerFacts
<1>5. /\ UNCHANGED <<input, config, issues, accepted>>
      /\ IF made = "ok" THEN built' = built + 1 /\ UNCHANGED <<stage, outcome>>
         ELSE Ends(made) /\ UNCHANGED built
  BY DEF StartUnit
<1> HIDE DEF made
<1>6. /\ built' \in Nat
      /\ \/ stage' = "units" /\ UNCHANGED outcome
         \/ stage' = "done" /\ outcome' = "error" /\ Unchecked(Loaded)
  BY <1>1, <1>3, <1>4, <1>5 DEF Ends
<1> QED
  BY <1>1, <1>5, <1>6, StartKeeps

LEMMA ChannelsMadeKeeps ==
  ASSUME ConfigurationInv, ChannelsMade
  PROVE  ConfigurationInv'
BY StartKeeps DEF ChannelsMade, Goes

LEMMA UnitsStartedKeeps ==
  ASSUME ConfigurationInv, UnitsStarted
  PROVE  ConfigurationInv'
<1>1. built' \in Nat
  BY DEF ConfigurationInv, StartInv, UnitsStarted
<1> QED
  BY <1>1, StartKeeps DEF UnitsStarted, Goes

LEMMA WatchRulesKeeps ==
  ASSUME ConfigurationInv, WatchRules
  PROVE  ConfigurationInv'
<1> DEFINE watched == \A p \in RulesPath(input, Loaded) : IsWatchable(p, input.world)
<1>1. /\ UNCHANGED <<input, config, issues, accepted, built>> /\ stage = "watcher"
      /\ stage' = "done" /\ outcome' = (IF watched THEN "running" ELSE "error")
  BY DEF WatchRules, Ends
<1>2. built' \in Nat
  BY <1>1 DEF ConfigurationInv, StartInv
<1>3. ~ watched => Unchecked(Loaded)
  BY DEF Unchecked
<1> HIDE DEF watched
<1> QED
  BY <1>1, <1>2, <1>3, StartKeeps

---------------------------------------------------------------------------
(* The rules command *)

LEMMA RulesCommandKeeps ==
  ASSUME ConfigurationInv, RulesCommand
  PROVE  ConfigurationInv'
<1> DEFINE c == Layered(input)
<1>1. PICK rulesCommand \in RulesCommands :
        /\ Goes("load", "done")
        /\ config' = IF input.malformed THEN {} ELSE {c}
        /\ outcome' = IF input.malformed \/ RulesOf(c) = {} THEN "error"
                      ELSE CASE rulesCommand.kind = "list"  -> "listed"
                             [] rulesCommand.kind = "test"  -> Compiled(c)
                             [] rulesCommand.kind = "bench" ->
                                  BenchRules(CHOOSE rules \in RulesOf(c) : TRUE, rulesCommand)
        /\ UNCHANGED built
  BY Zenon DEF RulesCommand
<1>2. /\ UNCHANGED <<input, issues, accepted, built>>
      /\ stage = "load" /\ stage' = "done"
  BY <1>1 DEF Goes
<1>3. input' \in Inputs /\ ReportInv' /\ (Faulty' <=> Faulty)
  BY <1>2, Settled
<1>4. IsOption(c.rules_file)
  BY ConfigurationAssumption DEF ConfigurationInv, ConfigurationAssumption, IsConfig
<1>5. outcome' \in {"error", "listed", "usage", Compiled(c)}
  <2>1. rulesCommand.kind \in {"list", "test", "bench"}
    BY ConfigurationAssumption DEF ConfigurationAssumption
  <2>2. BenchRules(CHOOSE rules \in RulesOf(c) : TRUE, rulesCommand) \in {"usage", Compiled(c)}
    BY DEF BenchRules
  <2> HIDE DEF c
  <2> QED
    BY <1>1, <2>1, <2>2
<1>6. Compiled(c) \in {"ok", "error", "panic"}
  BY <1>4, CompiledFacts DEF ConfigurationInv
<1>7. outcome' # "running"
  BY <1>5, <1>6
<1>8. ASSUME accepted'
      PROVE  outcome' # "panic" /\ (outcome' = "error" => Unchecked(Loaded)')
  <2>1. ~ Faulty /\ Load(input) # {}
    BY <1>2, <1>8 DEF ConfigurationInv, ReportInv, Faulty
  <2>2. ~ BadRules(c) /\ ~ input.malformed
    BY <2>1, SameRules, LoadedFacts DEF ConfigurationInv, Faulty
  <2>3. Compiled(c) # "panic" /\ (Compiled(c) = "error" => Unchecked(c))
    BY <1>4, <2>2, CompiledFacts DEF ConfigurationInv
  <2>4. RulesOf(c) = {} => Unchecked(c)
    BY <2>2 DEF BadRules, Unchecked
  <2>5. outcome' = "error" => RulesOf(c) = {} \/ Compiled(c) = "error"
    <3>1. rulesCommand.kind \in {"list", "test", "bench"}
      BY ConfigurationAssumption DEF ConfigurationAssumption
    <3>2. BenchRules(CHOOSE rules \in RulesOf(c) : TRUE, rulesCommand) \in {"usage", Compiled(c)}
      BY DEF BenchRules
    <3> HIDE DEF c
    <3> QED
      BY <1>1, <2>2, <3>1, <3>2
  <2>6. config' = {c}
    BY <1>1, <2>2
  <2>7. Unchecked(c) <=> Unchecked(Loaded)'
    <3>1. Loaded' = c
      BY <2>6 DEF Loaded
    <3> HIDE DEF c
    <3> QED
      BY <1>2, <3>1 DEF Unchecked
  <2> QED
    BY <1>5, <2>3, <2>4, <2>5, <2>7
<1> HIDE DEF c
<1> QED
  BY <1>2, <1>3, <1>7, <1>8 DEF ConfigurationInv, StartInv, AcceptedStarts

---------------------------------------------------------------------------
(* The theorems *)

LEMMA ConfigurationInit == Init => ConfigurationInv
  BY DEF Init, ConfigurationInv, ReportInv, StartInv, AcceptedStarts

LEMMA ConfigurationNext ==
  ASSUME ConfigurationInv, [Next]_vars
  PROVE  ConfigurationInv'
<1>1. CASE ValidateConfig
  BY <1>1, ValidateConfigKeeps
<1>2. CASE ValidateDatabases
  BY <1>2, ValidateDatabasesKeeps
<1>3. CASE ValidateRules
  BY <1>3, ValidateRulesKeeps
<1>4. CASE ValidateAlerts
  BY <1>4, ValidateAlertsKeeps
<1>5. CASE Connect
  BY <1>5, ConnectKeeps
<1>6. CASE Report
  BY <1>6, ReportKeeps
<1>7. CASE LoadConfig
  BY <1>7, LoadConfigKeeps
<1>8. CASE SetupLogging
  BY <1>8, SetupLoggingKeeps
<1>9. CASE BuildScanner
  BY <1>9, BuildScannerKeeps
<1>10. CASE MakeChannel
  BY <1>10, MakeChannelKeeps
<1>11. CASE ChannelsMade
  BY <1>11, ChannelsMadeKeeps
<1>12. CASE StartUnit
  BY <1>12, StartUnitKeeps
<1>13. CASE UnitsStarted
  BY <1>13, UnitsStartedKeeps
<1>14. CASE WatchRules
  BY <1>14, WatchRulesKeeps
<1>15. CASE RulesCommand
  BY <1>15, RulesCommandKeeps
<1>16. CASE UNCHANGED vars
  <2>1. UNCHANGED <<input, stage, config, issues, accepted, built, outcome>>
    BY <1>16 DEF vars
  <2>2. (Faulty' <=> Faulty) /\ (IsInUse' <=> IsInUse) /\ (Unchecked(Loaded)' <=> Unchecked(Loaded))
    BY <2>1 DEF Faulty, BadRules, RulesOf, IsInUse, Unchecked, Loaded
  <2> QED
    BY <2>1, <2>2 DEF ConfigurationInv, ReportInv, StartInv, AcceptedStarts, IsReported
<1> QED
  BY <1>1, <1>2, <1>3, <1>4, <1>5, <1>6, <1>7, <1>8, <1>9, <1>10, <1>11, <1>12, <1>13,
     <1>14, <1>15, <1>16 DEF Next

\* The report of validate has an error, connectivity aside, exactly when Config::load
\* fails or a rule would not compile, however far validate and the command after it are.
THEOREM ConfigurationInvHolds == Spec => []ConfigurationInv
BY ConfigurationInit, ConfigurationNext, PTL DEF Spec

\* A configuration that validate accepts starts, unless it lacks what validate never
\* looks at, and no expose or expect of the start panics on it: resolve_secrets leaves no
\* secret of any list unresolved, and validate rejects every rule RuleEngine::new does.
THEOREM AcceptedConfigurationsStart == Spec => []AcceptedStarts
<1>1. ConfigurationInv => AcceptedStarts
  BY DEF ConfigurationInv
<1> QED
  BY <1>1, ConfigurationInvHolds, PTL

\* What validate rejects, for more than an endpoint that does not answer, Supervisor::start
\* is never reached with: the scan command loads, validates and compiles the same again.
THEOREM RejectedConfigurationsNeverStart == Spec => []RejectedNeverStarts
<1>1. ConfigurationInv => RejectedNeverStarts
  BY DEF ConfigurationInv, ReportInv, StartInv, IsReported, Rejects, RejectedNeverStarts
<1> QED
  BY <1>1, ConfigurationInvHolds, PTL

=============================================================================
