----------------------------- MODULE RuleEngine -----------------------------
(***************************************************************************)
(* rules/engine.rs, rules/config.rs and rules/script.rs: compiling the     *)
(* rules and scanning one value.                                           *)
(*                                                                         *)
(* A rule is a record.  finds has the tokens its pattern, detector or      *)
(* script finds, where a regex searches the text from the left; valid has  *)
(* those its validator passes; allow those its allowlist names; raises has *)
(* the tokens its script fails on.  spec says what is wrong with its       *)
(* definition: "ok", a "missing" pattern, builtin or script field, or one  *)
(* that does not compile ("bad"); badAllow, of its allowlist's patterns.   *)
(***************************************************************************)
EXTENDS Events

AnyScope == [include_schemas |-> {}, include_tables |-> {}, exclude_tables |-> {},
             include_columns |-> {}, exclude_columns |-> {}]

\* A name a rule gives is a tuple, with a number in that of an unnamed channel.
RoutedNames == (STRING \X Nat) \cup Seq(STRING)

Rules == [type : {"regex", "builtin", "script"}, spec : {"ok", "missing", "bad"},
          badAllow : BOOLEAN, scope : [DOMAIN AnyScope -> SUBSET STRING],
          finds : SUBSET STRING, valid : SUBSET STRING, allow : SUBSET STRING,
          raises : SUBSET STRING, channels : SUBSET RoutedNames]

\* RuleScope::validate
ScopeIsValid(scope) == /\ scope.include_tables \cap scope.exclude_tables = {}
                       /\ scope.include_columns \cap scope.exclude_columns = {}

Included(patterns, name) == patterns = {} \/ IsMatch(patterns, name)

MutScopeMatches(scope, schema, table, column) ==
  /\ Included(scope.include_schemas, schema)
  /\ Included(scope.include_tables, table) \/ ~IsMatch(scope.exclude_tables, table)
  /\ Included(scope.include_columns, column) \/ ~IsMatch(scope.exclude_columns, column)
\* RuleScope::matches
ScopeMatches(scope, schema, table, column) ==
  /\ Included(scope.include_schemas, schema)
  /\ Included(scope.include_tables, table)
  /\ ~IsMatch(scope.exclude_tables, table)
  /\ Included(scope.include_columns, column)
  /\ ~IsMatch(scope.exclude_columns, column)

---------------------------------------------------------------------------
(***************************************************************************)
(* RuleEngine::new goes through the rules in order; a rule may fail it, or *)
(* panic when the field of its type is missing, before later rules are     *)
(* looked at.  A script is read, compiled and run on the empty string.     *)
(***************************************************************************)
CompileScript(rule) == IF rule.spec = "bad" THEN "error" ELSE "ok"

CompileRule(rule) == CASE ~ScopeIsValid(rule.scope)  -> "error"
                       [] rule.spec = "missing"      -> "panic"
                       [] rule.type = "script" /\ CompileScript(rule) # "ok" -> "error"
                       [] rule.spec = "bad"          -> "error"
                       [] rule.badAllow              -> "error"
                       [] OTHER                      -> "ok"

NewEngine(rules) ==
  LET wrong == {i \in DOMAIN rules : CompileRule(rules[i]) # "ok"}
  IN  IF wrong = {} THEN "ok"
      ELSE CompileRule(rules[CHOOSE i \in wrong : \A j \in wrong : i <= j])

\* regex_indices, builtin_indices and script_indices
Indices(rules, type) == Indexes(rules, {i \in DOMAIN rules : rules[i].type = type})

---------------------------------------------------------------------------

\* CompiledRule::is_allowed
IsAllowed(rule, token) == token \in rule.allow

Found(rule, text) == Selected(text, rule.finds)

Match(i, token) == [rule |-> i, text |-> token]

\* A rule's matches that its allowlist does not name.
Surviving(rules, i, tokens) ==
  LET kept == Selected(tokens, {token \in ToSet(tokens) : ~IsAllowed(rules[i], token)})
  IN  [j \in DOMAIN kept |-> Match(i, kept[j])]

\* RegexSet::matches: positions in the set, not in the rules.
SetMatches(rules, text) ==
  LET regexes == Indices(rules, "regex")
  IN  Indexes(regexes, {s \in DOMAIN regexes : Found(rules[regexes[s]], text) # <<>>})

\* regex_indices[set_idx]
RuleOfMatch(rules, s) == Indices(rules, "regex")[s]

\* Regex::find yields the leftmost match only; the validator decides about that one.
RegexMatches(rules, i, text) ==
  LET first == <<Head(Found(rules[i], text))>>
  IN  IF first[1] \in rules[i].valid THEN Surviving(rules, i, first) ELSE <<>>

ScanRegexes(rules, text) ==
  LET hits == SetMatches(rules, text)
  IN  FlattenSeq([h \in DOMAIN hits |-> RegexMatches(rules, RuleOfMatch(rules, hits[h]), text)])

ScanBuiltins(rules, text) ==
  LET builtins == Indices(rules, "builtin")
  IN  FlattenSeq([b \in DOMAIN builtins |->
                    Surviving(rules, builtins[b], Found(rules[builtins[b]], text))])

\* run_detect: a script that fails, on a limit of its sandbox or otherwise, finds nothing.
RunDetect(rule, text) == IF ToSet(text) \cap rule.raises # {} THEN <<>> ELSE Found(rule, text)

ScanScripts(rules, text) ==
  LET scripts == Indices(rules, "script")
  IN  FlattenSeq([s \in DOMAIN scripts |->
                    Surviving(rules, scripts[s], RunDetect(rules[scripts[s]], text))])

\* scan_inner: the three phases.
ScanValue(rules, text) ==
  ScanRegexes(rules, text) \o ScanBuiltins(rules, text) \o ScanScripts(rules, text)

=============================================================================
