------------------------------ MODULE Scanner ------------------------------
(***************************************************************************)
(* scanner.rs on top of Events and RuleEngine: one change, from the        *)
(* replication stream to its findings, column by column.                   *)
(***************************************************************************)
EXTENDS RuleEngine

CONSTANTS RuleSets,   \* the rules in use: sequences of rules that compile
          Filters,    \* the databases' scan filters
          Changes     \* what the pipeline may hand over

\* The words of a text, that of an absent item among them.
Words == STRING \cup {"NULL"}

\* The columns of a table's schema, and the cells of a row: a partial one has none for
\* the columns it misses.
ColumnSchemas == [name : STRING, type : STRING, key : BOOLEAN]

Cells == [kind : {"null", "bytes"}] \cup [kind : {"text"}, text : Seq(Words)]
         \cup [kind : {"array"}, items : Seq(SUBSET Seq(Words))]

IsChange(ch) ==
  LET sent == DOMAIN ch.columns \ ch.missing
  IN  ch.kind \in {"insert", "update"} => /\ ch.columns \in Seq(ColumnSchemas)
                                          /\ ch.row \in Seq(Cells)
                                          /\ Len(ch.row) = Cardinality(sent)
                                          /\ ch.kind = "insert" => ch.missing = {}

ASSUME ScannerAssumption == /\ RuleSets \subseteq Seq(Rules)
                            /\ \A ch \in Changes : IsChange(ch)

VARIABLES rules, filter, change,   \* the inputs
          events,    \* the ScanEvents of the change: none or one
          stage,     \* "arrived", "extracted", "scanning" or "done"
          column,    \* the next column to scan
          findings   \* so far

vars == <<rules, filter, change, events, stage, column, findings>>

Init == /\ rules \in RuleSets
        /\ filter \in Filters
        /\ change \in Changes
        /\ events = <<>>
        /\ stage = "arrived"
        /\ column = 1
        /\ findings = <<>>

Extract == /\ stage = "arrived"
           /\ events' = ExtractScanEvents(change)
           /\ stage' = "extracted"
           /\ UNCHANGED <<rules, filter, change, column, findings>>

WriteEvents == /\ stage = "extracted"
               /\ events' = Filtered(filter, events)
               /\ stage' = IF events' = <<>> THEN "done" ELSE "scanning"
               /\ UNCHANGED <<rules, filter, change, column, findings>>

\* What is found in a column, if it is scanned and has a value, by rules in scope.
ColumnMatches(event, col) ==
  LET found == ScanValue(rules, CHOOSE v \in col.value : TRUE)
      inScope == {m \in ToSet(found) :
                    ScopeMatches(rules[m.rule].scope, event.schema, event.table, col.name)}
  IN  IF IsScannableType(col.type) /\ col.value # {} THEN Selected(found, inScope) ELSE <<>>

ColumnFindings(event, c) ==
  LET col == event.columns[c]
      matches == ColumnMatches(event, col)
  IN  [i \in DOMAIN matches |-> [rule |-> matches[i].rule, text |-> matches[i].text,
                                 column |-> col.name, keys |-> event.keys]]

ScanColumn == /\ stage = "scanning"
              /\ column <= Len(events[1].columns)
              /\ findings' = findings \o ColumnFindings(events[1], column)
              /\ column' = column + 1
              /\ UNCHANGED <<rules, filter, change, events, stage>>

\* primary_keys.retain
Retained(keys, matched) == Selected(keys, {k \in ToSet(keys) : k.column \notin matched})

\* A definition whose name starts with Mut is a deliberately wrong variant of the one
\* that follows it, used nowhere.
MutStripped(fs) ==
  [i \in DOMAIN fs |-> [fs[i] EXCEPT !.keys = Retained(@, {fs[i].column})]]
\* Every column that matched leaves the keys of every finding.
Stripped(fs) ==
  LET matched == {fs[i].column : i \in DOMAIN fs}
  IN  [i \in DOMAIN fs |-> [fs[i] EXCEPT !.keys = Retained(@, matched)]]

Finish == /\ stage = "scanning"
          /\ column > Len(events[1].columns)
          /\ findings' = Stripped(findings)
          /\ stage' = "done"
          /\ UNCHANGED <<rules, filter, change, events, column>>

Next == Extract \/ WriteEvents \/ ScanColumn \/ Finish

Spec == Init /\ [][Next]_vars

---------------------------------------------------------------------------

\* What a rule is documented to find in a text, without the engine's phases, indexes
\* and prefilter: a regex its leftmost match if it is valid, the others all they find.
Detects(rule, text) ==
  LET found == {i \in DOMAIN text : text[i] \in rule.finds}
      hits == IF rule.type = "regex"
              THEN {i \in found : (\A j \in found : i <= j) /\ text[i] \in rule.valid}
              ELSE IF rule.type = "script" /\ ToSet(text) \cap rule.raises # {} THEN {} ELSE found
  IN  {text[i] : i \in hits} \ rule.allow

\* The cells of the change by the names of their columns.
CellOf(i) == change.row[Cardinality({j \in 1..i : j \notin change.missing})]

ColumnsSent == {i \in DOMAIN change.columns : i \notin change.missing}

Expected ==
  {[rule |-> r, text |-> t, column |-> change.columns[i].name] :
     r \in DOMAIN rules, i \in ColumnsSent, t \in UNION {ToSet(text) :
       text \in UNION {CellToString(CellOf(j)) : j \in ColumnsSent}}}

\* A change is scanned for exactly what its rules define: the prefilter, the indexes
\* into the rules, the three phases and the aligning of partial rows with their
\* columns neither lose a finding nor give one to another rule or column.
FindingsAreExact ==
  stage = "done" =>
    {[rule |-> findings[i].rule, text |-> findings[i].text, column |-> findings[i].column] :
       i \in DOMAIN findings}
    = {e \in Expected :
         \E i \in ColumnsSent :
           LET c == change.columns[i]
           IN  /\ c.name = e.column
               /\ change.kind \in {"insert", "update"}
               /\ Included(filter.include_schemas, change.schema)
               /\ ~IsMatch(filter.exclude_tables, change.table)
               /\ ~IsMatch(filter.exclude_columns, c.name)
               /\ c.type \notin NonTextTypes
               /\ LET s == rules[e.rule].scope
                  IN  /\ Included(s.include_schemas, change.schema)
                      /\ Included(s.include_tables, change.table)
                      /\ Included(s.include_columns, c.name)
                      /\ ~IsMatch(s.exclude_tables, change.table)
                      /\ ~IsMatch(s.exclude_columns, c.name)
               /\ \E text \in CellToString(CellOf(i)) : e.text \in Detects(rules[e.rule], text)}

\* No finding carries the value of a key column in which anything was found, its own
\* or another, and none loses a key column in which nothing was found.
KeysAreStripped ==
  stage = "done" =>
    \A i \in DOMAIN findings :
      ToSet(findings[i].keys) =
        {k \in ToSet(events[1].keys) : \A j \in DOMAIN findings : findings[j].column # k.column}

\* The keys of an event are the key columns of the change that have a value, each
\* under its own name, whichever columns a partial update leaves out.
KeysAreAligned ==
  \A e \in ToSet(events) :
    ToSet(e.keys) =
      UNION {{[column |-> change.columns[i].name, value |-> v] : v \in CellToString(CellOf(i))} :
               i \in {j \in ColumnsSent : change.columns[j].key}}

\* docs/src/rules/regex.md: "validate runs a check on each regex match and discards
\* the match if the validator rejects it".  The matches after the leftmost are never
\* looked at, so one that is rejected or allowed hides the others.
EachRegexMatchIsChecked ==
  stage = "done" =>
    \A r \in DOMAIN rules : \A c \in 1..(IF events = <<>> THEN 0 ELSE Len(events[1].columns)) :
      \A text \in events[1].columns[c].value :
        (rules[r].type = "regex" /\ rules[r].scope = AnyScope
           /\ ((ToSet(text) \cap rules[r].finds) \cap rules[r].valid) \ rules[r].allow # {})
          => \E i \in DOMAIN findings : findings[i].rule = r /\ findings[i].column = events[1].columns[c].name

=============================================================================
