----------------------------- MODULE MCScanner -----------------------------
(***************************************************************************)
(* An instance of Scanner: a table of three columns, the first and last of *)
(* them its key, the last of a type that is not scanned; every combination *)
(* of rows, kinds of change, missing columns and filters, under three rule *)
(* sets that mix the kinds of rules.                                       *)
(***************************************************************************)
EXTENDS Scanner

MCGlobs == [g \in {"*_hash"} |-> {"pan_hash"}]

Rule(type, finds) == [type |-> type, finds |-> finds, valid |-> {"good", "bad", "NULL"},
                      allow |-> {}, raises |-> {}, scope |-> AnyScope, spec |-> "ok", badAllow |-> FALSE,
                      channels |-> {}]

Luhn == [Rule("regex", {"good", "bad"}) EXCEPT !.valid = {"good"}]
Shape == [Rule("regex", {"bad"}) EXCEPT !.scope.exclude_columns = {"id"}]
Script == [Rule("script", {"good", "NULL"}) EXCEPT !.raises = {"bad"}]
Builtin == [Rule("builtin", {"good", "bad"}) EXCEPT !.allow = {"bad"},
                                                    !.scope.include_tables = {"t"},
                                                    !.scope.exclude_columns = {"*_hash"}]

MCRuleSets == {<<Builtin, Luhn, Shape>>, <<Script, Shape, Luhn>>, <<Luhn, Script, Builtin>>}

NoFilter == [include_schemas |-> {}, exclude_tables |-> {}, exclude_columns |-> {}]
MCFilters == {NoFilter, [NoFilter EXCEPT !.exclude_columns = {"id"}],
              [NoFilter EXCEPT !.include_schemas = {"s"}, !.exclude_tables = {"u"}]}

Text(tokens) == [kind |-> "text", text |-> tokens]
MCCells == {[kind |-> "null"], Text(<<"bad", "good">>), Text(<<"good">>),
          [kind |-> "array", items |-> << {<<"bad">>}, {} >>]}

MCColumns == <<[name |-> "id", type |-> "text", key |-> TRUE],
               [name |-> "pan_hash", type |-> "text", key |-> FALSE],
               [name |-> "n", type |-> "int4", key |-> TRUE]>>

Change(kind, schema, table, row, missing) ==
  [kind |-> kind, schema |-> schema, table |-> table, columns |-> MCColumns,
   row |-> row, missing |-> missing]

\* Only columns that are not keys can be missing.
MCChanges ==
  {Change(kind, "s", table, <<a, b, Text(<<"7">>)>>, {}) :
     kind \in {"insert", "update", "delete"}, table \in {"t", "u"}, a \in MCCells, b \in MCCells}
  \cup {Change("update", schema, "t", <<a, Text(<<"7">>)>>, {2}) : schema \in {"s", "x"}, a \in MCCells}

=============================================================================
