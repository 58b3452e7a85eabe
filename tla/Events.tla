------------------------------- MODULE Events -------------------------------
(***************************************************************************)
(* events.rs, pattern.rs and the scan filter of scanner.rs and             *)
(* pipeline/destination.rs: from a change of the replication stream to the *)
(* columns that are scanned.                                               *)
(*                                                                         *)
(* The text of a value is a sequence of tokens, the words a rule can tell  *)
(* apart; an Option is a set of at most one element.  A cell is [kind,     *)
(* text], and [kind, items] for an array, whose items are optional texts.  *)
(* A change is [kind, table, row, missing]: the schema of its table, its   *)
(* cells, and, for a partial update, the indexes of the columns it omits.  *)
(***************************************************************************)
EXTENDS Integers, FiniteSets, Sequences, SequencesExt

CONSTANT GlobMatches   \* external, the globset crate: glob -> the names it matches

\* The elements of s that are in kept, in their order, and the indexes of s that are.
Selected(s, kept) == FlattenSeq([i \in DOMAIN s |-> IF s[i] \in kept THEN <<s[i]>> ELSE <<>>])
Indexes(s, kept) == Selected([i \in DOMAIN s |-> i], kept)

NonTextTypes == {"bool", "int2", "int4", "int8", "float4", "float8", "numeric", "oid", "bytea",
                 "uuid", "date", "time", "timetz", "timestamp", "timestamptz", "interval"}

IsScannableType(type) == type \notin NonTextTypes

\* array_cell_to_string: absent items read NULL and bytes read <bytes>.
ArrayText(items) ==
  FlattenSeq([i \in DOMAIN items |-> IF items[i] = {} THEN <<"NULL">>
                                     ELSE CHOOSE text \in items[i] : TRUE])

\* cell_to_string.  The conversions of numbers, dates and JSON yield their text.
CellToString(cell) == CASE cell.kind \in {"null", "bytes"} -> {}
                        [] cell.kind = "array"             -> {ArrayText(cell.items)}
                        [] OTHER                           -> {cell.text}

\* Iterator::zip stops at the shorter sequence.
Paired(columns, cells) ==
  [i \in 1..(IF Len(columns) < Len(cells) THEN Len(columns) ELSE Len(cells)) |->
     [column |-> columns[i], cell |-> cells[i]]]

\* extract: every column, with a value only where its type is scanned, and the key
\* columns with their values whatever their type.
Columns(pairs) ==
  [i \in DOMAIN pairs |->
     [name  |-> pairs[i].column.name,
      type  |-> pairs[i].column.type,
      value |-> IF IsScannableType(pairs[i].column.type) THEN CellToString(pairs[i].cell) ELSE {}]]

PrimaryKeys(pairs) ==
  LET keys == Selected(pairs, {p \in ToSet(pairs) : p.column.key /\ CellToString(p.cell) # {}})
  IN  [i \in DOMAIN keys |-> [column |-> keys[i].column.name,
                              value |-> CHOOSE v \in CellToString(keys[i].cell) : TRUE]]

ScanEvent(change, pairs) == [schema |-> change.schema, table |-> change.table,
                             columns |-> Columns(pairs), keys |-> PrimaryKeys(pairs)]

FromInsert(change) == ScanEvent(change, Paired(change.columns, change.row))

\* A definition whose name starts with Mut is a deliberately wrong variant of the one
\* that follows it, used nowhere.
MutPresent(change) == change.columns
\* The columns a partial row has cells for; a full row misses none.
Present(change) ==
  LET kept == Indexes(change.columns, DOMAIN change.columns \ change.missing)
  IN  [i \in DOMAIN kept |-> change.columns[kept[i]]]

FromUpdate(change) == ScanEvent(change, Paired(Present(change), change.row))

\* extract_scan_events on one change: nothing for a delete, a truncation and the like.
ExtractScanEvents(change) == CASE change.kind = "insert" -> <<FromInsert(change)>>
                               [] change.kind = "update" -> <<FromUpdate(change)>>
                               [] OTHER                  -> <<>>

---------------------------------------------------------------------------
\* PatternMatcher: strings with * or ? are globs, all others are compared.
IsGlobPattern(pattern) == pattern \in DOMAIN GlobMatches

IsMatch(patterns, name) ==
  \E p \in patterns : IF IsGlobPattern(p) THEN name \in GlobMatches[p] ELSE name = p

MatchesSchema(filter, schema) ==
  filter.include_schemas = {} \/ IsMatch(filter.include_schemas, schema)

MatchesTable(filter, table) == ~IsMatch(filter.exclude_tables, table)

ShouldIncludeColumn(filter, column) == ~IsMatch(filter.exclude_columns, column)

IncludedColumns(filter, columns) ==
  Selected(columns, {c \in ToSet(columns) : ShouldIncludeColumn(filter, c.name)})

\* write_events drops the events of other schemas and excluded tables, and the excluded
\* columns of the others; the keys of an event stay as they are.
Filtered(filter, events) ==
  LET wanted == {e \in ToSet(events) : /\ MatchesSchema(filter, e.schema)
                                       /\ MatchesTable(filter, e.table)}
      kept == Selected(events, wanted)
  IN  [i \in DOMAIN kept |-> [kept[i] EXCEPT !.columns = IncludedColumns(filter, @)]]

=============================================================================
