------------------------------- MODULE Datasets -------------------------------
(***************************************************************************)
(* shared/dataset_registry.py with the models of shared/data_records.py:   *)
(* how a registration request and its source become an immutable payload   *)
(* and record, what is refused on the way, and how columns of a payload    *)
(* are bound to the fields of a component.                                 *)
(*                                                                         *)
(* A cell is what the code's tests tell apart: its JSON type, what its     *)
(* text reads as, the number or instant it stands for and its size.        *)
(* Numbers are counted in a unit that every one of them is a multiple of;  *)
(* a number of a JSON document is what json.loads made of it.  A digest is *)
(* the content itself.  The ledger of events is a function of code and     *)
(* field, which the code writes in canonical order.                        *)
(***************************************************************************)
EXTENDS Integers, Sequences, FiniteSets, FiniteSetsExt, SequencesExt, Functions

CONSTANTS
    DatasetRequests,    \* the requests that may arrive
    LocalFiles,         \* what a file beneath a configured root may hold
    FieldBindings,      \* mappings and literals a call may bind with
    MaxRows, MaxColumns, MaxCell, MaxInline, MaxPayload,
    MaxNumber,          \* the largest number canonical JSON accepts
    Doubles,            \* the numbers that a float can hold
    Unread

ColumnTypes == {"number", "integer", "string", "boolean", "timestamp"}

\* The text of a CSV cell, and the value of a JSON cell.
CellValues ==
    [tag : {"null", "boolean", "integer", "float", "string", "list"},
     reads : {"nothing", "word", "boolean", "integer", "fraction", "utc", "offset", "early",
              "list"},
     value : Int, size : Nat]
NullCell == [tag |-> "null", reads |-> "nothing", value |-> 0, size |-> 1]
CsvTexts == {cell \in CellValues : cell.tag = "string"}
JsonValues ==
    {cell \in CellValues : /\ cell.tag = "null" => cell = NullCell
                           /\ cell.tag = "float" => cell.value \in Doubles}

\* What a source of a kind holds: lists of rows, of lists of texts or of objects.
ContentOf(kind, content) ==
    /\ content.rows \in Seq(ToSet(content.rows))
    /\ IF kind = "local_csv"
       THEN /\ content.header \in Seq(ToSet(content.header))
            /\ \A row \in ToSet(content.rows) : row \in Seq(CsvTexts)
       ELSE \A row \in ToSet(content.rows) :
                row.object => \A f \in DOMAIN row.fields : row.fields[f] \in JsonValues

ASSUME DatasetsAssumption ==
    /\ {MaxRows, MaxColumns, MaxCell, MaxInline, MaxPayload, MaxNumber} \subseteq Nat
    /\ Doubles \subseteq Int /\ Doubles # {}
    /\ \A r \in DatasetRequests :
          /\ r.columns \in Seq(ToSet(r.columns))
          /\ r.source.kind \in {"inline_rows", "inline_json"} => ContentOf(r.source.kind, r.source.content)
    /\ \A kind \in {"local_csv", "local_json"} :
          \A content \in LocalFiles[kind] : ContentOf(kind, content)
    /\ \A b \in FieldBindings : b.mappings \in Seq(ToSet(b.mappings))

VARIABLES
    request,        \* the request in hand
    source,         \* the bytes read from its source
    table,          \* the normalised rows and the ledger of what changed
    dataset,        \* the answer: a payload and a record, or a refusal
    bound           \* a component's input bound to columns of the payload

datasetVars == <<request, source, table, dataset, bound>>

Refusal(code, why) == [ok |-> FALSE, code |-> code, why |-> why]
Limit(why) == Refusal("input_limit_exceeded", why)
Invalid(why) == Refusal("invalid_dataset", why)
Fine == [ok |-> TRUE]
Escaped == Refusal("uncaught", "payload")

Distinct(seq, Key(_)) == Cardinality({Key(seq[i]) : i \in DOMAIN seq}) = Len(seq)
TimestampColumns(columns) == {j \in DOMAIN columns : columns[j].role = "timestamp"}

-----------------------------------------------------------------------------
(* The request *)

\* The IEEE-754 safe-integer range; a float beyond it is an integer, or infinite.
InRange(n) == -MaxNumber <= n /\ n <= MaxNumber

\* canonical_json_bytes rejects numbers outside the safe range.
Canonical(cell) == cell.tag \notin {"integer", "float"} \/ InRange(cell.value)

\* InlineRowsSource, InlineJsonSource, LocalCsvSource, LocalJsonSource.
SourceValid(s) ==
    CASE s.kind = "inline_rows" ->
            /\ Len(s.content.rows) \in 1..MaxRows
            /\ \A i \in DOMAIN s.content.rows :
                  LET row == s.content.rows[i]
                  IN  row.object /\ \A f \in DOMAIN row.fields : Canonical(row.fields[f])
      [] s.kind = "inline_json" -> s.content.size \in 1..MaxInline
      [] OTHER -> s.kind \in {"local_csv", "local_json"}

\* DatasetColumn
ColumnValid(column) ==
    /\ column.type \in ColumnTypes
    /\ column.role = "timestamp" => column.type = "timestamp"
    /\ column.port # "input"

\* DatasetRegistrationRequest; declared is whether the provenance, the semantics and
\* the preprocessing statement are within their own limits.
RequestValid(r) ==
    /\ r.declared /\ r.version \in {"absent", "one"}
    /\ SourceValid(r.source)
    /\ Len(r.columns) \in 1..MaxColumns
    /\ \A j \in DOMAIN r.columns : ColumnValid(r.columns[j])
    /\ Distinct(r.columns, LAMBDA column : column.id)
    /\ Distinct(r.columns, LAMBDA column : column.name)
    /\ Cardinality(TimestampColumns(r.columns)) <= 1

\* _preflight_request_limits: limits are reported as such before the model refuses.
PreflightLimits(r) ==
    IF r.version = "ill_typed" THEN Refusal("invalid_tool_request", "host_schema_version")
    ELSE IF r.version = "other" THEN Refusal("unsupported_host_schema", "version")
    ELSE IF Len(r.columns) > MaxColumns THEN Limit("dataset_columns")
    ELSE IF r.source.kind = "inline_json" /\ r.source.content.size > MaxInline
         THEN Limit("inline_json_source_bytes")
    ELSE IF r.source.kind = "inline_rows" /\ Len(r.source.content.rows) > MaxRows
         THEN Limit("dataset_rows")
    ELSE Fine

-----------------------------------------------------------------------------
(* The source *)

\* _decode_json and strict_json_loads
DecodeJson(content) ==
    IF content.form = "bom" THEN Invalid("utf8_bom_not_allowed")
    ELSE IF \/ content.form = "malformed"
            \/ \E i \in DOMAIN content.rows :
                  \E f \in DOMAIN content.rows[i].fields : ~Canonical(content.rows[i].fields[f])
         THEN Invalid("invalid_json_source")
    ELSE Fine

\* The CSV branch of _source_rows: the reader stops at the first row too many.
DecodeCsv(content) ==
    IF content.form = "bom" THEN Invalid("utf8_bom_not_allowed")
    ELSE IF content.form = "nothing" THEN Invalid("empty_dataset")
    ELSE IF Len(content.rows) > MaxRows THEN Limit("dataset_rows")
    ELSE IF content.form = "malformed" THEN Invalid("invalid_csv_source")
    ELSE IF content.header = <<>> \/ ~IsInjective(content.header)
         THEN Invalid("invalid_csv_header")
    ELSE Fine

\* _source_rows, then the comparison with the digest the caller declared.
DecodeSource(r, content) ==
    LET decoded == CASE r.source.kind = "inline_rows" -> Fine
                     [] r.source.kind = "local_csv" -> DecodeCsv(content)
                     [] OTHER -> DecodeJson(content)
    IN  IF ~decoded.ok THEN decoded
        ELSE IF r.digest = "other" THEN Invalid("source_digest_mismatch") ELSE Fine

-----------------------------------------------------------------------------
(* The cells *)

Kept(cell) == [ok |-> TRUE, cell |-> cell, event |-> "none"]
Changed(cell, event) == [ok |-> TRUE, cell |-> cell, event |-> event]

\* _canonical_timestamp: the instant in UTC.  strftime does not pad a year before 1000.
CanonicalTimestamp(text) ==
    IF text.reads \notin {"utc", "offset", "early"} THEN Invalid("invalid_timestamp")
    ELSE IF text.reads = "utc" THEN Kept(text)
    ELSE Changed([text EXCEPT !.reads = IF text.reads = "early" THEN "unpadded" ELSE "utc"],
                 "timestamp_to_canonical_utc")

\* _json_cell
JsonCell(cell, type) ==
    LET long == cell.size > MaxCell
    IN  CASE cell.tag = "null" -> Kept(cell)
          [] cell.tag # "null" /\ type = "boolean" ->
                IF cell.tag = "boolean" THEN Kept(cell) ELSE Invalid("invalid_boolean_cell")
          [] cell.tag # "null" /\ type = "integer" ->
                IF cell.tag = "integer" /\ Canonical(cell) THEN Kept(cell)
                ELSE Invalid("invalid_integer_cell")
          [] cell.tag # "null" /\ type = "number" ->
                IF cell.tag \in {"integer", "float"} /\ Canonical(cell) THEN Kept(cell)
                ELSE Invalid("invalid_number_cell")
          [] cell.tag # "null" /\ type = "string" ->
                IF cell.tag # "string" THEN Invalid("invalid_string_cell")
                ELSE IF long THEN Limit("decoded_cell_bytes") ELSE Kept(cell)
          [] cell.tag # "null" /\ type = "timestamp" ->
                IF cell.tag # "string" THEN Invalid("invalid_timestamp")
                ELSE IF long THEN Limit("decoded_cell_bytes") ELSE CanonicalTimestamp(cell)

Gap(m, n) == IF m < n THEN n - m ELSE m - n

\* A double that n is nearest to, which float() rounds a text to.
Nearest(d, n) == d \in Doubles /\ \A e \in Doubles : Gap(d, n) <= Gap(e, n)
Float(n) == CHOOSE d \in Doubles : Nearest(d, n)

\* _csv_cell: every cell is text; an empty one is null except in a column of strings.  A text
\* in the form of an integer is read exactly, any other number is rounded, and checked then.
CsvCell(text, type) ==
    LET Parsed(tag, value) == [NullCell EXCEPT !.tag = tag, !.value = value]
        number == IF text.reads = "integer" THEN Parsed("integer", text.value)
                  ELSE Parsed("float", Float(text.value))
    IN  IF text.size > MaxCell THEN Limit("decoded_cell_bytes")
        ELSE IF type = "string" THEN Kept(text)
        ELSE IF text.reads = "nothing" THEN Changed(NullCell, "csv_empty_field_to_null")
        ELSE CASE type = "boolean" ->
                    IF text.reads = "boolean"
                    THEN Changed(Parsed("boolean", text.value), "csv_boolean_parsed")
                    ELSE Invalid("invalid_boolean_cell")
               [] type = "integer" ->
                    IF text.reads = "integer" /\ InRange(text.value)
                    THEN Changed(Parsed("integer", text.value), "csv_integer_parsed")
                    ELSE Invalid("invalid_integer_cell")
               [] type = "number" ->
                    IF text.reads \in {"integer", "fraction"} /\ Canonical(number)
                    THEN Changed(number, "csv_number_parsed")
                    ELSE Invalid("invalid_number_cell")
               [] type = "timestamp" -> CanonicalTimestamp(text)

-----------------------------------------------------------------------------
(* The rows *)

\* Mutant: a CSV row is read in the order the columns were declared.
CsvCellOfByOrder(content, columns, i, j) == CsvCell(content.rows[i][j], columns[j].type)

\* The cell of row i in column j, found through the header.
CsvCellOf(content, columns, i, j) ==
    LET at == CHOOSE k \in DOMAIN content.header : content.header[k] = columns[j].name
    IN  CsvCell(content.rows[i][at], columns[j].type)

JsonCellOf(content, columns, i, j) ==
    LET fields == content.rows[i].fields
    IN  IF columns[j].name \notin DOMAIN fields
        THEN Changed(NullCell, "json_missing_field_to_null")
        ELSE JsonCell(fields[columns[j].name], columns[j].type)

CellOf(kind, content, columns, i, j) ==
    IF kind = "local_csv" THEN CsvCellOf(content, columns, i, j)
    ELSE JsonCellOf(content, columns, i, j)

Names(columns) == {columns[j].name : j \in DOMAIN columns}

\* Why row i is refused before its cells are looked at.
RowRefusal(kind, content, columns, i) ==
    IF kind = "local_csv"
    THEN IF Len(content.rows[i]) # Len(content.header) THEN Invalid("invalid_csv_row_width")
         ELSE Fine
    ELSE IF ~content.rows[i].object THEN Invalid("json_row_not_object")
         ELSE IF ~(DOMAIN content.rows[i].fields \subseteq Names(columns))
              THEN Invalid("undeclared_source_field")
         ELSE Fine

BadCells(kind, content, columns, i) ==
    {j \in DOMAIN columns : ~CellOf(kind, content, columns, i, j).ok}

RefusedRows(kind, content, columns) ==
    {i \in DOMAIN content.rows :
        ~RowRefusal(kind, content, columns, i).ok \/ BadCells(kind, content, columns, i) # {}}

\* The header of a CSV source must name the columns, in any order.
HeaderFits(kind, content, columns) ==
    kind = "local_csv" =>
        Len(content.header) = Len(columns) /\ ToSet(content.header) = Names(columns)

\* The ledger of _normalized_rows: how often each event but "none" befell each column.
Ledger(cells, columns) ==
    LET changes == {c \in {<<cells[i][j].event, j>> : i \in DOMAIN cells, j \in DOMAIN columns} :
                        c[1] # "none"}
    IN  [e \in {<<c[1], columns[c[2]].id>> : c \in changes} |->
            LET c == CHOOSE d \in changes : d[1] = e[1] /\ columns[d[2]].id = e[2]
            IN  Cardinality({i \in DOMAIN cells : cells[i][c[2]].event = c[1]})]

NormalizedTable(kind, content, columns) ==
    LET cells == [i \in DOMAIN content.rows |->
                    [j \in DOMAIN columns |-> CellOf(kind, content, columns, i, j)]]
    IN  [ok |-> TRUE,
         rows |-> [i \in DOMAIN cells |-> [j \in DOMAIN columns |-> cells[i][j].cell]],
         events |-> Ledger(cells, columns)]

\* _normalized_rows: the first row that is refused, or has a cell that is, ends it.
NormalizedRows(kind, content, columns) ==
    LET refused == RefusedRows(kind, content, columns)
        first == Min(refused)
    IN  IF ~HeaderFits(kind, content, columns) THEN Invalid("invalid_csv_header")
        ELSE IF content.form = "scalar" THEN Invalid("invalid_json_source")
        ELSE IF refused # {}
             THEN IF ~RowRefusal(kind, content, columns, first).ok
                  THEN RowRefusal(kind, content, columns, first)
                  ELSE CellOf(kind, content, columns, first,
                              Min(BadCells(kind, content, columns, first)))
        ELSE IF content.rows = <<>> THEN Invalid("empty_dataset")
        ELSE IF Len(content.rows) > MaxRows THEN Limit("dataset_rows")
        ELSE NormalizedTable(kind, content, columns)

-----------------------------------------------------------------------------
(* The payload and the record *)

\* _validate_cell
CellValid(cell, type) ==
    \/ cell.tag = "null"
    \/ /\ cell.tag = "string" => cell.size <= MaxCell
       /\ CASE type = "boolean" -> cell.tag = "boolean"
            [] type = "integer" -> cell.tag = "integer" /\ InRange(cell.value)
            [] type = "number" -> cell.tag \in {"integer", "float"} /\ InRange(cell.value)
            [] type = "string" -> cell.tag = "string"
            [] type = "timestamp" -> cell.tag = "string" /\ cell.reads = "utc"

\* DatasetPayloadV1
PayloadOf(columns, rows) ==
    [columns |-> [j \in DOMAIN columns |-> [id |-> columns[j].id, type |-> columns[j].type]],
     rows |-> rows]

PayloadValid(p) ==
    /\ Len(p.columns) \in 1..MaxColumns /\ Len(p.rows) \in 1..MaxRows
    /\ Distinct(p.columns, LAMBDA column : column.id)
    /\ \A i \in DOMAIN p.rows :
          /\ Len(p.rows[i]) = Len(p.columns)
          /\ \A j \in DOMAIN p.columns : CellValid(p.rows[i][j], p.columns[j].type)

PayloadSize(p) ==
    MapThenSumSet(LAMBDA c : p.rows[c[1]][c[2]].size, (DOMAIN p.rows) \X (DOMAIN p.columns))

Observations(rows, j) == SelectSeq([i \in DOMAIN rows |-> rows[i][j]], LAMBDA cell : cell.tag # "null")

\* The first and the last observation, in the order of the rows.
Bounds(columns, rows) ==
    IF TimestampColumns(columns) = {} THEN <<>>
    ELSE LET seen == Observations(rows, CHOOSE j \in TimestampColumns(columns) : TRUE)
         IN  <<seen[1], Last(seen)>>

RecordOf(r, content, p, events) ==
    [payload |-> p, raw |-> content, kind |-> r.source.kind, columns |-> r.columns,
     row_count |-> Len(p.rows), column_count |-> Len(r.columns),
     bounds |-> Bounds(r.columns, p.rows), events |-> events, digest |-> r.digest]

\* DatasetRecordV1._validate_record: what each event requires of its column and source.
EventValid(r, e) ==
    \E j \in DOMAIN r.columns :
        /\ r.columns[j].id = e[2] /\ r.events[e] \in 1..r.row_count
        /\ LET type == r.columns[j].type
               csv == r.kind = "local_csv"
           IN  CASE e[1] = "json_missing_field_to_null" -> ~csv
                 [] e[1] = "csv_empty_field_to_null" -> csv /\ type # "string"
                 [] e[1] = "csv_boolean_parsed" -> csv /\ type = "boolean"
                 [] e[1] = "csv_integer_parsed" -> csv /\ type = "integer"
                 [] e[1] = "csv_number_parsed" -> csv /\ type = "number"
                 [] e[1] = "timestamp_to_canonical_utc" -> type = "timestamp"

RecordValid(r) ==
    /\ r.column_count = Len(r.columns) /\ Cardinality(TimestampColumns(r.columns)) <= 1
    /\ \A j \in DOMAIN r.columns : ColumnValid(r.columns[j])
    /\ Distinct(r.columns, LAMBDA column : column.id)
    /\ Distinct(r.columns, LAMBDA column : column.name)
    /\ TimestampColumns(r.columns) = {} => r.bounds = <<>>
    /\ \A e \in DOMAIN r.events : EventValid(r, e)
    /\ r.digest # "other"

\* DatasetRecordV1.validate_payload
PayloadMatches(r, p) ==
    /\ r.payload = p /\ r.row_count = Len(p.rows) /\ r.column_count = Len(p.columns)
    /\ \A j \in DOMAIN p.columns :
          p.columns[j].id = r.columns[j].id /\ p.columns[j].type = r.columns[j].type
    /\ r.bounds = Bounds(r.columns, p.rows)

\* normalize_dataset after the rows; the payload is constructed outside the try block.
BuildDataset(r, content, t) ==
    LET p == PayloadOf(r.columns, t.rows)
        record == RecordOf(r, content, p, t.events)
    IN  IF ~PayloadValid(p) THEN Escaped
        ELSE IF PayloadSize(p) > MaxPayload THEN Limit("normalized_dataset_payload_bytes")
        ELSE IF \E j \in TimestampColumns(r.columns) : Observations(t.rows, j) = <<>>
             THEN Invalid("missing_timestamp_observation")
        ELSE IF ~(RecordValid(record) /\ PayloadMatches(record, p))
             THEN Invalid("invalid_normalized_dataset")
        ELSE [ok |-> TRUE, payload |-> p, record |-> record]

\* resolve_dataset_fields: whole columns, each source and each target at most once.
ResolveFields(p, mappings, literals) ==
    LET Bind(acc, m) ==
            LET at == {j \in DOMAIN p.columns : p.columns[j].id = m.source}
            IN  IF m.source \in acc.used \/ m.target \in DOMAIN acc.output \/ at = {}
                THEN [acc EXCEPT !.ok = FALSE]
                ELSE LET column == [i \in DOMAIN p.rows |-> p.rows[i][CHOOSE j \in at : TRUE]]
                     IN  [ok |-> acc.ok, used |-> acc.used \cup {m.source},
                          output |-> [f \in DOMAIN acc.output \cup {m.target} |->
                                        IF f = m.target THEN column ELSE acc.output[f]]]
        binding[n \in 0..Len(mappings)] ==
            IF n = 0 THEN [ok |-> TRUE, used |-> {}, output |-> literals]
            ELSE Bind(binding[n - 1], mappings[n])
    IN  binding[Len(mappings)]

-----------------------------------------------------------------------------
(* The host's steps *)

DatasetInit ==
    /\ request \in DatasetRequests
    /\ source = Unread /\ table = Unread /\ dataset = Unread /\ bound = Unread

Concludes(refusal) == dataset' = refusal /\ UNCHANGED <<request, source, table, bound>>

\* An ill request is answered without its source being read.
RefuseRequest ==
    /\ source = Unread /\ dataset = Unread
    /\ \/ ~PreflightLimits(request).ok /\ Concludes(PreflightLimits(request))
       \/ /\ PreflightLimits(request).ok /\ ~RequestValid(request)
          /\ Concludes(Refusal("invalid_tool_request", "model"))

\* A local file is read through the configured roots, which may refuse it.
ReadSource ==
    /\ source = Unread /\ dataset = Unread
    /\ PreflightLimits(request).ok /\ RequestValid(request)
    /\ IF request.source.kind \in {"inline_rows", "inline_json"}
       THEN source' = request.source.content
       ELSE source' \in LocalFiles[request.source.kind]
    /\ UNCHANGED <<request, table, dataset, bound>>

RootRefuses ==
    /\ source = Unread /\ dataset = Unread
    /\ PreflightLimits(request).ok /\ RequestValid(request)
    /\ request.source.kind \in {"local_csv", "local_json"}
    /\ \E code \in {"input_root_denied", "unsafe_input_path", "unsupported_data_format",
                    "input_limit_exceeded"} : Concludes(Refusal(code, "file"))

NormalizeSource ==
    /\ source # Unread /\ table = Unread /\ dataset = Unread
    /\ LET decoded == DecodeSource(request, source)
           rows == NormalizedRows(request.source.kind, source, request.columns)
       IN  IF ~decoded.ok THEN Concludes(decoded)
           ELSE IF ~rows.ok THEN Concludes(rows)
           ELSE table' = rows /\ UNCHANGED <<request, source, dataset, bound>>

FinishDataset ==
    /\ table # Unread /\ dataset = Unread
    /\ Concludes(BuildDataset(request, source, table))

BindFields ==
    /\ dataset # Unread /\ dataset.ok /\ bound = Unread
    /\ \E b \in FieldBindings :
          bound' = [ResolveFields(dataset.payload, b.mappings, b.literals) EXCEPT !.used = b]
    /\ UNCHANGED <<request, source, table, dataset>>

DatasetNext ==
    RefuseRequest \/ ReadSource \/ RootRefuses \/ NormalizeSource \/ FinishDataset \/ BindFields

DatasetSpec == DatasetInit /\ [][DatasetNext]_datasetVars

-----------------------------------------------------------------------------
(* Properties *)

Registered == dataset # Unread /\ dataset.ok

\* The cell the source has under the name of column j in row i.
SourceCell(i, j) ==
    LET name == request.columns[j].name
    IN  IF request.source.kind = "local_csv"
        THEN source.rows[i][CHOOSE k \in DOMAIN source.header : source.header[k] = name]
        ELSE IF name \in DOMAIN source.rows[i].fields THEN source.rows[i].fields[name]
        ELSE [NullCell EXCEPT !.reads = "missing"]

\* Truths, integers, instants and the floats of a JSON document are kept as they are; a CSV
\* text that is a number but not an integer is stored as a double it is nearest to.
StandsFor(stored, raw) ==
    IF raw.tag = "string" /\ stored.tag = "float" THEN Nearest(stored.value, raw.value)
    ELSE stored.value = raw.value

\* Every stored cell stands for the cell of its source, and is null only where that is null,
\* empty or missing.
ValuesKept ==
    \A i \in DOMAIN dataset.payload.rows, j \in DOMAIN request.columns :
        LET stored == dataset.payload.rows[i][j]
            raw == SourceCell(i, j)
        IN  IF stored.tag = "null" THEN raw.reads \in {"nothing", "missing"}
            ELSE StandsFor(stored, raw)

\* The ledger counts, column by column, exactly the cells that differ from the source.
LedgerExact ==
    \A j \in DOMAIN request.columns :
        LET id == request.columns[j].id
            events == dataset.record.events
            mine == {e \in DOMAIN events : e[2] = id}
        IN  MapThenSumSet(LAMBDA e : events[e], mine)
                = Cardinality({i \in DOMAIN dataset.payload.rows :
                                  dataset.payload.rows[i][j] # SourceCell(i, j)})

\* Binding keeps every literal and every row of a column, in order.
BoundWhole ==
    bound # Unread /\ bound.ok =>
        /\ \A f \in DOMAIN bound.used.literals : bound.output[f] = bound.used.literals[f]
        /\ \A k \in DOMAIN bound.used.mappings :
              LET m == bound.used.mappings[k]
              IN  \E j \in DOMAIN request.columns :
                     /\ request.columns[j].id = m.source
                     /\ bound.output[m.target]
                            = [i \in DOMAIN dataset.payload.rows |-> dataset.payload.rows[i][j]]

\* A registered dataset says what its source says: values are found by name and kept, up to
\* the rounding of a CSV text to a float, every change is in the ledger, and the record's own
\* validator never refuses what the normaliser built.  Only a year before 1000 gets past the
\* normaliser and is then rejected by the payload's model, outside every handler
\* (normalize_dataset, DatasetRecordV1._validate_record, resolve_dataset_fields).
DatasetFaithful ==
    /\ Registered => ValuesKept /\ LedgerExact /\ BoundWhole
    /\ dataset # Unread /\ ~dataset.ok =>
          /\ dataset.why # "invalid_normalized_dataset"
          /\ dataset = Escaped => \E i \in DOMAIN table.rows, j \in DOMAIN request.columns :
                                     table.rows[i][j].reads = "unpadded"
=============================================================================
