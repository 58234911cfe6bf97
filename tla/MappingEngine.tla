--------------------------- MODULE MappingEngine ---------------------------
(***************************************************************************)
(* dis-mapping: the rules document of a template version (SourceMapping    *)
(* and the checks its parsing makes) and the engine that applies it to a   *)
(* chunk in four sub-stages, rename, normalize, cast, derive.              *)
(*                                                                         *)
(* A source cell is text.  The engine tells texts apart by what its        *)
(* operations look at: a numeral by its value and the way it is written, a *)
(* moment by its format and its local time, a word by its letters, case,   *)
(* length and white space.  Numerals are written unambiguously (a grouped  *)
(* one has two separators or more, a fraction never three digits), so the  *)
(* separators a rule declares either read a numeral or refuse it.  Values  *)
(* are in units of 1/10000, the finest scale of the canonical columns, and *)
(* no value has more places than its column; moments are in minutes.       *)
(* A failure record's wording and position are left out: the row and the   *)
(* fact that it failed remain.                                             *)
(***************************************************************************)
EXTENDS Integers, FiniteSets, Sequences

CONSTANT Zones  \* the IANA zones: name -> [offset, undefined local minutes]

SeqX == INSTANCE SequencesExt

ASSUME ZonesAssumption ==
    \A z \in DOMAIN Zones : Zones[z].offset \in Int /\ Zones[z].undefined \subseteq Int

Unit == 10000
DayMinutes == 1440
NULL == "null"             \* an explicit null argument
WRONG == "not a string"    \* an argument of another JSON type
Separators == {".", ",", " ", "'"}

Null == [kind |-> "null"]
Failed == [kind |-> "failed"]
Numeral(units, thousands, decimal, percent) ==
    [kind |-> "numeral", units |-> units, thousands |-> thousands, decimal |-> decimal,
     percent |-> percent, padded |-> FALSE]
Moment(form, minute, offset) ==
    [kind |-> "moment", form |-> form, minute |-> minute, offset |-> offset, padded |-> FALSE]
Word(word, case, length) ==
    [kind |-> "word", word |-> word, case |-> case, length |-> length, spaced |-> FALSE,
     padded |-> FALSE]

ISO_DATE == "%Y-%m-%d"
ISO_OFFSET == "%Y-%m-%dT%H:%M:%S%z"
ISO_UTC == "%Y-%m-%dT%H:%M:%S%.6f+00:00"
offset_bearing(fmt) == fmt = ISO_OFFSET  \* "%z" in fmt

\* A word is named by its letters, whatever the case they are written in.
TrueText == Word("TRUE", "lower", 4)
FalseText == Word("FALSE", "lower", 5)

Upper(text) == IF text.kind = "word" THEN [text EXCEPT !.case = "upper"] ELSE text
Lower(text) == IF text.kind = "word" THEN [text EXCEPT !.case = "lower"] ELSE text

-----------------------------------------------------------------------------
(* The rules document. *)

NORMALIZE_OPS ==
    {"parse_date", "parse_datetime", "parse_decimal", "parse_percent", "parse_integer",
     "parse_boolean", "map_enum", "null_tokens", "normalize_whitespace", "normalize_case"}
DERIVE_GENERATOR_OPS == {"copy", "constant", "date_from_datetime"}
CastType == {"string", "integer", "decimal", "date", "datetime", "boolean"}

require_keys(args, required, optional) ==
    required \subseteq DOMAIN args /\ DOMAIN args \subseteq required \cup optional

require_str(args, key) == args[key] \notin {"", NULL, WRONG}

\* A list of another type than strings counts as empty here: it is refused alike.
require_str_list(args, key) == args[key] # {}

thousands_declared(args) == args.thousands_separator \in Separators \cup {NULL}

parse_datetime_args(args) ==
    /\ require_keys(args, {"format", "timezone"}, {})
    /\ require_str(args, "format")
    /\ args.timezone \notin {"", WRONG}
    /\ (args.timezone = NULL) = offset_bearing(args.format)

parse_decimal_args(args) ==
    /\ require_keys(args, {"decimal_separator", "thousands_separator"}, {})
    /\ require_str(args, "decimal_separator")
    /\ args.decimal_separator \in Separators
    /\ thousands_declared(args)
    /\ args.thousands_separator # args.decimal_separator

parse_boolean_args(args) ==
    /\ require_keys(args, {"true_values", "false_values"}, {})
    /\ require_str_list(args, "true_values") /\ require_str_list(args, "false_values")
    /\ args.true_values \cap args.false_values = {}

case_insensitive(args) == "case_insensitive" \in DOMAIN args /\ args.case_insensitive

map_enum_args(args) ==
    /\ require_keys(args, {"mapping"}, {"case_insensitive"})
    /\ DOMAIN args.mapping # {}
    /\ case_insensitive(args) =>
         Cardinality({Upper(k) : k \in DOMAIN args.mapping}) = Cardinality(DOMAIN args.mapping)

validate_normalize_args(spec) ==
    LET args == spec.args
    IN  CASE spec.op = "parse_date" ->
               require_keys(args, {"format"}, {}) /\ require_str(args, "format")
          [] spec.op = "parse_datetime" -> parse_datetime_args(args)
          [] spec.op \in {"parse_decimal", "parse_percent"} -> parse_decimal_args(args)
          [] spec.op = "parse_integer" ->
               require_keys(args, {"thousands_separator"}, {}) /\ thousands_declared(args)
          [] spec.op = "parse_boolean" -> parse_boolean_args(args)
          [] spec.op = "map_enum" -> map_enum_args(args)
          [] spec.op = "null_tokens" ->
               require_keys(args, {"tokens"}, {}) /\ require_str_list(args, "tokens")
          [] spec.op = "normalize_whitespace" -> require_keys(args, {}, {"trim", "collapse"})
          [] spec.op = "normalize_case" ->
               require_keys(args, {"mode"}, {}) /\ args.mode \in {"upper", "lower"}
          [] OTHER -> FALSE

\* The value of a constant: a text, or a number or truth value wrapped by its dtype.
Scalar(dtype, value) == [kind |-> dtype, value |-> value]
is_str(value) == value.kind \in {"numeral", "moment", "word"}

validate_derive_generator_args(spec) ==
    CASE spec.op \in {"copy", "date_from_datetime"} ->
           require_keys(spec.args, {"source_column"}, {}) /\ require_str(spec.args, "source_column")
      [] spec.op = "constant" -> require_keys(spec.args, {"value"}, {}) /\ spec.args.value # Null
      [] OTHER -> FALSE

validate_cast_spec(spec) ==
    IF spec.type = "decimal"
    THEN /\ {"precision", "scale"} \subseteq DOMAIN spec
         /\ spec.precision >= 1 /\ spec.scale >= 0 /\ spec.scale <= spec.precision
    ELSE DOMAIN spec = {"type"}

rename_targets(m) == SeqX!Range(m.rename)
target_columns(m) == rename_targets(m) \cup DOMAIN m.derive

cast_type(m, column) == IF column \in DOMAIN m.cast THEN m.cast[column].type ELSE "string"

validate_derive_list(m, specs) ==
    /\ specs # <<>>
    /\ validate_derive_generator_args(specs[1])
    /\ LET generator == specs[1]
           rest == Tail(specs)
           source == generator.args.source_column
       IN  /\ generator.op \in {"copy", "date_from_datetime"} => source \in rename_targets(m)
           /\ generator.op = "date_from_datetime" => cast_type(m, source) = "datetime"
           /\ \A i \in DOMAIN rest : rest[i].op \in NORMALIZE_OPS /\ validate_normalize_args(rest[i])
           /\ rest # <<>> =>
                /\ generator.op # "date_from_datetime"
                /\ generator.op = "constant" => is_str(generator.args.value)
                /\ generator.op = "copy" => cast_type(m, source) = "string"

\* The fields of the document that are absent are empty.
SourceMappingFields == {"version", "rename", "normalize", "cast", "derive"}
with_defaults(raw) ==
    [f \in SourceMappingFields |-> IF f \in DOMAIN raw THEN raw[f] ELSE <<>>]

\* SourceMapping.model_validate accepts the document.
validate_rules(raw) ==
    /\ "version" \in DOMAIN raw /\ DOMAIN raw \subseteq SourceMappingFields
    /\ LET m == with_defaults(raw)
       IN  /\ m.version >= 1
           /\ Cardinality(rename_targets(m)) = Cardinality(DOMAIN m.rename)
           /\ DOMAIN m.normalize \cup DOMAIN m.cast \subseteq rename_targets(m)
           /\ DOMAIN m.derive \cap rename_targets(m) = {}
           /\ \A c \in DOMAIN m.normalize : \A i \in DOMAIN m.normalize[c] :
                validate_normalize_args(m.normalize[c][i])
           /\ \A c \in DOMAIN m.cast :
                m.cast[c].type \in CastType /\ validate_cast_spec(m.cast[c])
           /\ \A c \in DOMAIN m.derive : validate_derive_list(m, m.derive[c])

-----------------------------------------------------------------------------
(* Normalize: what each operation makes of a text that is not null. *)

reads(text, form) == text.kind = "moment" /\ text.form = form /\ ~text.padded

parse_date(text, args) ==
    IF reads(text, args.format)
    THEN Moment(ISO_DATE, (text.minute \div DayMinutes) * DayMinutes, 0)
    ELSE Failed

\* A local time in a DST gap or fold is a failed cell.
parse_datetime(text, args) ==
    IF ~reads(text, args.format) THEN Failed
    ELSE IF offset_bearing(args.format) THEN Moment(ISO_UTC, text.minute - text.offset, 0)
    ELSE LET zone == Zones[args.timezone]
         IN  IF text.minute \in zone.undefined THEN Failed
             ELSE Moment(ISO_UTC, text.minute - zone.offset, 0)

\* The pattern of the numeric operations matches the whole text.
numeric_body(text, decimals, thousands) ==
    /\ text.kind = "numeral" /\ ~text.padded
    /\ text.thousands \in {"", thousands}
    /\ text.decimal \in {""} \cup decimals

strip_separators(text) ==
    Numeral(text.units, "", IF text.decimal = "" THEN "" ELSE ".", FALSE)

parse_decimal(text, args) ==
    IF numeric_body(text, {args.decimal_separator}, args.thousands_separator) /\ ~text.percent
    THEN strip_separators(text) ELSE Failed

parse_percent(text, args) ==
    IF numeric_body(text, {args.decimal_separator}, args.thousands_separator)
    THEN LET units == text.units \div 100
         IN  Numeral(units, "", IF units % Unit = 0 THEN "" ELSE ".", FALSE)
    ELSE Failed

parse_integer(text, args) ==
    IF numeric_body(text, {}, args.thousands_separator) /\ ~text.percent
    THEN strip_separators(text) ELSE Failed

parse_boolean(text, args) ==
    IF text \in args.true_values THEN TrueText
    ELSE IF text \in args.false_values THEN FalseText ELSE Failed

map_enum(text, args) ==
    LET hits == IF case_insensitive(args)
                THEN {k \in DOMAIN args.mapping : Upper(k) = Upper(text)}
                ELSE DOMAIN args.mapping \cap {text}
    IN  IF hits = {} THEN Failed ELSE args.mapping[CHOOSE k \in hits : TRUE]

null_tokens(text, args) == IF text \in args.tokens THEN Null ELSE text

flag(args, key) == key \in DOMAIN args => args[key]

normalize_whitespace(text, args) ==
    [field \in DOMAIN text |->
        IF (field = "padded" /\ flag(args, "trim")) \/ (field = "spaced" /\ flag(args, "collapse"))
        THEN FALSE ELSE text[field]]

normalize_case(text, args) == IF args.mode = "upper" THEN Upper(text) ELSE Lower(text)

NORMALIZE_IMPLS(op, text, args) ==
    CASE op = "parse_date" -> parse_date(text, args)
      [] op = "parse_datetime" -> parse_datetime(text, args)
      [] op = "parse_decimal" -> parse_decimal(text, args)
      [] op = "parse_percent" -> parse_percent(text, args)
      [] op = "parse_integer" -> parse_integer(text, args)
      [] op = "parse_boolean" -> parse_boolean(text, args)
      [] op = "map_enum" -> map_enum(text, args)
      [] op = "null_tokens" -> null_tokens(text, args)
      [] op = "normalize_whitespace" -> normalize_whitespace(text, args)
      [] op = "normalize_case" -> normalize_case(text, args)

\* A null is never a failure; a failed cell goes on as a null but fails its row.
apply_transform_list(text, specs) ==
    SeqX!FoldLeft(LAMBDA cell, spec : IF cell \in {Null, Failed} THEN cell
                                      ELSE NORMALIZE_IMPLS(spec.op, cell, spec.args),
                  text, specs)

\* parse_datetime raises MappingConfigError, whatever the cells, for an unknown zone.
zone_refused(specs) ==
    \E i \in DOMAIN specs : /\ specs[i].op = "parse_datetime"
                            /\ specs[i].args.timezone \notin DOMAIN Zones \cup {NULL}

-----------------------------------------------------------------------------
(* Cast. *)

target_dtype(spec) ==
    IF spec.type = "decimal"
    THEN [dtype |-> "decimal", precision |-> spec.precision, scale |-> spec.scale]
    ELSE [dtype |-> spec.type]

plain(text) == text.kind = "numeral" /\ text.thousands = "" /\ ~text.percent /\ ~text.padded

Abs(n) == IF n < 0 THEN -n ELSE n

\* Of the places before the point a column has precision - scale (9 fit TLC's integers).
fits(units, spec) ==
    LET places == spec.precision - spec.scale
    IN  places > 9 \/ Abs(units) \div Unit < 10 ^ places

cast_string_series(text, spec) ==
    CASE spec.type = "string" -> text
      [] spec.type = "integer" ->
           IF plain(text) /\ text.decimal = "" THEN Scalar("integer", text.units \div Unit) ELSE Failed
      [] spec.type = "decimal" ->
           IF plain(text) /\ text.decimal \in {"", "."} /\ fits(text.units, spec)
           THEN Scalar("decimal", text.units) ELSE Failed
      [] spec.type = "date" ->
           IF reads(text, ISO_DATE) THEN Scalar("date", text.minute \div DayMinutes) ELSE Failed
      [] spec.type = "datetime" ->
           IF reads(text, ISO_UTC) THEN Scalar("datetime", text.minute) ELSE Failed
      [] spec.type = "boolean" ->
           IF text \in {TrueText, FalseText} THEN Scalar("boolean", text = TrueText) ELSE Failed

run_cast(cell, m, column) ==
    IF cell \in {Null, Failed} \/ column \notin DOMAIN m.cast THEN cell
    ELSE cast_string_series(cell, m.cast[column])

-----------------------------------------------------------------------------
(* The pipeline.  A frame is a sequence of rows, each a function from column to text. *)

source_of(m, column) == CHOOSE s \in DOMAIN m.rename : m.rename[s] = column

run_rename(m, row) == [column \in rename_targets(m) |-> row[source_of(m, column)]]

run_normalize(m, row) ==
    [column \in DOMAIN row |->
        IF column \in DOMAIN m.normalize THEN apply_transform_list(row[column], m.normalize[column])
        ELSE row[column]]

generate(row, spec) ==
    IF spec.op = "constant" THEN spec.args.value
    ELSE LET value == row[spec.args.source_column]
         IN  IF spec.op = "copy" \/ value.kind # "datetime" THEN value
             ELSE Scalar("date", value.value \div DayMinutes)

run_derive(m, row) ==
    [column \in target_columns(m) |->
        IF column \in rename_targets(m) THEN row[column]
        ELSE apply_transform_list(generate(row, Head(m.derive[column])), Tail(m.derive[column]))]

mapped_row(m, row) ==
    LET normalized == run_normalize(m, run_rename(m, row))
    IN  run_derive(m, [column \in DOMAIN normalized |-> run_cast(normalized[column], m, column)])

failed_row(row) == \E column \in DOMAIN row : row[column] = Failed

\* The rows of the chunk without a failed cell contribute; the others are its failures.
apply_mapping(m, frame) ==
    LET mapped == [i \in DOMAIN frame |-> mapped_row(m, frame[i])]
        failed == {i \in DOMAIN frame : failed_row(mapped[i])}
    IN  [contribution |-> [i \in DOMAIN frame \ failed |-> mapped[i]], failures |-> failed]

\* The chunk never gets that far: a rule names a zone the engine does not know.
mapping_config_refused(m) ==
    \/ \E c \in DOMAIN m.normalize : zone_refused(m.normalize[c])
    \/ \E c \in DOMAIN m.derive : zone_refused(Tail(m.derive[c]))

\* The dtype a target column has after the four sub-stages, whatever its cells.
column_dtype(m, column) ==
    IF column \in rename_targets(m)
    THEN IF column \in DOMAIN m.cast THEN target_dtype(m.cast[column]) ELSE [dtype |-> "string"]
    ELSE LET generator == Head(m.derive[column])
             source == generator.args.source_column
         IN  IF Len(m.derive[column]) > 1 THEN [dtype |-> "string"]
             ELSE CASE generator.op = "date_from_datetime" -> [dtype |-> "date"]
               [] generator.op = "constant" ->
                    [dtype |-> IF is_str(generator.args.value) THEN "string" ELSE generator.args.value.kind]
               [] generator.op = "copy" ->
                    IF source \in DOMAIN m.cast THEN target_dtype(m.cast[source]) ELSE [dtype |-> "string"]
=============================================================================
