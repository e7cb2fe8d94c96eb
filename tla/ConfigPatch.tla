----------------------------- MODULE ConfigPatch -----------------------------
(***************************************************************************)
(* What a save in the dashboard does to the text of config.toml            *)
(* (core/config_patch.c), and what is then loaded from it (core/config.c). *)
(* The file is a sequence of lines, so that comments, order and the        *)
(* missing newline of the last line are there; the patch works on the text *)
(* and knows of TOML only what find_section, section_end and find_key_line *)
(* look for.  A string that goes on over several lines, in which the scan  *)
(* would take a line of text for a header or a key, is not in the lines.   *)
(***************************************************************************)
EXTENDS Integers, Sequences, SequencesExt

CONSTANTS
    Files,      \* what the owner may have written: [lines, nl]
    Saves,      \* bodies of a save: functions from names of fields to values
    Unit,       \* one, in the steps numbers are counted in
    Fine,       \* the finest step that %g shows
    MaxSaves    \* bound on saves

ASSUME FilesAssumption == \A f \in Files : f \in [lines : Seq(Range(f.lines)), nl : BOOLEAN]

\* The lines: headers, at the left margin or indented; keys; comments; text that is
\* no TOML; note says that the line ends in a comment.  A value is [t, x] with t
\* "str" or "num", a number in steps of 1/Unit.
Header(name, in) == [kind |-> "table", name |-> name, in |-> in, note |-> FALSE]
Key(name, v) == [kind |-> "key", name |-> name, v |-> v, note |-> FALSE]
Noted(line) == [line EXCEPT !.note = TRUE]
Note == [kind |-> "note", note |-> TRUE]
Blank == [kind |-> "blank", note |-> FALSE]
Broken == [kind |-> "broken", note |-> FALSE]
Str(x) == [t |-> "str", x |-> x]
Num(x) == [t |-> "num", x |-> x]

\* The fields of the dashboard, in the order they are applied.
Fields ==
    << [field |-> "model",        table |-> "agent",   key |-> "model",       type |-> "str"],
       [field |-> "max_tokens",   table |-> "agent",   key |-> "max_tokens",  type |-> "int"],
       [field |-> "temperature",  table |-> "agent",   key |-> "temperature", type |-> "dbl"],
       [field |-> "gateway_host", table |-> "gateway", key |-> "host",        type |-> "str"],
       [field |-> "gateway_port", table |-> "gateway", key |-> "port",        type |-> "int"] >>

VARIABLES
    toml,   \* config.toml
    env,    \* the names of fields that an environment variable overrides
    put     \* the last save: [req, ok, n]

patchVars == <<toml, env, put>>

-----------------------------------------------------------------------------
(* config_load. *)

\* No text, and where the lines before the first header lie.
NoText == ""

\* The table that line i lies in.
TableAt(f, i) ==
    LET heads == {j \in 1 .. i : f.lines[j].kind = "table"}
    IN  IF heads = {} THEN NoText ELSE f.lines[CHOOSE j \in heads : \A k \in heads : k <= j].name

Lines(f) == DOMAIN f.lines
KeysOf(f, table) == {i \in Lines(f) : f.lines[i].kind = "key" /\ TableAt(f, i) = table}

\* toml_parse_file: no broken line, no table and no key of a table twice.
toml_parse_file(f) ==
    /\ \A i \in Lines(f) : f.lines[i].kind # "broken"
    /\ \A i, j \in Lines(f) :
          /\ f.lines[i].kind = "table" /\ f.lines[j].kind = "table"
          /\ f.lines[i].name = f.lines[j].name
          => i = j
    /\ \A i, j \in Lines(f) :
          /\ f.lines[i].kind = "key" /\ f.lines[j].kind = "key"
          /\ f.lines[i].name = f.lines[j].name /\ TableAt(f, i) = TableAt(f, j)
          => i = j

Default == [t |-> "default", x |-> NoText]

\* A value of the wrong type is passed over, and so is a string with control
\* characters; an integer field takes no fraction.
Taken(fd, v) ==
    LET ok == CASE fd.type = "str" -> v.t = "str" /\ v.x # "ctrl"
                [] fd.type = "int" -> v.t = "num" /\ v.x % Unit = 0
                [] fd.type = "dbl" -> v.t = "num"
    IN  IF ok THEN v ELSE Default

\* The value of a field, or its default.
toml_in(f, fd) ==
    LET at == {i \in KeysOf(f, fd.table) : f.lines[i].name = fd.key}
    IN  IF at = {} THEN Default ELSE Taken(fd, f.lines[CHOOSE i \in at : TRUE].v)

parse_agent(f) == [k \in 1 .. 3 |-> toml_in(f, Fields[k])]
parse_gateway(f) == [k \in 4 .. 5 |-> toml_in(f, Fields[k])]
Parsed(f) == [k \in 1 .. 5 |-> IF k \in 1 .. 3 THEN parse_agent(f)[k] ELSE parse_gateway(f)[k]]

apply_env_overrides(cfg) ==
    [k \in DOMAIN cfg |-> IF Fields[k].field \in env THEN [t |-> "env", x |-> NoText] ELSE cfg[k]]

validate_required(cfg) == cfg[1] \notin {Default, Str(NoText)}

config_load(f) ==
    /\ toml_parse_file(f)
    /\ \E i \in Lines(f) : f.lines[i].kind = "table" /\ f.lines[i].name = "agent"
    /\ validate_required(apply_env_overrides(Parsed(f)))

-----------------------------------------------------------------------------
(* The patch of one key. *)

\* The first line of a set, or 0.
First(S) == IF S = {} THEN 0 ELSE CHOOSE i \in S : \A j \in S : i <= j

\* A header that the scan sees is at the left margin.
Seen(line) == line.kind = "table" /\ ~line.in

find_section(f, table) == First({i \in Lines(f) : Seen(f.lines[i]) /\ f.lines[i].name = table})

\* Mutant: a section goes on to the end of the file.
Mut_section_end(f, sec) == Len(f.lines) + 1

section_end(f, sec) ==
    LET after == {i \in sec + 1 .. Len(f.lines) : Seen(f.lines[i])}
    IN  IF after = {} THEN Len(f.lines) + 1 ELSE First(after)

find_key_line(f, sec, end, key) ==
    First({i \in sec .. end - 1 : f.lines[i].kind = "key" /\ f.lines[i].name = key})

\* The last line without its newline, and the new line's text right behind it: a
\* comment takes it in.
Glued(line, new) ==
    CASE line.note -> line
      [] ~line.note /\ line.kind = "blank" -> new
      [] OTHER -> Broken

\* New text before line `at`, or in its place.
splice_text(f, at, old, new) ==
    LET last == Len(f.lines)
    IN  IF old = 1 THEN [lines |-> [f.lines EXCEPT ![at] = new], nl |-> f.nl \/ at = last]
        ELSE IF at <= last THEN [f EXCEPT !.lines = InsertAt(@, at, new)]
        ELSE IF f.nl \/ last = 0 THEN [lines |-> Append(f.lines, new), nl |-> TRUE]
        ELSE [lines |-> [f.lines EXCEPT ![last] = Glued(@, new)], nl |-> TRUE]

\* A new section at the end, after an empty line or the missing newline.
append_section_key(f, table, new) ==
    [lines |-> f.lines \o (IF f.nl THEN <<Blank>> ELSE <<>>) \o <<Header(table, FALSE), new>>,
     nl |-> TRUE]

patch_key_line(f, table, new) ==
    LET sec == find_section(f, table)
        end == section_end(f, sec)
        at == find_key_line(f, sec, end, new.name)
    IN  IF sec = 0 THEN append_section_key(f, table, new)
        ELSE IF at = 0 THEN splice_text(f, end, 0, new)
        ELSE splice_text(f, at, 1, new)

-----------------------------------------------------------------------------
(* The fields of a save. *)

\* Quotes, backslashes and line ends are escaped and read back as they were; other
\* control characters stay as they are, and the parser takes no string with one.
escape_toml_string(v) == Str(v.x)

\* An integer loses its fraction, a double what %g does not show.
Printed(fd, v) ==
    CASE fd.type = "str" -> escape_toml_string(v)
      [] fd.type = "int" -> Num((v.x \div Unit) * Unit)
      [] fd.type = "dbl" -> Num((v.x \div Fine) * Fine)

reject_wrong_type(fd, v) == v.t # (IF fd.type = "str" THEN "str" ELSE "num")

\* The line buffer takes no longer string.
LineTooLong(v) == v.t = "str" /\ v.x = "long"

patch_field(f, fd, v) == patch_key_line(f, fd.table, Key(fd.key, Printed(fd, v)))

\* One of the fields, if the save names it.
apply_field(f, req, k) ==
    IF Fields[k].field \in DOMAIN req THEN patch_field(f, Fields[k], req[Fields[k].field]) ELSE f

apply_dashboard_fields(f, req) ==
    LET model == apply_field(f, req, 1)
        max_tokens == apply_field(model, req, 2)
        temperature == apply_field(max_tokens, req, 3)
        gateway_host == apply_field(temperature, req, 4)
    IN  apply_field(gateway_host, req, 5)

validate_patched_toml(f) == config_load(f)

Accepted(req) ==
    /\ \A k \in DOMAIN Fields :
          LET fd == Fields[k]
          IN  fd.field \in DOMAIN req =>
                ~reject_wrong_type(fd, req[fd.field]) /\ ~LineTooLong(req[fd.field])
    /\ validate_patched_toml(apply_dashboard_fields(toml, req))

config_patch_dashboard_json(req) ==
    /\ put.n < MaxSaves
    /\ put' = [req |-> req, ok |-> Accepted(req), n |-> put.n + 1]
    /\ toml' = IF put'.ok THEN apply_dashboard_fields(toml, req) ELSE toml
    /\ UNCHANGED env

PatchInit ==
    /\ toml \in Files
    /\ env \in {{}, {"model"}}
    /\ put = [req |-> <<>>, ok |-> FALSE, n |-> 0]
    /\ config_load(toml)

PatchNext == \E req \in Saves : config_patch_dashboard_json(req)

PatchSpec == PatchInit /\ [][PatchNext]_patchVars

-----------------------------------------------------------------------------
(* Properties. *)

\* What the text scan does not see: an indented header, and a comment, on a line of
\* its own or behind a key or a header, that ends the file without a newline and
\* takes in what is put behind it.
Blind(f) ==
    \/ \E i \in Lines(f) : f.lines[i].kind = "table" /\ f.lines[i].in
    \/ ~f.nl /\ Last(f.lines).note

\* The keys that no field stands for, with their tables and values.
Others(f) ==
    {<<TableAt(f, i), f.lines[i].name, f.lines[i].v>> :
       i \in {j \in Lines(f) : f.lines[j].kind = "key" /\
                 \A k \in DOMAIN Fields :
                    <<TableAt(f, j), f.lines[j].name>> # <<Fields[k].table, Fields[k].key>>}}

\* A save that is accepted sets the fields it names to what is read back of them
\* as their types print them, leaves every other field and key as it was, and the
\* file still loads: also with tables in any order, keys of one name in several
\* tables, and a last line without a newline.  The exceptions are the Blind cases,
\* where the save is accepted although the field is not set, and a string with a
\* control character, which is stored and read back as the default
\* (config_patch.c:173-218, 261-310; config_patch.h:22 "Unmentioned keys are left
\* unchanged on disk").
PatchRight ==
    [][ put'.ok /\ ~Blind(toml) =>
          /\ config_load(toml')
          /\ Others(toml') = Others(toml)
          /\ \A k \in DOMAIN Fields :
                LET fd == Fields[k]
                IN  Parsed(toml')[k] =
                      IF fd.field \in DOMAIN put'.req THEN Taken(fd, Printed(fd, put'.req[fd.field]))
                      ELSE Parsed(toml)[k] ]_patchVars
=============================================================================
