---------------------------- MODULE DetailRecords ----------------------------
(***************************************************************************)
(* hs::Manager and hs::HttpDetailRecords (hsm/): the requests the scenarios *)
(* send.  At start-up each configured scenario is loaded: a request with    *)
(* variables, and a file whose rows give the variables values.  From then   *)
(* on the workers ask for requests, API1 for the next row, API2 for the row *)
(* of a key.                                                                *)
(*                                                                         *)
(* Cells of the file and pieces of the request are one kind of value, so    *)
(* that a cell may itself look like a variable.  Choosing the next row and  *)
(* composing the request are two steps: load_seq_ is read outside the lock. *)
(*                                                                         *)
(* Lines are those fgets makes of a file: one of more than 4095 characters is *)
(* several.  Cells of a header are given as conv[128] keeps them, cut to 127 *)
(* characters and without blanks around them.                               *)
(***************************************************************************)
EXTENDS Integers, Sequences, FiniteSetsExt, Functions

CONSTANTS
    Workers,        \* threads of the pool
    Names,          \* names of scenarios
    Configurations, \* what "scenario-files" may say, a sequence of Entry
    Keys,           \* keys that may be asked for
    LongKeys,       \* what is left of the keys tmp[256] cannot hold, a function on them
    LongNames,      \* how the names begin that varname[128] cannot hold, likewise
    SeqModulus,     \* load_seq_ counts modulo this number (2^32 in the code)
    MaxDraws,       \* bound: rows drawn
    Unreadable,     \* an injection file that cannot be opened
    None            \* no value

ASSUME SeqModulusAssumption == SeqModulus \in Nat \ {0}

ASSUME MaxDrawsAssumption == MaxDraws \in Nat

\* The empty string, written as a word.
Empty == "empty"

ASSUME NamesAssumption == Empty \notin Names

\* A cell of a file, or a piece of a request.
Cell == [variable : BOOLEAN, name : STRING]

\* The nodes a scenario file must have.
RequiredNodes == {"request", "scheme", "header", "content", "injection", "delimiter", "file"}

\* A scenario file: which of its nodes are there, the request it describes, the
\* name of the key column (Empty if there is none), and the injection file it names
\* (None when the node is empty), a sequence of lines.  Of the empty cells of its
\* header, blankHeads are those that held blanks or the end of the line.
Scenario ==
    [nodes : SUBSET RequiredNodes, request : Seq(Cell), keyName : STRING,
     blankDelimiter : BOOLEAN, blankHeads : SUBSET Nat,
     file : {None, Unreadable} \cup Seq(Seq(Cell))]

ASSUME ConfigurationsAssumption ==
    \A configuration \in Configurations :
        /\ configuration \in Seq(Range(configuration))
        /\ \A entry \in Range(configuration) :
             entry.name \in Names \cup {Empty} /\ entry.scenario \in Scenario \cup {None}

ASSUME FilesAssumption == {None, Unreadable} \cap Seq(Seq(Cell)) = {}

VARIABLES
    config,  \* "scenario-files" of the configuration
    handled, \* how many of its entries Load_service has been through
    process, \* "up"; "exited" when loading failed; "crashed"
    table,   \* Manager::table_
    worker,  \* [Workers -> what the thread is at]
    drawn    \* auxiliary: per name, the row numbers NextSeq returned

vars == <<config, handled, process, table, worker, drawn>>

-----------------------------------------------------------------------------
(* Cells, pieces of a request, scenarios. *)

Text(t) == [variable |-> FALSE, name |-> t]

\* ${h}
Variable(h) == [variable |-> TRUE, name |-> h]

\* An empty cell.
Blank == Text(Empty)

\* TrimBlank takes blanks off both ends of the line, and with them the empty
\* cells there if the delimiter is itself a blank.
StoredRow(line, blankDelimiter) ==
    LET kept == {i \in DOMAIN line : line[i] # Blank}
    IN  IF ~blankDelimiter THEN line
        ELSE IF kept = {} THEN <<>> ELSE SubSeq(line, Min(kept), Max(kept))

\* The columns with a name; an empty header cell names none.
Named(header, name) == {i \in DOMAIN header : header[i] = Text(name) /\ name # Empty}

\* The header cells that equal key_column_.  A cell of blanks is compared after it
\* was trimmed, and equals a name that was not configured.
KeyHeads(header, keyName, blankHeads) ==
    {i \in DOMAIN header : header[i] = Text(keyName) /\ (keyName = Empty => i \in blankHeads)}

\* The column the keys are taken from: the last of those; 0 if there is none.
KeyColumn(header, keyName, blankHeads) == Max({0} \cup KeyHeads(header, keyName, blankHeads))

\* A key as it is filed.
CutKey(key) == IF key \in DOMAIN LongKeys THEN LongKeys[key] ELSE key

\* Mutation: the index of a key is taken after the row was counted.
NewKeyLate(index, key, rows) ==
    IF key = Blank \/ key \in DOMAIN index THEN index
    ELSE [k \in DOMAIN index \cup {key} |-> IF k = key THEN Len(rows) + 1 ELSE index[k]]

\* Mutation: operator[] in place of insert.
NewKeyOverwrites(index, key, rows) ==
    IF key = Blank THEN index
    ELSE [k \in DOMAIN index \cup {key} |-> IF k = key THEN Len(rows) ELSE index[k]]

\* key2idx_.insert: the first row with a key keeps it.
NewKey(index, key, rows) ==
    IF key = Blank \/ key \in DOMAIN index THEN index
    ELSE [k \in DOMAIN index \cup {key} |-> IF k = key THEN Len(rows) ELSE index[k]]

\* Mutation: a line of the wrong length is skipped and forgotten.
AddLineLenient(data, line, columns, key, blankDelimiter) ==
    IF Len(line) # columns
    THEN data
    ELSE [rows  |-> Append(data.rows, StoredRow(line, blankDelimiter)),
          index |-> IF key = 0 THEN data.index
                    ELSE NewKey(data.index, CutKey(line[key]), data.rows),
          whole |-> data.whole]

\* One data line of the injection file.
AddLine(data, line, columns, key, blankDelimiter) ==
    IF Len(line) # columns
    THEN [data EXCEPT !.whole = FALSE]
    ELSE [rows  |-> Append(data.rows, StoredRow(line, blankDelimiter)),
          index |-> IF key = 0 THEN data.index
                    ELSE NewKey(data.index, CutKey(line[key]), data.rows),
          whole |-> data.whole]

Header(lines) == IF lines = <<>> THEN <<>> ELSE lines[1]

DataLines(lines) == IF lines = <<>> THEN 0 ELSE Len(lines) - 1

\* The injection file as a whole: its first line is the header; after[i] is what
\* the loop has made of the first i lines of data.
Ingest(scenario) ==
    LET lines == scenario.file
        header == Header(lines)
        key == KeyColumn(header, scenario.keyName, scenario.blankHeads)
        after[i \in 0..DataLines(lines)] ==
            IF i = 0 THEN [rows |-> <<>>, index |-> <<>>, whole |-> TRUE]
            ELSE AddLine(after[i - 1], lines[i + 1], Len(header), key, scenario.blankDelimiter)
    IN  [header |-> header, data |-> after[DataLines(lines)]]

\* The part of HttpDetailRecords::Load that may fail.
Loads(scenario) ==
    /\ RequiredNodes \subseteq scenario.nodes
    /\ scenario.file # None =>
         scenario.file # Unreadable /\ Ingest(scenario).data.whole

\* A record as Load leaves it.
Loaded(scenario) ==
    LET plain  == [header |-> <<>>, data |-> [rows |-> <<>>, index |-> <<>>, whole |-> TRUE]]
        ingest == IF scenario.file = None THEN plain ELSE Ingest(scenario)
    IN  [scenario |-> scenario, header |-> ingest.header, rows |-> ingest.data.rows,
         index |-> ingest.data.index, seq |-> 0]

-----------------------------------------------------------------------------
(* Composing a request. *)

Substitute(request, name, cell) ==
    [j \in DOMAIN request |-> IF request[j] = Variable(name) THEN cell ELSE request[j]]

\* Splitter gives an empty cell past the end of the row.
CellAt(row, i) == IF i \in DOMAIN row THEN row[i] ELSE Blank

\* A name too long for varname leaves no room for the closing brace: the beginning
\* of a variable is replaced, and the rest of it stays.
Tear(request, name) ==
    [j \in DOMAIN request |->
        IF /\ request[j].variable /\ request[j].name \in DOMAIN LongNames
           /\ LongNames[request[j].name] = LongNames[name]
        THEN Text("torn") ELSE request[j]]

\* One column: a variable of its name becomes the cell.  A column without a name
\* is passed over, and no variable has the name of a column that looks like one.
Replace(request, column, cell) ==
    IF column = Blank \/ column.variable THEN request
    ELSE IF column.name \in DOMAIN LongNames THEN Tear(request, column.name)
    ELSE Substitute(request, column.name, cell)

\* The columns one after the other, so that a variable a cell brings in is
\* replaced by a later column.
Fill(record, row, header) ==
    LET after[i \in 0..Len(header)] ==
            IF i = 0 THEN record.scenario.request
            ELSE Replace(after[i - 1], header[i], CellAt(record.rows[row + 1], i))
    IN  after[Len(header)]

\* Mutation: the index is not advanced past a column without a name.
ComposeSkipping(record, row) ==
    Fill(record, row, SelectSeq(record.header, LAMBDA h : h # Blank))

\* HttpDetailRecords::Compose.
Compose(record, row) == Fill(record, row, record.header)

\* Compose touches the row only if some column has a name.
NeedsRow(record) == \E i \in DOMAIN record.header : record.header[i] # Blank

-----------------------------------------------------------------------------
(* The types. *)

WorkerIdle == [pc |-> "idle"]

Drawn(n, row) == [pc |-> "drawn", name |-> n, row |-> row]

Composed(n, key, row, request) ==
    [pc |-> "composed", name |-> n, key |-> key, row |-> row, request |-> request]

\* The names hs::Manager has a record for.
Records == DOMAIN table

TypeOK ==
    /\ process \in {"up", "exited", "crashed"}
    /\ \A n \in Names :
         /\ n \in Records =>
              /\ table[n].seq \in 0..(SeqModulus - 1)
              /\ \A k \in DOMAIN table[n].index : table[n].index[k] + 1 \in DOMAIN table[n].rows
         /\ drawn[n] \in Seq(Nat)
    /\ \A w \in Workers : worker[w].pc # "idle" => worker[w].name \in Records

-----------------------------------------------------------------------------
Init ==
    /\ config \in Configurations
    /\ handled = 0
    /\ process = "up"
    /\ table = [n \in {} |-> None]
    /\ worker = [w \in Workers |-> WorkerIdle]
    /\ drawn = [n \in Names |-> <<>>]

(* Start-up: Property::Load_service, before any thread exists. *)

Entry == config[handled + 1]

\* An entry without a name or a file is reported and skipped.
SkipEntry ==
    /\ process = "up" /\ handled < Len(config)
    /\ Entry.name = Empty \/ Entry.scenario = None
    /\ handled' = handled + 1
    /\ UNCHANGED <<config, process, table, worker, drawn>>

\* The second load of a name replaces the first.
LoadEntry ==
    /\ process = "up" /\ handled < Len(config)
    /\ Entry.name # Empty /\ Entry.scenario # None
    /\ IF Loads(Entry.scenario)
       THEN /\ table' = [n \in Records \cup {Entry.name} |->
                           IF n = Entry.name THEN Loaded(Entry.scenario) ELSE table[n]]
            /\ handled' = handled + 1
            /\ process' = process
       ELSE /\ process' = "exited"
            /\ UNCHANGED <<handled, table>>
    /\ UNCHANGED <<config, worker, drawn>>

(* The workers. *)

Serving == process = "up" /\ handled = Len(config)

\* Mutation: the remainder is taken of one row more.
RowOfBeyond(record) == IF record.rows = <<>> THEN 0 ELSE record.seq % (Len(record.rows) + 1)

\* Mutation: load_seq_ is reset when the last row was drawn but one.
RowOfShort(record) ==
    IF Len(record.rows) < 2 THEN 0 ELSE record.seq % (Len(record.rows) - 1)

RowOf(record) == IF record.rows = <<>> THEN 0 ELSE record.seq % Len(record.rows)

\* NextSeq, which counts only if there are rows.
NextSeq(record) ==
    IF record.rows = <<>> THEN record.seq ELSE (record.seq + 1) % SeqModulus

\* Next, its first half: a row number, without the lock.
Draw(w, n) ==
    /\ Serving
    /\ worker[w].pc = "idle" /\ n \in Records
    /\ Len(drawn[n]) < MaxDraws
    /\ worker' = [worker EXCEPT ![w] = Drawn(n, RowOf(table[n]))]
    /\ drawn' = [drawn EXCEPT ![n] = Append(@, RowOf(table[n]))]
    /\ table' = [table EXCEPT ![n].seq = NextSeq(table[n])]
    /\ UNCHANGED <<config, handled, process>>

\* Reading a row that is not there: value_rows_[rowid] past the end.
ReadNowhere(record, row) == NeedsRow(record) /\ row + 1 \notin DOMAIN record.rows

\* Next, its second half.
ComposeDrawn(w) ==
    /\ Serving
    /\ worker[w].pc = "drawn"
    /\ LET n == worker[w].name
           row == worker[w].row
       IN  IF ReadNowhere(table[n], row)
           THEN process' = "crashed" /\ worker' = worker
           ELSE /\ worker' = [worker EXCEPT ![w] = Composed(n, None, row, Compose(table[n], row))]
                /\ process' = process
    /\ UNCHANGED <<config, handled, table, drawn>>

\* Get with a key: one critical section.
GetByKey(w, n, key) ==
    /\ Serving
    /\ worker[w].pc = "idle" /\ n \in Records
    /\ key \in DOMAIN table[n].index
    /\ LET row == table[n].index[key]
       IN  IF ReadNowhere(table[n], row)
           THEN process' = "crashed" /\ worker' = worker
           ELSE /\ worker' = [worker EXCEPT ![w] = Composed(n, key, row, Compose(table[n], row))]
                /\ process' = process
    /\ UNCHANGED <<config, handled, table, drawn>>

\* The request goes on to the HTTP side.
Done(w) ==
    /\ Serving
    /\ worker[w].pc = "composed"
    /\ worker' = [worker EXCEPT ![w] = WorkerIdle]
    /\ UNCHANGED <<config, handled, process, table, drawn>>

Next ==
    \/ SkipEntry
    \/ LoadEntry
    \/ \E w \in Workers, n \in Names : Draw(w, n)
    \/ \E w \in Workers : ComposeDrawn(w)
    \/ \E w \in Workers, n \in Names, key \in Keys : GetByKey(w, n, key)
    \/ \E w \in Workers : Done(w)

Spec == Init /\ [][Next]_vars

-----------------------------------------------------------------------------
(* What the scenarios rely on. *)

\* The data lines of a file, and the columns of a name.
DataLine(scenario, row) == scenario.file[row + 2]

Columns(scenario, name) == Named(scenario.file[1], name)

HasData(scenario) == scenario.file \notin {None, <<>>}

\* The scenario a name was last configured with.
EntriesOf(n) == {i \in DOMAIN config : config[i].name = n /\ config[i].scenario # None}

\* A service starts only if every scenario configured was loaded, none of their
\* lines is missing, and of two entries with one name the later one serves
\* (Property::Load_service, Manager::Load).
ConfigurationServed ==
    Serving =>
        \A n \in Names :
            IF EntriesOf(n) = {} THEN n \notin Records
            ELSE LET scenario == config[Max(EntriesOf(n))].scenario
                 IN  /\ n \in Records
                     /\ table[n].scenario = scenario
                     /\ HasData(scenario) => Len(table[n].rows) = Len(scenario.file) - 1

\* Every key of the file as it is filed, at the first line that has it.
FirstRows(scenario, index) ==
    LET column == Max(Columns(scenario, scenario.keyName))
        rows(key) == {r \in 0..(Len(scenario.file) - 2) :
                        CutKey(DataLine(scenario, r)[column]) = key}
    IN  /\ DOMAIN index =
             {CutKey(line[column]) : line \in Range(Tail(scenario.file))} \ {Blank}
        /\ \A key \in DOMAIN index : index[key] = Min(rows(key))

\* The index finds every key of the file, at the first line that has it
\* (LoadIngection), although rows are numbered by what was stored so far.  A key
\* too long for its buffer is filed under what is left of it.
KeysFindFirstRow ==
    \A n \in Records :
        LET scenario == table[n].scenario
        IN  HasData(scenario) /\ Columns(scenario, scenario.keyName) # {} =>
                FirstRows(scenario, table[n].index)

\* No cell looks like a variable, none is lost at the end of a line, and no name is
\* too long.
Plain(scenario) ==
    /\ ~scenario.blankDelimiter
    /\ \A c \in Range(scenario.file[1]) : c.name \notin DOMAIN LongNames
    /\ \A line \in Range(scenario.file) : \A c \in Range(line) : ~c.variable

\* The configured request with every variable the file has a column for replaced
\* by the cell of the row, the first column of that name.
Faithful(scenario, row, request) ==
    LET value(p) ==
            IF p.variable /\ HasData(scenario) /\ Columns(scenario, p.name) # {}
            THEN DataLine(scenario, row)[Min(Columns(scenario, p.name))] ELSE p
    IN  request = [j \in DOMAIN scenario.request |-> value(scenario.request[j])]

\* A request is the configured one with its variables replaced, all from the one
\* row that was drawn or asked for, and nothing else changed (Compose).  Not so if
\* cells look like variables, the delimiter is a blank or a name is too long.
RequestsFaithful ==
    \A w \in Workers : worker[w].pc = "composed" =>
        LET scenario == table[worker[w].name].scenario
        IN  (HasData(scenario) => Plain(scenario)) =>
                Faithful(scenario, worker[w].row, worker[w].request)

\* The draws of one turn of load_seq_ through its range.
Turn(n, t) == {k \in DOMAIN drawn[n] : (k - 1) \div SeqModulus = t}

\* However many workers draw, no row falls behind another by more than one
\* request while load_seq_ does not wrap (NextSeq).
RowsTakeTurns ==
    \A n \in Records : \A t \in 0..(Len(drawn[n]) \div SeqModulus) :
        LET times(r) == Cardinality({k \in Turn(n, t) : drawn[n][k] = r})
        IN  \A r, q \in 0..(Len(table[n].rows) - 1) : times(r) - times(q) \in {-1, 0, 1}

\* Only a file with a header and no rows makes Compose read a row that is not
\* there (value_rows_[rowid] is not checked).
RowsExist ==
    process = "crashed" =>
        \E n \in Records : NeedsRow(table[n]) /\ table[n].rows = <<>>
=============================================================================
