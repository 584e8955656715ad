------------------------------- MODULE Settings -------------------------------
(***************************************************************************)
(* What operators set on the console: the test flags (CHG-, INIT- and       *)
(* RTRV-TST-CFG) and the environment (CHG- and RTRV-ENV) of main/cli.cpp,   *)
(* kept in ih::Property without a lock.                                     *)
(*                                                                         *)
(* A command works through its items one after the other, and commands of   *)
(* several consoles interleave between items.  It answers what it did, or   *)
(* "Command not found" if it has nothing to say.                            *)
(***************************************************************************)
EXTENDS Integers, Sequences, FiniteSetsExt, Functions

CONSTANTS
    Consoles,      \* command line sessions
    Requests,      \* the commands that may be given, a set of Request
    Files,         \* what the configuration file may say: some items, each with a value
    Texts,         \* texts that may be given as values
    Delays,        \* delays GetTimerValue may draw for trigger.scenario
    MaxCommands,   \* bound: commands given
    None           \* no value

ASSUME DelaysAssumption == Delays \subseteq 0..949

ASSUME MaxCommandsAssumption == MaxCommands \in Nat

ASSUME NoneAssumption == None \notin Requests /\ None \notin {"done", "not_found"}

\* The empty string, written as a word.
Empty == "empty"

ASSUME TextsAssumption == Empty \in Texts

Sections == {"TOGGLE", "NUMBER", "LETTER", "TIMER", "LOG", "TLS"}

Items ==
    [TOGGLE |-> <<"tpt-plan", "transaction-per-minute">>,
     NUMBER |-> <<"keep-connections">>,
     LETTER |-> <<"tpt-plan-file">>,
     TIMER  |-> <<"trigger.scenario", "trigger.unsubscription", "session.inactivity.timeout",
                  "http.response.timeout", "notify.request.timeout">>,
     LOG    |-> <<"LEVEL", "LLT">>,
     TLS    |-> <<"CERT", "KEY">>]

FlagSections == {"TOGGLE", "NUMBER", "LETTER"}

\* Their items are looked up by name; the other commands loop over what is given.
NamedSections == {"LOG", "TLS"}

\* The names xi::loglevel::code knows; it returns NONE for any other.
Levels == {"DEBUG", "INFO", "WARNING", "ERROR"}

ItemsOf(section) == Range(Items[section])

AllItems == UNION {ItemsOf(section) : section \in Sections}

SectionOf(item) == CHOOSE section \in Sections : item \in ItemsOf(section)

Default ==
    [item \in AllItems |->
        IF SectionOf(item) = "TOGGLE" \/ item = "LLT" THEN "OFF"
        ELSE IF SectionOf(item) = "NUMBER" THEN 100
        ELSE IF SectionOf(item) \in {"LETTER", "TLS"} THEN Empty
        ELSE IF item = "LEVEL" THEN "DEBUG"
        ELSE IF item = "session.inactivity.timeout" THEN 600000 ELSE 5000]

\* What an item may be set to.
Values(item) ==
    IF SectionOf(item) = "TOGGLE" \/ item = "LLT" THEN {"ON", "OFF"}
    ELSE IF SectionOf(item) = "NUMBER" THEN Int
    ELSE IF SectionOf(item) \in {"LETTER", "TLS"} THEN Texts
    ELSE IF item = "LEVEL" THEN Levels \cup {"NONE"} ELSE Nat

\* A command's values are what its section makes of the text (AsInt, AsUInt32).
Converted(section, line) ==
    /\ section = "NUMBER" => line.value \in Int
    /\ section = "TIMER" => line.value \in Nat
    /\ section \in {"LETTER", "TLS"} => line.value \in Texts

ASSUME RequestsAssumption ==
    \A request \in Requests :
        /\ request.data \in Seq(Range(request.data))
        /\ request.verb \in {"CHG-TST-CFG", "CHG-ENV"} =>
             \A line \in Range(request.data) :
                 request.section \in Sections /\ line.item \in ItemsOf(request.section) =>
                     Converted(request.section, line)

\* So are those of a file, but for the level, which it names.
ASSUME FilesAssumption ==
    \A file \in Files : \A item \in DOMAIN file \cap AllItems :
        item # "LEVEL" => file[item] \in Values(item)

VARIABLES
    process, \* "up" or "crashed"
    setting, \* [AllItems -> value]: test_flag_*_, timer_value_, certificates, the log's
    console, \* [Consoles -> the command being worked on, or the last answer]
    given    \* commands given so far

vars == <<process, setting, console, given>>

-----------------------------------------------------------------------------
(* A console: pc; the command; the items still to do, each with the value to *)
(* set; the answer so far, a sequence of lines; what was shown.  "written"   *)
(* are the items the command set, "lost" those that others set since it      *)
(* began; both are auxiliary.                                                *)
ConsoleIdle ==
    [pc |-> "idle", request |-> None, todo |-> <<>>, answer |-> <<>>, reply |-> None,
     written |-> {}, lost |-> {}]

Line(item, value) == [item |-> item, value |-> value]

TypeOK ==
    /\ process \in {"up", "crashed"}
    /\ DOMAIN setting = AllItems
    /\ \A item \in AllItems : setting[item] \in Values(item)
    /\ \A k \in Consoles :
         /\ console[k].pc \in {"idle", "change", "show", "mark"}
         /\ console[k].request \in Requests \cup {None}
         /\ console[k].reply \in {None, "done", "not_found"}
         /\ console[k].written \subseteq AllItems /\ console[k].lost \subseteq AllItems
    /\ given \in 0..MaxCommands

\* Load_system sets whatever level the name stands for, NONE included.
NamedLevel(name) == IF name \in Levels THEN name ELSE "NONE"

\* Load_system, Load_interface and Load_timer: the items the file names, the
\* others at their default.
Configured(file) ==
    [item \in AllItems |->
        IF item \notin DOMAIN file THEN Default[item]
        ELSE IF item = "LEVEL" THEN NamedLevel(file[item]) ELSE file[item]]

Init ==
    /\ process = "up"
    /\ \E file \in Files : setting = Configured(file)
    /\ console = [k \in Consoles |-> ConsoleIdle]
    /\ given = 0

-----------------------------------------------------------------------------
(* What a command does. *)

\* The sections each command is in the table with (cli_exec_table).
Dispatched(request) ==
    \/ request.verb \in {"CHG-TST-CFG", "INIT-TST-CFG", "RTRV-TST-CFG"} /\
       request.section \in FlagSections \cup {Empty}
    \/ request.verb = "CHG-ENV" /\ request.section \in {Empty, "LOG", "TIMER", "TLS"}
    \/ request.verb = "RTRV-ENV" /\ request.section \in {Empty, "LOG", "TIMER"}

\* Mutation: no test of the value.
AcceptedUnchecked(section, line) == line.item \in ItemsOf(section)

\* The lines of a command that name an item and have a usable value; a default
\* always is.
Accepted(section, line) ==
    /\ line.item \in ItemsOf(section)
    /\ section = "TOGGLE" => line.value \in {"ON", "OFF"}
    /\ section = "TIMER" => line.value > 0
    /\ line.item = "LEVEL" => line.value \in Levels
    /\ line.item = "LLT" => line.value \in {"ON", "OFF"}

Defaults(items) == [i \in DOMAIN items |-> Line(items[i], Default[items[i]])]

\* The items given, each with its default; what is unknown will be passed over.
DefaultsOf(data) ==
    [i \in DOMAIN data |->
        Line(data[i].item, IF data[i].item \in AllItems THEN Default[data[i].item] ELSE None)]

\* Mutation: the loop ends one item early.
InitialisedShort(request) ==
    LET all == Items[request.section]
    IN  IF request.section = Empty THEN <<>>
        ELSE IF request.data # <<>> THEN DefaultsOf(request.data)
             ELSE Defaults(SubSeq(all, 1, Len(all) - 1))

\* INIT-TST-CFG: the items named, or all of the section; nothing without one.
Initialised(request) ==
    IF request.section = Empty THEN <<>>
    ELSE IF request.data # <<>> THEN DefaultsOf(request.data) ELSE Defaults(Items[request.section])

\* The first line given for an item, if there is one.
GivenFor(request, item) ==
    LET places == {i \in DOMAIN request.data : request.data[i].item = item}
    IN  IF places = {} THEN Line(Empty, None) ELSE request.data[Min(places)]

\* CHG-TST-CFG and CHG-ENV: the lines of a command in the order they are looked at.
Changed(request) ==
    IF request.section = Empty THEN <<>>
    ELSE IF request.section \in NamedSections
         THEN [i \in DOMAIN Items[request.section] |->
                  GivenFor(request, Items[request.section][i])]
         ELSE request.data

\* RTRV-TST-CFG and RTRV-ENV: a section or all.
Shown(request) ==
    Defaults(IF request.section # Empty THEN Items[request.section]
             ELSE IF request.verb = "RTRV-ENV" THEN Items["LOG"] \o Items["TIMER"] \o Items["TLS"]
             ELSE Items["TOGGLE"] \o Items["NUMBER"] \o Items["LETTER"])

Begin(k, request) ==
    /\ process = "up"
    /\ console[k].pc = "idle"
    /\ given < MaxCommands
    /\ given' = given + 1
    /\ Dispatched(request)
    /\ console' =
         [console EXCEPT ![k] =
            IF request.verb \in {"RTRV-TST-CFG", "RTRV-ENV"}
            THEN [ConsoleIdle EXCEPT !.pc = "show", !.request = request, !.todo = Shown(request)]
            ELSE [ConsoleIdle EXCEPT !.pc = "change", !.request = request,
                    !.todo = IF request.verb = "INIT-TST-CFG" THEN Initialised(request)
                             ELSE Changed(request)]]
    /\ UNCHANGED <<process, setting>>

\* OnCommand finds no entry of the table.
Refuse(k, request) ==
    /\ process = "up"
    /\ console[k].pc = "idle"
    /\ given < MaxCommands
    /\ given' = given + 1
    /\ ~Dispatched(request)
    /\ console' = [console EXCEPT ![k] =
                     [ConsoleIdle EXCEPT !.request = request, !.reply = "not_found"]]
    /\ UNCHANGED <<process, setting>>

\* A line of no use: the loops over the lines continue with the next.
PassOver(k) ==
    /\ process = "up"
    /\ console[k].pc = "change" /\ console[k].todo # <<>>
    /\ ~Accepted(console[k].request.section, Head(console[k].todo))
    /\ console' = [console EXCEPT ![k].todo = Tail(@)]
    /\ UNCHANGED <<process, setting, given>>

\* Every console but k loses the item.
Overwrite(k, item) ==
    [j \in Consoles |-> IF j = k THEN console[j] ELSE [console[j] EXCEPT !.lost = @ \cup {item}]]

\* Mutation: the answer is composed after an early continue.
AnswerSilently(answer, line) == answer

AnswerLine(answer, line) == Append(answer, line)

\* Mutation: a value once changed is not changed again.
NewValueOnce(line) ==
    IF setting[line.item] = Default[line.item] THEN line.value ELSE setting[line.item]

\* SetTestFlag, SetTimerValue.
NewValue(line) == line.value

\* One item is set and reported.
SetOne(k) ==
    /\ process = "up"
    /\ console[k].pc = "change" /\ console[k].todo # <<>>
    /\ Accepted(console[k].request.section, Head(console[k].todo))
    /\ LET line == Head(console[k].todo)
       IN  /\ setting' = [setting EXCEPT ![line.item] = NewValue(line)]
           /\ console' = [Overwrite(k, line.item) EXCEPT
                            ![k].todo = Tail(@),
                            ![k].answer = AnswerLine(@, line),
                            ![k].written = @ \cup {line.item},
                            ![k].lost = @ \ {line.item}]
    /\ UNCHANGED <<process, given>>

\* Mutation: the first item of the section is looked at.
MarkOfFirst(item) ==
    LET first == Items[SectionOf(item)][1] IN setting[first] # Default[first]

\* SameAsDefault reads the item once more; of a LETTER it first compares whether
\* the two texts are empty.
SameAsDefault(item) ==
    \/ SectionOf(item) = "LETTER" /\ (Default[item] = Empty <=> setting[item] = Empty)
    \/ Default[item] = setting[item]

MarkOf(item) == ~SameAsDefault(item)

\* What GetTestFlag and GetTimerValue may return.
Readings(item) == IF item = "trigger.scenario" THEN Delays ELSE {setting[item]}

\* One item is shown: its value is read...
ShowValue(k) ==
    /\ process = "up"
    /\ console[k].pc = "show" /\ console[k].todo # <<>>
    /\ LET item == Head(console[k].todo).item
           next == IF SectionOf(item) \notin FlagSections
                   THEN [console[k] EXCEPT !.todo = Tail(@)]
                   ELSE [console[k] EXCEPT !.pc = "mark"]
       IN  \E v \in Readings(item) :
             console' = [console EXCEPT ![k] =
                [next EXCEPT !.answer = Append(@, [item |-> item, value |-> v, marked |-> FALSE])]]
    /\ UNCHANGED <<process, setting, given>>

\* ... and then, for a test flag, the mark of one that differs from its default.
ShowMark(k) ==
    /\ process = "up"
    /\ console[k].pc = "mark"
    /\ LET item == Head(console[k].todo).item
       IN  console' = [console EXCEPT ![k].answer[Len(console[k].answer)].marked = MarkOf(item),
                                      ![k].todo = Tail(@),
                                      ![k].pc = "show"]
    /\ UNCHANGED <<process, setting, given>>

Finished(k) == console[k].pc \in {"change", "show"} /\ console[k].todo = <<>>

ChangesTls(k) == console[k].pc = "change" /\ console[k].request.section = "TLS"

\* CHG-ENV:TLS goes on to assign to elements of an empty vector.
CrashOnTls(k) ==
    /\ process = "up"
    /\ Finished(k) /\ ChangesTls(k)
    /\ process' = "crashed"
    /\ UNCHANGED <<setting, console, given>>

\* OnCommand sends the answer; an empty one becomes an error.
Answer(k) ==
    /\ process = "up"
    /\ Finished(k) /\ ~ChangesTls(k)
    /\ console' = [console EXCEPT ![k].pc = "idle",
                                  ![k].reply = IF console[k].answer = <<>> THEN "not_found"
                                              ELSE "done"]
    /\ UNCHANGED <<process, setting, given>>

Next ==
    \E k \in Consoles :
        \/ \E request \in Requests : Begin(k, request) \/ Refuse(k, request)
        \/ PassOver(k) \/ SetOne(k) \/ ShowValue(k) \/ ShowMark(k) \/ Answer(k) \/ CrashOnTls(k)

Spec == Init /\ [][Next]_vars

-----------------------------------------------------------------------------
(* What an operator relies on. *)

\* The console has answered a command of this kind.
Answered(k, verb) == console[k].reply = "done" /\ console[k].request.verb = verb

\* The last value an answer reports of an item.
Reported(k, item) ==
    LET lines == {i \in DOMAIN console[k].answer : console[k].answer[i].item = item}
    IN  console[k].answer[Max(lines)].value

\* A value reported as changed stays set until another command sets it, whatever
\* else is set meanwhile and however often the command names it (chg_tst_cfg,
\* chg_env, init_tst_cfg).
RepliesHold ==
    \A k \in Consoles : \A verb \in {"CHG-TST-CFG", "INIT-TST-CFG", "CHG-ENV"} :
        Answered(k, verb) =>
            \A item \in console[k].written \ console[k].lost : setting[item] = Reported(k, item)

\* A command that is answered by an error has changed nothing (OnCommand makes
\* an error of an empty answer).
ErrorMeansUnchanged == \A k \in Consoles : console[k].reply = "not_found" => console[k].written = {}

\* The items of a section are back at their defaults when INIT-TST-CFG is
\* answered, but for those another console has set since (init_tst_cfg).
InitRestoresSection ==
    \A k \in Consoles :
        Answered(k, "INIT-TST-CFG") /\ console[k].request.data = <<>> =>
            \A item \in ItemsOf(console[k].request.section) \ console[k].lost :
                setting[item] = Default[item]

\* A flag is shown with a mark exactly if the value shown is not its default,
\* unless it is set between the two reads (rtrv_tst_cfg, SameAsDefault).
MarksTruthful ==
    \A k \in Consoles : Answered(k, "RTRV-TST-CFG") =>
        \A line \in Range(console[k].answer) : line.item \notin console[k].lost =>
            (line.marked <=> line.value # Default[line.item])

\* "Initialize all." of INIT-TST-CFG without a section (cli.cpp).
InitRestoresAll ==
    \A k \in Consoles :
        console[k].reply # None /\ console[k].request.verb = "INIT-TST-CFG" /\
        console[k].request.section = Empty =>
            \A section \in FlagSections : \A item \in ItemsOf(section) \ console[k].lost :
                setting[item] = Default[item]
=============================================================================
