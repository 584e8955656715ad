--------------------------- MODULE MCDetailRecords ---------------------------
(* Small instances of DetailRecords for TLC. *)
EXTENDS DetailRecords

Request == <<Variable("a"), Text("and"), Variable("k"), Variable("name1")>>

\* Two names and two keys that are alike as far as they are kept.
TwoLongNames == [n \in {"name1", "name2"} |-> "name"]

TwoLongKeys == [key \in {Text("key1"), Text("key2")} |-> Text("y")]

ScenarioWith(nodes, blankDelimiter, file) ==
    [nodes |-> nodes, request |-> Request, keyName |-> "k",
     blankDelimiter |-> blankDelimiter, blankHeads |-> {}, file |-> file]

Comma(file) == ScenarioWith(RequiredNodes, FALSE, file)

HeadAK == <<Text("a"), Text("k")>>

\* Three rows, two with one key.
Repeated == Comma(<<HeadAK, <<Text("1"), Text("x")>>, <<Text("2"), Text("y")>>,
                    <<Text("3"), Text("x")>>>>)

\* A column without a name, a row without a key, an empty first cell.
Gaps == Comma(<<<<Blank, Text("k"), Text("a")>>,
                <<Text("0"), Blank, Text("1")>>, <<Blank, Text("y"), Text("2")>>>>)

\* A name twice in the header.
Twice == Comma(<<<<Text("k"), Text("a"), Text("k")>>, <<Text("x"), Text("1"), Text("y")>>>>)

\* A cell that looks like a variable.
Nested == Comma(<<HeadAK, <<Variable("k"), Text("x")>>>>)

\* Keys and a name that are too long.
Long == Comma(<<<<Text("k"), Text("a"), Text("name2")>>,
                <<Text("key2"), Text("1"), Text("3")>>, <<Text("key1"), Text("2"), Text("4")>>>>)

\* No key column configured, and a header line that ends in a delimiter.
Unkeyed == [Comma(<<<<Text("a"), Blank>>, <<Text("1"), Text("x")>>, <<Text("2"), Blank>>>>)
               EXCEPT !.keyName = Empty, !.blankHeads = {2}]

HeaderOnly == Comma(<<HeadAK>>)

Ragged == Comma(<<HeadAK, <<Text("1"), Text("x")>>, <<Text("2")>>>>)

\* Columns separated by blanks, with an empty first cell.
Blanks == ScenarioWith(RequiredNodes, TRUE, <<HeadAK, <<Blank, Text("x")>>, <<Text("2"), Text("y")>>>>)

AllScenarios ==
    {Repeated, Gaps, Twice, Nested, Long, Unkeyed, HeaderOnly, Ragged, Blanks, Comma(None), Comma(<<>>),
     Comma(Unreadable), ScenarioWith(RequiredNodes \ {"header"}, FALSE, None)}

EntryOf(n, scenario) == [name |-> n, scenario |-> scenario]

\* One or two entries, for one name or for two, one of them unnamed or without file.
Pairs ==
    {<<EntryOf(n, s)>> : n \in {"API1", Empty}, s \in AllScenarios \cup {None}} \cup
    {<<EntryOf("API1", s), EntryOf(n, t)>> :
        n \in {"API1", "API2"}, s \in AllScenarios, t \in {Repeated, Gaps, Ragged, None}}

KeyCells == {Text("x"), Text("y"), Text("z"), Text("key1")}
=============================================================================
