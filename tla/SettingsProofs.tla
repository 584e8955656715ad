---------------------------- MODULE SettingsProofs ----------------------------
(***************************************************************************)
(* Theorems about Settings, for any number of consoles, commands and        *)
(* configuration files.                                                     *)
(*                                                                         *)
(* The argument: a step of a console changes what the others have in        *)
(* progress only by taking the item it sets out of their claim (lost), so   *)
(* what a console may claim of an item is settled by its own steps.         *)
(***************************************************************************)
EXTENDS Settings, WellFoundedInduction, TLAPS

Fields == {"pc", "request", "todo", "answer", "reply", "written", "lost"}

IsSeq(s) == Len(s) \in Nat /\ s = [i \in 1..Len(s) |-> s[i]]

\* Consoles and the items are what the two variables are about.
Framed ==
    /\ DOMAIN console = Consoles
    /\ \A k \in Consoles :
         DOMAIN console[k] = Fields /\ IsSeq(console[k].todo) /\ IsSeq(console[k].answer)

\* What a console in each of its states is about.
Phase(c) ==
    /\ c.pc = "idle" => c.todo = <<>>
    /\ c.pc # "idle" => c.request # None /\ Dispatched(c.request) /\ c.reply = None
    /\ c.pc = "change" => c.request.verb \notin {"RTRV-TST-CFG", "RTRV-ENV"}
    /\ c.pc \in {"show", "mark"} =>
         c.request.verb \in {"RTRV-TST-CFG", "RTRV-ENV"} /\ c.written = {}
    /\ c.pc = "mark" => c.todo # <<>>

\* Every line to come names something that may be shown, or is usable if accepted.
Usable(c) ==
    /\ c.pc = "change" =>
         /\ c.request.section = Empty => c.todo = <<>>
         /\ \A i \in DOMAIN c.todo :
              Accepted(c.request.section, c.todo[i]) => c.todo[i].value \in Values(c.todo[i].item)
    /\ c.pc \in {"show", "mark"} =>
         /\ \A i \in DOMAIN c.todo : c.todo[i].item \in AllItems
         /\ c.request.verb = "RTRV-TST-CFG" =>
              \A i \in DOMAIN c.todo : SectionOf(c.todo[i].item) \in FlagSections

\* The last line about an item is line m.
LastLine(c, item, m) ==
    /\ m \in DOMAIN c.answer /\ c.answer[m].item = item
    /\ \A i \in DOMAIN c.answer : c.answer[i].item = item => i <= m

\* What a console set, and nobody since, is as its last line about it says.
Holds(c) ==
    \A item \in c.written \ c.lost :
        \E m \in DOMAIN c.answer : LastLine(c, item, m) /\ setting[item] = c.answer[m].value

\* What has been changed has been reported.
Reports(c) ==
    /\ c.answer = <<>> => c.written = {}
    /\ c.request # None /\ c.request.verb = "INIT-TST-CFG" /\ c.request.section = Empty =>
         c.answer = <<>>
    /\ c.reply = "not_found" => c.written = {}
    /\ c.reply = "done" => c.answer # <<>> /\ c.request # None

\* An INIT-TST-CFG of a section has restored each item or has it to do.
Restores(c) ==
    (c.pc = "change" \/ c.reply = "done") /\ c.request.verb = "INIT-TST-CFG" /\
    c.request.data = <<>> /\ c.request.section # Empty =>
        /\ c.request.section \in FlagSections
        /\ \A i \in DOMAIN c.todo : c.todo[i].item \in ItemsOf(c.request.section) /\
                                    c.todo[i].value = Default[c.todo[i].item]
        /\ \A item \in ItemsOf(c.request.section) \ c.lost :
             \/ setting[item] = Default[item]
             \/ \E i \in DOMAIN c.todo : c.todo[i].item = item

\* A line about an item is right if it has its mark, and was right when it was read.
Marks(c) ==
    c.request # None /\ c.request.verb = "RTRV-TST-CFG" =>
        /\ \A i \in DOMAIN c.answer : DOMAIN c.answer[i] = {"item", "value", "marked"}
        /\ \A i \in DOMAIN c.answer :
             (c.pc = "mark" => i # Len(c.answer)) /\ c.answer[i].item \notin c.lost =>
                 (c.answer[i].marked <=> c.answer[i].value # Default[c.answer[i].item])
        /\ c.pc = "mark" =>
             /\ c.answer # <<>>
             /\ c.answer[Len(c.answer)].item = c.todo[1].item
             /\ c.todo[1].item \notin c.lost => c.answer[Len(c.answer)].value = setting[c.todo[1].item]

Sound(c) == Phase(c) /\ Usable(c) /\ Holds(c) /\ Reports(c) /\ Restores(c) /\ Marks(c)

Inv == TypeOK /\ Framed /\ \A k \in Consoles : Sound(console[k])

-----------------------------------------------------------------------------
(* The names. *)

LEMMA ItemsKnown ==
  /\ ItemsOf("TOGGLE") = {"tpt-plan", "transaction-per-minute"}
  /\ ItemsOf("NUMBER") = {"keep-connections"}
  /\ ItemsOf("LETTER") = {"tpt-plan-file"}
  /\ ItemsOf("TIMER") = {"trigger.scenario", "trigger.unsubscription",
                         "session.inactivity.timeout", "http.response.timeout",
                         "notify.request.timeout"}
  /\ ItemsOf("LOG") = {"LEVEL", "LLT"}
  /\ ItemsOf("TLS") = {"CERT", "KEY"}
<1>1. ItemsOf("TOGGLE") = {"tpt-plan", "transaction-per-minute"}
  BY DEF ItemsOf, Items, Range
<1>2. ItemsOf("NUMBER") = {"keep-connections"} /\ ItemsOf("LETTER") = {"tpt-plan-file"}
  BY DEF ItemsOf, Items, Range
<1>3. ItemsOf("TIMER") = {"trigger.scenario", "trigger.unsubscription",
                          "session.inactivity.timeout", "http.response.timeout",
                          "notify.request.timeout"}
  BY DEF ItemsOf, Items, Range
<1>4. ItemsOf("LOG") = {"LEVEL", "LLT"} /\ ItemsOf("TLS") = {"CERT", "KEY"}
  BY DEF ItemsOf, Items, Range
<1> QED
  BY <1>1, <1>2, <1>3, <1>4

\* An item is in one section only.
LEMMA SectionsApart ==
  ASSUME NEW section \in Sections, NEW item \in ItemsOf(section)
  PROVE  item \in AllItems /\ SectionOf(item) = section
<1>1. ASSUME NEW s \in Sections, item \in ItemsOf(s)
      PROVE  s = section
  BY <1>1, ItemsKnown DEF Sections
<1>2. SectionOf(item) \in Sections /\ item \in ItemsOf(SectionOf(item))
  BY DEF SectionOf
<1>3. SectionOf(item) = section
  BY <1>1, <1>2
<1>4. item \in AllItems
  BY DEF AllItems
<1> QED
  BY <1>3, <1>4

LEMMA SectionKnown ==
  ASSUME NEW item \in AllItems
  PROVE  SectionOf(item) \in Sections /\ item \in ItemsOf(SectionOf(item))
<1>1. PICK section \in Sections : item \in ItemsOf(section)
  BY DEF AllItems
<1> QED
  BY <1>1, SectionsApart

\* What each item may be set to.
LEMMA ValuesKnown ==
  ASSUME NEW section \in Sections, NEW item \in ItemsOf(section)
  PROVE  /\ section = "TOGGLE" => Values(item) = {"ON", "OFF"}
         /\ section = "NUMBER" => Values(item) = Int
         /\ section \in {"LETTER", "TLS"} => Values(item) = Texts
         /\ section = "TIMER" => Values(item) = Nat
         /\ item = "LEVEL" => Values(item) = Levels \cup {"NONE"}
         /\ item = "LLT" => Values(item) = {"ON", "OFF"}
<1>1. SectionOf(item) = section
  BY SectionsApart
<1>2. /\ item \in {"LEVEL", "LLT"} => section = "LOG"
      /\ section = "TIMER" => item \notin {"LEVEL", "LLT"}
  BY ItemsKnown DEF Sections
<1>3. CASE item \in {"LEVEL", "LLT"}
  BY <1>1, <1>2, <1>3 DEF Values
<1>4. CASE item \notin {"LEVEL", "LLT"}
  BY <1>1, <1>4 DEF Values
<1> QED
  BY <1>3, <1>4

LEMMA DefaultUsable ==
  ASSUME NEW item \in AllItems
  PROVE  Default[item] \in Values(item)
<1> DEFINE section == SectionOf(item)
<1>1. section \in Sections /\ item \in ItemsOf(section)
  BY SectionKnown
<1>2. CASE section = "TOGGLE"
  BY <1>1, <1>2, ValuesKnown, SMT DEF Default
<1>3. CASE section = "NUMBER"
  BY <1>1, <1>3, ValuesKnown, SMT DEF Default
<1>4. CASE section \in {"LETTER", "TLS"}
  <2>1. item \in {"tpt-plan-file", "CERT", "KEY"}
    BY <1>1, <1>4, ItemsKnown
  <2>2. Default[item] = Empty
    BY <1>4, <2>1, SMT DEF Default
  <2> QED
    <3>1. Values(item) = Texts
      BY <1>1, <1>4, ValuesKnown
    <3> QED
      BY <2>2, <3>1, TextsAssumption
<1>5. CASE section = "TIMER"
  <2>1. item \notin {"LEVEL", "LLT", "CERT", "KEY"}
    BY <1>1, <1>5, ItemsKnown
  <2>2. Default[item] \in {600000, 5000}
    BY <1>5, <2>1, SMT DEF Default
  <2> QED
    BY <1>1, <1>5, <2>2, ValuesKnown
<1>6. CASE section = "LOG"
  <2>1. item \in {"LEVEL", "LLT"}
    BY <1>1, <1>6, ItemsKnown
  <2>2. Default[item] = IF item = "LEVEL" THEN "DEBUG" ELSE "OFF"
    BY <1>6, <2>1, SMT DEF Default
  <2> QED
    BY <1>1, <1>6, <2>1, <2>2, ValuesKnown DEF Levels
<1> QED
  BY <1>1, <1>2, <1>3, <1>4, <1>5, <1>6 DEF Sections

-----------------------------------------------------------------------------
(* Sequences, and the least of several places. *)

LEMMA SequencesAre ==
  ASSUME NEW S, NEW s \in Seq(S)
  PROVE  IsSeq(s) /\ DOMAIN s = 1..Len(s)
BY DEF IsSeq

LEMMA AreSequences ==
  ASSUME NEW s, IsSeq(s)
  PROVE  s \in Seq(Range(s)) /\ Len(s) \in Nat /\ DOMAIN s = 1..Len(s)
<1> DEFINE n == Len(s)
<1>1. n \in Nat /\ s = [i \in 1..n |-> s[i]]
  BY DEF IsSeq
<1> HIDE DEF n
<1>2. DOMAIN s = 1..n
  BY <1>1
<1>3. \A i \in 1..n : s[i] \in Range(s)
  BY <1>2 DEF Range
<1>4. s \in [1..n -> Range(s)]
  BY <1>1, <1>2, <1>3
<1>5. s \in Seq(Range(s))
  BY <1>1, <1>4
<1> QED
  BY <1>1, <1>2, <1>5 DEF n

LEMMA Shortened ==
  ASSUME NEW s, IsSeq(s), s # <<>>
  PROVE  /\ IsSeq(Tail(s))
         /\ Head(s) = s[1] /\ 1 \in DOMAIN s
         /\ \A i \in DOMAIN Tail(s) : i + 1 \in DOMAIN s /\ Tail(s)[i] = s[i + 1]
         /\ \A i \in DOMAIN s : i = 1 \/ (i - 1 \in DOMAIN Tail(s) /\ Tail(s)[i - 1] = s[i])
<1> DEFINE S == Range(s)
<1>1. s \in Seq(S)
  BY AreSequences
<1> HIDE DEF S
<1>2. Tail(s) \in Seq(S)
  BY <1>1
<1>3. IsSeq(Tail(s)) /\ DOMAIN Tail(s) = 1..Len(Tail(s)) /\ DOMAIN s = 1..Len(s)
  BY <1>1, <1>2, SequencesAre
<1>4. Len(Tail(s)) = Len(s) - 1 /\ Len(s) \in Nat /\ Len(s) > 0 /\ Head(s) = s[1]
  BY <1>1
<1>5. \A i \in 1..(Len(s) - 1) : Tail(s)[i] = s[i + 1]
  BY <1>1
<1> QED
  BY <1>3, <1>4, <1>5

LEMMA Lengthened ==
  ASSUME NEW s, IsSeq(s), NEW e
  PROVE  /\ IsSeq(Append(s, e))
         /\ Len(Append(s, e)) = Len(s) + 1 /\ Len(s) \in Nat /\ Append(s, e) # <<>>
         /\ DOMAIN s = 1..Len(s) /\ DOMAIN Append(s, e) = 1..(Len(s) + 1)
         /\ \A i \in DOMAIN s : Append(s, e)[i] = s[i]
         /\ Append(s, e)[Len(s) + 1] = e
<1> DEFINE S == Range(s) \cup {e}
<1>1. s \in Seq(Range(s))
  BY AreSequences
<1>2. s \in Seq(S)
  BY <1>1
<1>3. e \in S
  OBVIOUS
<1> HIDE DEF S
<1>4. Append(s, e) \in Seq(S)
  BY <1>2, <1>3
<1>5. Len(Append(s, e)) = Len(s) + 1 /\ Len(s) \in Nat /\ DOMAIN s = 1..Len(s)
  BY <1>2, <1>3
<1>6. IsSeq(Append(s, e)) /\ DOMAIN Append(s, e) = 1..Len(Append(s, e))
  BY <1>4, SequencesAre
<1>7. /\ \A i \in 1..Len(s) : Append(s, e)[i] = s[i]
      /\ Append(s, e)[Len(s) + 1] = e
  BY <1>2, <1>3
<1>8. Append(s, e) # <<>>
  BY <1>4, <1>5
<1> QED
  BY <1>5, <1>6, <1>7, <1>8

LEMMA LeastOf ==
  ASSUME NEW S \in SUBSET Nat, S # {}
  PROVE  Min(S) \in S
<1> DEFINE Less == {ss \in Nat \X Nat : ss[1] < ss[2]}
<1>1. IsWellFoundedOn(Less, Nat)
  BY NatLessThanWellFounded, Zenon DEF OpToRel
<1> HIDE DEF Less
<1>2. PICK x \in S : \A y \in S : ~(<<y, x>> \in Less)
  BY <1>1, WFMin, Zenon
<1>3. ASSUME NEW y \in S PROVE x =< y
  <2>1. x \in Nat /\ y \in Nat
    OBVIOUS
  <2>2. ~(y < x)
    BY <1>2, <2>1 DEF Less
  <2> QED
    BY <2>1, <2>2
<1> QED
  BY <1>3 DEF Min

-----------------------------------------------------------------------------
(* What a command has to do. *)

LEMMA AcceptedUsable ==
  ASSUME NEW request \in Requests, request.verb \in {"CHG-TST-CFG", "CHG-ENV"},
         request.section \in Sections,
         NEW line \in Range(request.data), Accepted(request.section, line)
  PROVE  line.value \in Values(line.item)
<1> DEFINE section == request.section
<1>1. line.item \in ItemsOf(section)
  BY DEF Accepted
<1>2. Converted(section, line)
  BY <1>1, RequestsAssumption
<1>3. CASE section = "TOGGLE"
  BY <1>1, <1>3, ValuesKnown DEF Accepted
<1>4. CASE section = "NUMBER"
  BY <1>1, <1>2, <1>4, ValuesKnown DEF Converted
<1>5. CASE section \in {"LETTER", "TLS"}
  BY <1>1, <1>2, <1>5, ValuesKnown DEF Converted
<1>6. CASE section = "TIMER"
  BY <1>1, <1>2, <1>6, ValuesKnown DEF Converted
<1>7. CASE section = "LOG"
  <2>1. line.item \in {"LEVEL", "LLT"}
    BY <1>1, <1>7, ItemsKnown
  <2> QED
    BY <1>1, <1>7, <2>1, ValuesKnown DEF Accepted
<1> QED
  BY <1>3, <1>4, <1>5, <1>6, <1>7 DEF Sections

\* An item of a flag section at its default is usable there.
LEMMA DefaultAccepted ==
  ASSUME NEW section \in FlagSections, NEW line,
         line.item \in ItemsOf(section), line.value = Default[line.item]
  PROVE  Accepted(section, line)
<1>1. section \in Sections /\ line.item \notin {"LEVEL", "LLT"}
  BY ItemsKnown DEF FlagSections, Sections
<1>2. line.item \in AllItems
  BY <1>1, SectionsApart
<1>3. section = "TOGGLE" => line.value \in {"ON", "OFF"}
  BY <1>1, <1>2, DefaultUsable, ValuesKnown
<1> QED
  BY <1>1, <1>3 DEF Accepted, FlagSections

LEMMA DataIs ==
  ASSUME NEW request \in Requests
  PROVE  IsSeq(request.data) /\ \A i \in DOMAIN request.data : request.data[i] \in Range(request.data)
<1>1. request.data \in Seq(Range(request.data))
  BY RequestsAssumption
<1> QED
  BY <1>1, SequencesAre DEF Range

LEMMA GivenLine ==
  ASSUME NEW request \in Requests, NEW item
  PROVE  GivenFor(request, item) \in Range(request.data) \cup {Line(Empty, None)}
<1> DEFINE places == {i \in DOMAIN request.data : request.data[i].item = item}
<1>1. CASE places = {}
  BY <1>1 DEF GivenFor
<1>2. CASE places # {}
  <2>1. DOMAIN request.data = 1..Len(request.data) /\ Len(request.data) \in Nat
    BY DataIs, AreSequences
  <2>2. places \in SUBSET Nat
    BY <2>1
  <2>3. Min(places) \in places
    BY <1>2, <2>2, LeastOf
  <2>4. GivenFor(request, item) = request.data[Min(places)]
    BY <1>2 DEF GivenFor
  <2> HIDE DEF places
  <2>5. Min(places) \in DOMAIN request.data
    BY <2>3 DEF places
  <2> QED
    BY <2>4, <2>5, DataIs
<1> QED
  BY <1>1, <1>2

LEMMA SectionSequences ==
  \A section \in Sections :
    /\ IsSeq(Items[section])
    /\ \A i \in DOMAIN Items[section] : Items[section][i] \in ItemsOf(section)
    /\ \A item \in ItemsOf(section) : \E i \in DOMAIN Items[section] : Items[section][i] = item
<1>1. \A section \in Sections : Items[section] \in Seq(Range(Items[section]))
  <2>1. /\ Items["TOGGLE"] = <<"tpt-plan", "transaction-per-minute">>
        /\ Items["NUMBER"] = <<"keep-connections">>
        /\ Items["LETTER"] = <<"tpt-plan-file">>
        /\ Items["TIMER"] = <<"trigger.scenario", "trigger.unsubscription",
              "session.inactivity.timeout", "http.response.timeout", "notify.request.timeout">>
        /\ Items["LOG"] = <<"LEVEL", "LLT">>
        /\ Items["TLS"] = <<"CERT", "KEY">>
    BY DEF Items
  <2>2. \A section \in Sections : Range(Items[section]) = ItemsOf(section)
    BY DEF ItemsOf
  <2>3. /\ Items["TOGGLE"] \in Seq(ItemsOf("TOGGLE"))
        /\ Items["NUMBER"] \in Seq(ItemsOf("NUMBER"))
        /\ Items["LETTER"] \in Seq(ItemsOf("LETTER"))
    BY <2>1, ItemsKnown
  <2>4. Items["TIMER"] \in Seq(ItemsOf("TIMER"))
    BY <2>1, ItemsKnown
  <2>5. Items["LOG"] \in Seq(ItemsOf("LOG")) /\ Items["TLS"] \in Seq(ItemsOf("TLS"))
    BY <2>1, ItemsKnown
  <2> QED
    BY <2>2, <2>3, <2>4, <2>5 DEF Sections
<1>2. \A section \in Sections : IsSeq(Items[section])
  BY <1>1, SequencesAre
<1> QED
  BY <1>2 DEF ItemsOf, Range

\* What a command goes through is a sequence of lines that are usable if accepted.
LEMMA ChangedUsable ==
  ASSUME NEW request \in Requests, Dispatched(request),
         request.verb \in {"CHG-TST-CFG", "CHG-ENV"}
  PROVE  /\ IsSeq(Changed(request))
         /\ request.section = Empty => Changed(request) = <<>>
         /\ \A i \in DOMAIN Changed(request) :
              Accepted(request.section, Changed(request)[i]) =>
                  Changed(request)[i].value \in Values(Changed(request)[i].item)
<1>1. request.section \in Sections \cup {Empty} /\ Empty \notin Sections
  BY DEF Dispatched, FlagSections, Sections, Empty
<1>2. CASE request.section = Empty
  BY <1>2 DEF Changed, IsSeq
<1>3. CASE request.section \in Sections
  <2>1. ASSUME NEW line \in Range(request.data) \cup {Line(Empty, None)},
               Accepted(request.section, line)
        PROVE  line.value \in Values(line.item)
    <3>1. line.item \in AllItems
      BY <1>3, <2>1, SectionsApart DEF Accepted
    <3>2. line.item # Empty
      BY <1>3, <2>1, ItemsKnown DEF Accepted, Sections, Empty
    <3>3. line \in Range(request.data)
      BY <3>2 DEF Line
    <3> QED
      BY <1>3, <2>1, <3>3, AcceptedUsable
  <2>2. CASE request.section \in NamedSections
    <3> DEFINE items == Items[request.section]
    <3>1. Changed(request) = [i \in DOMAIN items |-> GivenFor(request, items[i])]
      BY <1>1, <1>3, <2>2 DEF Changed
    <3>2. DOMAIN items = 1..Len(items) /\ Len(items) \in Nat
      BY <1>3, SectionSequences, AreSequences
    <3> HIDE DEF items
    <3>3. Changed(request) \in Seq(Range(request.data) \cup {Line(Empty, None)})
      BY <3>1, <3>2, GivenLine
    <3>4. IsSeq(Changed(request)) /\
          \A i \in DOMAIN Changed(request) :
              Changed(request)[i] \in Range(request.data) \cup {Line(Empty, None)}
      BY <3>1, <3>3, GivenLine, SequencesAre
    <3> QED
      BY <1>1, <1>3, <2>1, <3>4
  <2>3. CASE request.section \notin NamedSections
    <3>1. Changed(request) = request.data
      BY <1>1, <1>3, <2>3 DEF Changed
    <3> QED
      BY <1>1, <1>3, <2>1, <3>1, DataIs
  <2> QED
    BY <2>2, <2>3
<1> QED
  BY <1>1, <1>2, <1>3

LEMMA DefaultsAre ==
  ASSUME NEW items, IsSeq(items)
  PROVE  /\ IsSeq(Defaults(items))
         /\ DOMAIN Defaults(items) = DOMAIN items
         /\ \A i \in DOMAIN items : Defaults(items)[i].item = items[i] /\
                                    Defaults(items)[i].value = Default[items[i]]
<1>1. DOMAIN items = 1..Len(items) /\ Len(items) \in Nat
  BY AreSequences
<1>2. Defaults(items) = [i \in 1..Len(items) |-> Line(items[i], Default[items[i]])]
  BY <1>1 DEF Defaults
<1> DEFINE S == {Line(items[i], Default[items[i]]) : i \in 1..Len(items)}
<1>3. Defaults(items) \in Seq(S)
  BY <1>1, <1>2
<1>4. IsSeq(Defaults(items))
  BY <1>3, SequencesAre
<1> QED
  BY <1>1, <1>2, <1>4 DEF Line

LEMMA InitialisedUsable ==
  ASSUME NEW request \in Requests, Dispatched(request), request.verb = "INIT-TST-CFG"
  PROVE  /\ IsSeq(Initialised(request))
         /\ request.section = Empty => Initialised(request) = <<>>
         /\ \A i \in DOMAIN Initialised(request) :
              Accepted(request.section, Initialised(request)[i]) =>
                  Initialised(request)[i].value \in Values(Initialised(request)[i].item)
         /\ request.section # Empty /\ request.data = <<>> =>
              /\ request.section \in FlagSections
              /\ \A i \in DOMAIN Initialised(request) :
                   Initialised(request)[i].item \in ItemsOf(request.section) /\
                   Initialised(request)[i].value = Default[Initialised(request)[i].item]
              /\ \A item \in ItemsOf(request.section) :
                   \E i \in DOMAIN Initialised(request) : Initialised(request)[i].item = item
<1>1. request.section \in FlagSections \cup {Empty} /\ Empty \notin Sections
  BY DEF Dispatched, Sections, Empty
<1>2. CASE request.section = Empty
  BY <1>2 DEF Initialised, IsSeq
<1>3. CASE request.section \in FlagSections /\ request.data = <<>>
  <2> DEFINE items == Items[request.section]
  <2>1. request.section \in Sections
    BY <1>3 DEF FlagSections, Sections
  <2>2. /\ IsSeq(items)
        /\ \A i \in DOMAIN items : items[i] \in ItemsOf(request.section)
        /\ \A item \in ItemsOf(request.section) : \E i \in DOMAIN items : items[i] = item
    BY <2>1, SectionSequences
  <2>3. Initialised(request) = Defaults(items)
    BY <1>1, <1>3, <2>1 DEF Initialised
  <2> HIDE DEF items
  <2>4. \A i \in DOMAIN items : items[i] \in AllItems
    BY <2>1, <2>2, SectionsApart
  <2>5. \A i \in DOMAIN items : Default[items[i]] \in Values(items[i])
    BY <2>4, DefaultUsable
  <2>6. /\ IsSeq(Defaults(items)) /\ DOMAIN Defaults(items) = DOMAIN items
        /\ \A i \in DOMAIN items : Defaults(items)[i].item = items[i] /\
                                   Defaults(items)[i].value = Default[items[i]]
    BY <2>2, DefaultsAre
  <2>7. \A i \in DOMAIN items :
           Defaults(items)[i].value \in Values(Defaults(items)[i].item)
    BY <2>5, <2>6
  <2> QED
    BY <1>1, <1>3, <2>1, <2>2, <2>3, <2>6, <2>7
<1>4. CASE request.section \in FlagSections /\ request.data # <<>>
  <2> DEFINE data == request.data
             new(i) == Line(data[i].item, IF data[i].item \in AllItems THEN Default[data[i].item]
                                          ELSE None)
  <2>1. DOMAIN data = 1..Len(data) /\ Len(data) \in Nat
    BY DataIs, AreSequences
  <2>2. request.section # Empty /\ request.section \in Sections
    BY <1>1, <1>4 DEF FlagSections, Sections
  <2>3. Initialised(request) = [i \in DOMAIN data |-> new(i)]
    BY <1>4, <2>2 DEF Initialised, DefaultsOf
  <2>4. ASSUME NEW i \in DOMAIN data, Accepted(request.section, new(i))
        PROVE  new(i).value \in Values(new(i).item)
    <3>1. data[i].item \in AllItems
      BY <2>2, <2>4, SectionsApart DEF Accepted, Line
    <3> QED
      BY <3>1, DefaultUsable DEF Line
  <2> HIDE DEF new, data
  <2>5. Initialised(request) \in Seq({new(i) : i \in DOMAIN data})
    BY <2>1, <2>3
  <2>6. IsSeq(Initialised(request))
    BY <2>5, SequencesAre
  <2> QED
    BY <1>4, <2>2, <2>3, <2>4, <2>6
<1> QED
  BY <1>1, <1>2, <1>3, <1>4

LEMMA ShownKnown ==
  ASSUME NEW request \in Requests, Dispatched(request),
         request.verb \in {"RTRV-TST-CFG", "RTRV-ENV"}
  PROVE  /\ IsSeq(Shown(request))
         /\ \A i \in DOMAIN Shown(request) : Shown(request)[i].item \in AllItems
         /\ request.verb = "RTRV-TST-CFG" =>
              \A i \in DOMAIN Shown(request) : SectionOf(Shown(request)[i].item) \in FlagSections
<1> DEFINE FlagItems == {item \in AllItems : SectionOf(item) \in FlagSections}
           flags == Items["TOGGLE"] \o Items["NUMBER"] \o Items["LETTER"]
           settings == Items["LOG"] \o Items["TIMER"] \o Items["TLS"]
<1>1. /\ \A section \in Sections : Items[section] \in Seq(AllItems)
      /\ \A section \in FlagSections : Items[section] \in Seq(FlagItems)
  <2>1. \A section \in Sections :
           Len(Items[section]) \in Nat /\ DOMAIN Items[section] = 1..Len(Items[section]) /\
           Items[section] \in Seq(Range(Items[section]))
    BY SectionSequences, AreSequences
  <2>2. \A section \in Sections : \A item \in ItemsOf(section) :
           item \in AllItems /\ SectionOf(item) = section
    BY SectionsApart
  <2>3. FlagSections \subseteq Sections
    BY DEF FlagSections, Sections
  <2>4. /\ \A section \in Sections : Range(Items[section]) \subseteq AllItems
        /\ \A section \in FlagSections : Range(Items[section]) \subseteq FlagItems
    BY <2>2, <2>3 DEF ItemsOf
  <2> QED
    BY <2>1, <2>3, <2>4
<1>2. {"TOGGLE", "NUMBER", "LETTER", "LOG", "TIMER", "TLS"} \subseteq Sections /\
      {"TOGGLE", "NUMBER", "LETTER"} \subseteq FlagSections
  BY DEF Sections, FlagSections
<1> HIDE DEF FlagItems
<1>3. flags \in Seq(FlagItems) /\ settings \in Seq(AllItems)
  <2>1. /\ Items["TOGGLE"] \in Seq(FlagItems) /\ Items["NUMBER"] \in Seq(FlagItems)
        /\ Items["LETTER"] \in Seq(FlagItems)
    BY <1>1, <1>2
  <2>2. /\ Items["LOG"] \in Seq(AllItems) /\ Items["TIMER"] \in Seq(AllItems)
        /\ Items["TLS"] \in Seq(AllItems)
    BY <1>1, <1>2
  <2> QED
    BY <2>1, <2>2
<1> DEFINE items == IF request.section # Empty THEN Items[request.section]
                    ELSE IF request.verb = "RTRV-ENV" THEN settings ELSE flags
<1>4. Shown(request) = Defaults(items)
  BY DEF Shown
<1>5. CASE request.verb = "RTRV-TST-CFG"
  <2>1. request.section \in FlagSections \cup {Empty}
    BY <1>5 DEF Dispatched
  <2> HIDE DEF flags, settings
  <2>2. items \in Seq(FlagItems)
    BY <1>1, <1>3, <1>5, <2>1
  <2> HIDE DEF items
  <2>3. IsSeq(items) /\ \A i \in DOMAIN items : items[i] \in FlagItems
    BY <2>2, SequencesAre
  <2>4. \A i \in DOMAIN items : items[i] \in AllItems /\ SectionOf(items[i]) \in FlagSections
    BY <2>3 DEF FlagItems
  <2> QED
    BY <1>4, <2>3, <2>4, DefaultsAre
<1>6. CASE request.verb = "RTRV-ENV"
  <2>1. request.section \in {Empty, "LOG", "TIMER"}
    BY <1>6 DEF Dispatched
  <2> HIDE DEF flags, settings
  <2>2. items \in Seq(AllItems)
    BY <1>1, <1>2, <1>3, <1>6, <2>1
  <2> HIDE DEF items
  <2>3. IsSeq(items) /\ \A i \in DOMAIN items : items[i] \in AllItems
    BY <2>2, SequencesAre
  <2> QED
    BY <1>4, <1>6, <2>3, DefaultsAre
<1> QED
  BY <1>5, <1>6

-----------------------------------------------------------------------------
(* What a step leaves alone. *)

\* The type of a console.
Typed(c) ==
    /\ c.pc \in {"idle", "change", "show", "mark"}
    /\ c.request \in Requests \cup {None}
    /\ c.reply \in {None, "done", "not_found"}
    /\ c.written \subseteq AllItems /\ c.lost \subseteq AllItems

Formed(c) == DOMAIN c = Fields /\ IsSeq(c.todo) /\ IsSeq(c.answer) /\ Typed(c)

SettingTyped == DOMAIN setting = AllItems /\ \A item \in AllItems : setting[item] \in Values(item)

LEMMA InvParts ==
  Inv <=> /\ process \in {"up", "crashed"} /\ given \in 0..MaxCommands /\ SettingTyped
          /\ DOMAIN console = Consoles
          /\ \A k \in Consoles : Formed(console[k]) /\ Sound(console[k])
BY DEF Inv, TypeOK, Framed, Formed, Typed, SettingTyped

LEMMA InvPartsNext ==
  Inv' <=> /\ process' \in {"up", "crashed"} /\ given' \in 0..MaxCommands /\ SettingTyped'
           /\ DOMAIN console' = Consoles
           /\ \A k \in Consoles : Formed(console[k])' /\ Sound(console[k])'
BY DEF Inv, TypeOK, Framed, Formed, Typed, SettingTyped

\* What is known of the next state of a console is known of it there.
LEMMA SoundNext ==
  ASSUME NEW k \in Consoles, NEW d, console'[k] = d, Formed(d), Sound(d)'
  PROVE  Formed(console[k])' /\ Sound(console[k])'
<1>1. Formed(console[k])'
  BY DEF Formed, Typed
<1>2. Phase(console[k])' /\ Usable(console[k])'
  BY DEF Sound, Phase, Usable
<1>3. Holds(console[k])'
  BY DEF Sound, Holds, LastLine
<1>4. Reports(console[k])'
  BY DEF Sound, Reports
<1>5. Restores(console[k])'
  BY DEF Sound, Restores
<1>6. Marks(console[k])'
  BY DEF Sound, Marks
<1> QED
  BY <1>1, <1>2, <1>3, <1>4, <1>5, <1>6 DEF Sound

LEMMA SoundKept ==
  ASSUME NEW d, Sound(d), setting' = setting
  PROVE  Sound(d)'
<1>1. Phase(d)' /\ Usable(d)' /\ Reports(d)'
  BY DEF Sound, Phase, Usable, Reports
<1>2. Holds(d)'
  BY DEF Sound, Holds, LastLine
<1>3. Restores(d)' /\ Marks(d)'
  BY DEF Sound, Restores, Marks
<1> QED
  BY <1>1, <1>2, <1>3 DEF Sound

\* What a console claims is about its own record and the settings.
LEMMA SameSound ==
  ASSUME NEW c, Sound(c), setting' = setting
  PROVE  Sound(c)'
BY DEF Sound, Phase, Usable, Holds, LastLine, Reports, Restores, Marks

\* Who loses an item claims less, and nothing of that item.
LEMMA LoserSound ==
  ASSUME NEW c, Formed(c), Sound(c), SettingTyped, NEW item \in AllItems, NEW v,
         setting' = [setting EXCEPT ![item] = v],
         NEW d, d = [c EXCEPT !.lost = @ \cup {item}]
  PROVE  Formed(d) /\ Sound(d)'
<1>1. /\ DOMAIN d = Fields
      /\ d.pc = c.pc /\ d.request = c.request /\ d.todo = c.todo /\ d.answer = c.answer
      /\ d.reply = c.reply /\ d.written = c.written /\ d.lost = c.lost \cup {item}
  BY DEF Formed, Fields
<1>2. Formed(d)
  BY <1>1 DEF Formed, Typed
<1>3. \A other \in AllItems \ {item} : setting'[other] = setting[other]
  BY DEF SettingTyped
<1>4. Phase(d)' /\ Usable(d)' /\ Reports(d)'
  BY <1>1 DEF Sound, Phase, Usable, Reports
<1>5. Holds(d)'
  <2> SUFFICES ASSUME NEW other \in d.written \ d.lost
               PROVE  \E m \in DOMAIN d.answer :
                        LastLine(d, other, m) /\ setting'[other] = d.answer[m].value
    BY DEF Holds, LastLine
  <2>1. other \in c.written \ c.lost /\ other \in AllItems \ {item}
    BY <1>1 DEF Formed, Typed
  <2>2. PICK m \in DOMAIN c.answer : LastLine(c, other, m) /\ setting[other] = c.answer[m].value
    BY <2>1 DEF Sound, Holds
  <2> QED
    BY <1>1, <1>3, <2>1, <2>2 DEF LastLine
<1>6. Restores(d)'
  <2>1. ASSUME d.request.section \in FlagSections, NEW other \in ItemsOf(d.request.section) \ d.lost
        PROVE  other \in ItemsOf(c.request.section) \ c.lost /\ other \in AllItems \ {item}
    BY <1>1, <2>1, SectionsApart DEF FlagSections, Sections
  <2> QED
    BY <1>1, <1>3, <2>1 DEF Sound, Restores
<1>7. Marks(d)'
  <2>1. c.pc = "mark" => c.todo[1].item \in AllItems
    <3>1. c.pc = "mark" => c.todo # <<>> /\ \A i \in DOMAIN c.todo : c.todo[i].item \in AllItems
      BY DEF Sound, Phase, Usable
    <3> QED
      BY <3>1, Shortened DEF Formed
  <2> QED
    BY <1>1, <1>3, <2>1 DEF Sound, Marks
<1> QED
  BY <1>2, <1>4, <1>5, <1>6, <1>7 DEF Sound

\* A step of one console that sets nothing.
LEMMA OwnStep ==
  ASSUME Inv, NEW k \in Consoles, NEW d, Formed(d), Sound(d)',
         setting' = setting, console' = [console EXCEPT ![k] = d],
         process' = process, given' \in 0..MaxCommands
  PROVE  Inv'
<1>1. SettingTyped' /\ DOMAIN console' = Consoles /\ process' \in {"up", "crashed"}
  BY InvParts DEF SettingTyped
<1>2. ASSUME NEW j \in Consoles
      PROVE  Formed(console[j])' /\ Sound(console[j])'
  <2>1. CASE j = k
    BY <2>1, InvParts, SoundNext
  <2>2. CASE j # k
    <3> PICK e : e = console[j]
      OBVIOUS
    <3>1. console'[j] = e /\ Formed(e) /\ Sound(e)
      BY <2>2, InvParts
    <3>2. Sound(e)'
      BY <3>1, SoundKept
    <3> QED
      BY <3>1, <3>2, SoundNext
  <2> QED
    BY <2>1, <2>2
<1> QED
  BY <1>1, <1>2, InvPartsNext

-----------------------------------------------------------------------------
(* The steps. *)

LEMMA InitInv == Init => Inv
<1> SUFFICES ASSUME Init PROVE Inv
  OBVIOUS
<1>1. PICK file \in Files : setting = Configured(file)
  BY DEF Init
<1>2. SettingTyped
  <2>1. DOMAIN setting = AllItems
    BY <1>1 DEF Configured
  <2>2. ASSUME NEW item \in AllItems
        PROVE  setting[item] \in Values(item)
    <3>1. CASE item \notin DOMAIN file
      BY <1>1, <3>1, DefaultUsable DEF Configured
    <3>2. CASE item \in DOMAIN file /\ item = "LEVEL"
      <4>1. setting[item] = NamedLevel(file[item])
        BY <1>1, <3>2 DEF Configured
      <4>2. Values(item) = Levels \cup {"NONE"}
        BY <3>2, ItemsKnown, ValuesKnown DEF Sections
      <4> QED
        BY <4>1, <4>2 DEF NamedLevel
    <3>3. CASE item \in DOMAIN file /\ item # "LEVEL"
      <4>1. setting[item] = file[item]
        BY <1>1, <3>3 DEF Configured
      <4> QED
        BY <3>3, <4>1, FilesAssumption
    <3> QED
      BY <3>1, <3>2, <3>3
  <2> QED
    BY <2>1, <2>2 DEF SettingTyped
<1>3. Formed(ConsoleIdle)
  BY DEF ConsoleIdle, Formed, Typed, Fields, IsSeq
<1>4. Sound(ConsoleIdle)
  BY NoneAssumption DEF ConsoleIdle, Sound, Phase, Usable, Holds, Reports, Restores, Marks
<1>5. DOMAIN console = Consoles /\ \A k \in Consoles : console[k] = ConsoleIdle
  BY DEF Init
<1>6. process \in {"up", "crashed"} /\ given \in 0..MaxCommands
  BY MaxCommandsAssumption DEF Init
<1> QED
  BY <1>2, <1>3, <1>4, <1>5, <1>6, InvParts

LEMMA BeginInv ==
  ASSUME Inv, NEW k \in Consoles, NEW request \in Requests, Begin(k, request)
  PROVE  Inv'
<1> DEFINE shows == request.verb \in {"RTRV-TST-CFG", "RTRV-ENV"}
           todo == IF shows THEN Shown(request)
                   ELSE IF request.verb = "INIT-TST-CFG" THEN Initialised(request)
                   ELSE Changed(request)
           d == IF shows
                THEN [ConsoleIdle EXCEPT !.pc = "show", !.request = request,
                                         !.todo = Shown(request)]
                ELSE [ConsoleIdle EXCEPT !.pc = "change", !.request = request,
                        !.todo = IF request.verb = "INIT-TST-CFG" THEN Initialised(request)
                                 ELSE Changed(request)]
<1>1. Dispatched(request) /\ given' \in 0..MaxCommands /\ process' = process /\ setting' = setting
  BY InvParts, MaxCommandsAssumption DEF Begin
<1>2. console' = [console EXCEPT ![k] = d]
  BY DEF Begin
<1>3. request # None /\ request.verb \in {"CHG-TST-CFG", "INIT-TST-CFG", "RTRV-TST-CFG",
                                          "CHG-ENV", "RTRV-ENV"}
  BY <1>1, NoneAssumption DEF Dispatched
<1>4. /\ d.pc = IF shows THEN "show" ELSE "change"
      /\ d.request = request /\ d.todo = todo /\ d.answer = <<>> /\ d.reply = None
      /\ d.written = {} /\ d.lost = {} /\ DOMAIN d = Fields
  <2>1. CASE shows
    BY <2>1 DEF Fields, ConsoleIdle
  <2>2. CASE ~shows
    BY <2>2 DEF Fields, ConsoleIdle
  <2> QED
    BY <2>1, <2>2
<1> HIDE DEF d, todo
<1>5. CASE shows
  <2>1. todo = Shown(request)
    BY <1>5 DEF todo
  <2>2. IsSeq(todo) /\ Phase(d)' /\ Usable(d)'
    BY <1>1, <1>3, <1>4, <1>5, <2>1, ShownKnown DEF Phase, Usable
  <2>3. Formed(d)
    BY <1>4, <1>5, <2>2 DEF Formed, Typed, IsSeq
  <2>4. Holds(d)' /\ Reports(d)' /\ Restores(d)' /\ Marks(d)'
    BY <1>4, <1>5, NoneAssumption DEF Holds, LastLine, Reports, Restores, Marks
  <2> QED
    BY <1>1, <1>2, <2>2, <2>3, <2>4, OwnStep DEF Sound
<1>6. CASE ~shows
  <2>1. /\ IsSeq(todo)
        /\ request.section = Empty => todo = <<>>
        /\ \A i \in DOMAIN todo :
             Accepted(request.section, todo[i]) => todo[i].value \in Values(todo[i].item)
    <3>1. CASE request.verb = "INIT-TST-CFG"
      <4>1. todo = Initialised(request)
        BY <1>6, <3>1 DEF todo
      <4> QED
        BY <1>1, <3>1, <4>1, InitialisedUsable
    <3>2. CASE request.verb # "INIT-TST-CFG"
      <4>1. todo = Changed(request) /\ request.verb \in {"CHG-TST-CFG", "CHG-ENV"}
        BY <1>3, <1>6, <3>2 DEF todo
      <4> QED
        BY <1>1, <4>1, ChangedUsable
    <3> QED
      BY <3>1, <3>2
  <2>2. Phase(d)' /\ Usable(d)'
    BY <1>1, <1>3, <1>4, <1>6, <2>1 DEF Phase, Usable
  <2>3. Formed(d)
    BY <1>4, <1>6, <2>1 DEF Formed, Typed, IsSeq
  <2>4. Holds(d)' /\ Reports(d)' /\ Marks(d)'
    BY <1>4, <1>6, NoneAssumption DEF Holds, LastLine, Reports, Marks
  <2>5. Restores(d)'
    <3>1. CASE request.verb = "INIT-TST-CFG"
      <4>1. todo = Initialised(request)
        BY <1>6, <3>1 DEF todo
      <4>2. request.section # Empty /\ request.data = <<>> =>
              /\ request.section \in FlagSections
              /\ \A i \in DOMAIN todo : todo[i].item \in ItemsOf(request.section) /\
                                        todo[i].value = Default[todo[i].item]
              /\ \A item \in ItemsOf(request.section) : \E i \in DOMAIN todo : todo[i].item = item
        BY <1>1, <3>1, <4>1, InitialisedUsable
      <4> QED
        BY <1>4, <4>2 DEF Restores
    <3>2. CASE request.verb # "INIT-TST-CFG"
      BY <1>4, <3>2 DEF Restores
    <3> QED
      BY <3>1, <3>2
  <2> QED
    BY <1>1, <1>2, <2>2, <2>3, <2>4, <2>5, OwnStep DEF Sound
<1> QED
  BY <1>5, <1>6

LEMMA RefuseInv ==
  ASSUME Inv, NEW k \in Consoles, NEW request \in Requests, Refuse(k, request)
  PROVE  Inv'
<1> DEFINE d == [ConsoleIdle EXCEPT !.request = request, !.reply = "not_found"]
<1>1. given' \in 0..MaxCommands /\ process' = process /\ setting' = setting
  BY InvParts, MaxCommandsAssumption DEF Refuse
<1>2. console' = [console EXCEPT ![k] = d]
  BY DEF Refuse
<1>3. /\ DOMAIN d = Fields /\ d.pc = "idle" /\ d.request = request /\ d.todo = <<>>
      /\ d.answer = <<>> /\ d.reply = "not_found" /\ d.written = {} /\ d.lost = {}
  BY DEF Fields, ConsoleIdle
<1> HIDE DEF d
<1>4. Formed(d)
  BY <1>3 DEF Formed, Typed, Fields, IsSeq
<1>5. Sound(d)'
  BY <1>3 DEF Sound, Phase, Usable, Holds, LastLine, Reports, Restores, Marks
<1> QED
  BY <1>1, <1>2, <1>4, <1>5, OwnStep

LEMMA PassOverInv ==
  ASSUME Inv, NEW k \in Consoles, PassOver(k)
  PROVE  Inv'
<1>1. PICK c : c = console[k]
  OBVIOUS
<1> DEFINE d == [c EXCEPT !.todo = Tail(@)]
<1>2. /\ process' = process /\ setting' = setting /\ given' \in 0..MaxCommands
      /\ Formed(c) /\ Sound(c) /\ c.pc = "change" /\ c.todo # <<>>
      /\ ~Accepted(c.request.section, Head(c.todo))
  BY <1>1, InvParts DEF PassOver
<1>3. console' = [console EXCEPT ![k] = d]
  BY <1>1 DEF PassOver
<1>4. /\ DOMAIN d = Fields /\ d.pc = c.pc /\ d.request = c.request /\ d.todo = Tail(c.todo)
      /\ d.answer = c.answer /\ d.reply = c.reply /\ d.written = c.written /\ d.lost = c.lost
  BY <1>2 DEF Formed, Fields
<1> HIDE DEF d
<1>5. /\ IsSeq(Tail(c.todo)) /\ Head(c.todo) = c.todo[1] /\ 1 \in DOMAIN c.todo
      /\ \A i \in DOMAIN d.todo : i + 1 \in DOMAIN c.todo /\ d.todo[i] = c.todo[i + 1]
      /\ \A i \in DOMAIN c.todo : i = 1 \/ (i - 1 \in DOMAIN d.todo /\ d.todo[i - 1] = c.todo[i])
  BY <1>2, <1>4, Shortened DEF Formed
<1>6. Formed(d)
  BY <1>2, <1>4, <1>5 DEF Formed, Typed
<1>7. Phase(d)' /\ Usable(d)'
  BY <1>2, <1>4, <1>5 DEF Sound, Phase, Usable
<1>8. Holds(d)' /\ Reports(d)' /\ Marks(d)'
  BY <1>2, <1>4 DEF Sound, Phase, Holds, LastLine, Reports, Marks
<1>9. Restores(d)'
  <2>1. ASSUME c.request.verb = "INIT-TST-CFG", c.request.data = <<>>, c.request.section # Empty
        PROVE  FALSE
    <3>1. /\ c.request.section \in FlagSections
          /\ c.todo[1].item \in ItemsOf(c.request.section)
          /\ c.todo[1].value = Default[c.todo[1].item]
      BY <1>2, <1>5, <2>1 DEF Sound, Restores
    <3> QED
      BY <1>2, <1>5, <3>1, DefaultAccepted
  <2> QED
    BY <1>4, <2>1 DEF Restores
<1> QED
  BY <1>2, <1>3, <1>6, <1>7, <1>8, <1>9, OwnStep DEF Sound

LEMMA AnswerInv ==
  ASSUME Inv, NEW k \in Consoles, Answer(k)
  PROVE  Inv'
<1>1. PICK c : c = console[k]
  OBVIOUS
<1> DEFINE reply == IF c.answer = <<>> THEN "not_found" ELSE "done"
           d == [c EXCEPT !.pc = "idle", !.reply = reply]
<1>2. /\ process' = process /\ setting' = setting /\ given' \in 0..MaxCommands
      /\ Formed(c) /\ Sound(c) /\ c.pc \in {"change", "show"} /\ c.todo = <<>>
  BY <1>1, InvParts DEF Answer, Finished
<1>3. console' = [console EXCEPT ![k] = d]
  BY <1>1 DEF Answer
<1>4. /\ DOMAIN d = Fields /\ d.pc = "idle" /\ d.request = c.request /\ d.todo = <<>>
      /\ d.answer = c.answer /\ d.reply = reply /\ d.written = c.written /\ d.lost = c.lost
  BY <1>2 DEF Formed, Fields
<1> HIDE DEF d
<1>5. Formed(d)
  BY <1>2, <1>4 DEF Formed, Typed
<1>6. Phase(d)' /\ Usable(d)'
  BY <1>4 DEF Phase, Usable
<1>7. Holds(d)' /\ Reports(d)'
  BY <1>2, <1>4 DEF Sound, Phase, Holds, LastLine, Reports
<1>8. Restores(d)'
  <2>1. CASE c.pc = "change"
    BY <1>2, <1>4, <2>1 DEF Sound, Restores
  <2>2. CASE c.pc = "show"
    BY <1>2, <1>4, <2>2 DEF Sound, Phase, Restores
  <2> QED
    BY <1>2, <2>1, <2>2
<1>9. Marks(d)'
  BY <1>2, <1>4 DEF Sound, Marks
<1> QED
  BY <1>2, <1>3, <1>5, <1>6, <1>7, <1>8, <1>9, OwnStep DEF Sound

LEMMA CrashInv ==
  ASSUME Inv, NEW k \in Consoles, CrashOnTls(k)
  PROVE  Inv'
<1>1. process' \in {"up", "crashed"} /\ UNCHANGED <<setting, console, given>>
  BY DEF CrashOnTls
<1> QED
  BY <1>1 DEF Inv, TypeOK, Framed, Sound, Phase, Usable, Holds, LastLine, Reports, Restores, Marks

LEMMA ShowValueInv ==
  ASSUME Inv, NEW k \in Consoles, ShowValue(k)
  PROVE  Inv'
<1>1. PICK c : c = console[k]
  OBVIOUS
<1> DEFINE item == Head(c.todo).item
           flag == SectionOf(item) \in FlagSections
<1>2. /\ process' = process /\ setting' = setting /\ given' \in 0..MaxCommands
      /\ Formed(c) /\ Sound(c) /\ c.pc = "show" /\ c.todo # <<>>
  BY <1>1, InvParts DEF ShowValue
<1>3. PICK v \in Readings(item) :
        console' = [console EXCEPT ![k] =
          [(IF ~flag THEN [c EXCEPT !.todo = Tail(@)] ELSE [c EXCEPT !.pc = "mark"])
             EXCEPT !.answer = Append(@, [item |-> item, value |-> v, marked |-> FALSE])]]
  BY <1>1 DEF ShowValue
<1> DEFINE e == [item |-> item, value |-> v, marked |-> FALSE]
           d == [(IF ~flag THEN [c EXCEPT !.todo = Tail(@)] ELSE [c EXCEPT !.pc = "mark"])
                   EXCEPT !.answer = Append(@, e)]
<1>4. console' = [console EXCEPT ![k] = d]
  BY <1>3
<1>5. /\ DOMAIN d = Fields /\ d.request = c.request /\ d.answer = Append(c.answer, e)
      /\ d.reply = c.reply /\ d.written = c.written /\ d.lost = c.lost
      /\ d.pc = IF flag THEN "mark" ELSE "show"
      /\ d.todo = IF flag THEN c.todo ELSE Tail(c.todo)
  <2>1. CASE flag
    BY <1>2, <2>1 DEF Formed, Fields
  <2>2. CASE ~flag
    BY <1>2, <2>2 DEF Formed, Fields
  <2> QED
    BY <2>1, <2>2
<1>6. e.item = item /\ e.value = v /\ DOMAIN e = {"item", "value", "marked"}
  OBVIOUS
<1> HIDE DEF d, e
<1>7. /\ IsSeq(Tail(c.todo)) /\ Head(c.todo) = c.todo[1] /\ 1 \in DOMAIN c.todo
      /\ \A i \in DOMAIN Tail(c.todo) : i + 1 \in DOMAIN c.todo /\ Tail(c.todo)[i] = c.todo[i + 1]
  BY <1>2, Shortened DEF Formed
<1>8. /\ IsSeq(d.answer) /\ d.answer # <<>> /\ Len(c.answer) \in Nat
      /\ Len(d.answer) = Len(c.answer) + 1
      /\ DOMAIN c.answer = 1..Len(c.answer) /\ DOMAIN d.answer = 1..(Len(c.answer) + 1)
      /\ \A i \in DOMAIN c.answer : d.answer[i] = c.answer[i]
      /\ d.answer[Len(d.answer)] = e
  BY <1>2, <1>5, Lengthened DEF Formed
<1>9. Formed(d)
  BY <1>2, <1>5, <1>7, <1>8 DEF Formed, Typed
<1>10. Phase(d)' /\ Usable(d)' /\ Reports(d)'
  <2>1. /\ c.request # None /\ Dispatched(c.request)
        /\ c.request.verb \in {"RTRV-TST-CFG", "RTRV-ENV"} /\ c.written = {}
    BY <1>2 DEF Sound, Phase
  <2>2. Phase(d)' /\ Usable(d)'
    BY <1>2, <1>5, <1>7, <2>1 DEF Sound, Phase, Usable
  <2>3. Reports(d)'
    BY <1>2, <1>5, <1>8, <2>1 DEF Sound, Reports
  <2> QED
    BY <2>2, <2>3
<1>11. Holds(d)' /\ Restores(d)'
  BY <1>2, <1>5 DEF Sound, Phase, Holds, Restores
<1>12. Marks(d)'
  <2> SUFFICES ASSUME c.request # None, c.request.verb = "RTRV-TST-CFG"
               PROVE  Marks(d)'
    BY <1>5 DEF Marks
  <2>1. item \in AllItems /\ flag
    BY <1>2, <1>7 DEF Sound, Usable
  <2>2. item # "trigger.scenario"
    <3>1. SectionOf("trigger.scenario") = "TIMER"
      BY ItemsKnown, SectionsApart DEF Sections
    <3> QED
      BY <2>1, <3>1 DEF FlagSections
  <2>3. v = setting[item]
    BY <1>3, <2>2 DEF Readings
  <2>4. d.pc = "mark" /\ d.todo = c.todo /\ c.todo[1].item = item
    BY <1>5, <1>7, <2>1
  <2>5. \A i \in DOMAIN d.answer : i # Len(d.answer) => i \in DOMAIN c.answer
    BY <1>8
  <2>6. \A i \in DOMAIN d.answer : DOMAIN d.answer[i] = {"item", "value", "marked"}
    BY <1>2, <1>6, <1>8, <2>5 DEF Sound, Marks
  <2>7. \A i \in DOMAIN c.answer : c.answer[i].item \notin c.lost =>
           (c.answer[i].marked <=> c.answer[i].value # Default[c.answer[i].item])
    BY <1>2 DEF Sound, Marks
  <2>8. \A i \in DOMAIN d.answer : i # Len(d.answer) /\ d.answer[i].item \notin d.lost =>
           (d.answer[i].marked <=> d.answer[i].value # Default[d.answer[i].item])
    BY <1>5, <1>8, <2>5, <2>7
  <2>9. /\ d.answer # <<>> /\ d.answer[Len(d.answer)].item = d.todo[1].item
        /\ d.answer[Len(d.answer)].value = setting[d.todo[1].item]
    BY <1>6, <1>8, <2>3, <2>4
  <2> QED
    BY <1>2, <2>4, <2>6, <2>8, <2>9 DEF Marks
<1> QED
  BY <1>2, <1>4, <1>9, <1>10, <1>11, <1>12, OwnStep DEF Sound

\* Comparing emptiness first makes no difference: the default of a LETTER is empty.
LEMMA MarksDiffer ==
  ASSUME NEW item \in AllItems
  PROVE  MarkOf(item) <=> setting[item] # Default[item]
<1>1. CASE SectionOf(item) = "LETTER"
  <2>1. item = "tpt-plan-file"
    BY <1>1, SectionKnown, ItemsKnown
  <2>2. Default[item] = Empty
    BY <1>1, <2>1, SMT DEF Default
  <2> QED
    BY <2>2 DEF MarkOf, SameAsDefault
<1>2. CASE SectionOf(item) # "LETTER"
  BY <1>2 DEF MarkOf, SameAsDefault
<1> QED
  BY <1>1, <1>2

LEMMA ShowMarkInv ==
  ASSUME Inv, NEW k \in Consoles, ShowMark(k)
  PROVE  Inv'
<1>1. PICK c : c = console[k]
  OBVIOUS
<1> DEFINE item == Head(c.todo).item
           last == Len(c.answer)
<1>0. PICK mark \in BOOLEAN : mark = MarkOf(item)
  BY DEF MarkOf, SameAsDefault
<1> DEFINE d == [c EXCEPT !.answer[last].marked = mark, !.todo = Tail(@), !.pc = "show"]
<1>2. /\ process' = process /\ setting' = setting /\ given' \in 0..MaxCommands
      /\ Formed(c) /\ Sound(c) /\ c.pc = "mark" /\ c.todo # <<>>
  BY <1>1, InvParts DEF ShowMark, Sound, Phase
<1>3. console' = [console EXCEPT ![k] = d]
  BY <1>0, <1>1 DEF ShowMark
<1>4. /\ DOMAIN d = Fields /\ d.request = c.request
      /\ d.answer = [c.answer EXCEPT ![last].marked = mark]
      /\ d.reply = c.reply /\ d.written = c.written /\ d.lost = c.lost
      /\ d.pc = "show" /\ d.todo = Tail(c.todo)
  BY <1>2 DEF Formed, Fields
<1> HIDE DEF d
<1>5. /\ IsSeq(Tail(c.todo)) /\ Head(c.todo) = c.todo[1] /\ 1 \in DOMAIN c.todo
      /\ \A i \in DOMAIN Tail(c.todo) : i + 1 \in DOMAIN c.todo /\ Tail(c.todo)[i] = c.todo[i + 1]
  BY <1>2, Shortened DEF Formed
<1>6. /\ DOMAIN c.answer = 1..last /\ last \in Nat /\ c.answer \in Seq(Range(c.answer))
  BY <1>2, AreSequences DEF Formed
<1>7. /\ DOMAIN d.answer = DOMAIN c.answer
      /\ \A i \in DOMAIN c.answer : i # last => d.answer[i] = c.answer[i]
  BY <1>4
<1>8. /\ IsSeq(d.answer) /\ Len(d.answer) = last
      /\ d.answer = <<>> => c.answer = <<>>
      /\ c.answer = <<>> => d.answer = <<>>
  <2> DEFINE S == {d.answer[i] : i \in 1..last}
  <2>1. d.answer = [i \in 1..last |-> d.answer[i]]
    BY <1>4, <1>6
  <2>2. d.answer \in [1..last -> S]
    BY <2>1
  <2> HIDE DEF S
  <2>3. d.answer \in Seq(S)
    BY <1>6, <2>2
  <2>4. Len(d.answer) = last
    BY <1>6, <2>1, <2>3
  <2>5. (d.answer = <<>> <=> last = 0) /\ (c.answer = <<>> <=> last = 0)
    BY <1>6, <2>3, <2>4
  <2> QED
    BY <2>3, <2>4, <2>5, SequencesAre
<1>9. Formed(d)
  BY <1>2, <1>4, <1>5, <1>8 DEF Formed, Typed
<1>10. /\ c.request # None /\ Dispatched(c.request)
       /\ c.request.verb \in {"RTRV-TST-CFG", "RTRV-ENV"} /\ c.written = {}
  BY <1>2 DEF Sound, Phase
<1>11. Phase(d)' /\ Usable(d)'
  BY <1>2, <1>4, <1>5, <1>10 DEF Sound, Phase, Usable
<1>12. Holds(d)' /\ Reports(d)' /\ Restores(d)'
  BY <1>2, <1>4, <1>8, <1>10 DEF Sound, Holds, Reports, Restores
<1>13. Marks(d)'
  <2> SUFFICES ASSUME c.request # None, c.request.verb = "RTRV-TST-CFG"
               PROVE  Marks(d)'
    BY <1>4 DEF Marks
  <2>1. /\ \A i \in DOMAIN c.answer : DOMAIN c.answer[i] = {"item", "value", "marked"}
        /\ \A i \in DOMAIN c.answer : i # last /\ c.answer[i].item \notin c.lost =>
             (c.answer[i].marked <=> c.answer[i].value # Default[c.answer[i].item])
        /\ c.answer # <<>> /\ c.answer[last].item = item
        /\ item \notin c.lost => c.answer[last].value = setting[item]
    BY <1>2, <1>5 DEF Sound, Marks
  <2>2. last \in DOMAIN c.answer
    BY <1>6, <2>1
  <2>3. /\ DOMAIN d.answer[last] = {"item", "value", "marked"}
        /\ d.answer[last].item = item /\ d.answer[last].value = c.answer[last].value
        /\ d.answer[last].marked = mark
    BY <1>4, <2>1, <2>2
  <2>4. \A i \in DOMAIN d.answer : DOMAIN d.answer[i] = {"item", "value", "marked"}
    BY <1>7, <2>1, <2>3
  <2>5. item \notin c.lost => (mark <=> c.answer[last].value # Default[item])
    <3>1. item \in AllItems
      BY <1>2, <1>5 DEF Sound, Usable
    <3> QED
      BY <1>0, <2>1, <3>1, MarksDiffer
  <2>6. item \notin c.lost =>
           (d.answer[last].marked <=> d.answer[last].value # Default[d.answer[last].item])
    BY <2>3, <2>5
  <2>7. \A i \in DOMAIN d.answer : d.answer[i].item \notin d.lost =>
           (d.answer[i].marked <=> d.answer[i].value # Default[d.answer[i].item])
    <3> SUFFICES ASSUME NEW i \in DOMAIN d.answer, d.answer[i].item \notin d.lost
                 PROVE  d.answer[i].marked <=> d.answer[i].value # Default[d.answer[i].item]
      OBVIOUS
    <3>1. CASE i = last
      BY <1>4, <2>3, <2>6, <3>1
    <3>2. CASE i # last
      <4>1. i \in DOMAIN c.answer /\ d.answer[i] = c.answer[i]
        BY <1>7, <3>2
      <4> QED
        BY <1>4, <2>1, <3>2, <4>1
    <3> QED
      BY <3>1, <3>2
  <2> QED
    BY <1>4, <2>4, <2>7 DEF Marks
<1> QED
  BY <1>2, <1>3, <1>9, <1>11, <1>12, <1>13, OwnStep DEF Sound

LEMMA SetOneInv ==
  ASSUME Inv, NEW k \in Consoles, SetOne(k)
  PROVE  Inv'
<1>1. PICK c : c = console[k]
  OBVIOUS
<1> DEFINE line == Head(c.todo)
           item == line.item
           d == [c EXCEPT !.todo = Tail(@), !.answer = AnswerLine(@, line),
                          !.written = @ \cup {item}, !.lost = @ \ {item}]
<1>2. /\ process' = process /\ given' \in 0..MaxCommands
      /\ Formed(c) /\ Sound(c) /\ c.pc = "change" /\ c.todo # <<>>
      /\ Accepted(c.request.section, line)
      /\ setting' = [setting EXCEPT ![item] = line.value]
  BY <1>1, InvParts DEF SetOne, NewValue
<1>3. /\ DOMAIN console' = Consoles /\ console'[k] = d
      /\ \A j \in Consoles \ {k} : console'[j] = [console[j] EXCEPT !.lost = @ \cup {item}]
  BY <1>1 DEF SetOne, Overwrite
<1>4. /\ DOMAIN d = Fields /\ d.pc = "change" /\ d.request = c.request /\ d.todo = Tail(c.todo)
      /\ d.answer = Append(c.answer, line) /\ d.reply = c.reply
      /\ d.written = c.written \cup {item} /\ d.lost = c.lost \ {item}
  BY <1>2 DEF Formed, Fields, AnswerLine
<1> HIDE DEF d
<1>5. /\ IsSeq(Tail(c.todo)) /\ line = c.todo[1] /\ 1 \in DOMAIN c.todo
      /\ \A i \in DOMAIN d.todo : i + 1 \in DOMAIN c.todo /\ d.todo[i] = c.todo[i + 1]
      /\ \A i \in DOMAIN c.todo : i = 1 \/ (i - 1 \in DOMAIN d.todo /\ d.todo[i - 1] = c.todo[i])
  BY <1>2, <1>4, Shortened DEF Formed
<1>6. /\ IsSeq(d.answer) /\ d.answer # <<>> /\ Len(c.answer) \in Nat
      /\ DOMAIN c.answer = 1..Len(c.answer) /\ DOMAIN d.answer = 1..(Len(c.answer) + 1)
      /\ \A i \in DOMAIN c.answer : d.answer[i] = c.answer[i]
      /\ d.answer[Len(c.answer) + 1] = line
  BY <1>2, <1>4, Lengthened DEF Formed
<1>7. /\ c.request # None /\ Dispatched(c.request) /\ c.reply = None
      /\ c.request.verb \notin {"RTRV-TST-CFG", "RTRV-ENV"} /\ c.request.section # Empty
      /\ line.value \in Values(item)
  BY <1>2, <1>5 DEF Sound, Phase, Usable
<1>8. c.request.section \in Sections /\ item \in AllItems
  <2>1. c.request.section \in Sections
    BY <1>7 DEF Dispatched, FlagSections, Sections
  <2> QED
    BY <1>2, <2>1, SectionsApart DEF Accepted
<1>9. /\ SettingTyped' /\ setting'[item] = line.value
      /\ \A other \in AllItems \ {item} : setting'[other] = setting[other]
  BY <1>2, <1>7, <1>8, InvParts DEF SettingTyped
<1>10. Formed(d)
  BY <1>2, <1>4, <1>5, <1>6, <1>8 DEF Formed, Typed
<1>11. Phase(d)' /\ Usable(d)' /\ Marks(d)'
  BY <1>2, <1>4, <1>5, <1>7 DEF Sound, Phase, Usable, Marks
<1>12. Reports(d)'
  BY <1>2, <1>4, <1>6, <1>7, NoneAssumption DEF Sound, Reports, Phase
<1>13. Holds(d)'
  <2> SUFFICES ASSUME NEW other \in d.written \ d.lost
               PROVE  \E m \in DOMAIN d.answer :
                        LastLine(d, other, m) /\ setting'[other] = d.answer[m].value
    BY DEF Holds, LastLine
  <2>1. CASE other = item
    <3>1. LastLine(d, item, Len(c.answer) + 1)
      BY <1>6 DEF LastLine
    <3> QED
      BY <1>6, <1>9, <2>1, <3>1
  <2>2. CASE other # item
    <3>1. other \in c.written \ c.lost /\ other \in AllItems \ {item}
      BY <1>2, <1>4, <2>2 DEF Formed, Typed
    <3>2. PICK m \in DOMAIN c.answer : LastLine(c, other, m) /\ setting[other] = c.answer[m].value
      BY <1>2, <3>1 DEF Sound, Holds
    <3>3. LastLine(d, other, m)
      BY <1>6, <2>2, <3>2, SMTT(30) DEF LastLine
    <3> QED
      BY <1>6, <1>9, <3>1, <3>2, <3>3
  <2> QED
    BY <2>1, <2>2
<1>14. Restores(d)'
  <2> SUFFICES ASSUME c.request.verb = "INIT-TST-CFG", c.request.data = <<>>
               PROVE  Restores(d)'
    BY <1>4 DEF Restores
  <2>1. /\ c.request.section \in FlagSections
        /\ \A i \in DOMAIN c.todo : c.todo[i].item \in ItemsOf(c.request.section) /\
                                    c.todo[i].value = Default[c.todo[i].item]
        /\ \A other \in ItemsOf(c.request.section) \ c.lost :
             setting[other] = Default[other] \/ \E i \in DOMAIN c.todo : c.todo[i].item = other
    BY <1>2, <1>7 DEF Sound, Restores
  <2>2. line.value = Default[item]
    BY <1>5, <2>1
  <2>3. ASSUME NEW other \in ItemsOf(c.request.section) \ d.lost
        PROVE  setting'[other] = Default[other] \/ \E i \in DOMAIN d.todo : d.todo[i].item = other
    <3>1. CASE other = item
      BY <1>9, <2>2, <3>1
    <3>2. CASE other # item
      <4>1. other \notin c.lost /\ other \in AllItems \ {item}
        BY <1>4, <1>8, <2>3, <3>2, SectionsApart
      <4>2. CASE setting[other] = Default[other]
        BY <1>9, <4>1, <4>2
      <4>3. CASE \E i \in DOMAIN c.todo : c.todo[i].item = other
        <5>1. PICK i \in DOMAIN c.todo : c.todo[i].item = other
          BY <4>3
        <5>2. i # 1
          BY <1>5, <3>2, <5>1
        <5> QED
          BY <1>5, <5>1, <5>2
      <4> QED
        BY <2>1, <2>3, <4>1, <4>2, <4>3
    <3> QED
      BY <3>1, <3>2
  <2>4. \A i \in DOMAIN d.todo : d.todo[i].item \in ItemsOf(c.request.section) /\
                                 d.todo[i].value = Default[d.todo[i].item]
    BY <1>5, <2>1
  <2> QED
    BY <1>4, <2>1, <2>3, <2>4 DEF Restores
<1>15. ASSUME NEW j \in Consoles
       PROVE  Formed(console[j])' /\ Sound(console[j])'
  <2>1. PICK e : e = console'[j]
    OBVIOUS
  <2>2. Formed(e) /\ Sound(e)'
    <3>1. CASE j = k
      <4>1. e = d
        BY <1>3, <2>1, <3>1
      <4> QED
        BY <1>10, <1>11, <1>12, <1>13, <1>14, <4>1 DEF Sound
    <3>2. CASE j # k
      <4>1. PICK b : b = console[j]
        OBVIOUS
      <4>2. Formed(b) /\ Sound(b) /\ e = [b EXCEPT !.lost = @ \cup {item}]
        BY <1>3, <2>1, <3>2, <4>1, InvParts
      <4>3. SettingTyped /\ setting' = [setting EXCEPT ![item] = line.value]
        BY <1>2, InvParts
      <4> HIDE DEF item, line
      <4> QED
        BY <1>8, <4>2, <4>3, LoserSound
    <3> QED
      BY <3>1, <3>2
  <2> QED
    BY <2>1, <2>2, SoundNext
<1> QED
  BY <1>2, <1>3, <1>9, <1>15, InvParts, InvPartsNext

LEMMA Invariance == Spec => []Inv
<1>1. ASSUME Inv, [Next]_vars
      PROVE  Inv'
  <2>1. CASE UNCHANGED vars
    <3>1. /\ process' \in {"up", "crashed"} /\ given' \in 0..MaxCommands /\ SettingTyped'
          /\ DOMAIN console' = Consoles /\ setting' = setting
      BY <1>1, <2>1, InvParts DEF vars, SettingTyped
    <3>2. ASSUME NEW k \in Consoles PROVE Formed(console[k])' /\ Sound(console[k])'
      <4> PICK e : e = console[k]
        OBVIOUS
      <4>1. console'[k] = e /\ Formed(e) /\ Sound(e)
        BY <1>1, <2>1, InvParts DEF vars
      <4> QED
        BY <3>1, <4>1, SoundKept, SoundNext
    <3> QED
      BY <3>1, <3>2, InvPartsNext
  <2>2. CASE Next
    <3>1. PICK k \in Consoles :
            \/ \E request \in Requests : Begin(k, request) \/ Refuse(k, request)
            \/ PassOver(k) \/ SetOne(k) \/ ShowValue(k) \/ ShowMark(k) \/ Answer(k) \/ CrashOnTls(k)
      BY <2>2 DEF Next
    <3> QED
      BY <1>1, <3>1, BeginInv, RefuseInv, PassOverInv, SetOneInv, ShowValueInv, ShowMarkInv,
         AnswerInv, CrashInv
  <2> QED
    BY <1>1, <2>1, <2>2
<1> QED
  BY InitInv, <1>1, PTL DEF Spec

-----------------------------------------------------------------------------
(* The theorems. *)

\* Every setting keeps a value of its kind, whatever operators enter (Property,
\* chg_tst_cfg, chg_env).
THEOREM TypeCorrect == Spec => []TypeOK
<1>1. Inv => TypeOK
  BY DEF Inv
<1> QED
  BY <1>1, Invariance, PTL

\* What was reported as changed stays set until another command sets it: the last
\* line about an item tells its value (chg_tst_cfg, chg_env, init_tst_cfg).
THEOREM AnswersHold == Spec => []RepliesHold
<1>1. ASSUME Inv, NEW k \in Consoles, NEW item \in console[k].written \ console[k].lost
      PROVE  setting[item] = Reported(k, item)
  <2> DEFINE lines == {i \in DOMAIN console[k].answer : console[k].answer[i].item = item}
  <2>1. IsSeq(console[k].answer) /\ Holds(console[k])
    BY <1>1 DEF Inv, Framed, Sound
  <2>2. PICK m \in DOMAIN console[k].answer :
           LastLine(console[k], item, m) /\ setting[item] = console[k].answer[m].value
    BY <1>1, <2>1 DEF Holds
  <2>3. DOMAIN console[k].answer = 1..Len(console[k].answer) /\ Len(console[k].answer) \in Nat
    BY <2>1, AreSequences
  <2>4. lines \subseteq Nat /\ m \in lines /\ \A i \in lines : i <= m
    BY <2>2, <2>3 DEF LastLine
  <2> HIDE DEF lines
  <2>5. Max(lines) \in lines /\ \A i \in lines : Max(lines) >= i
    BY <2>4 DEF Max
  <2>6. Max(lines) = m
    <3>1. Max(lines) \in Nat /\ m \in Nat /\ Max(lines) <= m /\ Max(lines) >= m
      BY <2>4, <2>5
    <3> QED
      BY <3>1
  <2> QED
    BY <2>2, <2>6 DEF Reported, lines
<1>2. Inv => RepliesHold
  BY <1>1 DEF RepliesHold
<1> QED
  BY <1>2, Invariance, PTL

\* An error for an answer means that nothing was set (OnCommand).
THEOREM ErrorsHarmless == Spec => []ErrorMeansUnchanged
<1>1. Inv => ErrorMeansUnchanged
  BY DEF Inv, Sound, Reports, ErrorMeansUnchanged
<1> QED
  BY <1>1, Invariance, PTL

\* INIT-TST-CFG of a section restores all of it (init_tst_cfg).
THEOREM SectionsRestored == Spec => []InitRestoresSection
<1>1. ASSUME Inv, NEW k \in Consoles, Answered(k, "INIT-TST-CFG"), console[k].request.data = <<>>
      PROVE  \A item \in ItemsOf(console[k].request.section) \ console[k].lost :
               setting[item] = Default[item]
  <2>1. /\ IsSeq(console[k].todo) /\ Phase(console[k]) /\ Reports(console[k])
        /\ Restores(console[k])
        /\ console[k].reply = "done" /\ console[k].request.verb = "INIT-TST-CFG"
    BY <1>1 DEF Inv, Framed, Sound, Answered
  <2>2. console[k].pc = "idle" /\ console[k].todo = <<>>
    BY <2>1, NoneAssumption DEF Phase
  <2>3. console[k].request.section # Empty
    <3>1. console[k].request # None
      BY <2>1 DEF Reports
    <3> QED
      BY <2>1, <3>1 DEF Reports
  <2>4. DOMAIN console[k].todo = {}
    BY <2>2
  <2> QED
    BY <1>1, <2>1, <2>3, <2>4 DEF Restores
<1>2. Inv => InitRestoresSection
  BY <1>1 DEF InitRestoresSection
<1> QED
  BY <1>2, Invariance, PTL

\* A flag is shown with a mark exactly if its value is not the default (rtrv_tst_cfg,
\* SameAsDefault).
THEOREM MarksRight == Spec => []MarksTruthful
<1>1. ASSUME Inv, NEW k \in Consoles, Answered(k, "RTRV-TST-CFG"),
             NEW line \in Range(console[k].answer), line.item \notin console[k].lost
      PROVE  line.marked <=> line.value # Default[line.item]
  <2>1. /\ Phase(console[k]) /\ Marks(console[k]) /\ Reports(console[k])
        /\ console[k].reply = "done" /\ console[k].request.verb = "RTRV-TST-CFG"
    BY <1>1 DEF Inv, Sound, Answered
  <2>2. console[k].pc # "mark"
    BY <2>1, NoneAssumption DEF Phase
  <2>3. console[k].request # None
    BY <2>1 DEF Reports
  <2>4. PICK i \in DOMAIN console[k].answer : line = console[k].answer[i]
    BY DEF Range
  <2> QED
    BY <1>1, <2>1, <2>2, <2>3, <2>4 DEF Marks
<1>2. Inv => MarksTruthful
  BY <1>1 DEF MarksTruthful
<1> QED
  BY <1>2, Invariance, PTL

=============================================================================
