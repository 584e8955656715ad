------------------------------ MODULE MCSettings ------------------------------
(* Small instances of Settings for TLC. *)
EXTENDS Settings, TLC

Symmetry == Permutations(Consoles)

\* The sample configuration, and one that switches a timeout off and misspells
\* its log level.
SampleFiles ==
    {"session.inactivity.timeout" :> 120000 @@ "http.response.timeout" :> 5000 @@ "LEVEL" :> "DEBUG",
     "http.response.timeout" :> 0 @@ "LEVEL" :> "LOUD" @@ "CERT" :> "cert.pem"}

SampleTexts == {Empty, "plan", "cert.pem", "key.pem"}

Request(verb, section, data) == [verb |-> verb, section |-> section, data |-> data]

ChangeFlags ==
    {Request("CHG-TST-CFG", "TOGGLE", <<Line("transaction-per-minute", "ON"), Line("tpt-plan", "maybe"),
                                        Line("tpt-plan", "ON"), Line("transaction-per-minute", "OFF")>>),
     Request("CHG-TST-CFG", "TOGGLE", <<Line("tpt-plan", "ON"), Line("keep-connections", "ON"),
                                        Line("transaction-per-minute", "ON")>>),
     Request("CHG-TST-CFG", "TOGGLE", <<Line("tpt-plan", "maybe")>>),
     Request("CHG-TST-CFG", "NUMBER", <<Line("keep-connections", 0)>>),
     Request("CHG-TST-CFG", "LETTER", <<Line("tpt-plan-file", "plan")>>),
     Request("CHG-TST-CFG", Empty, <<Line("tpt-plan", "ON")>>)}

RestoreFlags ==
    {Request("INIT-TST-CFG", "TOGGLE", <<>>), Request("INIT-TST-CFG", "NUMBER", <<>>),
     Request("INIT-TST-CFG", "TOGGLE", <<Line("transaction-per-minute", Empty), Line("unknown", Empty)>>),
     Request("INIT-TST-CFG", "TIMER", <<>>)}

ShowFlags == {Request("RTRV-TST-CFG", Empty, <<>>), Request("RTRV-TST-CFG", "TOGGLE", <<>>)}

Environment ==
    {Request("CHG-ENV", "TIMER", <<Line("http.response.timeout", 0), Line("trigger.unsubscription", 1),
                                   Line("session.inactivity.timeout", 2)>>),
     Request("CHG-ENV", "LOG", <<Line("LLT", "ON"), Line("LEVEL", "LOUD")>>),
     Request("CHG-ENV", "LOG", <<Line("LLT", "OFF"), Line("LEVEL", "ERROR")>>),
     Request("RTRV-ENV", Empty, <<>>), Request("CHG-ENV", Empty, <<>>), Request("RTRV-ENV", "TLS", <<>>)}

Quiet == ChangeFlags \cup RestoreFlags \cup ShowFlags \cup Environment \cup
         {Request("INIT-TST-CFG", Empty, <<>>), Request("CHG-ENV", "TLS", <<Line("KEY", "key.pem")>>)}

InitAll == ChangeFlags \cup {Request("INIT-TST-CFG", Empty, <<>>)}
=============================================================================
