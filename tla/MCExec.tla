------------------------------- MODULE MCExec -------------------------------
(* thlibo exec and thlibo compress on a small instance: every kind of        *)
(* processor, on both sides of every threshold of decide.                    *)
EXTENDS Exec

MCNative == {"ndjson-filter", "cordon-filter", "pdf-filter"}
MCScript == {"pdf-to-md", "user's cordon-filter", "user's script"}
MCPrompt == {"compress", "shorthand", "casefolder"}
MCSignature == {"pdf-filter", "pdf-to-md", "user's script"}
MCRoutable == {"compress", "user's script"}
MCBuiltin == MCNative \cup MCPrompt \cup {"pdf-to-md"}
MCNdjson == {"ndjson-filter"}
MCCordon == {"cordon-filter", "user's cordon-filter"}

\* The registry's order; a user's script is installed under a name of its own,
\* before all others.
MCOrder ==
  <<"user's script", "casefolder", "compress", "cordon-filter", "user's cordon-filter",
    "ndjson-filter", "pdf-filter", "pdf-to-md", "shorthand">>

MCRank ==
  [p \in MCNative \cup MCScript \cup MCPrompt |->
    CHOOSE n \in DOMAIN MCOrder : MCOrder[n] = p]

MCStrangers == {"ghost"}

\* No registry, one without routable processors, the builtins, the builtins
\* without the cordon filter, and with the user's in its place.
MCRegistries ==
  { {},
    {"shorthand"},
    MCBuiltin,
    MCBuiltin \ {"cordon-filter", "pdf-filter"},
    (MCBuiltin \ {"cordon-filter"}) \cup {"user's cordon-filter", "user's script"} }

Printed(b, l) == [src |-> "tool", bytes |-> b, lines |-> l]

\* Sizes around 2000 bytes, 30 lines (61 lines make 5% fall between 3 and 4)
\* and 64 MiB; texts nobody, one or several claim; all three forms.
Case(t, f, m) == [text |-> t, form |-> f, matched |-> m]

MCInputs ==
  { Case(Printed(0, 0), "text", {}),
    Case(Printed(1999, 61), "text", {"ndjson-filter"}),
    Case(Printed(2000, 29), "text", {"ndjson-filter"}),
    Case(Printed(2500, 61), "text", {"ndjson-filter", "casefolder"}),
    Case(Printed(2500, 61), "text", {"casefolder"}),
    Case(Printed(2500, 61), "text", {}),
    Case(Printed(2500, 61), "structured", {}),
    Case(Printed(2500, 61), "structured", {"ndjson-filter"}),
    Case(Printed(2500, 61), "text", {"ndjson-filter", "pdf-filter", "user's script"}),
    Case(Printed(2500, 61), "binary", {"ndjson-filter"}),
    Case(Printed(2500, 61), "binary", {"ndjson-filter", "pdf-filter", "pdf-to-md"}),
    Case(Printed(ReadLimit + 1, 61), "text", {}) }

Size(b, l) == [bytes |-> b, lines |-> l]

MCSizes ==
  {Size(0, 0), Size(1, 0), Size(400, 2), Size(900, 3), Size(1200, 4), Size(3000, 70)}

PolicyFile(f, d, a, def) == [file |-> f, deny |-> d, allow |-> a, default |-> def]

MCPolicies ==
  { PolicyFile("missing", {}, {}, "allow"),
    PolicyFile("invalid", {}, {}, "allow"),
    PolicyFile("valid", {"matches"}, {"matches"}, "allow"),
    PolicyFile("valid", {"malformed"}, {"differs"}, "deny"),
    PolicyFile("valid", {"differs"}, {"matches"}, "deny") }

MCFates == {-1, 0, 3}
=============================================================================
