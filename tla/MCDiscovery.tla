---------------------------- MODULE MCDiscovery -----------------------------
(* Instances of discovery for TLC. *)
EXTENDS Discovery

Entry(endpoint, protocol) == [kind |-> "entry", endpoint |-> endpoint, protocol |-> protocol]
Label(protocol) == [kind |-> "label", endpoint |-> "none", protocol |-> protocol]
Plain(kind) == [kind |-> kind, endpoint |-> "none", protocol |-> "none"]
String(line) == [kind |-> "string", line |-> line, meta |-> "none"]
Record(line, meta) == [kind |-> "record", line |-> line, meta |-> meta]

\* Two lists of one origin, one of them JSON, a list that has its origin for
\* itself and a file.
FourSources == <<
    [origin |-> "o1", path |-> <<"/", "a">>, gated |-> TRUE, limit |-> 2, hint |-> "none",
     json |-> FALSE],
    [origin |-> "o1", path |-> <<"/", "b">>, gated |-> TRUE, limit |-> 3, hint |-> "none",
     json |-> TRUE],
    [origin |-> "o2", path |-> <<"/", "a">>, gated |-> TRUE, limit |-> 3, hint |-> "socks5",
     json |-> FALSE],
    [origin |-> "file", path |-> <<>>, gated |-> FALSE, limit |-> 3, hint |-> "none",
     json |-> FALSE]>>

\* An agent, then its rules: ours, and one for everybody.
Rule(field, value) == [field |-> field, value |-> value]

SomeFiles ==
    [ours |-> <<Rule("user-agent", "*"), Rule("disallow", <<"/">>), Rule("user-agent", "us"),
                Rule("allow", <<"/">>), Rule("crawl-delay", 2)>>,
     both |-> <<Rule("user-agent", "us"), Rule("user-agent", "*"), Rule("disallow", <<"/">>),
                Rule("allow", <<>>), Rule("sitemap", <<"/">>),
                Rule("allow", <<"/", "b">>)>>]

\* One origin with the delay, or with a verdict that differs between its sources.
SomeServed == [o \in {"o1", "o2"} |-> IF o = "o1" THEN {"ours", "both"} ELSE {"both", "missing"}]

SomeReplies == <<
    {<<Entry("e1", "none"), Entry("malformed", "none"), Label("socks5"), Entry("e2", "none"),
       Entry("e3", "http"), Plain("markup")>>},
    {<<String(Entry("e1", "none")), Record(Entry("e2", "none"), "socks5"),
       Record(Entry("e2", "none"), "other"), Record(Entry("e1", "socks5"), "none"),
       Record(Entry("e1", "none"), "socks5"), [kind |-> "neither"]>>},
    {<<Plain("comment"), Entry("e2", "none"), Entry("e3", "http"), Entry("e3", "http")>>},
    {<<Plain("blank"), Entry("e4", "http"), Plain("prose"), Entry("e2", "unknown")>>}>>
=============================================================================
