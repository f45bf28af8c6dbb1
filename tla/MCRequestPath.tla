---------------------------- MODULE MCRequestPath ----------------------------
(***************************************************************************)
(* RequestPath on small limits.  A request varies its key and body over    *)
(* every name, or its key and the name over every content.                 *)
(***************************************************************************)
EXTENDS RequestPath

CONSTANT Marked     \* how many markers a state may hold

Config(keys, foreign, allowNoAuth, loopback) ==
    [keys |-> keys, foreign |-> foreign, allowNoAuth |-> allowNoAuth, loopback |-> loopback]

\* Three keyed servers, one of them with a key beside its own that no token can be
\* compared with, a key that is blank on a public address and on loopback, and a
\* server that is open on purpose.
MCConfigs ==
    { Config({"k1"}, TRUE, FALSE, FALSE), Config({"k2", Blank}, FALSE, FALSE, FALSE),
      Config({"k1", "accented"}, TRUE, FALSE, FALSE),
      Config({Blank}, TRUE, FALSE, FALSE), Config({Blank}, TRUE, FALSE, TRUE),
      Config({}, TRUE, TRUE, FALSE) }

Headers ==
    { [scheme |-> "absent", token |-> Blank], [scheme |-> "bearer", token |-> Blank],
      [scheme |-> "basic", token |-> "k1"], [scheme |-> "bearer", token |-> "k1"],
      [scheme |-> "bearer", token |-> "k2"], [scheme |-> "bearer", token |-> "accented"] }

Name(prefixed, base, upper) ==
    [prefixed |-> prefixed, base |-> base, versioned |-> prefixed, upper |-> upper]

Names ==
    {ModelId(e) : e \in Engines} \cup
    { Name(FALSE, "laya", TRUE), Name(FALSE, "kev-latest", FALSE),
      Name(FALSE, "jev-latest", TRUE), Name(TRUE, "jev-latest", FALSE) }

Question(ins, opt, n) == [ins |-> ins, opt |-> opt, n |-> n]

\* At the limits of laya's head (20) and sequence (30), kev's state (8) and
\* branch (22), jeff's prompt (26) and everybody's three options.
Questions ==
    { {Question(1, 2, 2)}, {Question(4, 5, 2)}, {Question(18, 2, 1)}, {Question(2, 0, 0)},
      {Question(3, 4, 4)}, {Question(1, 2, 2), Question(12, 6, 1)} }

Contents ==
    { [text |-> t, marks |-> m, questions |-> qs] :
        t \in {0, 6, 7, 12}, m \in 0..Marked, qs \in Questions }

Plain == [text |-> 2, marks |-> 0, questions |-> {Question(1, 2, 2)}]

Request(header, path, body, model, content) ==
    [header |-> header, path |-> path, body |-> body, model |-> model,
     text |-> content.text, marks |-> content.marks, questions |-> content.questions]

MCRequests ==
    { Request(h, "systemone", b, m, Plain) : h \in Headers,
          b \in {"small", "large", "malformed"}, m \in Names }
    \cup
    { Request(h, "models", b, ModelId("laya"), Plain) : h \in Headers, b \in {"small", "large"} }
    \cup
    { Request(h, "systemone", "small", ModelId(e), c) :
          h \in {g \in Headers : g.scheme = "bearer" /\ g.token \in {"k1", "k2"}}, e \in Engines, c \in Contents }
=============================================================================
