------------------------------- MODULE MCLoop -------------------------------
EXTENDS TurnLoop

CONSTANT Shapes   \* the sequences of calls a reply may make

MCTools == {"fetch", "write", "submit", "mail", "phase_set"}

Says(says, finish) ==
    [intents |-> <<>>, says |-> says, finish |-> finish, malformed |-> FALSE]

C(t) == [tool |-> t, arg |-> "a"]
Bad(t) == [tool |-> t, arg |-> "bad"]
To(p) == [tool |-> "phase_set", arg |-> p]

ShapesCommon ==
    {<<C("fetch")>>, <<C("write")>>, <<C("fetch"), C("write")>>, <<C("write"), C("fetch")>>,
     <<C("write"), Bad("fetch")>>, <<C("submit"), Bad("mail"), C("fetch")>>, <<C("fetch"), To("narrow")>>}

ShapesPhase == {<<C("write")>>, <<C("write"), To("narrow")>>}

MCReplies ==
    {[intents |-> s, says |-> "nothing", finish |-> "stop", malformed |-> FALSE] : s \in Shapes}
    \cup {[intents |-> <<C("write")>>, says |-> "prose", finish |-> "length", malformed |-> TRUE],
          Says("prose", "stop"), Says("promise", "stop"), Says("nothing", "length"),
          Says("prose", "length"), Says("nothing", "refusal")}

\* The catalogue of phase narrow keeps the write, or hides it.
VisibleKeeps == [home |-> MCTools, narrow |-> {"phase_set", "write"}]
VisibleHides == [home |-> MCTools, narrow |-> {"phase_set", "fetch"}]

P(mode, onMutate, approver, write, defer, stranger) ==
    [rule |-> [t \in MCTools |-> IF t = "write" THEN write
                             ELSE IF t = "submit" THEN "deny" ELSE "none"], mode |-> mode,
     onMutate |-> onMutate, approver |-> approver, noApprover |-> "allow", defer |-> defer,
     stranger |-> stranger]

MCPolicies ==
    {P("ask", "confirm", TRUE, "none", FALSE, FALSE),
     P("allow", "refuse", FALSE, "none", FALSE, FALSE),
     P("ask", "confirm", FALSE, "allow", FALSE, TRUE),
     P("allow", "refuse", FALSE, "none", TRUE, TRUE)}
=============================================================================
