----------------------------- MODULE MCAgentExec -----------------------------
(* Values for the constants of AgentExec. *)
EXTENDS AgentExec

CONSTANTS a, b, w, x

Abs(p)  == [root |-> "/", parts |-> p]
Rel(p)  == [root |-> ".", parts |-> p]
MCHome  == Abs(<<a>>)
MCAgentCwd == Abs(<<>>)
NoEnv   == [v \in Vars |-> NoVal]
Set(val) == [v \in Vars |-> val]

Exec(s, cwd, env, timed) ==
    [kind |-> "exec", session |-> s, cwd |-> cwd, env |-> env, arg |-> NoDir, timed |-> timed]
Cd(s, arg, cwd) ==
    [kind |-> "cd", session |-> s, cwd |-> cwd, env |-> NoEnv, arg |-> arg, timed |-> FALSE]
Get    == [kind |-> "get", session |-> NoSession, cwd |-> NoDir, env |-> NoEnv, arg |-> NoDir, timed |-> FALSE]
Inline == [Get EXCEPT !.kind = "inline"]

\* Every kind of request, with every form of path.
MCBodiesMixed == { Exec("s", Abs(<<b>>), Set(w), TRUE), Cd("s", Rel(<<a>>), NoDir),
                   Exec(NoSession, NoDir, NoEnv, FALSE), Exec("t", NoDir, Set(x), FALSE),
                   Cd("t", [root |-> "~", parts |-> <<b>>], NoDir), Cd("s", NoDir, Rel(<<b>>)),
                   Cd(NoSession, Abs(<<a>>), NoDir), Get, Inline }
=============================================================================
