----------------------------- MODULE SessionData -----------------------------
(***************************************************************************)
(* The data of an agent session: the working directory and environment a   *)
(* `session` keeps (cmd/rsb-agent/main.go), how a request reads them, and   *)
(* what a successful request leaves behind.  No state of its own: the       *)
(* concurrent agent (AgentExec) and the abstract store (SessionStore) both  *)
(* extend this module, so they agree on what "the effect of a command" is.  *)
(***************************************************************************)
EXTENDS Sequences

CONSTANTS
    Sessions,   \* session names clients use
    NoSession,  \* a request without --session (req.Session == "")
    Names,      \* path components
    NoDir,      \* the empty string where a path is expected
    Home,       \* $HOME of the agent process, NoDir when it is not set
    AgentCwd,   \* the agent process's own working directory
    Vars,       \* environment variable names
    Vals,       \* their values
    NoVal,      \* a variable that is not set
    Bodies      \* the request bodies clients send

\* A path is written "/a/b", "a/b" or "~/a"; `root` says which.
Path == [root : {"/", ".", "~"}, parts : Seq(Names)]
Cwd  == Path \cup {NoDir}
Env  == [Vars -> Vals \cup {NoVal}]

\* What a session keeps between commands.
State == [cwd : Cwd, env : Env]

\* A session nobody used yet, and the private session of a request without one.
Fresh == [cwd |-> NoDir, env |-> [v \in Vars |-> NoVal]]

\* The fields of protocol.Request the session logic looks at.  `kind` is what
\* the agent's dispatch makes of Type and Argv[0]: "exec" a program, "cd" the
\* built-in, "get" a file_get, "inline" what the read loop answers itself
\* (file_stat, an empty argv, an unknown type).  `arg` is the argument of cd.
Body == [kind : {"exec", "cd", "get", "inline"}, session : Sessions \cup {NoSession},
         cwd : Cwd, env : Env, arg : Cwd, timed : BOOLEAN]

ASSUME SessionDataAssumption ==
    /\ NoSession \notin Sessions
    /\ NoDir \notin Path
    /\ NoVal \notin Vals
    /\ Home \in Cwd
    /\ AgentCwd \in Cwd
    /\ Bodies \subseteq Body

-----------------------------------------------------------------------------
\* The request's own cwd overrides the session's.
EffectiveCwd(q, s) == IF q.cwd # NoDir THEN q.cwd ELSE s.cwd

\* The session's variables, then the request's overrides.
MergeEnv(old, new) == [v \in Vars |-> IF new[v] # NoVal THEN new[v] ELSE old[v]]

Join(dir, rel) == [root |-> dir.root, parts |-> dir.parts \o rel.parts]

\* A cd target made absolute; NoDir when it cannot be.  A relative target is
\* appended to the current directory without cleaning it, so a relative
\* current directory gives a relative result.
ResolveCwd(target, cur) ==
    LET from == IF cur = NoDir THEN AgentCwd ELSE cur IN
    CASE target = NoDir   -> NoDir
      [] target # NoDir /\ target.root = "~" -> IF Home = NoDir THEN NoDir ELSE Join(Home, target)
      [] target # NoDir /\ target.root = "/" -> target
      [] OTHER            -> IF from = NoDir THEN NoDir ELSE Join(from, target)

\* The built-in is honoured only in a session; elsewhere "cd" is a program name.
IsCd(q) == q.kind = "cd" /\ q.session # NoSession

\* `cd` without an argument means the effective directory itself.
CdTarget(q, s) == IF q.arg # NoDir THEN q.arg ELSE EffectiveCwd(q, s)

CdResult(q, s) == ResolveCwd(CdTarget(q, s), EffectiveCwd(q, s))

\* What a successful program leaves in its session: an explicit cwd and its
\* environment.
Persisted(q, s, base) ==
    [cwd |-> IF q.cwd # NoDir THEN EffectiveCwd(q, base) ELSE s.cwd,
     env |-> MergeEnv(s.env, q.env)]

\* What a successful request does to a session it found in state s.
Effect(q, s) ==
    IF IsCd(q) THEN [s EXCEPT !.cwd = CdResult(q, s)] ELSE Persisted(q, s, s)
=============================================================================
