------------------------------ MODULE AgentExec ------------------------------
(***************************************************************************)
(* The exec side of rsb-agent (cmd/rsb-agent/main.go): one read loop that   *)
(* dispatches requests, one goroutine per exec or file_get, a mutex per     *)
(* session, a context per exec that a timer or a Cancel frame ends, and a   *)
(* WaitGroup the loop waits for when its stdin ends.  The bytes a command   *)
(* reads and writes are in AgentIO, file_put is in FilePut.                 *)
(***************************************************************************)
EXTENDS SessionData

CONSTANTS Ids, NoReq, NoReply,
    NoOwner     \* a session mutex nobody holds

\* How a request may end: a Result of code 0, of another code, with the
\* signal TIMEOUT or another one; an Error frame; or an answer to a request that
\* has nothing to do with sessions.
Ending == [res : {"ok", "fail", "timeout", "killed", "error", "served"}, base : State]

ASSUME AgentExecAssumption ==
    /\ NoReq \notin Body
    /\ NoOwner \notin Ids
    /\ NoReply \notin Ending

VARIABLES
    loop,       \* the read loop: "reading", "draining" (pending.Wait), "exited", "crashed" (log.Fatalf)
    pc,         \* pc[r]: where the goroutine of request r is
    req,        \* req[r]: the request read under id r
    ctx,        \* ctx[r]: the exec's context: "live", "cancelled", "expired"
    code,       \* code[r]: what cmd.Wait returned
    lock,       \* lock[s]: the request holding session s's mutex
    sess,       \* sess[s]: the agent's sessions map
    base,       \* base[r]: the session state r read under the mutex
    running,    \* keys of the agent's running map
    pending,    \* requests counted by the pending WaitGroup
    reply       \* reply[r]: the terminal frame written for r

vars == <<loop, pc, req, ctx, code, lock, sess, base, running, pending, reply>>

\* Phases of an exec goroutine from dispatch to the end of its deferred calls.
Holding == {"setup", "cdset", "running", "exited", "replied", "unlock"}
Tracked == {"queued"} \cup Holding \cup {"unregister"}
Phases  == {"idle", "spawned", "getting", "getsent", "cancel", "finished"} \cup Tracked

Alive == loop \in {"reading", "draining"}

Init ==
    /\ loop = "reading"
    /\ pc = [r \in Ids |-> "idle"]
    /\ req = [r \in Ids |-> NoReq]
    /\ ctx = [r \in Ids |-> "live"]
    /\ code = [r \in Ids |-> "none"]
    /\ lock = [s \in Sessions |-> NoOwner]
    /\ sess = [s \in Sessions |-> Fresh]
    /\ base = [r \in Ids |-> Fresh]
    /\ running = {}
    /\ pending = {}
    /\ reply = [r \in Ids |-> NoReply]

Goto(r, from, to) ==
    /\ Alive
    /\ pc[r] = from
    /\ pc' = [pc EXCEPT ![r] = to]

Send(r, res) == reply' = [reply EXCEPT ![r] = [res |-> res, base |-> base[r]]]

-----------------------------------------------------------------------------
(* The read loop *)

\* Mutant of DispatchExec: the goroutine counts itself, when it gets to run.
DispatchUncounted(r, q) ==
    /\ loop = "reading"
    /\ q.kind \in {"exec", "cd"}
    /\ Goto(r, "idle", "queued")
    /\ req' = [req EXCEPT ![r] = q]
    /\ running' = running \cup {r}
    /\ UNCHANGED <<loop, ctx, code, lock, sess, base, pending, reply>>

\* dispatchExec: the context and both registrations are in place before the
\* goroutine exists.
DispatchExec(r, q) ==
    /\ loop = "reading"
    /\ q.kind \in {"exec", "cd"}
    /\ Goto(r, "idle", "queued")
    /\ req' = [req EXCEPT ![r] = q]
    /\ running' = running \cup {r}
    /\ pending' = pending \cup {r}
    /\ UNCHANGED <<loop, ctx, code, lock, sess, base, reply>>

\* `go a.handleFileGet(req)`: the goroutine counts itself, later.
DispatchGet(r, q) ==
    /\ loop = "reading"
    /\ q.kind = "get"
    /\ Goto(r, "idle", "spawned")
    /\ req' = [req EXCEPT ![r] = q]
    /\ UNCHANGED <<loop, ctx, code, lock, sess, base, running, pending, reply>>

\* file_stat, an empty argv and an unknown type are answered by the loop.
DispatchInline(r, q) ==
    /\ loop = "reading"
    /\ q.kind = "inline"
    /\ Goto(r, "idle", "finished")
    /\ req' = [req EXCEPT ![r] = q]
    /\ Send(r, "served")
    /\ UNCHANGED <<loop, ctx, code, lock, sess, base, running, pending>>

\* A Cancel frame; it finds its target only while r is in the running map.
CancelReq(r) ==
    /\ loop = "reading"
    /\ r \in running
    /\ ctx[r] = "live"
    /\ ctx' = [ctx EXCEPT ![r] = "cancelled"]
    /\ UNCHANGED <<loop, pc, req, code, lock, sess, base, running, pending, reply>>

\* stdin ends: the loop waits for the WaitGroup, then returns from run.
StdinEof ==
    /\ loop = "reading"
    /\ loop' = "draining"
    /\ UNCHANGED <<pc, req, ctx, code, lock, sess, base, running, pending, reply>>

Drained ==
    /\ loop = "draining"
    /\ pending = {}
    /\ loop' = "exited"
    /\ UNCHANGED <<pc, req, ctx, code, lock, sess, base, running, pending, reply>>

\* Any other read error, a truncated frame for one, is fatal at once.
ReadError ==
    /\ loop = "reading"
    /\ loop' = "crashed"
    /\ UNCHANGED <<pc, req, ctx, code, lock, sess, base, running, pending, reply>>

-----------------------------------------------------------------------------
(* The timer of a context made with a timeout; it runs from dispatch on *)

Expire(r) ==
    /\ Alive
    /\ pc[r] \in Tracked \cup {"cancel"}
    /\ req[r].timed
    /\ ctx[r] = "live"
    /\ ctx' = [ctx EXCEPT ![r] = "expired"]
    /\ UNCHANGED <<loop, pc, req, code, lock, sess, base, running, pending, reply>>

-----------------------------------------------------------------------------
(* The goroutine of an exec *)

\* resolveSession and sess.mu.Lock; a request without a session gets a fresh
\* session nobody else can see.
Acquire(r) ==
    LET s == req[r].session IN
    /\ Goto(r, "queued", "setup")
    /\ IF s = NoSession
       THEN base' = [base EXCEPT ![r] = Fresh] /\ UNCHANGED lock
       ELSE /\ lock[s] = NoOwner
            /\ lock' = [lock EXCEPT ![s] = r]
            /\ base' = [base EXCEPT ![r] = sess[s]]
    /\ UNCHANGED <<loop, req, ctx, code, sess, running, pending, reply>>

\* cd resolves and the directory exists: the session moves before the answer.
CdSet(r) ==
    /\ Goto(r, "setup", "cdset")
    /\ IsCd(req[r])
    /\ CdResult(req[r], base[r]) # NoDir
    /\ sess' = [sess EXCEPT ![req[r].session].cwd = CdResult(req[r], base[r])]
    /\ UNCHANGED <<loop, req, ctx, code, lock, base, running, pending, reply>>

CdReply(r) ==
    /\ Goto(r, "cdset", "unlock")
    /\ Send(r, "ok")
    /\ UNCHANGED <<loop, req, ctx, code, lock, sess, base, running, pending>>

\* Mutant of SetupFails: an early return above the deferred Unlock.
SetupFailsLocked(r) ==
    /\ Goto(r, "setup", "unregister")
    /\ Send(r, "error")
    /\ UNCHANGED <<loop, req, ctx, code, lock, sess, base, running, pending>>

\* cd fails; or no container, no such program, no pipe, or Start fails, which it
\* also does when the context is already done.
SetupFails(r) ==
    /\ Goto(r, "setup", "unlock")
    /\ Send(r, "error")
    /\ UNCHANGED <<loop, req, ctx, code, lock, sess, base, running, pending>>

Start(r) ==
    /\ Goto(r, "setup", "running")
    /\ ~IsCd(req[r])
    /\ ctx[r] = "live"
    /\ UNCHANGED <<loop, req, ctx, code, lock, sess, base, running, pending, reply>>

\* The process ends and cmd.Wait returns: nil, an ExitError with a status or a
\* signal, or the context's error when the kill found a process that had
\* already exited cleanly.
ProcExit(r) ==
    /\ Goto(r, "running", "exited")
    /\ \E c \in {"zero", "nonzero", "signal"} \cup (IF ctx[r] # "live" THEN {"ctxerr"} ELSE {}) :
         code' = [code EXCEPT ![r] = c]
    /\ UNCHANGED <<loop, req, ctx, lock, sess, base, running, pending, reply>>

\* An expired context turns any ending into TIMEOUT.
Outcome(r) ==
    CASE ctx[r] = "expired"                          -> "timeout"
      [] ctx[r] # "expired" /\ code[r] = "zero"      -> "ok"
      [] ctx[r] # "expired" /\ code[r] = "signal"    -> "killed"
      [] OTHER                                       -> "fail"

\* The Result frame goes out first ...
Reply(r) ==
    /\ Goto(r, "exited", "replied")
    /\ Send(r, Outcome(r))
    /\ UNCHANGED <<loop, req, ctx, code, lock, sess, base, running, pending>>

\* Mutant of Persist: a failed command moves its session too.
PersistAlways(r) ==
    LET s == req[r].session IN
    /\ Goto(r, "replied", "unlock")
    /\ sess' = IF s # NoSession
               THEN [sess EXCEPT ![s] = Persisted(req[r], sess[s], base[r])]
               ELSE sess
    /\ UNCHANGED <<loop, req, ctx, code, lock, base, running, pending, reply>>

\* ... then the session is written, if the exit code was 0, still under its
\* mutex.
Persist(r) ==
    LET s == req[r].session IN
    /\ Goto(r, "replied", "unlock")
    /\ sess' = IF reply[r].res = "ok" /\ s # NoSession
               THEN [sess EXCEPT ![s] = Persisted(req[r], sess[s], base[r])]
               ELSE sess
    /\ UNCHANGED <<loop, req, ctx, code, lock, base, running, pending, reply>>

\* Mutant of Unlock: at the end of the successful path instead of deferred.
UnlockOnSuccess(r) ==
    LET s == req[r].session IN
    /\ Goto(r, "unlock", "unregister")
    /\ lock' = IF s = NoSession \/ reply[r].res # "ok" THEN lock ELSE [lock EXCEPT ![s] = NoOwner]
    /\ UNCHANGED <<loop, req, ctx, code, sess, base, running, pending, reply>>

\* The deferred calls: Unlock, unregisterRunning, cancel and Done.
Unlock(r) ==
    LET s == req[r].session IN
    /\ Goto(r, "unlock", "unregister")
    /\ lock' = IF s = NoSession THEN lock ELSE [lock EXCEPT ![s] = NoOwner]
    /\ UNCHANGED <<loop, req, ctx, code, sess, base, running, pending, reply>>

UnregisterRunning(r) ==
    /\ Goto(r, "unregister", "cancel")
    /\ running' = running \ {r}
    /\ UNCHANGED <<loop, req, ctx, code, lock, sess, base, pending, reply>>

Done(r) ==
    /\ Goto(r, "cancel", "finished")
    /\ pending' = pending \ {r}
    /\ UNCHANGED <<loop, req, ctx, code, lock, sess, base, running, reply>>

-----------------------------------------------------------------------------
(* The goroutine of a file_get *)

GetAdd(r) ==
    /\ Goto(r, "spawned", "getting")
    /\ pending' = pending \cup {r}
    /\ UNCHANGED <<loop, req, ctx, code, lock, sess, base, running, reply>>

\* The last FileChunk and the Result, or an Error.
GetReply(r) ==
    /\ Goto(r, "getting", "getsent")
    /\ Send(r, "served")
    /\ UNCHANGED <<loop, req, ctx, code, lock, sess, base, running, pending>>

GetDone(r) ==
    /\ Goto(r, "getsent", "finished")
    /\ pending' = pending \ {r}
    /\ UNCHANGED <<loop, req, ctx, code, lock, sess, base, running, reply>>

-----------------------------------------------------------------------------
\* What r's goroutine does by itself, without a lock, a process or a timer to
\* wait for.
Goes(r) ==
    \/ CdSet(r) \/ CdReply(r) \/ SetupFails(r) \/ Start(r) \/ Reply(r) \/ Persist(r)
    \/ Unlock(r) \/ UnregisterRunning(r) \/ Done(r)
    \/ GetAdd(r) \/ GetReply(r) \/ GetDone(r)

Dispatch(r) == \E q \in Bodies : DispatchExec(r, q) \/ DispatchGet(r, q) \/ DispatchInline(r, q)

ExecNext ==
    \/ \E r \in Ids : Dispatch(r) \/ CancelReq(r) \/ Expire(r) \/ Acquire(r) \/ ProcExit(r) \/ Goes(r)
    \/ StdinEof \/ Drained \/ ReadError

Spec == Init /\ [][ExecNext]_vars

\* Fairness the code justifies: a goroutine that can run does; Go's mutex hands
\* itself to a waiter it starved; timers fire; a process the context killed
\* ends.  A process nobody kills may run for ever, and nothing makes clients
\* send or stop sending frames.
Killed(r) == ctx[r] # "live" /\ ProcExit(r)
ExecFairness ==
    /\ \A r \in Ids : WF_vars(Goes(r)) /\ SF_vars(Acquire(r)) /\ WF_vars(Expire(r)) /\ WF_vars(Killed(r))
    /\ WF_vars(Drained)

FairSpec == Spec /\ ExecFairness

-----------------------------------------------------------------------------
(* Properties *)

\* Every variable has its type.
TypeOK ==
    /\ loop \in {"reading", "draining", "exited", "crashed"}
    /\ pc \in [Ids -> Phases]
    /\ req \in [Ids -> Bodies \cup {NoReq}]
    /\ ctx \in [Ids -> {"live", "cancelled", "expired"}]
    /\ code \in [Ids -> {"none", "zero", "nonzero", "signal", "ctxerr"}]
    /\ lock \in [Sessions -> Ids \cup {NoOwner}]
    /\ sess \in [Sessions -> State]
    /\ base \in [Ids -> State]
    /\ running \subseteq Ids
    /\ pending \subseteq Ids
    /\ reply \in [Ids -> Ending \cup {NoReply}]

\* A session's mutex is held exactly by the one exec that is between Lock and
\* Unlock, so what it read stays true until it writes (the comment on `session`:
\* "same-session requests run one at a time").
OneAtATime ==
    /\ \A r \in Ids : pc[r] \in Holding /\ req[r].session # NoSession => lock[req[r].session] = r
    /\ \A r \in Ids : pc[r] \in {"setup", "running", "exited", "replied"} /\ req[r].session # NoSession
         => sess[req[r].session] = base[r]

\* When the agent leaves run after end of input, every exec it ever read has
\* been answered and its effect is in the session: pending.Wait covers the
\* whole of each goroutine, from before it exists.
DrainAnswersExecs ==
    loop = "exited" => \A r \in Ids : req[r] # NoReq /\ req[r].kind \in {"exec", "cd"}
                                        => pc[r] = "finished" /\ reply[r] # NoReply

\* The agent's sessions behave as the atomic store: a request in flight is
\* invisible, a cd counts from its answer on although it is written earlier, and
\* a program's cwd and environment count from its answer on although they are
\* written later.
Shown(s) ==
    IF lock[s] = NoOwner THEN sess[s]
    ELSE LET r == lock[s] IN
         CASE pc[r] = "cdset"                             -> base[r]
           [] pc[r] = "replied" /\ reply[r].res = "ok"    -> Effect(req[r], base[r])
           [] OTHER                                       -> sess[s]

Store == INSTANCE SessionStore WITH
    store <- [s \in Sessions |-> Shown(s)], asked <- req, answer <- reply
SessionsAtomic == Store!StoreSpec

\* A Cancel or Stdin frame for an exec that has not ended finds it (the comment
\* on unregisterRunning), and the WaitGroup counts it.
AlwaysFound == \A r \in Ids :
    /\ pc[r] \in Tracked => r \in running
    /\ pc[r] \in Tracked \cup {"cancel"} => r \in pending

\* The invariant behind the others: a goroutine's request, answer and base go
\* with its phase, a mutex is only held by a goroutine that will release it, and
\* a cd between its write and its answer has written exactly its effect.
Unanswered == {"idle", "queued", "setup", "cdset", "running", "exited", "spawned", "getting"}
Shaped(r) ==
    /\ pc[r] = "idle" <=> req[r] = NoReq
    /\ pc[r] \in {"spawned", "getting", "getsent"} => req[r].kind = "get"
    /\ pc[r] \in Tracked \cup {"cancel"} => req[r].kind \in {"exec", "cd"}
    /\ pc[r] \in {"idle", "queued", "spawned", "getting"} => base[r] = Fresh
    /\ pc[r] \in Holding /\ req[r].session = NoSession => base[r] = Fresh
    /\ reply[r] = NoReply <=> pc[r] \in Unanswered
    /\ pc[r] = "cdset" => IsCd(req[r]) /\ sess[req[r].session] = Effect(req[r], base[r])
    /\ pc[r] \in {"running", "exited", "replied"} => ~IsCd(req[r])
    /\ pc[r] = "replied" => reply[r].base = base[r]
LocksHeld == \A s \in Sessions : lock[s] # NoOwner => pc[lock[s]] \in Holding /\ req[lock[s]].session = s
ExecInv == TypeOK /\ OneAtATime /\ AlwaysFound /\ LocksHeld /\ \A r \in Ids : Shaped(r)

\* An exec with a timeout, or a cd, is answered however long programs would run,
\* unless a read error kills the agent or its session is asked for by a program
\* that has no timeout: a goroutine that waits for a mutex is not timed out.
Endless(r) == req[r] # NoReq /\ ~req[r].timed /\ ~IsCd(req[r])
Shares(o, r) == req[r] # NoReq /\ req[r].session # NoSession /\ req[o].session = req[r].session
TimedAnswered == \A r \in Ids :
    (pc[r] = "queued" /\ ~Endless(r))
        ~> \/ reply[r] # NoReply \/ loop = "crashed"
           \/ \E o \in Ids : Endless(o) /\ Shares(o, r)

\* CHANGELOG 0.2.0: at end of input `pending.Wait()` waits for all in-flight
\* requests.  A file_get counts itself only once its goroutine runs.
DrainAnswersAll ==
    loop = "exited" => \A r \in Ids : req[r] # NoReq => reply[r] # NoReply
=============================================================================
