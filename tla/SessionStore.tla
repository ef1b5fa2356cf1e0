----------------------------- MODULE SessionStore -----------------------------
(***************************************************************************)
(* What the agent promises about sessions, without its goroutines: every    *)
(* session is one value, and a request is one atomic step that reads the    *)
(* session, answers, and (only when the answer is exit code 0) leaves its   *)
(* effect there.  AgentExec, with its lock, its built-in that writes before *)
(* it answers and its programs that persist after they answered, is shown   *)
(* to implement this module.                                                *)
(***************************************************************************)
EXTENDS SessionData

CONSTANTS
    Ids,        \* request ids
    NoReq,      \* no request under this id yet
    NoReply     \* not answered yet

VARIABLES
    store,      \* store[s]: the state of session s
    asked,      \* asked[r]: the request the agent took in under id r
    answer      \* answer[r]: the terminal frame sent for r

storeVars == <<store, asked, answer>>

\* How an answer may end; only "ok" is a Result with exit code 0.
Outcomes == {"ok", "fail", "timeout", "killed", "error"}

\* What a request of session s sees when it runs.
Seen(s) == IF s = NoSession THEN Fresh ELSE store[s]

Answer(res, base) == [res |-> res, base |-> base]

\* An answer to a request that has no session semantics (file_get, file_stat,
\* a malformed request).
Served == Answer("served", Fresh)

StoreInit ==
    /\ store = [s \in Sessions |-> Fresh]
    /\ asked = [r \in Ids |-> NoReq]
    /\ answer = [r \in Ids |-> NoReply]

Submit(r, q) ==
    /\ asked[r] = NoReq
    /\ asked' = [asked EXCEPT ![r] = q]
    /\ answer' = IF q.kind = "inline" THEN [answer EXCEPT ![r] = Served] ELSE answer
    /\ UNCHANGED store

Open(r) == asked[r] # NoReq /\ answer[r] = NoReply

\* A file_get is answered without touching any session.
Serve(r) ==
    /\ Open(r)
    /\ asked[r].kind = "get"
    /\ answer' = [answer EXCEPT ![r] = Served]
    /\ UNCHANGED <<store, asked>>

\* An exec or cd runs, answers and takes effect, all at once.
Complete(r) ==
    /\ Open(r)
    /\ asked[r].kind \in {"exec", "cd"}
    /\ \E res \in Outcomes :
         LET q == asked[r] IN
         /\ answer' = [answer EXCEPT ![r] = Answer(res, Seen(q.session))]
         /\ store' = IF res = "ok" /\ q.session # NoSession
                     THEN [store EXCEPT ![q.session] = Effect(q, store[q.session])]
                     ELSE store
    /\ UNCHANGED asked

StoreNext ==
    \E r \in Ids : Serve(r) \/ Complete(r) \/ \E q \in Bodies : Submit(r, q)

StoreSpec == StoreInit /\ [][StoreNext]_storeVars
=============================================================================
