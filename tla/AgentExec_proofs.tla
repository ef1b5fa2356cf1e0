--------------------------- MODULE AgentExec_proofs ---------------------------
(***************************************************************************)
(* Proofs about AgentExec, for every set of requests, sessions, paths and   *)
(* variables: its invariant, and that its sessions implement SessionStore.  *)
(***************************************************************************)
EXTENDS AgentExec, TLAPS

-----------------------------------------------------------------------------
(* The data *)

\* A session nobody used is a session state.
LEMMA FreshIsState == Fresh \in State
BY SessionDataAssumption DEF Fresh, State, Cwd, Env

\* resolveCwd returns a path or nothing.
LEMMA ResolveCwdType ==
    ASSUME NEW target \in Cwd, NEW cur \in Cwd
    PROVE  ResolveCwd(target, cur) \in Cwd
<1>1. \A d \in Path, e \in Path : Join(d, e) \in Path
  BY DEF Join, Path
<1>2. CASE target = NoDir
  BY <1>2 DEF ResolveCwd, Cwd
<1>3. CASE target # NoDir
  <2>1. target \in Path
    BY <1>3 DEF Cwd
  <2>2. target.root \in {"/", ".", "~"}
    BY <2>1 DEF Path
  <2>3. (IF cur = NoDir THEN AgentCwd ELSE cur) \in Cwd
    BY SessionDataAssumption
  <2> QED
    BY <1>1, <1>3, <2>1, <2>2, <2>3, SessionDataAssumption DEF ResolveCwd, Cwd
<1> QED
  BY <1>2, <1>3

\* The directory a cd leaves is a path or nothing.
LEMMA CdResultType ==
    ASSUME NEW q \in Bodies, NEW s \in State
    PROVE  CdResult(q, s) \in Cwd
<1>1. q \in Body
  BY SessionDataAssumption
<1>2. /\ CdTarget(q, s) \in Cwd
      /\ EffectiveCwd(q, s) \in Cwd
  BY <1>1 DEF CdTarget, EffectiveCwd, Body, State
<1> QED
  BY <1>2, ResolveCwdType DEF CdResult

\* What persistSession leaves after a program that ended is a session state.
LEMMA PersistedType ==
    ASSUME NEW q \in Bodies, NEW s \in State, NEW b \in State
    PROVE  Persisted(q, s, b) \in State
<1>1. q \in Body
  BY SessionDataAssumption
<1>2. MergeEnv(s.env, q.env) \in Env
  BY <1>1 DEF MergeEnv, Env, Body, State
<1>3. (IF q.cwd # NoDir THEN EffectiveCwd(q, b) ELSE s.cwd) \in Cwd
  BY <1>1 DEF EffectiveCwd, Body, State
<1> QED
  BY <1>2, <1>3 DEF Persisted, State

-----------------------------------------------------------------------------
(* The invariant *)

\* The initial states satisfy the invariant.
LEMMA InitInv == Init => ExecInv
<1> SUFFICES ASSUME Init PROVE ExecInv
  OBVIOUS
<1>1. TypeOK
  BY FreshIsState DEF Init, TypeOK, Phases, Tracked, Holding
<1>2. OneAtATime /\ AlwaysFound /\ LocksHeld
  BY DEF Init, OneAtATime, AlwaysFound, LocksHeld, Holding, Tracked
<1>3. \A r \in Ids : Shaped(r)
  BY DEF Init, Shaped, Holding, Tracked, Unanswered
<1> QED
  BY <1>1, <1>2, <1>3 DEF ExecInv

\* Registering a new exec preserves the invariant.
LEMMA DispatchExecInv ==
    ASSUME ExecInv, NEW r \in Ids, NEW q \in Bodies, DispatchExec(r, q)
    PROVE  ExecInv'
<1> USE DEF DispatchExec, Goto, Holding, Tracked
<1>1. TypeOK'
  BY SessionDataAssumption DEF ExecInv, TypeOK, Shaped, Phases, Ending
<1>2. OneAtATime' /\ AlwaysFound' /\ LocksHeld'
  BY AgentExecAssumption DEF ExecInv, TypeOK, OneAtATime, AlwaysFound, LocksHeld, Shaped
<1>3. \A o \in Ids : Shaped(o)'
  BY AgentExecAssumption, SessionDataAssumption DEF ExecInv, TypeOK, OneAtATime, LocksHeld, Shaped, Unanswered, Body, Ending
<1> QED
  BY <1>1, <1>2, <1>3 DEF ExecInv

\* Spawning a file_get preserves the invariant.
LEMMA DispatchGetInv ==
    ASSUME ExecInv, NEW r \in Ids, NEW q \in Bodies, DispatchGet(r, q)
    PROVE  ExecInv'
<1> USE DEF DispatchGet, Goto, Holding, Tracked
<1>1. TypeOK'
  BY SessionDataAssumption DEF ExecInv, TypeOK, Shaped, Phases, Ending
<1>2. OneAtATime' /\ AlwaysFound' /\ LocksHeld'
  BY AgentExecAssumption DEF ExecInv, TypeOK, OneAtATime, AlwaysFound, LocksHeld, Shaped
<1>3. \A o \in Ids : Shaped(o)'
  BY AgentExecAssumption, SessionDataAssumption DEF ExecInv, TypeOK, OneAtATime, LocksHeld, Shaped, Unanswered, Body, Ending
<1> QED
  BY <1>1, <1>2, <1>3 DEF ExecInv

\* Answering in the loop preserves the invariant.
LEMMA DispatchInlineInv ==
    ASSUME ExecInv, NEW r \in Ids, NEW q \in Bodies, DispatchInline(r, q)
    PROVE  ExecInv'
<1> USE DEF DispatchInline, Goto, Holding, Tracked, Send
<1>1. TypeOK'
  BY SessionDataAssumption DEF ExecInv, TypeOK, Shaped, Phases, Ending
<1>2. OneAtATime' /\ AlwaysFound' /\ LocksHeld'
  BY AgentExecAssumption DEF ExecInv, TypeOK, OneAtATime, AlwaysFound, LocksHeld, Shaped
<1>3. \A o \in Ids : Shaped(o)'
  BY AgentExecAssumption, SessionDataAssumption DEF ExecInv, TypeOK, OneAtATime, LocksHeld, Shaped, Unanswered, Body, Ending
<1> QED
  BY <1>1, <1>2, <1>3 DEF ExecInv

\* A Cancel frame preserves the invariant.
LEMMA CancelReqInv ==
    ASSUME ExecInv, NEW r \in Ids, CancelReq(r)
    PROVE  ExecInv'
<1> USE DEF CancelReq, Goto, Holding, Tracked
<1>1. TypeOK'
  BY SessionDataAssumption DEF ExecInv, TypeOK, Shaped, Phases, Ending
<1>2. OneAtATime' /\ AlwaysFound' /\ LocksHeld'
  BY AgentExecAssumption DEF ExecInv, TypeOK, OneAtATime, AlwaysFound, LocksHeld, Shaped
<1>3. \A o \in Ids : Shaped(o)'
  BY AgentExecAssumption, SessionDataAssumption DEF ExecInv, TypeOK, OneAtATime, LocksHeld, Shaped, Unanswered, Body, Ending
<1> QED
  BY <1>1, <1>2, <1>3 DEF ExecInv

\* A timer preserves the invariant.
LEMMA ExpireInv ==
    ASSUME ExecInv, NEW r \in Ids, Expire(r)
    PROVE  ExecInv'
<1> USE DEF Expire, Goto, Holding, Tracked
<1>1. TypeOK'
  BY SessionDataAssumption DEF ExecInv, TypeOK, Shaped, Phases, Ending
<1>2. OneAtATime' /\ AlwaysFound' /\ LocksHeld'
  BY AgentExecAssumption DEF ExecInv, TypeOK, OneAtATime, AlwaysFound, LocksHeld, Shaped
<1>3. \A o \in Ids : Shaped(o)'
  BY AgentExecAssumption, SessionDataAssumption DEF ExecInv, TypeOK, OneAtATime, LocksHeld, Shaped, Unanswered, Body, Ending
<1> QED
  BY <1>1, <1>2, <1>3 DEF ExecInv

\* Taking the mutex preserves the invariant.
LEMMA AcquireInv ==
    ASSUME ExecInv, NEW r \in Ids, Acquire(r)
    PROVE  ExecInv'
<1> USE DEF Acquire, Goto, Holding, Tracked
<1>1. TypeOK'
  <2>1. CASE req[r].session = NoSession
    BY <2>1, FreshIsState DEF ExecInv, TypeOK, Phases
  <2>2. CASE req[r].session # NoSession
    <3>1. req[r] \in Body
      BY SessionDataAssumption DEF ExecInv, TypeOK, Shaped
    <3>2. req[r].session \in Sessions
      BY <2>2, <3>1 DEF Body
    <3> QED
      BY <2>2, <3>2 DEF ExecInv, TypeOK, Phases
  <2> QED
    BY <2>1, <2>2
<1>2. OneAtATime' /\ AlwaysFound' /\ LocksHeld'
  <2>1. req[r] \in Body
    BY SessionDataAssumption DEF ExecInv, TypeOK, Shaped
  <2>2. CASE req[r].session = NoSession
    BY <2>2, AgentExecAssumption DEF ExecInv, TypeOK, OneAtATime, AlwaysFound, LocksHeld
  <2>3. CASE req[r].session # NoSession
    <3>1. req[r].session \in Sessions
      BY <2>1, <2>3 DEF Body
    <3>2. AlwaysFound' /\ LocksHeld'
      BY <2>3, <3>1, AgentExecAssumption DEF ExecInv, TypeOK, AlwaysFound, LocksHeld
    <3>3. ASSUME NEW o \in Ids, o # r, pc[o] \in Holding, req[o].session # NoSession
          PROVE  lock'[req[o].session] = o
      BY <2>3, <3>1, <3>3, AgentExecAssumption, SessionDataAssumption DEF ExecInv, TypeOK, OneAtATime, Shaped, Body
    <3>4. OneAtATime'
      BY <2>3, <3>1, <3>3 DEF ExecInv, TypeOK, OneAtATime
    <3> QED
      BY <3>2, <3>4
  <2> QED
    BY <2>2, <2>3
<1>3. \A o \in Ids : Shaped(o)'
  BY AgentExecAssumption, SessionDataAssumption DEF ExecInv, TypeOK, OneAtATime, LocksHeld, Shaped, Unanswered, Body, Ending
<1> QED
  BY <1>1, <1>2, <1>3 DEF ExecInv

\* The built-in's write preserves the invariant.
LEMMA CdSetInv ==
    ASSUME ExecInv, NEW r \in Ids, CdSet(r)
    PROVE  ExecInv'
<1> USE DEF CdSet, Goto, Holding, Tracked
<1>0. /\ req[r] \in Bodies
      /\ req[r].session \in Sessions
      /\ base[r] \in State
      /\ sess[req[r].session] = base[r]
      /\ lock[req[r].session] = r
  BY SessionDataAssumption DEF ExecInv, TypeOK, OneAtATime, Shaped, Body, IsCd
<1>1. TypeOK'
  <2>1. CdResult(req[r], base[r]) \in Cwd
    BY <1>0, CdResultType
  <2>2. sess' \in [Sessions -> State]
    BY <1>0, <2>1 DEF ExecInv, TypeOK, State
  <2> QED
    BY <2>2 DEF ExecInv, TypeOK, Phases
<1>2. OneAtATime' /\ AlwaysFound' /\ LocksHeld'
  BY AgentExecAssumption DEF ExecInv, TypeOK, OneAtATime, AlwaysFound, LocksHeld, Shaped
<1>3. \A o \in Ids : Shaped(o)'
  <2>1. sess'[req[r].session] = Effect(req[r], base[r])
    BY <1>0 DEF ExecInv, TypeOK, Effect
  <2>2. Shaped(r)'
    BY <1>0, <2>1 DEF ExecInv, TypeOK, Shaped, Unanswered
  <2>3. ASSUME NEW o \in Ids, o # r PROVE Shaped(o)'
    <3>1. pc[o] = "cdset" => req[o].session # req[r].session
      BY <1>0, <2>3 DEF ExecInv, OneAtATime, Shaped, IsCd
    <3> QED
      BY <2>3, <3>1 DEF ExecInv, TypeOK, Shaped, Unanswered
  <2> QED
    BY <2>2, <2>3
<1> QED
  BY <1>1, <1>2, <1>3 DEF ExecInv

\* The built-in's answer preserves the invariant.
LEMMA CdReplyInv ==
    ASSUME ExecInv, NEW r \in Ids, CdReply(r)
    PROVE  ExecInv'
<1> USE DEF CdReply, Goto, Holding, Tracked, Send
<1>1. TypeOK'
  BY SessionDataAssumption DEF ExecInv, TypeOK, Shaped, Phases, Ending
<1>2. OneAtATime' /\ AlwaysFound' /\ LocksHeld'
  BY AgentExecAssumption DEF ExecInv, TypeOK, OneAtATime, AlwaysFound, LocksHeld, Shaped
<1>3. \A o \in Ids : Shaped(o)'
  BY AgentExecAssumption, SessionDataAssumption DEF ExecInv, TypeOK, OneAtATime, LocksHeld, Shaped, Unanswered, Body, Ending
<1> QED
  BY <1>1, <1>2, <1>3 DEF ExecInv

\* An Error before the program starts preserves the invariant.
LEMMA SetupFailsInv ==
    ASSUME ExecInv, NEW r \in Ids, SetupFails(r)
    PROVE  ExecInv'
<1> USE DEF SetupFails, Goto, Holding, Tracked, Send
<1>1. TypeOK'
  BY SessionDataAssumption DEF ExecInv, TypeOK, Shaped, Phases, Ending
<1>2. OneAtATime' /\ AlwaysFound' /\ LocksHeld'
  BY AgentExecAssumption DEF ExecInv, TypeOK, OneAtATime, AlwaysFound, LocksHeld, Shaped
<1>3. \A o \in Ids : Shaped(o)'
  BY AgentExecAssumption, SessionDataAssumption DEF ExecInv, TypeOK, OneAtATime, LocksHeld, Shaped, Unanswered, Body, Ending
<1> QED
  BY <1>1, <1>2, <1>3 DEF ExecInv

\* Starting the program preserves the invariant.
LEMMA StartInv ==
    ASSUME ExecInv, NEW r \in Ids, Start(r)
    PROVE  ExecInv'
<1> USE DEF Start, Goto, Holding, Tracked
<1>1. TypeOK'
  BY SessionDataAssumption DEF ExecInv, TypeOK, Shaped, Phases, Ending
<1>2. OneAtATime' /\ AlwaysFound' /\ LocksHeld'
  BY AgentExecAssumption DEF ExecInv, TypeOK, OneAtATime, AlwaysFound, LocksHeld, Shaped
<1>3. \A o \in Ids : Shaped(o)'
  BY AgentExecAssumption, SessionDataAssumption DEF ExecInv, TypeOK, OneAtATime, LocksHeld, Shaped, Unanswered, Body, Ending
<1> QED
  BY <1>1, <1>2, <1>3 DEF ExecInv

\* The program's end preserves the invariant.
LEMMA ProcExitInv ==
    ASSUME ExecInv, NEW r \in Ids, ProcExit(r)
    PROVE  ExecInv'
<1> USE DEF ProcExit, Goto, Holding, Tracked
<1>1. TypeOK'
  BY SessionDataAssumption DEF ExecInv, TypeOK, Shaped, Phases, Ending
<1>2. OneAtATime' /\ AlwaysFound' /\ LocksHeld'
  BY AgentExecAssumption DEF ExecInv, TypeOK, OneAtATime, AlwaysFound, LocksHeld, Shaped
<1>3. \A o \in Ids : Shaped(o)'
  BY AgentExecAssumption, SessionDataAssumption DEF ExecInv, TypeOK, OneAtATime, LocksHeld, Shaped, Unanswered, Body, Ending
<1> QED
  BY <1>1, <1>2, <1>3 DEF ExecInv

\* The Result preserves the invariant.
LEMMA ReplyInv ==
    ASSUME ExecInv, NEW r \in Ids, Reply(r)
    PROVE  ExecInv'
<1> USE DEF Reply, Goto, Holding, Tracked, Send
<1>1. TypeOK'
  BY SessionDataAssumption DEF ExecInv, TypeOK, Shaped, Phases, Ending, Outcome
<1>2. OneAtATime' /\ AlwaysFound' /\ LocksHeld'
  BY AgentExecAssumption DEF ExecInv, TypeOK, OneAtATime, AlwaysFound, LocksHeld, Shaped
<1>3. \A o \in Ids : Shaped(o)'
  <2>1. [res |-> Outcome(r), base |-> base[r]] \in Ending
    BY DEF ExecInv, TypeOK, Ending, Outcome
  <2>2. reply'[r] # NoReply /\ reply'[r].base = base[r]
    BY <2>1, AgentExecAssumption DEF ExecInv, TypeOK
  <2>3. Shaped(r)'
    BY <2>2 DEF ExecInv, TypeOK, Shaped, Unanswered
  <2>4. ASSUME NEW o \in Ids, o # r PROVE Shaped(o)'
    BY <2>4 DEF ExecInv, TypeOK, Shaped, Unanswered
  <2> QED
    BY <2>3, <2>4
<1> QED
  BY <1>1, <1>2, <1>3 DEF ExecInv

\* Writing the session preserves the invariant.
LEMMA PersistInv ==
    ASSUME ExecInv, NEW r \in Ids, Persist(r)
    PROVE  ExecInv'
<1> USE DEF Persist, Goto, Holding, Tracked
<1>1. TypeOK'
  <2>1. CASE reply[r].res = "ok" /\ req[r].session # NoSession
    <3>1. req[r] \in Bodies /\ req[r].session \in Sessions
      BY <2>1, SessionDataAssumption DEF ExecInv, TypeOK, Shaped, Body
    <3>2. Persisted(req[r], sess[req[r].session], base[r]) \in State
      BY <3>1, PersistedType DEF ExecInv, TypeOK
    <3> QED
      BY <2>1, <3>1, <3>2 DEF ExecInv, TypeOK, Phases
  <2>2. CASE ~(reply[r].res = "ok" /\ req[r].session # NoSession)
    BY <2>2 DEF ExecInv, TypeOK, Phases
  <2> QED
    BY <2>1, <2>2
<1>2. OneAtATime' /\ AlwaysFound' /\ LocksHeld'
  BY AgentExecAssumption DEF ExecInv, TypeOK, OneAtATime, AlwaysFound, LocksHeld, Shaped
<1>3. \A o \in Ids : Shaped(o)'
  BY AgentExecAssumption, SessionDataAssumption DEF ExecInv, TypeOK, OneAtATime, LocksHeld, Shaped, Unanswered, Body, Ending
<1> QED
  BY <1>1, <1>2, <1>3 DEF ExecInv

\* Releasing the mutex preserves the invariant.
LEMMA UnlockInv ==
    ASSUME ExecInv, NEW r \in Ids, Unlock(r)
    PROVE  ExecInv'
<1> USE DEF Unlock, Goto, Holding, Tracked
<1>1. TypeOK'
  BY SessionDataAssumption DEF ExecInv, TypeOK, Shaped, Phases, Ending
<1>2. OneAtATime' /\ AlwaysFound' /\ LocksHeld'
  <2>1. CASE req[r].session = NoSession
    <3>1. AlwaysFound' /\ LocksHeld'
      BY <2>1, AgentExecAssumption, SessionDataAssumption DEF ExecInv, TypeOK, AlwaysFound, LocksHeld
    <3>2. OneAtATime'
      BY <2>1 DEF ExecInv, TypeOK, OneAtATime
    <3> QED
      BY <3>1, <3>2
  <2>2. CASE req[r].session # NoSession
    <3>1. req[r] \in Body
      BY SessionDataAssumption DEF ExecInv, TypeOK, Shaped
    <3>2. req[r].session \in Sessions /\ lock[req[r].session] = r
      BY <2>2, <3>1 DEF ExecInv, OneAtATime, Body
    <3>3. OneAtATime' /\ AlwaysFound'
      BY <2>2, <3>2, AgentExecAssumption DEF ExecInv, TypeOK, OneAtATime, AlwaysFound
    <3>4. LocksHeld'
      BY <2>2, <3>2, AgentExecAssumption DEF ExecInv, TypeOK, OneAtATime, LocksHeld
    <3> QED
      BY <3>3, <3>4
  <2> QED
    BY <2>1, <2>2
<1>3. \A o \in Ids : Shaped(o)'
  BY AgentExecAssumption, SessionDataAssumption DEF ExecInv, TypeOK, OneAtATime, LocksHeld, Shaped, Unanswered, Body, Ending
<1> QED
  BY <1>1, <1>2, <1>3 DEF ExecInv

\* Leaving the running map preserves the invariant.
LEMMA UnregisterRunningInv ==
    ASSUME ExecInv, NEW r \in Ids, UnregisterRunning(r)
    PROVE  ExecInv'
<1> USE DEF UnregisterRunning, Goto, Holding, Tracked
<1>1. TypeOK'
  BY SessionDataAssumption DEF ExecInv, TypeOK, Shaped, Phases, Ending
<1>2. OneAtATime' /\ AlwaysFound' /\ LocksHeld'
  BY AgentExecAssumption DEF ExecInv, TypeOK, OneAtATime, AlwaysFound, LocksHeld, Shaped
<1>3. \A o \in Ids : Shaped(o)'
  BY AgentExecAssumption, SessionDataAssumption DEF ExecInv, TypeOK, OneAtATime, LocksHeld, Shaped, Unanswered, Body, Ending
<1> QED
  BY <1>1, <1>2, <1>3 DEF ExecInv

\* Leaving the WaitGroup preserves the invariant.
LEMMA DoneInv ==
    ASSUME ExecInv, NEW r \in Ids, Done(r)
    PROVE  ExecInv'
<1> USE DEF Done, Goto, Holding, Tracked
<1>1. TypeOK'
  BY SessionDataAssumption DEF ExecInv, TypeOK, Shaped, Phases, Ending
<1>2. OneAtATime' /\ AlwaysFound' /\ LocksHeld'
  BY AgentExecAssumption DEF ExecInv, TypeOK, OneAtATime, AlwaysFound, LocksHeld, Shaped
<1>3. \A o \in Ids : Shaped(o)'
  BY AgentExecAssumption, SessionDataAssumption DEF ExecInv, TypeOK, OneAtATime, LocksHeld, Shaped, Unanswered, Body, Ending
<1> QED
  BY <1>1, <1>2, <1>3 DEF ExecInv

\* Counting a file_get preserves the invariant.
LEMMA GetAddInv ==
    ASSUME ExecInv, NEW r \in Ids, GetAdd(r)
    PROVE  ExecInv'
<1> USE DEF GetAdd, Goto, Holding, Tracked
<1>1. TypeOK'
  BY SessionDataAssumption DEF ExecInv, TypeOK, Shaped, Phases, Ending
<1>2. OneAtATime' /\ AlwaysFound' /\ LocksHeld'
  BY AgentExecAssumption DEF ExecInv, TypeOK, OneAtATime, AlwaysFound, LocksHeld, Shaped
<1>3. \A o \in Ids : Shaped(o)'
  BY AgentExecAssumption, SessionDataAssumption DEF ExecInv, TypeOK, OneAtATime, LocksHeld, Shaped, Unanswered, Body, Ending
<1> QED
  BY <1>1, <1>2, <1>3 DEF ExecInv

\* Answering a file_get preserves the invariant.
LEMMA GetReplyInv ==
    ASSUME ExecInv, NEW r \in Ids, GetReply(r)
    PROVE  ExecInv'
<1> USE DEF GetReply, Goto, Holding, Tracked, Send
<1>1. TypeOK'
  BY SessionDataAssumption DEF ExecInv, TypeOK, Shaped, Phases, Ending
<1>2. OneAtATime' /\ AlwaysFound' /\ LocksHeld'
  BY AgentExecAssumption DEF ExecInv, TypeOK, OneAtATime, AlwaysFound, LocksHeld, Shaped
<1>3. \A o \in Ids : Shaped(o)'
  BY AgentExecAssumption, SessionDataAssumption DEF ExecInv, TypeOK, OneAtATime, LocksHeld, Shaped, Unanswered, Body, Ending
<1> QED
  BY <1>1, <1>2, <1>3 DEF ExecInv

\* Ending a file_get preserves the invariant.
LEMMA GetDoneInv ==
    ASSUME ExecInv, NEW r \in Ids, GetDone(r)
    PROVE  ExecInv'
<1> USE DEF GetDone, Goto, Holding, Tracked
<1>1. TypeOK'
  BY SessionDataAssumption DEF ExecInv, TypeOK, Shaped, Phases, Ending
<1>2. OneAtATime' /\ AlwaysFound' /\ LocksHeld'
  BY AgentExecAssumption DEF ExecInv, TypeOK, OneAtATime, AlwaysFound, LocksHeld, Shaped
<1>3. \A o \in Ids : Shaped(o)'
  BY AgentExecAssumption, SessionDataAssumption DEF ExecInv, TypeOK, OneAtATime, LocksHeld, Shaped, Unanswered, Body, Ending
<1> QED
  BY <1>1, <1>2, <1>3 DEF ExecInv
\* Every step preserves the invariant.
LEMMA NextInv == ExecInv /\ [ExecNext]_vars => ExecInv'
<1> SUFFICES ASSUME ExecInv, [ExecNext]_vars PROVE ExecInv'
  OBVIOUS
<1>1. ASSUME NEW r \in Ids, Dispatch(r) PROVE ExecInv'
  BY <1>1, DispatchExecInv, DispatchGetInv, DispatchInlineInv DEF Dispatch
<1>2. ASSUME NEW r \in Ids, Goes(r) PROVE ExecInv'
  BY <1>2, CdSetInv, CdReplyInv, SetupFailsInv, StartInv, ReplyInv, PersistInv, UnlockInv,
     UnregisterRunningInv, DoneInv, GetAddInv, GetReplyInv, GetDoneInv DEF Goes
<1>3. ASSUME NEW r \in Ids, CancelReq(r) \/ Expire(r) \/ Acquire(r) \/ ProcExit(r) PROVE ExecInv'
  BY <1>3, CancelReqInv, ExpireInv, AcquireInv, ProcExitInv
<1>4. CASE StdinEof \/ Drained \/ ReadError \/ UNCHANGED vars
  BY <1>4 DEF StdinEof, Drained, ReadError, vars, ExecInv, TypeOK, OneAtATime, AlwaysFound, LocksHeld,
     Shaped
<1> QED
  BY <1>1, <1>2, <1>3, <1>4 DEF ExecNext

\* The invariant holds in every reachable state, whatever the requests, the
\* sessions and their number: with it, same-session commands run one at a time
\* and every exec in flight is found by Cancel and counted by the WaitGroup.
THEOREM ExecInvariant == Spec => []ExecInv
<1>1. Init => ExecInv
  BY InitInv
<1>2. ExecInv /\ [ExecNext]_vars => ExecInv'
  BY NextInv
<1> QED
  BY <1>1, <1>2, PTL DEF Spec

-----------------------------------------------------------------------------
(* The refinement *)

\* The instance's notions of a fresh session and of a request's effect are the
\* ones of this module.
LEMMA SameData ==
    /\ Store!Fresh = Fresh
    /\ \A q, s : Store!Effect(q, s) = Effect(q, s)
BY DEF Store!Fresh, Fresh, Store!Effect, Effect, Store!IsCd, IsCd, Store!CdResult, CdResult,
       Store!CdTarget, CdTarget, Store!ResolveCwd, ResolveCwd, Store!Join, Join, Store!Persisted,
       Persisted, Store!EffectiveCwd, EffectiveCwd, Store!MergeEnv, MergeEnv

\* The store, the requests and the answers the abstract module sees.
Mapped == <<[s \in Sessions |-> Shown(s)], req, reply>>

\* A program that has not answered, and one that has released the mutex, show the
\* session as it is.
LEMMA ShownAs ==
    ASSUME ExecInv, NEW s \in Sessions
    PROVE  /\ lock[s] = NoOwner => Shown(s) = sess[s]
           /\ \A r \in Ids : lock[s] = r =>
                /\ pc[r] = "cdset" => Shown(s) = base[r]
                /\ pc[r] = "replied" /\ reply[r].res = "ok" => Shown(s) = Effect(req[r], base[r])
                /\ pc[r] # "cdset" /\ ~(pc[r] = "replied" /\ reply[r].res = "ok") => Shown(s) = sess[s]
BY AgentExecAssumption DEF Shown

\* Steps that neither take in a request nor answer one leave the store as the
\* clients see it.
LEMMA HiddenSteps ==
    ASSUME ExecInv, NEW r \in Ids,
           \/ CancelReq(r) \/ Expire(r) \/ Start(r) \/ ProcExit(r)
           \/ UnregisterRunning(r) \/ Done(r) \/ GetAdd(r) \/ GetDone(r)
    PROVE  UNCHANGED <<req, reply>> /\ \A s \in Sessions : Shown(s)' = Shown(s)
<1>1. CASE CancelReq(r) \/ Expire(r)
  BY <1>1 DEF CancelReq, Expire, Shown
<1>2. CASE Start(r) \/ ProcExit(r)
  BY <1>2 DEF Start, ProcExit, Goto, Shown, ExecInv, TypeOK
<1>3. CASE UnregisterRunning(r) \/ Done(r) \/ GetAdd(r) \/ GetDone(r)
  BY <1>3 DEF UnregisterRunning, Done, GetAdd, GetDone, Goto, Shown, ExecInv, TypeOK, LocksHeld, Holding
<1> QED
  BY <1>1, <1>2, <1>3

\* Taking the mutex shows the session as it was.
LEMMA AcquireHidden ==
    ASSUME ExecInv, NEW r \in Ids, Acquire(r)
    PROVE  UNCHANGED <<req, reply>> /\ \A s \in Sessions : Shown(s)' = Shown(s)
<1>1. req[r].session = NoSession \/ req[r].session \in Sessions
  BY SessionDataAssumption DEF Acquire, Goto, ExecInv, TypeOK, Shaped, Tracked, Body
<1> QED
  BY <1>1, AgentExecAssumption DEF Acquire, Goto, Shown, ExecInv, TypeOK, LocksHeld, Holding

\* A cd that has written but not answered still shows what it read.
LEMMA CdSetHidden ==
    ASSUME ExecInv, NEW r \in Ids, CdSet(r)
    PROVE  UNCHANGED <<req, reply>> /\ \A s \in Sessions : Shown(s)' = Shown(s)
<1>1. /\ req[r].session \in Sessions
      /\ lock[req[r].session] = r
      /\ sess[req[r].session] = base[r]
  BY SessionDataAssumption DEF CdSet, Goto, ExecInv, TypeOK, OneAtATime, Shaped, Body, IsCd, Holding, Tracked
<1>2. ASSUME NEW s \in Sessions, s # req[r].session PROVE Shown(s)' = Shown(s)
  BY <1>1, <1>2 DEF CdSet, Goto, Shown, ExecInv, TypeOK, LocksHeld, Holding
<1>3. Shown(req[r].session)' = Shown(req[r].session)
  BY <1>1, AgentExecAssumption DEF CdSet, Goto, Shown, ExecInv, TypeOK
<1> QED
  BY <1>2, <1>3 DEF CdSet, Goto

\* Persisting makes the session what the answer already showed.
LEMMA PersistHidden ==
    ASSUME ExecInv, NEW r \in Ids, Persist(r)
    PROVE  UNCHANGED <<req, reply>> /\ \A s \in Sessions : Shown(s)' = Shown(s)
<1>1. /\ req[r] \in Body
      /\ pc[r] = "replied" /\ pc'[r] = "unlock"
      /\ \A o \in Ids : o # r => pc'[o] = pc[o]
      /\ UNCHANGED <<req, reply, base, lock>>
      /\ ~IsCd(req[r])
  BY SessionDataAssumption DEF Persist, Goto, ExecInv, TypeOK, Shaped
<1>2. ASSUME NEW s \in Sessions, lock[s] # r PROVE Shown(s)' = Shown(s)
  <2>1. sess'[s] = sess[s]
    BY <1>1, <1>2 DEF Persist, ExecInv, TypeOK, OneAtATime, Holding
  <2> QED
    BY <1>1, <1>2, <2>1 DEF Shown, ExecInv, TypeOK
<1>3. ASSUME NEW s \in Sessions, lock[s] = r PROVE Shown(s)' = Shown(s)
  <2>1. req[r].session = s /\ s # NoSession /\ sess[s] = base[r] /\ r # NoOwner
    BY <1>1, <1>3, SessionDataAssumption, AgentExecAssumption
    DEF ExecInv, OneAtATime, LocksHeld, Holding
  <2>2. Shown(s)' = sess'[s]
    BY <1>1, <1>3, <2>1 DEF Shown
  <2>3. CASE reply[r].res = "ok"
    <3>1. sess'[s] = Persisted(req[r], base[r], base[r])
      BY <1>1, <2>1, <2>3 DEF Persist, ExecInv, TypeOK
    <3>2. Shown(s) = Effect(req[r], base[r])
      BY <1>1, <1>3, <2>1, <2>3 DEF Shown
    <3> QED
      BY <1>1, <2>2, <3>1, <3>2 DEF Effect
  <2>4. CASE reply[r].res # "ok"
    <3>1. sess' = sess
      BY <2>4 DEF Persist
    <3>2. Shown(s) = sess[s]
      BY <1>1, <1>3, <2>1, <2>4 DEF Shown
    <3> QED
      BY <2>2, <3>1, <3>2
  <2> QED
    BY <2>3, <2>4
<1> QED
  BY <1>1, <1>2, <1>3

\* Releasing the mutex shows the session as it is.
LEMMA UnlockHidden ==
    ASSUME ExecInv, NEW r \in Ids, Unlock(r)
    PROVE  UNCHANGED <<req, reply>> /\ \A s \in Sessions : Shown(s)' = Shown(s)
<1>1. req[r].session = NoSession \/ (req[r].session \in Sessions /\ lock[req[r].session] = r)
  BY SessionDataAssumption
  DEF Unlock, Goto, ExecInv, TypeOK, OneAtATime, Shaped, Tracked, Holding, Body
<1> QED
  BY <1>1, AgentExecAssumption, SessionDataAssumption
  DEF Unlock, Goto, Shown, ExecInv, TypeOK, LocksHeld, Holding

\* Taking a request in is the store's Submit.
LEMMA DispatchSubmits ==
    ASSUME ExecInv, NEW r \in Ids, NEW q \in Bodies,
           DispatchExec(r, q) \/ DispatchGet(r, q) \/ DispatchInline(r, q)
    PROVE  Store!Submit(r, q)
<1>1. /\ req[r] = NoReq
      /\ req' = [req EXCEPT ![r] = q]
      /\ base[r] = Fresh
  BY DEF DispatchExec, DispatchGet, DispatchInline, Goto, ExecInv, Shaped
<1>2. \A s \in Sessions : Shown(s)' = Shown(s)
  BY DEF DispatchExec, DispatchGet, DispatchInline, Goto, Send, Shown, ExecInv, TypeOK, LocksHeld, Holding
<1>3. reply' = IF q.kind = "inline" THEN [reply EXCEPT ![r] = Store!Served] ELSE reply
  BY <1>1, SameData DEF DispatchExec, DispatchGet, DispatchInline, Send, Store!Served, Store!Answer
<1> QED
  BY <1>1, <1>2, <1>3 DEF Store!Submit

\* The answer of a file_get touches no session.
LEMMA GetReplyServes ==
    ASSUME ExecInv, NEW r \in Ids, GetReply(r)
    PROVE  Store!Serve(r)
<1>1. /\ req[r] # NoReq /\ req[r].kind = "get"
      /\ reply[r] = NoReply
      /\ base[r] = Fresh
  BY DEF GetReply, Goto, ExecInv, Shaped, Unanswered
<1>2. \A s \in Sessions : Shown(s)' = Shown(s)
  BY DEF GetReply, Goto, Send, Shown, ExecInv, TypeOK, LocksHeld, Holding
<1> QED
  BY <1>1, <1>2, SameData DEF GetReply, Send, Store!Serve, Store!Open, Store!Served, Store!Answer

\* An answer that is not a success shows its session as it was.
LEMMA FailureCompletes ==
    ASSUME ExecInv, NEW r \in Ids, SetupFails(r) \/ (Reply(r) /\ Outcome(r) # "ok")
    PROVE  Store!Complete(r)
<1>0. PICK res \in {"fail", "timeout", "killed", "error"} :
        reply' = [reply EXCEPT ![r] = [res |-> res, base |-> base[r]]]
  <2>1. CASE SetupFails(r)
    BY <2>1 DEF SetupFails, Send
  <2>2. CASE Reply(r) /\ Outcome(r) # "ok"
    BY <2>2 DEF Reply, Send, Outcome
  <2> QED
    BY <2>1, <2>2
<1>1. /\ req[r] \in Body /\ req[r] # NoReq /\ req[r].kind \in {"exec", "cd"}
      /\ reply[r] = NoReply
      /\ UNCHANGED <<req, sess, lock, base>>
  BY SessionDataAssumption DEF SetupFails, Reply, Goto, Send, ExecInv, TypeOK, Shaped, Unanswered, Tracked, Holding
<1>2. \A s \in Sessions : Shown(s) = sess[s] \/ lock[s] # r
  BY DEF SetupFails, Reply, Goto, Shown
<1>3. \A s \in Sessions : Shown(s)' = Shown(s)
  BY <1>0, <1>1, <1>2 DEF SetupFails, Reply, Goto, Shown, ExecInv, TypeOK, LocksHeld, Holding
<1>4. base[r] = Store!Seen(req[r].session)
  <2>1. CASE req[r].session = NoSession
    BY <2>1, SameData DEF SetupFails, Reply, Goto, ExecInv, Shaped, Holding, Store!Seen
  <2>2. CASE req[r].session # NoSession
    <3>1. /\ req[r].session \in Sessions
          /\ lock[req[r].session] = r
          /\ sess[req[r].session] = base[r]
      BY <1>1, <2>2 DEF SetupFails, Reply, Goto, ExecInv, OneAtATime, Holding, Body
    <3> QED
      BY <1>2, <2>2, <3>1 DEF Store!Seen
  <2> QED
    BY <2>1, <2>2
<1> QED
  BY <1>0, <1>1, <1>3, <1>4 DEF Store!Complete, Store!Open, Store!Outcomes, Store!Answer

\* A success is answered with its effect shown: a cd's has been written, a
\* program's is about to be.
LEMMA SuccessCompletes ==
    ASSUME ExecInv, NEW r \in Ids, CdReply(r) \/ (Reply(r) /\ Outcome(r) = "ok")
    PROVE  Store!Complete(r)
<1>1. /\ req[r] \in Body /\ req[r] # NoReq /\ req[r].kind \in {"exec", "cd"}
      /\ reply[r] = NoReply
      /\ UNCHANGED <<req, sess, lock, base>>
      /\ reply' = [reply EXCEPT ![r] = [res |-> "ok", base |-> base[r]]]
      /\ r # NoOwner
  BY SessionDataAssumption, AgentExecAssumption
  DEF CdReply, Reply, Goto, Send, ExecInv, TypeOK, Shaped, Unanswered, Tracked, Holding
<1>2. ASSUME NEW s \in Sessions, lock[s] # r PROVE Shown(s)' = Shown(s)
  BY <1>1, <1>2 DEF CdReply, Reply, Goto, Shown, ExecInv, TypeOK
<1>3. CASE req[r].session = NoSession
  <2>1. \A s \in Sessions : lock[s] # r
    BY <1>1, <1>3, SessionDataAssumption DEF ExecInv, LocksHeld
  <2>2. base[r] = Store!Seen(req[r].session)
    BY <1>3, SameData DEF CdReply, Reply, Goto, ExecInv, Shaped, Holding, Store!Seen
  <2> QED
    BY <1>1, <1>2, <1>3, <2>1, <2>2 DEF Store!Complete, Store!Open, Store!Outcomes, Store!Answer
<1>4. CASE req[r].session # NoSession
  <2>1. PICK s \in Sessions : s = req[r].session /\ lock[s] = r
    BY <1>1, <1>4 DEF CdReply, Reply, Goto, ExecInv, OneAtATime, Holding, Body
  <2>2. \A t \in Sessions : t # s => lock[t] # r
    BY <1>1, <2>1 DEF ExecInv, LocksHeld
  <2>3. Shown(s) = base[r]
    <3>1. CASE CdReply(r)
      BY <1>1, <2>1, <3>1 DEF CdReply, Goto, Shown
    <3>2. CASE Reply(r)
      BY <1>1, <1>4, <2>1, <3>2 DEF Reply, Goto, Shown, ExecInv, OneAtATime
    <3> QED
      BY <3>1, <3>2
  <2>4. Shown(s)' = Effect(req[r], base[r])
    <3>1. CASE CdReply(r)
      BY <1>1, <2>1, <3>1 DEF CdReply, Goto, Shown, ExecInv, TypeOK, Shaped
    <3>2. CASE Reply(r)
      BY <1>1, <2>1, <3>2 DEF Reply, Goto, Shown, ExecInv, TypeOK
    <3> QED
      BY <3>1, <3>2
  <2>5. [t \in Sessions |-> Shown(t)'] = [[t \in Sessions |-> Shown(t)] EXCEPT ![s] = Effect(req[r], base[r])]
    <3>1. \A t \in Sessions : Shown(t)' = IF t = s THEN Effect(req[r], base[r]) ELSE Shown(t)
      BY <1>2, <2>1, <2>2, <2>4
    <3>2. [t \in Sessions |-> Shown(t)'] = [t \in Sessions |-> IF t = s THEN Effect(req[r], base[r]) ELSE Shown(t)]
      BY <3>1, Zenon
    <3> QED
      BY <2>1, <3>2
  <2>6. base[r] = Store!Seen(s)
    BY <1>4, <2>1, <2>3 DEF Store!Seen
  <2>7. Store!Effect(req[r], Shown(s)) = Effect(req[r], base[r])
    BY <2>3, SameData
  <2> QED
    BY <1>1, <1>4, <2>1, <2>5, <2>6, <2>7 DEF Store!Complete, Store!Open, Store!Outcomes, Store!Answer
<1> QED
  BY <1>3, <1>4

\* The agent's sessions are atomic: whatever the interleaving of goroutines,
\* timers, Cancel frames and the end of input, what clients can see is a store
\* where every request happens in one step, at its answer, and only exit code 0
\* has an effect.
THEOREM SessionsAreAtomic == Spec => SessionsAtomic
<1>1. Init => Store!StoreInit
  BY SameData DEF Init, Store!StoreInit, Shown
<1>2. ExecInv /\ [ExecNext]_vars => [Store!StoreNext]_(Store!storeVars)
  <2> SUFFICES ASSUME ExecInv, [ExecNext]_vars
               PROVE  Store!StoreNext \/ UNCHANGED Store!storeVars
    OBVIOUS
  <2> DEFINE Quiet == UNCHANGED <<req, reply>> /\ \A s \in Sessions : Shown(s)' = Shown(s)
  <2>1. Quiet => UNCHANGED Store!storeVars
    BY DEF Store!storeVars
  <2>2. ASSUME NEW r \in Ids, Dispatch(r) PROVE Store!StoreNext
    BY <2>2, DispatchSubmits DEF Dispatch, Store!StoreNext
  <2>3. ASSUME NEW r \in Ids, GetReply(r) PROVE Store!StoreNext
    BY <2>3, GetReplyServes DEF Store!StoreNext
  <2>4. ASSUME NEW r \in Ids, SetupFails(r) \/ Reply(r) \/ CdReply(r) PROVE Store!StoreNext
    <3>1. Store!Complete(r)
      <4>1. CASE SetupFails(r) \/ (Reply(r) /\ Outcome(r) # "ok")
        BY <4>1, FailureCompletes
      <4>2. CASE CdReply(r) \/ (Reply(r) /\ Outcome(r) = "ok")
        BY <4>2, SuccessCompletes
      <4> QED
        BY <2>4, <4>1, <4>2
    <3> QED
      BY <3>1 DEF Store!StoreNext
  <2>5. ASSUME NEW r \in Ids,
               \/ CancelReq(r) \/ Expire(r) \/ Acquire(r) \/ CdSet(r) \/ Start(r) \/ ProcExit(r) \/ Persist(r)
               \/ Unlock(r) \/ UnregisterRunning(r) \/ Done(r) \/ GetAdd(r) \/ GetDone(r)
        PROVE  Quiet
    BY <2>5, HiddenSteps, AcquireHidden, CdSetHidden, PersistHidden, UnlockHidden
  <2>6. (StdinEof \/ Drained \/ ReadError \/ UNCHANGED vars) => Quiet
    <3> SUFFICES ASSUME StdinEof \/ Drained \/ ReadError \/ UNCHANGED vars PROVE Quiet
      OBVIOUS
    <3>1. UNCHANGED <<req, reply, lock, sess, base, pc>>
      BY DEF StdinEof, Drained, ReadError, vars
    <3> QED
      BY <3>1 DEF Shown
  <2> QED
    BY <2>1, <2>2, <2>3, <2>4, <2>5, <2>6 DEF ExecNext, Goes
<1> QED
  BY <1>1, <1>2, ExecInvariant, PTL DEF Spec, SessionsAtomic, Store!StoreSpec

-----------------------------------------------------------------------------
(* The end of input *)

\* Once the loop has returned, nothing is counted by the WaitGroup any more.
LEMMA ExitedStaysEmpty == Spec => [](loop = "exited" => pending = {})
<1> DEFINE Empty == loop = "exited" => pending = {}
<1>1. Init => Empty
  BY DEF Init
<1>2. Empty /\ [ExecNext]_vars => Empty'
  <2> SUFFICES ASSUME Empty, [ExecNext]_vars PROVE Empty'
    OBVIOUS
  <2>1. ASSUME NEW r \in Ids, Dispatch(r) \/ Goes(r) \/ Acquire(r) \/ ProcExit(r) PROVE Empty'
    <3>1. loop # "exited" /\ loop' = loop
      BY <2>1 DEF Dispatch, DispatchExec, DispatchGet, DispatchInline, Goes, CdSet, CdReply, SetupFails,
         Start, Reply, Persist, Unlock, UnregisterRunning, Done, GetAdd, GetReply, GetDone, Acquire,
         ProcExit, Goto, Alive
    <3> QED
      BY <3>1
  <2>2. CASE (\E r \in Ids : CancelReq(r) \/ Expire(r)) \/ StdinEof \/ Drained \/ ReadError \/ UNCHANGED vars
    BY <2>2 DEF CancelReq, Expire, StdinEof, Drained, ReadError, vars
  <2> QED
    BY <2>1, <2>2 DEF ExecNext
<1> QED
  BY <1>1, <1>2, PTL DEF Spec

\* However many execs were in flight at the end of input, each has been answered
\* and has finished its deferred calls when the agent returns.
THEOREM DrainComplete == Spec => []DrainAnswersExecs
<1>1. ExecInv /\ (loop = "exited" => pending = {}) => DrainAnswersExecs
  BY DEF ExecInv, TypeOK, AlwaysFound, Shaped, Unanswered, Phases, Tracked, Holding, DrainAnswersExecs
<1> QED
  BY <1>1, ExecInvariant, ExitedStaysEmpty, PTL

=============================================================================
