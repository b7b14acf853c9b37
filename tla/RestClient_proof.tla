-------------------------- MODULE RestClient_proof --------------------------
(***************************************************************************)
(* The safety properties of RestClient, for any number of requests and     *)
(* sessions and any size of the pool.                                      *)
(***************************************************************************)
EXTENDS RestClient, TLAPS

USE ClientAssumption DEF ClientAssumption

(***************************************************************************)
(* A session is in at most one of these situations: in the pool, about to  *)
(* be run, running an operation, being given back, not made yet.           *)
(***************************************************************************)
InRun(s) == caller.state = "run" /\ caller.session = s
Running(s) == op[s] # "none"
Replacing(s) == \E k \in Strand : handler[s][k] = "replace"

PoolDistinct == \A i, j \in 1..Len(pool) : pool[i] = pool[j] => i = j

PooledIsFree ==
  \A i \in 1..Len(pool) :
    ~InRun(pool[i]) /\ ~Running(pool[i]) /\ ~Replacing(pool[i]) /\ pool[i] \notin unmade

RunIsFree ==
  \A s \in Session : InRun(s) => ~Running(s) /\ ~Replacing(s) /\ s \notin unmade

RunningIsBusy ==
  \A s \in Session : Running(s) => ~Replacing(s) /\ s \notin unmade

ReplacedOnce ==
  \A s \in Session :
    /\ Replacing(s) => s \notin unmade
    /\ \A k, l \in Strand : handler[s][k] = "replace" /\ handler[s][l] = "replace" => k = l

SessionInv == PoolDistinct /\ PooledIsFree /\ RunIsFree /\ RunningIsBusy /\ ReplacedOnce

(***************************************************************************)
(* A running session works for one pending request, which is no other's,   *)
(* and its callback is that request's unless it was erased.                *)
(***************************************************************************)
RunningForRequest ==
  \A s \in Session : Running(s) =>
    /\ req[s] \in Request
    /\ outcome[req[s]] = "pending"
    /\ callback[s] \in {NoRequest, req[s]}

OwnRequest ==
  \A s, t \in Session : Running(s) /\ Running(t) /\ req[s] = req[t] => s = t

CalledForRequest ==
  caller.state = "run" =>
    /\ outcome[caller.request] = "pending"
    /\ \A s \in Session : Running(s) => req[s] # caller.request

RequestInv == RunningForRequest /\ OwnRequest /\ CalledForRequest

-----------------------------------------------------------------------------
(***************************************************************************)
(* Types.                                                                  *)
(***************************************************************************)
LEMMA TypeInit == Init => TypeOK
<1> SUFFICES ASSUME Init PROVE TypeOK
  OBVIOUS
<1>1. pool \in Seq(Session) /\ Len(pool) <= PoolSize /\ unmade \subseteq Session
  BY DEF Init, PoolSize
<1>2. caller \in Caller
  BY DEF Init, Caller
<1>3. handler \in [Session -> [Strand -> {"none", "replace", "clear"}]]
  BY DEF Init
<1>4. /\ callback \in [Session -> Request \cup {NoRequest}]
      /\ req \in [Session -> Request \cup {NoRequest}]
      /\ op \in [Session -> Operation \cup {"none"}]
      /\ connected \in [Session -> BOOLEAN]
      /\ outcome \in [Request -> {"new", "pending", "answered", "failed"}]
      /\ erased \subseteq Request
  BY DEF Init
<1> QED BY <1>1, <1>2, <1>3, <1>4 DEF TypeOK

\* The session and the request of a call of get.
LEMMA CallerType ==
  ASSUME TypeOK, caller.state = "run"
  PROVE  caller.request \in Request /\ caller.session \in Session
BY DEF TypeOK, Caller

LEMMA StrandType == \A operation \in Operation : StrandOf(operation) \in Strand
BY DEF StrandOf, Strand, Operation

\* The end of a request keeps the types.
LEMMA FinishType ==
  ASSUME TypeOK, NEW s \in Session, NEW result \in {"answered", "failed"},
         op[s] # "none", Finish(s, result), connected' \in [Session -> BOOLEAN]
  PROVE  TypeOK'
<1>1. StrandOf(op[s]) \in Strand
  BY StrandType DEF TypeOK
<1>2. op' \in [Session -> Operation \cup {"none"}]
  BY DEF Finish, TypeOK
<1>3. CASE callback[s] = NoRequest
  BY <1>2, <1>3 DEF Finish, TypeOK
<1>4. CASE callback[s] # NoRequest
  <2>1. outcome' \in [Request -> {"new", "pending", "answered", "failed"}]
    BY <1>4 DEF Finish, TypeOK
  <2>2. handler' \in [Session -> [Strand -> {"none", "replace", "clear"}]]
    <3> DEFINE k == StrandOf(op[s])
               Doing == {"none", "replace", "clear"}
    <3>1. handler' = [handler EXCEPT ![s][k] = "replace"]
      BY <1>4 DEF Finish
    <3>2. handler \in [Session -> [Strand -> Doing]]
      BY DEF TypeOK
    <3> HIDE DEF k
    <3>3. [handler[s] EXCEPT ![k] = "replace"] \in [Strand -> Doing]
      BY <3>2
    <3> QED BY <3>1, <3>2, <3>3
  <2> QED BY <1>2, <2>1, <2>2 DEF Finish, TypeOK
<1> QED BY <1>3, <1>4

LEMMA TypeStep == TypeOK /\ [Next]_vars => TypeOK'
<1> SUFFICES ASSUME TypeOK, [Next]_vars PROVE TypeOK'
  OBVIOUS
<1>1. ASSUME NEW r \in Request, NEW s \in Session, Take(r, s),
             pool' \in Seq(Session), Len(pool') <= PoolSize, unmade' \subseteq Session
      PROVE  TypeOK'
  <2>1. caller' \in Caller
    BY <1>1 DEF Take, Caller
  <2>2. outcome' \in [Request -> {"new", "pending", "answered", "failed"}]
    BY <1>1 DEF Take, TypeOK
  <2> QED BY <1>1, <2>1, <2>2 DEF Take, TypeOK
<1>2. ASSUME NEW r \in Request, GetPooled(r) PROVE TypeOK'
  <2>1. /\ Head(pool) \in Session /\ Tail(pool) \in Seq(Session)
        /\ Len(Tail(pool)) <= PoolSize
    BY <1>2 DEF GetPooled, TypeOK, PoolSize
  <2> QED BY <1>1, <1>2, <2>1 DEF GetPooled, TypeOK
<1>3. ASSUME NEW r \in Request, NEW s \in Session, GetNew(r, s) PROVE TypeOK'
  BY <1>1, <1>3 DEF GetNew, TypeOK
<1>4. ASSUME caller.state = "run", SetUp(caller.session, caller.request),
             op' \in [Session -> Operation \cup {"none"}]
      PROVE  TypeOK'
  <2>1. caller' \in Caller
    BY <1>4 DEF SetUp, Caller
  <2> QED BY <1>4, <2>1, CallerType DEF SetUp, TypeOK
<1>5. CASE Run
  BY <1>4, <1>5, CallerType DEF Run, TypeOK, Operation
<1>6. CASE RunSniFails
  BY <1>4, <1>6 DEF RunSniFails, TypeOK
<1>7. ASSUME NEW s \in Session,
             onResolve(s) \/ onConnect(s) \/ onHandshake(s) \/ onWrite(s)
      PROVE  TypeOK'
  BY <1>7 DEF onResolve, onConnect, onHandshake, onWrite, Proceed, TypeOK, Operation
<1>8. ASSUME NEW s \in Session, onRead(s) PROVE TypeOK'
  BY <1>8, FinishType DEF onRead, Completes, TypeOK
<1>9. ASSUME NEW s \in Session, fail(s) PROVE TypeOK'
  <2>1. op[s] # "none" /\ connected' \in [Session -> BOOLEAN]
    BY <1>9 DEF fail, Completes, Operation, TypeOK
  <2> QED BY <1>9, <2>1, FinishType DEF fail
<1>10. ASSUME NEW s \in Session, NEW k \in Strand, Replace(s, k) PROVE TypeOK'
  <2>1. handler' \in [Session -> [Strand -> {"none", "replace", "clear"}]]
    BY <1>10 DEF Replace, TypeOK
  <2>2. pool' \in Seq(Session) /\ Len(pool') <= PoolSize
    BY <1>10 DEF Replace, TypeOK, PoolSize
  <2> QED BY <1>10, <2>1, <2>2 DEF Replace, TypeOK
<1>11. ASSUME NEW s \in Session, NEW k \in Strand, Clear(s, k) PROVE TypeOK'
  <2>1. handler' \in [Session -> [Strand -> {"none", "replace", "clear"}]]
    BY <1>11 DEF Clear, TypeOK
  <2> QED BY <1>11, <2>1 DEF Clear, TypeOK
<1>12. CASE UNCHANGED vars
  BY <1>12 DEF vars, TypeOK
<1> QED
  BY <1>2, <1>3, <1>5, <1>6, <1>7, <1>8, <1>9, <1>10, <1>11, <1>12
     DEF Next, get, Handlers

\* The state keeps its types, whatever fails.
THEOREM RestType == Spec => []TypeOK
<1>1. Init => TypeOK
  BY TypeInit
<1>2. TypeOK /\ [Next]_vars => TypeOK'
  BY TypeStep
<1> QED BY <1>1, <1>2, PTL DEF Spec

-----------------------------------------------------------------------------
(***************************************************************************)
(* Where a session is.                                                     *)
(***************************************************************************)
LEMMA SessionInit == Init => SessionInv
<1> SUFFICES ASSUME Init PROVE SessionInv
  OBVIOUS
<1>1. \A s \in Session : ~InRun(s) /\ ~Running(s) /\ ~Replacing(s)
  BY DEF Init, InRun, Running, Replacing
<1>2. \A i \in 1..Len(pool) : pool[i] \in Session /\ pool[i] \notin unmade
  BY DEF Init, PoolSize
<1>3. PoolDistinct
  BY DEF Init, PoolDistinct
<1>4. ReplacedOnce
  BY <1>1 DEF ReplacedOnce, Init
<1> QED
  BY <1>1, <1>2, <1>3, <1>4 DEF SessionInv, PooledIsFree, RunIsFree, RunningIsBusy

\* The first session of the pool is taken out, and it is nowhere else.
LEMMA PoolHead ==
  ASSUME TypeOK, SessionInv, pool # <<>>
  PROVE  /\ Head(pool) \in Session /\ Head(pool) \notin unmade
         /\ ~InRun(Head(pool)) /\ ~Running(Head(pool)) /\ ~Replacing(Head(pool))
         /\ \A i \in 1..Len(Tail(pool)) :
              i + 1 \in 1..Len(pool) /\ Tail(pool)[i] = pool[i + 1] /\ pool[i + 1] # Head(pool)
<1>1. Len(pool) \in Nat \ {0} /\ Head(pool) = pool[1] /\ 1 \in 1..Len(pool)
  BY DEF TypeOK
<1>2. Head(pool) \in Session
  BY DEF TypeOK
<1>3. /\ Head(pool) \notin unmade
      /\ ~InRun(Head(pool)) /\ ~Running(Head(pool)) /\ ~Replacing(Head(pool))
  BY <1>1 DEF SessionInv, PooledIsFree
<1>4. \A i \in 1..Len(Tail(pool)) :
        i + 1 \in 1..Len(pool) /\ Tail(pool)[i] = pool[i + 1] /\ i + 1 # 1
  BY <1>1 DEF TypeOK
<1>5. \A i \in 1..Len(Tail(pool)) : pool[i + 1] # Head(pool)
  BY <1>1, <1>4 DEF SessionInv, PoolDistinct
<1> QED BY <1>2, <1>3, <1>4, <1>5

\* Steps that only move the operations, callbacks and outcomes of sessions.
LEMMA SessionKept ==
  ASSUME TypeOK, SessionInv, UNCHANGED <<pool, unmade, caller>>,
         \A s \in Session : Running(s)' => Running(s),
         \A s \in Session, k \in Strand :
           handler'[s][k] = "replace" => handler[s][k] = "replace"
  PROVE  SessionInv'
<1>1. \A s \in Session : Replacing(s)' => Replacing(s)
  BY DEF Replacing
<1>2. \A s : InRun(s)' <=> InRun(s)
  BY DEF InRun
<1>3. \A i \in 1..Len(pool) : pool[i] \in Session
  BY DEF TypeOK
<1>4. PoolDistinct'
  BY DEF SessionInv, PoolDistinct
<1>5. PooledIsFree'
  BY <1>1, <1>2, <1>3 DEF SessionInv, PooledIsFree
<1>6. RunIsFree'
  BY <1>1, <1>2 DEF SessionInv, RunIsFree
<1>7. RunningIsBusy'
  BY <1>1 DEF SessionInv, RunningIsBusy
<1>8. ReplacedOnce'
  BY <1>1 DEF SessionInv, ReplacedOnce
<1> QED BY <1>4, <1>5, <1>6, <1>7, <1>8 DEF SessionInv

\* The end of a request: the session runs nothing any more, and is about to
\* be given back on one strand, or is lost.
LEMMA SessionFinish ==
  ASSUME TypeOK, SessionInv, NEW s \in Session, NEW result \in {"answered", "failed"},
         op[s] # "none", Finish(s, result)
  PROVE  SessionInv'
<1>0. StrandOf(op[s]) \in Strand
  BY StrandType DEF TypeOK
<1>1. \A t \in Session : Running(t)' <=> Running(t) /\ t # s
  BY DEF Finish, Running, TypeOK
<1>2. UNCHANGED <<pool, unmade, caller>>
  BY DEF Finish
<1>3. CASE callback[s] = NoRequest
  <2>1. UNCHANGED handler
    BY <1>3 DEF Finish
  <2> QED BY <1>1, <1>2, <2>1, SessionKept
<1>4. CASE callback[s] # NoRequest
  <2>1. handler' = [handler EXCEPT ![s][StrandOf(op[s])] = "replace"]
    BY <1>4 DEF Finish
  <2>2. \A t \in Session \ {s} : handler'[t] = handler[t]
    BY <2>1 DEF TypeOK
  <2>3. ~Replacing(s) /\ s \notin unmade /\ ~InRun(s)
    BY DEF SessionInv, RunningIsBusy, RunIsFree, Running
  <2>4. \A k \in Strand : handler'[s][k] = "replace" => k = StrandOf(op[s])
    BY <2>1, <2>3 DEF Replacing, TypeOK
  <2>5. \A t \in Session \ {s} : Replacing(t)' <=> Replacing(t)
    BY <2>2 DEF Replacing
  <2>6. \A t : InRun(t)' <=> InRun(t)
    BY <1>2 DEF InRun
  <2>7. \A i \in 1..Len(pool) : pool[i] \in Session /\ pool[i] # s
    BY DEF TypeOK, SessionInv, PooledIsFree, Running
  <2>8. PoolDistinct'
    BY <1>2 DEF SessionInv, PoolDistinct
  <2>9. PooledIsFree'
    BY <1>1, <1>2, <2>5, <2>6, <2>7 DEF SessionInv, PooledIsFree
  <2>10. RunIsFree'
    BY <1>1, <1>2, <2>3, <2>5, <2>6 DEF SessionInv, RunIsFree
  <2>11. RunningIsBusy'
    BY <1>1, <1>2, <2>5 DEF SessionInv, RunningIsBusy
  <2>12. ReplacedOnce'
    <3>1. \A t \in Session : Replacing(t)' => t \notin unmade'
      BY <1>2, <2>3, <2>5 DEF SessionInv, ReplacedOnce
    <3>2. \A t \in Session, k, l \in Strand :
            handler'[t][k] = "replace" /\ handler'[t][l] = "replace" => k = l
      BY <2>2, <2>4 DEF SessionInv, ReplacedOnce
    <3> QED BY <3>1, <3>2 DEF ReplacedOnce
  <2> QED BY <2>8, <2>9, <2>10, <2>11, <2>12 DEF SessionInv
<1> QED BY <1>3, <1>4

LEMMA SessionStep == TypeOK /\ SessionInv /\ [Next]_vars => SessionInv'
<1> SUFFICES ASSUME TypeOK, SessionInv, [Next]_vars PROVE SessionInv'
  OBVIOUS
<1>0. \A i \in 1..Len(pool) : pool[i] \in Session
  BY DEF TypeOK
<1>1. ASSUME NEW r \in Request, GetPooled(r) PROVE SessionInv'
  <2>1. /\ pool' = Tail(pool) /\ pool # <<>> /\ caller.state = "idle"
        /\ UNCHANGED <<unmade, op, handler>>
    BY <1>1 DEF GetPooled, Take
  <2>2. \A s : InRun(s)' <=> s = Head(pool)
    BY <1>1 DEF GetPooled, Take, InRun
  <2>3. \A s : (Running(s)' <=> Running(s)) /\ (Replacing(s)' <=> Replacing(s))
    BY <2>1 DEF Running, Replacing
  <2>4. \A s : ~InRun(s)
    BY <2>1 DEF InRun
  <2>5. \A i \in 1..Len(pool') :
          i + 1 \in 1..Len(pool) /\ pool'[i] = pool[i + 1] /\ pool'[i] # Head(pool)
    BY <2>1, PoolHead
  <2>6. PoolDistinct'
    BY <2>1, <2>5 DEF SessionInv, PoolDistinct, TypeOK
  <2>7. PooledIsFree'
    BY <2>1, <2>2, <2>3, <2>5 DEF SessionInv, PooledIsFree
  <2>8. RunIsFree'
    BY <2>1, <2>2, <2>3, PoolHead DEF SessionInv, RunIsFree
  <2>9. RunningIsBusy' /\ ReplacedOnce'
    BY <2>1, <2>3 DEF SessionInv, RunningIsBusy, ReplacedOnce
  <2> QED BY <2>6, <2>7, <2>8, <2>9 DEF SessionInv
<1>2. ASSUME NEW r \in Request, NEW s \in Session, GetNew(r, s) PROVE SessionInv'
  <2>1. /\ unmade' = unmade \ {s} /\ s \in unmade /\ caller.state = "idle"
        /\ UNCHANGED <<pool, op, handler>>
    BY <1>2 DEF GetNew, Take
  <2>2. \A t : InRun(t)' <=> t = s
    BY <1>2 DEF GetNew, Take, InRun
  <2>3. \A t : (Running(t)' <=> Running(t)) /\ (Replacing(t)' <=> Replacing(t))
    BY <2>1 DEF Running, Replacing
  <2>4. ~Running(s) /\ ~Replacing(s)
    BY <2>1 DEF SessionInv, RunningIsBusy, ReplacedOnce
  <2>5. PoolDistinct'
    BY <2>1 DEF SessionInv, PoolDistinct
  <2>6. PooledIsFree'
    BY <2>1, <2>2, <2>3 DEF SessionInv, PooledIsFree
  <2>7. RunIsFree'
    BY <2>1, <2>2, <2>3, <2>4 DEF RunIsFree
  <2>8. RunningIsBusy' /\ ReplacedOnce'
    BY <2>1, <2>3 DEF SessionInv, RunningIsBusy, ReplacedOnce
  <2> QED BY <2>5, <2>6, <2>7, <2>8 DEF SessionInv
<1>3. CASE Run
  <2> DEFINE s == caller.session
  <2>1. s \in Session /\ InRun(s)
    BY <1>3, CallerType DEF Run, InRun
  <2>2. UNCHANGED <<pool, unmade, handler>> /\ caller' = [state |-> "idle"]
    BY <1>3 DEF Run, SetUp
  <2>3. \A t \in Session : t # s => (Running(t)' <=> Running(t))
    BY <1>3 DEF Run, Running, TypeOK
  <2>4. \A t : (Replacing(t)' <=> Replacing(t)) /\ ~InRun(t)'
    BY <2>2 DEF Replacing, InRun
  <2>5. ~Replacing(s) /\ s \notin unmade /\ \A i \in 1..Len(pool) : pool[i] # s
    BY <2>1 DEF SessionInv, RunIsFree, PooledIsFree
  <2> HIDE DEF s
  <2>6. PoolDistinct'
    BY <2>2 DEF SessionInv, PoolDistinct
  <2>7. PooledIsFree'
    BY <1>0, <2>2, <2>3, <2>4, <2>5 DEF SessionInv, PooledIsFree
  <2>8. RunIsFree'
    BY <2>4 DEF RunIsFree
  <2>9. RunningIsBusy'
    BY <2>2, <2>3, <2>4, <2>5 DEF SessionInv, RunningIsBusy
  <2>10. ReplacedOnce'
    BY <2>2, <2>4 DEF SessionInv, ReplacedOnce
  <2> QED BY <2>6, <2>7, <2>8, <2>9, <2>10 DEF SessionInv
<1>4. CASE RunSniFails
  <2>1. UNCHANGED <<pool, unmade, handler, op>> /\ caller' = [state |-> "idle"]
    BY <1>4 DEF RunSniFails, SetUp
  <2>2. \A t : ~InRun(t)' /\ (Running(t)' <=> Running(t)) /\ (Replacing(t)' <=> Replacing(t))
    BY <2>1 DEF InRun, Running, Replacing
  <2>3. PoolDistinct' /\ PooledIsFree'
    BY <2>1, <2>2 DEF SessionInv, PoolDistinct, PooledIsFree
  <2>4. RunIsFree' /\ RunningIsBusy' /\ ReplacedOnce'
    BY <2>1, <2>2 DEF SessionInv, RunIsFree, RunningIsBusy, ReplacedOnce
  <2> QED BY <2>3, <2>4 DEF SessionInv
<1>5. ASSUME NEW s \in Session,
             onResolve(s) \/ onConnect(s) \/ onHandshake(s) \/ onWrite(s)
      PROVE  SessionInv'
  <2>1. UNCHANGED <<pool, unmade, handler, caller>>
    BY <1>5 DEF onResolve, onConnect, onHandshake, onWrite, Proceed
  <2>2. \A t \in Session : Running(t)' => Running(t)
    BY <1>5 DEF onResolve, onConnect, onHandshake, onWrite, Proceed, Completes,
                Running, TypeOK
  <2> QED BY <2>1, <2>2, SessionKept
<1>6. ASSUME NEW s \in Session, onRead(s) PROVE SessionInv'
  BY <1>6, SessionFinish DEF onRead, Completes
<1>7. ASSUME NEW s \in Session, fail(s) PROVE SessionInv'
  BY <1>7, SessionFinish DEF fail, Completes, Operation
<1>8. ASSUME NEW s \in Session, NEW k \in Strand, Replace(s, k) PROVE SessionInv'
  <2>1. handler' = [handler EXCEPT ![s][k] = "clear"] /\ UNCHANGED <<unmade, op, caller>>
    BY <1>8 DEF Replace
  <2>2. Replacing(s) /\ s \notin unmade
    BY <1>8 DEF Replace, Replacing, SessionInv, ReplacedOnce
  <2>3. ~InRun(s) /\ ~Running(s) /\ \A i \in 1..Len(pool) : pool[i] # s
    BY <2>2 DEF SessionInv, RunIsFree, RunningIsBusy, PooledIsFree
  <2>4. \A t \in Session, l \in Strand :
          handler'[t][l] = "replace" <=> handler[t][l] = "replace" /\ (t # s \/ l # k)
    BY <2>1 DEF TypeOK
  <2>5. ~Replacing(s)' /\ \A t \in Session : Replacing(t)' => Replacing(t)
    BY <1>8, <2>4 DEF Replace, Replacing, SessionInv, ReplacedOnce
  <2>6. \A t : (InRun(t)' <=> InRun(t)) /\ (Running(t)' <=> Running(t))
    BY <2>1 DEF InRun, Running
  <2>7. \A i \in 1..Len(pool') :
          \/ i \in 1..Len(pool) /\ pool'[i] = pool[i]
          \/ i = Len(pool) + 1 /\ pool'[i] = s
    BY <1>8 DEF Replace, TypeOK
  <2>8. PoolDistinct'
    BY <2>3, <2>7 DEF SessionInv, PoolDistinct
  <2>9. PooledIsFree'
    BY <1>0, <2>1, <2>2, <2>3, <2>5, <2>6, <2>7 DEF SessionInv, PooledIsFree
  <2>10. RunIsFree' /\ RunningIsBusy'
    BY <2>1, <2>5, <2>6 DEF SessionInv, RunIsFree, RunningIsBusy
  <2>11. ReplacedOnce'
    BY <2>1, <2>4, <2>5 DEF SessionInv, ReplacedOnce
  <2> QED BY <2>8, <2>9, <2>10, <2>11 DEF SessionInv
<1>9. ASSUME NEW s \in Session, NEW k \in Strand, Clear(s, k) PROVE SessionInv'
  <2>1. \A t \in Session, l \in Strand :
          handler'[t][l] = "replace" => handler[t][l] = "replace"
    BY <1>9 DEF Clear, TypeOK
  <2>2. \A t \in Session : Running(t)' => Running(t)
    BY <1>9 DEF Clear, Running
  <2>3. UNCHANGED <<pool, unmade, caller>>
    BY <1>9 DEF Clear
  <2> QED BY <2>1, <2>2, <2>3, SessionKept
<1>10. CASE UNCHANGED vars
  BY <1>10, SessionKept DEF vars, Running
<1> QED
  BY <1>1, <1>2, <1>3, <1>4, <1>5, <1>6, <1>7, <1>8, <1>9, <1>10 DEF Next, get, Handlers

\* A session is used by one request at a time.
LEMMA SessionEnough == TypeOK /\ SessionInv => OneUser
<1> SUFFICES ASSUME TypeOK, SessionInv PROVE OneUser
  OBVIOUS
<1>1. \A i, j \in 1..Len(pool) : op[pool[i]] = "none" /\ (pool[i] = pool[j] => i = j)
  BY DEF SessionInv, PooledIsFree, PoolDistinct, Running
<1>2. caller.state = "run" => op[caller.session] = "none" /\ ~IsPooled(caller.session)
  BY CallerType DEF SessionInv, RunIsFree, PooledIsFree, InRun, Running, IsPooled
<1> QED BY <1>1, <1>2 DEF OneUser

\* No session that an operation uses, or that get is about to run, is in the
\* pool, although its last handler may still be at work.
THEOREM SessionsHaveOneUser == Spec => []OneUser
<1>1. Init => TypeOK /\ SessionInv
  BY TypeInit, SessionInit
<1>2. TypeOK /\ SessionInv /\ [Next]_vars => TypeOK' /\ SessionInv'
  BY TypeStep, SessionStep
<1>3. TypeOK /\ SessionInv => OneUser
  BY SessionEnough
<1> QED BY <1>1, <1>2, <1>3, PTL DEF Spec

-----------------------------------------------------------------------------
(***************************************************************************)
(* What a session works for.                                               *)
(***************************************************************************)
LEMMA RequestInit == Init => RequestInv
BY DEF Init, RequestInv, RunningForRequest, OwnRequest, CalledForRequest, Running

\* A request that is new is nobody's, so that it can become pending.
LEMMA RequestTaken ==
  ASSUME TypeOK, RequestInv, NEW r \in Request, NEW s \in Session, Take(r, s)
  PROVE  RequestInv'
<1>1. \A t \in Session : Running(t)' <=> Running(t)
  BY DEF Take, Running
<1>2. \A t \in Session : Running(t) => req[t] \in Request /\ req[t] # r
  BY DEF Take, RequestInv, RunningForRequest
<1>3. outcome'[r] = "pending" /\ \A q \in Request \ {r} : outcome'[q] = outcome[q]
  BY DEF Take, TypeOK
<1>4. RunningForRequest'
  BY <1>1, <1>2, <1>3 DEF Take, RequestInv, RunningForRequest
<1>5. OwnRequest'
  BY <1>1 DEF Take, RequestInv, OwnRequest
<1>6. CalledForRequest'
  BY <1>1, <1>2, <1>3 DEF Take, CalledForRequest
<1> QED BY <1>4, <1>5, <1>6 DEF RequestInv

\* Steps that start no operation, report no request and keep the requests of the
\* sessions that run; a callback may go.
LEMMA RequestKept ==
  ASSUME RequestInv, UNCHANGED <<req, outcome>>,
         caller' = caller \/ caller'.state # "run",
         \A s \in Session : Running(s)' => Running(s),
         \A s \in Session : callback'[s] \in {NoRequest, callback[s]}
  PROVE  RequestInv'
<1>1. RunningForRequest'
  BY DEF RequestInv, RunningForRequest
<1>2. OwnRequest'
  BY DEF RequestInv, OwnRequest
<1>3. CalledForRequest'
  BY DEF RequestInv, CalledForRequest
<1> QED BY <1>1, <1>2, <1>3 DEF RequestInv

\* The request that ends is no other session's, so that all others stay pending.
LEMMA RequestFinish ==
  ASSUME TypeOK, RequestInv, NEW s \in Session, NEW result \in {"answered", "failed"},
         op[s] # "none", Finish(s, result)
  PROVE  RequestInv'
<1>1. \A t \in Session : Running(t)' <=> Running(t) /\ t # s
  BY DEF Finish, Running, TypeOK
<1>2. UNCHANGED <<callback, req, caller>>
  BY DEF Finish
<1>3. CASE callback[s] = NoRequest
  BY <1>1, <1>2, <1>3, RequestKept DEF Finish
<1>4. CASE callback[s] # NoRequest
  <2>1. callback[s] = req[s] /\ req[s] \in Request
    BY <1>4 DEF RequestInv, RunningForRequest, Running
  <2>2. \A q \in Request \ {req[s]} : outcome'[q] = outcome[q]
    BY <1>4, <2>1 DEF Finish, TypeOK
  <2>3. \A t \in Session : Running(t)' => req[t] # req[s]
    BY <1>1 DEF RequestInv, OwnRequest, Running
  <2>4. RunningForRequest'
    BY <1>1, <1>2, <2>2, <2>3 DEF RequestInv, RunningForRequest
  <2>5. OwnRequest'
    BY <1>1, <1>2 DEF RequestInv, OwnRequest
  <2>6. CalledForRequest'
    BY <1>1, <1>2, <2>2, CallerType DEF RequestInv, CalledForRequest, Running
  <2> QED BY <2>4, <2>5, <2>6 DEF RequestInv
<1> QED BY <1>3, <1>4

LEMMA RequestStep == TypeOK /\ SessionInv /\ RequestInv /\ [Next]_vars => RequestInv'
<1> SUFFICES ASSUME TypeOK, SessionInv, RequestInv, [Next]_vars PROVE RequestInv'
  OBVIOUS
<1>1. ASSUME NEW r \in Request, GetPooled(r) PROVE RequestInv'
  BY <1>1, PoolHead, RequestTaken DEF GetPooled
<1>2. ASSUME NEW r \in Request, NEW s \in Session, GetNew(r, s) PROVE RequestInv'
  BY <1>2, RequestTaken DEF GetNew
<1>3. CASE Run
  <2> DEFINE s == caller.session
             r == caller.request
  <2>1. /\ s \in Session /\ r \in Request /\ caller.state = "run"
        /\ outcome[r] = "pending" /\ \A t \in Session : Running(t) => req[t] # r
    BY <1>3, CallerType DEF Run, RequestInv, CalledForRequest
  <2>2. /\ callback' = [callback EXCEPT ![s] = r] /\ req' = [req EXCEPT ![s] = r]
        /\ caller' = [state |-> "idle"] /\ UNCHANGED outcome
    BY <1>3 DEF Run, SetUp
  <2>3. op' = [op EXCEPT ![s] = IF connected[s] THEN "write" ELSE "resolve"]
    BY <1>3 DEF Run
  <2> HIDE DEF s, r
  <2>4. callback'[s] = r /\ req'[s] = r
    BY <2>1, <2>2 DEF TypeOK
  <2>5. \A t \in Session \ {s} :
          callback'[t] = callback[t] /\ req'[t] = req[t] /\ (Running(t)' <=> Running(t))
    BY <2>2, <2>3 DEF TypeOK, Running
  <2>6. RunningForRequest'
    BY <2>1, <2>2, <2>4, <2>5 DEF RequestInv, RunningForRequest
  <2>7. OwnRequest'
    BY <2>1, <2>4, <2>5 DEF RequestInv, OwnRequest
  <2>8. CalledForRequest'
    BY <2>2 DEF CalledForRequest
  <2> QED BY <2>6, <2>7, <2>8 DEF RequestInv
<1>4. CASE RunSniFails
  <2> DEFINE s == caller.session
  <2>1. s \in Session /\ ~Running(s)
    BY <1>4, CallerType DEF RunSniFails, SessionInv, RunIsFree, InRun
  <2>2. /\ callback' = [callback EXCEPT ![s] = caller.request]
        /\ req' = [req EXCEPT ![s] = caller.request]
        /\ caller' = [state |-> "idle"] /\ UNCHANGED <<outcome, op>>
    BY <1>4 DEF RunSniFails, SetUp
  <2> HIDE DEF s
  <2>3. \A t \in Session : Running(t)' =>
          Running(t) /\ callback'[t] = callback[t] /\ req'[t] = req[t]
    BY <2>1, <2>2 DEF TypeOK, Running
  <2>4. RunningForRequest'
    BY <2>2, <2>3 DEF RequestInv, RunningForRequest
  <2>5. OwnRequest'
    BY <2>3 DEF RequestInv, OwnRequest
  <2>6. CalledForRequest'
    BY <2>2 DEF CalledForRequest
  <2> QED BY <2>4, <2>5, <2>6 DEF RequestInv
<1>5. ASSUME NEW s \in Session,
             onResolve(s) \/ onConnect(s) \/ onHandshake(s) \/ onWrite(s)
      PROVE  RequestInv'
  <2>1. UNCHANGED <<req, outcome, callback, caller>>
    BY <1>5 DEF onResolve, onConnect, onHandshake, onWrite, Proceed
  <2>2. \A t \in Session : Running(t)' => Running(t)
    BY <1>5 DEF onResolve, onConnect, onHandshake, onWrite, Proceed, Completes,
                Running, TypeOK
  <2> QED BY <2>1, <2>2, RequestKept
<1>6. ASSUME NEW s \in Session, onRead(s) PROVE RequestInv'
  BY <1>6, RequestFinish DEF onRead, Completes
<1>7. ASSUME NEW s \in Session, fail(s) PROVE RequestInv'
  BY <1>7, RequestFinish DEF fail, Completes, Operation
<1>8. ASSUME NEW s \in Session, NEW k \in Strand, Replace(s, k) PROVE RequestInv'
  BY <1>8, RequestKept DEF Replace, Running
<1>9. ASSUME NEW s \in Session, NEW k \in Strand, Clear(s, k) PROVE RequestInv'
  <2>1. \A t \in Session : callback'[t] \in {NoRequest, callback[t]}
    BY <1>9 DEF Clear, TypeOK
  <2> QED BY <1>9, <2>1, RequestKept DEF Clear, Running
<1>10. CASE UNCHANGED vars
  BY <1>10, RequestKept DEF vars, Running
<1> QED
  BY <1>1, <1>2, <1>3, <1>4, <1>5, <1>6, <1>7, <1>8, <1>9, <1>10 DEF Next, get, Handlers

\* A response is only ever reported to the request it answers, and no request
\* is reported twice, however handlers of one session and its next use overlap.
THEOREM AnswersAreRight == Spec => []RightRequest
<1>1. Init => TypeOK /\ SessionInv /\ RequestInv
  BY TypeInit, SessionInit, RequestInit
<1>2. TypeOK /\ SessionInv /\ RequestInv /\ [Next]_vars
        => TypeOK' /\ SessionInv' /\ RequestInv'
  BY TypeStep, SessionStep, RequestStep
<1>3. RequestInv => RightRequest
  BY DEF RequestInv, RunningForRequest, Running, RightRequest, Reported
<1> QED BY <1>1, <1>2, <1>3, PTL DEF Spec
=============================================================================
