----------------------------- MODULE RestClient -----------------------------
(***************************************************************************)
(* RestClient and HttpsSession: requests on pooled HTTPS sessions.  One    *)
(* thread calls get (the engine on its client, the renderer on the         *)
(* candlestick store's); sixteen asio threads run the completion handlers. *)
(* A session serialises its handlers on two strands, the resolver's and    *)
(* the stream's; get runs on neither.                                      *)
(*                                                                         *)
(* The handler that ends a request gives the session back to the pool from *)
(* inside the callback, and clears callback_ afterwards: two steps that    *)
(* another request on the same session may come between.                   *)
(***************************************************************************)
EXTENDS Integers, Sequences

CONSTANTS
  Request,    \* calls of get
  NoRequest,  \* an empty callback_
  Session,    \* HttpsSession objects that can ever be made
  Pooled      \* those the pool is filled with, oldest first

ASSUME ClientAssumption ==
  /\ NoRequest \notin Request
  /\ Pooled \in Seq(Session)
  /\ \A i, j \in 1..Len(Pooled) : Pooled[i] = Pooled[j] => i = j

VARIABLES
  pool,      \* connection_pool_, first in first out
  unmade,    \* sessions that do not exist yet
  callback,  \* callback_, named by the request it reports to
  req,       \* req_
  op,        \* the asynchronous operation under way
  connected, \* is_connected_
  handler,   \* what the final handler of each strand has still to do
  caller,    \* the call of get under way
  outcome,   \* what became of each request
  erased     \* ghost: requests whose callback was cleared before it ran

vars == <<pool, unmade, callback, req, op, connected, handler, caller, outcome, erased>>

Strand == {"resolver", "stream"}
Operation == {"resolve", "connect", "handshake", "write", "read"}
PoolSize == Len(Pooled)  \* HTTPS_SESSION_POOL_SIZE
IsPooled(s) == \E i \in 1..Len(pool) : pool[i] = s

\* The thread that calls get: between calls, or about to run a session.
Caller == [state : {"idle"}]
          \cup [state : {"run"}, request : Request, session : Session]

TypeOK ==
  /\ pool \in Seq(Session) /\ Len(pool) <= PoolSize
  /\ unmade \subseteq Session
  /\ callback \in [Session -> Request \cup {NoRequest}]
  /\ req \in [Session -> Request \cup {NoRequest}]
  /\ op \in [Session -> Operation \cup {"none"}]
  /\ connected \in [Session -> BOOLEAN]
  /\ handler \in [Session -> [Strand -> {"none", "replace", "clear"}]]
  /\ caller \in Caller
  /\ outcome \in [Request -> {"new", "pending", "answered", "failed"}]
  /\ erased \subseteq Request

Init ==
  /\ pool = Pooled
  /\ unmade = {s \in Session : \A i \in 1..PoolSize : Pooled[i] # s}
  /\ callback = [s \in Session |-> NoRequest]
  /\ req = [s \in Session |-> NoRequest]
  /\ op = [s \in Session |-> "none"]
  /\ connected = [s \in Session |-> FALSE]
  /\ handler = [s \in Session |-> [k \in Strand |-> "none"]]
  /\ caller = [state |-> "idle"]
  /\ outcome = [r \in Request |-> "new"]
  /\ erased = {}

(***************************************************************************)
(* RestClient::get: a pooled session, or a new one when the pool is empty  *)
(* or looks so while a handler is in the middle of replace.                *)
(***************************************************************************)
Take(r, s) ==
  /\ caller.state = "idle"
  /\ outcome[r] = "new"
  /\ outcome' = [outcome EXCEPT ![r] = "pending"]
  /\ caller' = [state |-> "run", request |-> r, session |-> s]
  /\ UNCHANGED <<callback, req, op, connected, handler, erased>>

\* Mutant: the session stays in the pool.
MutGetPooled(r) ==
  /\ pool # <<>>
  /\ Take(r, Head(pool))
  /\ UNCHANGED <<pool, unmade>>

GetPooled(r) ==
  /\ pool # <<>>
  /\ Take(r, Head(pool))
  /\ pool' = Tail(pool)
  /\ UNCHANGED unmade

GetNew(r, s) ==
  /\ pool = <<>> \/ \E h \in Session, k \in Strand : handler[h][k] = "replace"
  /\ s \in unmade
  /\ Take(r, s)
  /\ unmade' = unmade \ {s}
  /\ UNCHANGED pool

(***************************************************************************)
(* HttpsSession::run.                                                      *)
(***************************************************************************)
\* Mutant: a callback that is still there is kept.
MutSetUp(s, r) ==
  /\ callback' = [callback EXCEPT ![s] = IF @ = NoRequest THEN r ELSE @]
  /\ req' = [req EXCEPT ![s] = r]
  /\ caller' = [state |-> "idle"]
  /\ UNCHANGED <<pool, unmade, connected, handler, outcome, erased>>

SetUp(s, r) ==
  /\ callback' = [callback EXCEPT ![s] = r]
  /\ req' = [req EXCEPT ![s] = r]
  /\ caller' = [state |-> "idle"]
  /\ UNCHANGED <<pool, unmade, connected, handler, outcome, erased>>

Run ==
  /\ caller.state = "run"
  /\ LET s == caller.session
     IN  /\ SetUp(s, caller.request)
         /\ op' = [op EXCEPT ![s] = IF connected[s] THEN "write" ELSE "resolve"]

\* The early return when the host name cannot be set: nobody holds the session.
RunSniFails ==
  /\ caller.state = "run"
  /\ ~connected[caller.session]
  /\ SetUp(caller.session, caller.request)
  /\ UNCHANGED op

(***************************************************************************)
(* Completion handlers.  Handlers of one strand do not overlap.            *)
(***************************************************************************)
StrandOf(operation) == IF operation = "resolve" THEN "resolver" ELSE "stream"

Completes(s, operation) ==
  /\ op[s] = operation
  /\ handler[s][StrandOf(operation)] = "none"

Proceed(s, operation, next) ==
  /\ Completes(s, operation)
  /\ op' = [op EXCEPT ![s] = next]
  /\ UNCHANGED <<pool, unmade, callback, req, handler, caller, outcome, erased>>

onResolve(s) == Proceed(s, "resolve", "connect") /\ UNCHANGED connected
onConnect(s) == Proceed(s, "connect", "handshake") /\ UNCHANGED connected
onHandshake(s) ==
  /\ Proceed(s, "handshake", "write")
  /\ connected' = [connected EXCEPT ![s] = TRUE]
onWrite(s) == Proceed(s, "write", "read") /\ UNCHANGED connected

\* The request is over.  Its callback, if it is still there, reports the
\* outcome; without one the last reference to the session goes.
Finish(s, result) ==
  LET k == StrandOf(op[s])
  IN  /\ op' = [op EXCEPT ![s] = "none"]
      /\ IF callback[s] = NoRequest
         THEN UNCHANGED <<outcome, handler>>
         ELSE /\ outcome' = [outcome EXCEPT ![callback[s]] = result]
              /\ handler' = [handler EXCEPT ![s][k] = "replace"]
      /\ UNCHANGED <<pool, unmade, callback, req, caller, erased>>

\* A response with status 200 is parsed and queued, any other one is not.
onRead(s) ==
  /\ Completes(s, "read")
  /\ \E result \in {"answered", "failed"} : Finish(s, result)
  /\ UNCHANGED connected

\* Mutant: only an error of the connection is reported.
MutFail(s) ==
  /\ \E operation \in Operation : Completes(s, operation)
  /\ connected' = [connected EXCEPT ![s] = FALSE]
  /\ IF connected[s]
     THEN Finish(s, "failed")
     ELSE /\ op' = [op EXCEPT ![s] = "none"]
          /\ callback' = [callback EXCEPT ![s] = NoRequest]
          /\ UNCHANGED <<pool, unmade, req, caller, outcome, handler, erased>>

fail(s) ==
  /\ \E operation \in Operation : Completes(s, operation)
  /\ connected' = [connected EXCEPT ![s] = FALSE]
  /\ Finish(s, "failed")

\* The rest of the final handler: replace inside the callback, then the end
\* of onRead or fail.
Replace(s, k) ==
  /\ handler[s][k] = "replace"
  /\ handler' = [handler EXCEPT ![s][k] = "clear"]
  /\ pool' = IF Len(pool) < PoolSize THEN Append(pool, s) ELSE pool
  /\ UNCHANGED <<unmade, callback, req, op, connected, caller, outcome, erased>>

Clear(s, k) ==
  /\ handler[s][k] = "clear"
  /\ handler' = [handler EXCEPT ![s][k] = "none"]
  /\ callback' = [callback EXCEPT ![s] = NoRequest]
  /\ erased' = erased \cup {r \in Request : r = callback[s] /\ outcome[r] = "pending"}
  /\ UNCHANGED <<pool, unmade, req, op, connected, caller, outcome>>

get ==
  \/ \E r \in Request : GetPooled(r) \/ \E s \in Session : GetNew(r, s)
  \/ Run \/ RunSniFails

Handlers(s) ==
  \/ onResolve(s) \/ onConnect(s) \/ onHandshake(s) \/ onWrite(s)
  \/ onRead(s) \/ fail(s)
  \/ \E k \in Strand : Replace(s, k) \/ Clear(s, k)

Next == get \/ \E s \in Session : Handlers(s)

Spec == Init /\ [][Next]_vars

\* The calling thread finishes its call, and every operation completes: the
\* exchange answers or the connection fails, for there is no time-out.
FairSpec == Spec /\ WF_vars(Run \/ RunSniFails)
                 /\ \A s \in Session : WF_vars(Handlers(s))

-----------------------------------------------------------------------------
(***************************************************************************)
(* Properties.                                                             *)
(***************************************************************************)
Reported(r) == outcome[r] \in {"answered", "failed"}

\* A session is used by one request at a time: no operation is under way on a
\* session that the pool may hand out or that get is about to run, although
\* the handler of its last request may still be running.
OneUser ==
  /\ \A i, j \in 1..Len(pool) :
       op[pool[i]] = "none" /\ (pool[i] = pool[j] => i = j)
  /\ caller.state = "run" =>
       op[caller.session] = "none" /\ ~IsPooled(caller.session)

\* A response is only ever reported to the request it answers, and no request
\* is reported twice.
RightRequest ==
  \A s \in Session : op[s] # "none" /\ callback[s] # NoRequest =>
    callback[s] = req[s] /\ ~Reported(req[s])

\* SSL_set_tlsext_host_name failed: run returned with nothing under way, and
\* nobody holds the session any more.
Unsent(r) == \E s \in Session : callback[s] = r /\ op[s] = "none"

\* Every request is reported, whichever step of it fails.  There are two ways
\* to lose one: run returns early when the host name cannot be set, and the
\* handler of the request before may erase its callback (a "Thread safe
\* connection pool", rest_client.hpp:37, does not make its sessions safe).
Answered ==
  \A r \in Request : outcome[r] = "pending" ~> Reported(r) \/ r \in erased \/ Unsent(r)
=============================================================================
