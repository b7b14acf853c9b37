------------------------------ MODULE SeqLock ------------------------------
(***************************************************************************)
(* SeqLockWrapper: one writer (the engine), any number of lock-free        *)
(* readers.  Every load and store of the sequence number is a step, and so *)
(* is every word of the protected data, which a reader may copy while the  *)
(* writer's modifier runs.  A write sets every word to the sequence number *)
(* it is going to publish.                                                 *)
(*                                                                         *)
(* Steps are sequentially consistent, as the loads and the stores of the   *)
(* x64 build are.  The engine is the only caller of write, so writer_lock_ *)
(* is free whenever a write begins.                                        *)
(***************************************************************************)
EXTENDS Integers

CONSTANTS
  Reader,     \* threads that call read
  Word,       \* words of the protected object
  MaxWrites   \* bound: calls of write

ASSUME SeqLockAssumption == MaxWrites \in Nat

VARIABLES
  seq,      \* seq_
  data,     \* data_
  wpc,      \* the writer: between writes, or inside the modifier
  unwritten,\* words the modifier has still to set
  rpc,      \* each reader's position in read
  seq0,     \* local of read
  seq1,     \* local of read
  snapshot, \* local of read
  uncopied, \* words this pass has still to copy
  begun     \* ghost: seq when read was called

writerVars == <<seq, data, wpc, unwritten>>
readerVars == <<rpc, seq0, seq1, snapshot, uncopied, begun>>
lockVars == <<writerVars, readerVars>>

Even(n) == n % 2 = 0

SeqNumber == 0..(2 * MaxWrites)
Content == [Word -> SeqNumber]
Initially == [w \in Word |-> 0]

LockTypeOK ==
  /\ seq \in SeqNumber
  /\ data \in Content
  /\ wpc \in {"idle", "modify"}
  /\ unwritten \in SUBSET Word
  /\ rpc \in [Reader -> {"idle", "load", "copy", "test", "done"}]
  /\ seq0 \in [Reader -> SeqNumber]
  /\ seq1 \in [Reader -> SeqNumber]
  /\ snapshot \in [Reader -> Content]
  /\ uncopied \in [Reader -> SUBSET Word]
  /\ begun \in [Reader -> SeqNumber]

LockInit ==
  /\ seq = 0
  /\ data = Initially
  /\ wpc = "idle"
  /\ unwritten = {}
  /\ rpc = [r \in Reader |-> "idle"]
  /\ seq0 = [r \in Reader |-> 0]
  /\ seq1 = [r \in Reader |-> 0]
  /\ snapshot = [r \in Reader |-> Initially]
  /\ uncopied = [r \in Reader |-> {}]
  /\ begun = [r \in Reader |-> 0]

(***************************************************************************)
(* write(modifier)                                                         *)
(***************************************************************************)
\* Mutant: the modifier runs before the sequence number is made odd.
MutWriteBegin ==
  /\ wpc = "idle"
  /\ seq < 2 * MaxWrites
  /\ wpc' = "modify"
  /\ unwritten' = Word
  /\ UNCHANGED <<seq, data, readerVars>>

WriteBegin ==
  /\ wpc = "idle"
  /\ seq < 2 * MaxWrites
  /\ seq' = seq + 1
  /\ wpc' = "modify"
  /\ unwritten' = Word
  /\ UNCHANGED <<data, readerVars>>

WriteWord(w) ==
  /\ wpc = "modify"
  /\ w \in unwritten
  /\ data' = [data EXCEPT ![w] = seq + 1]
  /\ unwritten' = unwritten \ {w}
  /\ UNCHANGED <<seq, wpc, readerVars>>

WriteEnd ==
  /\ wpc = "modify"
  /\ unwritten = {}
  /\ seq' = seq + 1
  /\ wpc' = "idle"
  /\ UNCHANGED <<data, unwritten, readerVars>>

(***************************************************************************)
(* read(reader).  The "continue" of an odd seq0 goes to the condition of   *)
(* the do-while loop, which compares it with the seq1 of an earlier pass.  *)
(***************************************************************************)
Goto(r, to) == rpc' = [rpc EXCEPT ![r] = to]

\* Mutant: seq1 outlives the call.
MutReadCall(r) ==
  /\ rpc[r] = "idle"
  /\ Goto(r, "load")
  /\ seq0' = [seq0 EXCEPT ![r] = 0]
  /\ snapshot' = [snapshot EXCEPT ![r] = Initially]
  /\ begun' = [begun EXCEPT ![r] = seq]
  /\ UNCHANGED <<writerVars, seq1, uncopied>>

ReadCall(r) ==
  /\ rpc[r] = "idle"
  /\ Goto(r, "load")
  /\ seq0' = [seq0 EXCEPT ![r] = 0]
  /\ seq1' = [seq1 EXCEPT ![r] = 0]
  /\ snapshot' = [snapshot EXCEPT ![r] = Initially]
  /\ begun' = [begun EXCEPT ![r] = seq]
  /\ UNCHANGED <<writerVars, uncopied>>

LoadOdd(r) ==
  /\ rpc[r] = "load"
  /\ ~Even(seq)
  /\ seq0' = [seq0 EXCEPT ![r] = seq]
  /\ Goto(r, "test")
  /\ UNCHANGED <<writerVars, seq1, snapshot, uncopied, begun>>

LoadEven(r) ==
  /\ rpc[r] = "load"
  /\ Even(seq)
  /\ seq0' = [seq0 EXCEPT ![r] = seq]
  /\ uncopied' = [uncopied EXCEPT ![r] = Word]
  /\ Goto(r, "copy")
  /\ UNCHANGED <<writerVars, seq1, snapshot, begun>>

CopyWord(r, w) ==
  /\ rpc[r] = "copy"
  /\ w \in uncopied[r]
  /\ snapshot' = [snapshot EXCEPT ![r][w] = data[w]]
  /\ uncopied' = [uncopied EXCEPT ![r] = @ \ {w}]
  /\ UNCHANGED <<writerVars, rpc, seq0, seq1, begun>>

Reload(r) ==
  /\ rpc[r] = "copy"
  /\ uncopied[r] = {}
  /\ seq1' = [seq1 EXCEPT ![r] = seq]
  /\ Goto(r, "test")
  /\ UNCHANGED <<writerVars, seq0, snapshot, uncopied, begun>>

\* Mutant: a pass that saw no write is repeated.
MutTest(r) ==
  /\ rpc[r] = "test"
  /\ Goto(r, "load")
  /\ UNCHANGED <<writerVars, seq0, seq1, snapshot, uncopied, begun>>

Test(r) ==
  /\ rpc[r] = "test"
  /\ Goto(r, IF seq0[r] = seq1[r] THEN "done" ELSE "load")
  /\ UNCHANGED <<writerVars, seq0, seq1, snapshot, uncopied, begun>>

ReadReturn(r) ==
  /\ rpc[r] = "done"
  /\ Goto(r, "idle")
  /\ UNCHANGED <<writerVars, seq0, seq1, snapshot, uncopied, begun>>

Write == WriteBegin \/ WriteEnd \/ \E w \in Word : WriteWord(w)

Read(r) ==
  \/ ReadCall(r) \/ LoadOdd(r) \/ LoadEven(r) \/ Reload(r) \/ Test(r)
  \/ ReadReturn(r)
  \/ \E w \in Word : CopyWord(r, w)

LockNext == Write \/ \E r \in Reader : Read(r)

LockSpec == LockInit /\ [][LockNext]_lockVars

\* A write that has begun is finished, and a thread inside read keeps running;
\* nobody has to call either.
LockFairSpec ==
  /\ LockSpec
  /\ WF_lockVars(WriteEnd \/ \E w \in Word : WriteWord(w))
  /\ \A r \in Reader : WF_lockVars(rpc[r] \in {"load", "copy", "test"} /\ Read(r))

-----------------------------------------------------------------------------
(***************************************************************************)
(* Properties.                                                             *)
(***************************************************************************)

\* A read whose last pass began at an even sequence number returns the object
\* exactly as one write left it, and a write no older than the call: the copy
\* of the words, in any order, is never torn by the modifier.
EvenReadIsAtomic ==
  \A r \in Reader : rpc[r] = "done" /\ Even(seq0[r]) =>
    /\ \A w \in Word : snapshot[r][w] = seq0[r]
    /\ begun[r] <= seq0[r] + 1

\* Torn or not, nothing that read returns is older than the last write that
\* was complete when it was called, and nothing is returned uncopied: the
\* loop cannot be left before a pass has filled the snapshot.
ReadIsFresh ==
  \A r \in Reader : rpc[r] = "done" =>
    \A w \in Word : begun[r] <= snapshot[r][w] + 1 /\ snapshot[r][w] <= seq + 1

\* Since the writer never waits for readers and runs out of writes to make,
\* every call of read returns.
ReadReturns ==
  \A r \in Reader : rpc[r] = "load" ~> rpc[r] = "done"

\* orderbook_store.hpp promises the renderer "the data at a specific
\* timestamp, or none if it does not exist": whatever read returns is what
\* some write left.
ReadIsAtomic ==
  \A r \in Reader : rpc[r] = "done" =>
    \A w1, w2 \in Word : snapshot[r][w1] = snapshot[r][w2]
============================================================================
