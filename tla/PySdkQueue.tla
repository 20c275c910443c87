----------------------------- MODULE PySdkQueue -----------------------------
(***************************************************************************)
(* The log queue of the Python SDK, sdk/python/observe_sdk/client.py: log, *)
(* flush under its one lock, the worker, the transport thread of a request *)
(* that its flush may give up on, and close, which may be called again.    *)
(*                                                                         *)
(* A request that is given up on may still be stored; the server keeps     *)
(* nothing to recognise the retry by.                                      *)
(***************************************************************************)
EXTENDS Integers, Sequences, FiniteSets, SequencesExt

CONSTANTS
  PyUser,        \* threads that call flush
  MaxPyRecords,  \* bound on the records
  PyQueueLimit,  \* _MAX_QUEUE_BYTES, of records of one size
  PyChunk,       \* _MAX_LOG_BATCH
  PyTries        \* max_send_attempts

ASSUME PyAssumption ==
  /\ {MaxPyRecords, PyQueueLimit} \subseteq Nat /\ {PyChunk, PyTries} \subseteq Nat \ {0}

VARIABLES
  pyState, pyStop,
  pyQueue,      \* _buffer: records, by the order they were admitted in
  pyAdmitted,
  pyFlush,      \* the callers of flush: where each is, and what it has left
  pyOp,         \* _batch_operation
  pyAttempts, pyGated,
  pyDelivered, pyDropped,
  pyClosing,    \* where a call of close is
  pyStored      \* the records the server has

pyVars == <<pyState, pyStop, pyQueue, pyAdmitted, pyFlush, pyOp, pyAttempts, pyGated,
            pyDelivered, pyDropped, pyClosing, pyStored>>

PyFlusher == PyUser \cup {"worker", "closer"}
PyOff == [at |-> "off", left |-> 0]
PyNoOp == [at |-> "done", chunk |-> <<>>, cancelled |-> FALSE, outcome |-> "failed", rejected |-> 0]

PyInit ==
  /\ pyState = "open" /\ pyStop = FALSE /\ pyQueue = <<>> /\ pyAdmitted = 0
  /\ pyFlush = [f \in PyFlusher |-> PyOff] /\ pyOp = PyNoOp
  /\ pyAttempts = 0 /\ pyGated = FALSE /\ pyDelivered = 0 /\ pyDropped = 0
  /\ pyClosing = "no" /\ pyStored = {}

-----------------------------------------------------------------------------
PyAt(f, at) == pyFlush[f].at = at
PyFlushFree == \A f \in PyFlusher : pyFlush[f].at \in {"off", "called"}
PyRunning == pyOp.at = "running"

PyLog ==
  /\ pyState = "open" /\ pyAdmitted < MaxPyRecords /\ Len(pyQueue) < PyQueueLimit
  /\ pyAdmitted' = pyAdmitted + 1 /\ pyQueue' = Append(pyQueue, pyAdmitted + 1)
  /\ UNCHANGED <<pyState, pyStop, pyFlush, pyOp, pyAttempts, pyGated, pyDelivered, pyDropped, pyClosing, pyStored>>

\* flush is called: by the worker's interval, by a full log or an
\* application, by close.
PyCall(f) ==
  /\ PyAt(f, "off")
  /\ f = "worker" => ~pyStop
  /\ f = "closer" => pyClosing = "flush"
  /\ pyFlush' = [pyFlush EXCEPT ![f].at = "called"]
  /\ UNCHANGED <<pyState, pyStop, pyQueue, pyAdmitted, pyOp, pyAttempts, pyGated, pyDelivered, pyDropped, pyClosing, pyStored>>

\* _flush_lock is taken; what comes later is left to a later flush.
PyOwn(f) ==
  /\ PyAt(f, "called") /\ PyFlushFree
  /\ pyFlush' = [pyFlush EXCEPT ![f] = [at |-> "loop", left |-> Len(pyQueue)]]
  /\ UNCHANGED <<pyState, pyStop, pyQueue, pyAdmitted, pyOp, pyAttempts, pyGated, pyDelivered, pyDropped, pyClosing, pyStored>>

\* flush returns, and close looks at what is left; or raises, and so does
\* close.
PyReturns(f, closing) ==
  /\ pyFlush' = [pyFlush EXCEPT ![f] = PyOff]
  /\ pyClosing' = IF f = "closer" THEN closing ELSE pyClosing
PyRaises(f) == PyReturns(f, "no")

PyMidBackoff == pyState = "open" /\ pyAttempts >= 2 /\ pyGated

PyDone(f) ==
  /\ PyAt(f, "loop") /\ (pyFlush[f].left = 0 \/ PyMidBackoff)
  /\ PyReturns(f, "check")
  /\ UNCHANGED <<pyState, pyStop, pyQueue, pyAdmitted, pyOp, pyAttempts, pyGated, pyDelivered, pyDropped, pyStored>>

\* The deadline passes before a request, or while the lock is waited for.
PyDeadline(f) ==
  /\ f # "worker" /\ pyFlush[f].at \in {"called", "loop"}
  /\ PyRaises(f)
  /\ UNCHANGED <<pyState, pyStop, pyQueue, pyAdmitted, pyOp, pyAttempts, pyGated, pyDelivered, pyDropped, pyStored>>

PyTransportFree == ~PyRunning

PyChosen(f) == SubSeq(pyQueue, 1, IF pyFlush[f].left < PyChunk THEN pyFlush[f].left ELSE PyChunk)

\* _post_batch, or the refusal to have two requests under way.
PyPost(f) ==
  /\ PyAt(f, "loop") /\ pyFlush[f].left > 0 /\ ~PyMidBackoff
  /\ \/ /\ PyTransportFree
        /\ pyOp' = [PyNoOp EXCEPT !.at = "running", !.chunk = PyChosen(f)]
        /\ pyFlush' = [pyFlush EXCEPT ![f].at = "post"] /\ UNCHANGED pyClosing
     \/ ~PyTransportFree /\ PyRaises(f) /\ UNCHANGED pyOp
  /\ UNCHANGED <<pyState, pyStop, pyQueue, pyAdmitted, pyAttempts, pyGated, pyDelivered, pyDropped, pyStored>>

\* The transport thread ends.  All of a chunk but what is rejected is stored,
\* whether the answer arrives or not.
PyTransportEnds ==
  /\ PyRunning
  /\ \/ \E rejected \in 0..Len(pyOp.chunk), outcome \in {"answered", "failed"} :
          /\ pyOp' = [pyOp EXCEPT !.at = "done", !.outcome = outcome, !.rejected = rejected]
          /\ pyStored' = pyStored \cup ToSet(SubSeq(pyOp.chunk, rejected + 1, Len(pyOp.chunk)))
     \/ pyOp' = [pyOp EXCEPT !.at = "done", !.outcome = "refused"] /\ UNCHANGED pyStored
  /\ UNCHANGED <<pyState, pyStop, pyQueue, pyAdmitted, pyFlush, pyAttempts, pyGated, pyDelivered, pyDropped, pyClosing>>

\* Mutant: all that was queued when the flush began goes.
PyWithoutBatch(f) == SubSeq(pyQueue, pyFlush[f].left + 1, Len(pyQueue))

PyWithout(f) == SubSeq(pyQueue, Len(pyOp.chunk) + 1, Len(pyQueue))

PyChunkGoes(f) ==
  /\ pyQueue' = PyWithout(f)
  /\ pyFlush' = [pyFlush EXCEPT ![f] = [at |-> "loop", left |-> @.left - Len(pyOp.chunk)]]

\* Mutant: a deadline is a failed attempt like any other.
PyGiveUpAsFailed(f) ==
  /\ PyAt(f, "post")
  /\ pyOp' = [pyOp EXCEPT !.cancelled = @ \/ PyRunning]
  /\ IF pyAttempts + 1 >= PyTries
     THEN /\ pyAttempts' = 0 /\ pyDropped' = pyDropped + Len(pyOp.chunk)
          /\ PyChunkGoes(f) /\ UNCHANGED pyClosing
     ELSE pyAttempts' = pyAttempts + 1 /\ PyRaises(f) /\ UNCHANGED <<pyQueue, pyDropped>>
  /\ UNCHANGED <<pyState, pyStop, pyAdmitted, pyGated, pyDelivered, pyStored>>

\* DeliveryDeadline: the request is cancelled, or was, or its answer comes
\* too late; the chunk stays and no attempt is counted.
PyGiveUp(f) ==
  /\ PyAt(f, "post")
  /\ pyOp' = [pyOp EXCEPT !.cancelled = @ \/ PyRunning]
  /\ PyRaises(f)
  /\ UNCHANGED <<pyState, pyStop, pyQueue, pyAdmitted, pyAttempts, pyGated, pyDelivered, pyDropped, pyStored>>

PyHeard(f, outcome) == PyAt(f, "post") /\ pyOp.at = "done" /\ ~pyOp.cancelled /\ pyOp.outcome = outcome

PyAcknowledged(f) ==
  /\ PyHeard(f, "answered")
  /\ pyAttempts' = 0
  /\ pyDropped' = pyDropped + pyOp.rejected
  /\ pyDelivered' = pyDelivered + Len(pyOp.chunk) - pyOp.rejected
  /\ pyFlush' = [pyFlush EXCEPT ![f].at = "counted"]
  /\ UNCHANGED <<pyState, pyStop, pyQueue, pyAdmitted, pyOp, pyGated, pyClosing, pyStored>>

PySettle(f) ==
  /\ PyAt(f, "counted") /\ PyChunkGoes(f)
  /\ UNCHANGED <<pyState, pyStop, pyAdmitted, pyOp, pyAttempts, pyGated, pyDelivered, pyDropped, pyClosing, pyStored>>

\* A refusal, or the last attempt.
PyLoses(f) ==
  /\ PyHeard(f, "refused") \/ (PyHeard(f, "failed") /\ pyAttempts + 1 >= PyTries)
  /\ pyAttempts' = 0 /\ pyDropped' = pyDropped + Len(pyOp.chunk)
  /\ PyChunkGoes(f)
  /\ UNCHANGED <<pyState, pyStop, pyAdmitted, pyOp, pyGated, pyDelivered, pyClosing, pyStored>>

PyRetries(f) ==
  /\ PyHeard(f, "failed") /\ pyAttempts + 1 < PyTries
  /\ pyAttempts' = pyAttempts + 1 /\ pyGated' = TRUE
  /\ PyRaises(f)
  /\ UNCHANGED <<pyState, pyStop, pyQueue, pyAdmitted, pyOp, pyDelivered, pyDropped, pyStored>>

PyBackoffEnds ==
  /\ pyGated /\ pyGated' = FALSE
  /\ UNCHANGED <<pyState, pyStop, pyQueue, pyAdmitted, pyFlush, pyOp, pyAttempts, pyDelivered, pyDropped, pyClosing, pyStored>>

-----------------------------------------------------------------------------
\* close under _close_lock; one that raised may be called again.
PyClose ==
  /\ pyClosing = "no" /\ pyState # "closed"
  /\ pyState' = "closing" /\ pyStop' = TRUE /\ pyClosing' = "join"
  /\ pyOp' = [pyOp EXCEPT !.cancelled = @ \/ PyRunning]
  /\ UNCHANGED <<pyQueue, pyAdmitted, pyFlush, pyAttempts, pyGated, pyDelivered, pyDropped, pyStored>>

\* Mutant: a join that timed out is taken for one that did not.
PyJoinedAlways == TRUE

PyJoined == PyAt("worker", "off")

PyJoin ==
  /\ pyClosing = "join"
  /\ pyClosing' = IF PyJoined THEN "flush" ELSE "no"
  /\ UNCHANGED <<pyState, pyStop, pyQueue, pyAdmitted, pyFlush, pyOp, pyAttempts, pyGated, pyDelivered, pyDropped, pyStored>>

PyClosed ==
  /\ pyClosing = "check"
  /\ pyClosing' = "no"
  /\ pyState' = IF pyQueue = <<>> THEN "closed" ELSE pyState
  /\ UNCHANGED <<pyStop, pyQueue, pyAdmitted, pyFlush, pyOp, pyAttempts, pyGated, pyDelivered, pyDropped, pyStored>>

PyNext ==
  \/ PyLog \/ PyTransportEnds \/ PyBackoffEnds \/ PyClose \/ PyJoin \/ PyClosed
  \/ \E f \in PyFlusher :
       \/ PyCall(f) \/ PyOwn(f) \/ PyDone(f) \/ PyDeadline(f) \/ PyPost(f) \/ PyGiveUp(f)
       \/ PyAcknowledged(f) \/ PySettle(f) \/ PyLoses(f) \/ PyRetries(f)

PySpec == PyInit /\ [][PyNext]_pyVars

-----------------------------------------------------------------------------
PyTypeOK ==
  /\ pyState \in {"open", "closing", "closed"} /\ pyStop \in BOOLEAN
  /\ pyQueue \in Seq(1..MaxPyRecords) /\ pyAdmitted \in 0..MaxPyRecords
  /\ pyFlush \in [PyFlusher -> [at : {"off", "called", "loop", "post", "counted"}, left : 0..MaxPyRecords]]
  /\ pyOp.chunk \in Seq(1..MaxPyRecords) /\ pyOp.at \in {"running", "done"}
  /\ pyOp.outcome \in {"answered", "refused", "failed"} /\ pyOp.rejected \in 0..PyChunk
  /\ pyAttempts \in 0..(PyTries - 1) /\ pyGated \in BOOLEAN
  /\ {pyDelivered, pyDropped} \subseteq 0..MaxPyRecords
  /\ pyClosing \in {"no", "join", "flush", "check"} /\ pyStored \subseteq 1..MaxPyRecords

(* "delivered + sum(dropped) + len(queue) accounts for every admitted      *)
(* record", but while an acknowledged chunk is counted and not deleted     *)
(* yet, and no record is delivered that the server does not have.          *)
PyAccounted ==
  LET counted == IF \E f \in PyFlusher : PyAt(f, "counted") THEN Len(pyOp.chunk) ELSE 0
      gone == {r \in 1..pyAdmitted : \A i \in DOMAIN pyQueue : pyQueue[i] # r}
  IN /\ pyDelivered + pyDropped + Len(pyQueue) = pyAdmitted + counted
     /\ counted = 0 => pyDelivered =< Cardinality(gone \cap pyStored)

(* A request that was given up on has its records at the head of the queue *)
(* until it has ended: none is lost for a deadline, and what may come to   *)
(* be stored twice is one chunk.                                           *)
PyOneTransport ==
  /\ PyRunning => IsPrefix(pyOp.chunk, pyQueue)
  /\ \A i \in DOMAIN pyQueue : pyQueue[i] \in pyStored => i =< PyChunk

(* A client is closed with its queue drained, its worker gone and nothing  *)
(* under way that could still reach the server.                            *)
PyClosedClean ==
  pyState = "closed" => pyQueue = <<>> /\ ~PyRunning /\ PyAt("worker", "off")

PySdkSound == PyAccounted /\ PyOneTransport /\ PyClosedClean
=============================================================================
