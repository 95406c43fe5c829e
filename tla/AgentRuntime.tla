---------------------------- MODULE AgentRuntime ----------------------------
(***************************************************************************)
(* The message half of the agent runtime library: a delivery is looked up  *)
(* in the dedup window, handled if it is not there, and its reply is       *)
(* remembered afterwards, in memory and, with a volume, in state.json.     *)
(*                                                                         *)
(* A delivery is a pair of a messageId and an attempt number: attempts of  *)
(* one message reuse its id.  The handler is the agent's own code and may  *)
(* take as long as it likes, whether or not the caller still waits.        *)
(***************************************************************************)
EXTENDS Integers, Sequences, Functions

CONSTANTS
  Ids,         \* the messageIds
  BufferSize,  \* dedupBufferSize
  MaxRestarts  \* bound: restarts of the agent's container

VARIABLES
  volume,    \* whether the memory directory is usable, fixed
  order,     \* DedupOrder: the ids whose replies are cached, oldest first
  disk,      \* the DedupOrder of state.json
  handling,  \* the deliveries a handler is at work on
  runs,      \* how often the handler has been started for an id
  kept,      \* the ids whose reply was remembered, and written if there is a volume
  restarts

runtimeVars == <<volume, order, disk, handling, runs, kept, restarts>>

RuntimeInit ==
  /\ volume \in BOOLEAN
  /\ order = <<>> /\ disk = <<>>
  /\ handling = {}
  /\ runs = [id \in Ids |-> 0]
  /\ kept = {}
  /\ restarts = 0

Recalls(id) == id \in Range(order)

\* touchLocked: the id becomes the most recently delivered one.
Touched(seq, id) ==
  LET i == CHOOSE i \in DOMAIN seq : seq[i] = id
  IN  SubSeq(seq, 1, i - 1) \o SubSeq(seq, i + 1, Len(seq)) \o <<id>>

\* A redelivery of an id in the window is answered from it.
Recall(id) ==
  /\ Recalls(id)
  /\ order' = Touched(order, id)
  /\ UNCHANGED <<volume, disk, handling, runs, kept, restarts>>

\* A delivery of an id that is not: the handler is called.
StartHandler(id, n) ==
  /\ ~Recalls(id)
  /\ handling' = handling \cup {<<id, n>>}
  /\ runs' = [runs EXCEPT ![id] = @ + 1]
  /\ UNCHANGED <<volume, order, disk, kept, restarts>>

\* remember: the window with the id in it, cut to its size.
Remembered(id) ==
  LET seq == IF Recalls(id) THEN order ELSE Append(order, id)
  IN  IF Len(seq) > BufferSize THEN SubSeq(seq, Len(seq) - BufferSize + 1, Len(seq)) ELSE seq

\* Mutant: the reply is kept in memory only.
RememberUnflushed(id, written) ==
  /\ order' = Remembered(id)
  /\ UNCHANGED disk

\* The reply is remembered and the whole state written, by a temporary file
\* and a rename; a write that fails is logged.
Remember(id, written) ==
  /\ order' = Remembered(id)
  /\ disk' = IF volume /\ written THEN Remembered(id) ELSE disk

\* The handler returns a reply.
HandlerReturns(id, n) ==
  /\ <<id, n>> \in handling
  /\ handling' = handling \ {<<id, n>>}
  /\ \E written \in BOOLEAN :
       /\ Remember(id, written)
       /\ kept' = (kept \cup IF written THEN {id} ELSE {}) \cap Range(Remembered(id))
  /\ UNCHANGED <<volume, runs, restarts>>

\* The handler returns an error: a 500, and nothing is remembered.
HandlerFails(id, n) ==
  /\ <<id, n>> \in handling
  /\ handling' = handling \ {<<id, n>>}
  /\ UNCHANGED <<volume, order, disk, runs, kept, restarts>>

\* The container is replaced, by a hibernation and a wake for one: the window
\* is loaded from the volume.
RestartAgent ==
  /\ restarts < MaxRestarts
  /\ restarts' = restarts + 1
  /\ order' = disk
  /\ handling' = {}
  /\ kept' = IF volume THEN kept ELSE {}
  /\ UNCHANGED <<volume, disk, runs>>

-----------------------------------------------------------------------------
(* Properties *)

\* "Return the cached reply for a redelivered messageId without reprocessing":
\* once a reply has been remembered, and written where there is a volume, the
\* handler is not started again for its id while it is in the window, however
\* late an attempt comes and whatever restarts in between.
AnsweredIsNotReprocessed ==
  [][\A id \in Ids : runs[id]' # runs[id] => id \notin kept]_runtimeVars
=============================================================================
