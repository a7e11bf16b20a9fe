--------------------------- MODULE RuntimeRecords ---------------------------
(***************************************************************************)
(* The permits, event batches, checkpoints and commands of runtimeops.     *)
(* The operations that read before they write run in a deferred SQLite     *)
(* transaction: Read... takes the snapshot and checks it, Write... takes   *)
(* the write lock, is refused if another commit aged the snapshot, and     *)
(* commits.  Operations whose first statement writes are one step.  One    *)
(* tenant is modelled.                                                     *)
(***************************************************************************)
EXTENDS Naturals, FiniteSets

CONSTANTS
  Clients,                        \* connections with a transaction of their own
  Permits, Slots, Versions,       \* Versions: the versions callers expect
  Batches, Events,
  Streams, Generations, Payloads,
  Keys, Hashes,                   \* Hashes: the request hashes of commands
  None                            \* no row, no transaction

ASSUME RecordsAssumption ==
  /\ Versions \subseteq Nat /\ Generations \subseteq Nat
  /\ None \notin Slots \cup Batches \cup Payloads \cup Hashes \cup Nat

VARIABLES
  permit, audit, outbox, \* rows of permits; rows of audit and outbox that name each
  batch, event,
  checkpoint, command,
  accepted,              \* history: the saves of commands that returned no error
  tx                     \* the open transaction of each client

vars == <<permit, audit, outbox, batch, event, checkpoint, command, accepted, tx>>

Permit == [state : {"absent", "pending", "approved", "executing", "cancelled"},
           slot : Slots \cup {None}, version : Nat]
Batch == [state : {"absent", "collecting", "closed"}, count : Nat]
Event == [status : {"absent", "unclassified", "classified"}, batch : Batches \cup {None}]
Checkpoint == [generation : Generations, payload : Payloads] \cup {None}

\* What a transaction has read and is about to write.
Transaction ==
  [op : {"execute"}, permit : Permits, version : Versions, fresh : BOOLEAN]
    \cup [op : {"record"}, event : Events, batch : Batches, status : {"unclassified", "classified"}, fresh : BOOLEAN]
    \cup [op : {"close"}, batch : Batches, fresh : BOOLEAN]
    \cup [op : {"checkpoint"}, stream : Streams, row : [generation : Generations, payload : Payloads],
          found : Generations \cup {None}, fresh : BOOLEAN]
    \cup [op : {"command"}, key : Keys, hash : Hashes, fresh : BOOLEAN]

Init ==
  /\ permit = [p \in Permits |-> [state |-> "absent", slot |-> None, version |-> 0]]
  /\ audit = [p \in Permits |-> 0]
  /\ outbox = [p \in Permits |-> 0]
  /\ batch = [b \in Batches |-> [state |-> "absent", count |-> 0]]
  /\ event = [e \in Events |-> [status |-> "absent", batch |-> None]]
  /\ checkpoint = [s \in Streams |-> None]
  /\ command = [k \in Keys |-> None]
  /\ accepted = {}
  /\ tx = [c \in Clients |-> None]

-----------------------------------------------------------------------------
(* Transactions.                                                           *)

Idle(c) == tx[c] = None

Doing(c, op) == tx[c] # None /\ tx[c].op = op

\* Mutant: a transaction may write over commits it has not seen.
MayWriteStale(c) == tx[c] # None

\* SQLite gives the write lock only to a snapshot that is still the latest.
MayWrite(c) == tx[c] # None /\ tx[c].fresh

\* A commit ends c's transaction, if it had one, and ages the snapshots of the others.
Commits(c) ==
  tx' = [d \in Clients |-> IF d = c \/ tx[d] = None THEN None ELSE [tx[d] EXCEPT !.fresh = FALSE]]

\* A refused lock, a condition that failed, a constraint or a cancelled context.
Rollback(c) ==
  /\ ~Idle(c)
  /\ tx' = [tx EXCEPT ![c] = None]
  /\ UNCHANGED <<permit, audit, outbox, batch, event, checkpoint, command, accepted>>

-----------------------------------------------------------------------------
(* Permits.                                                                *)

OthersThanPermits == <<batch, event, checkpoint, command, accepted>>

Moved(row, state) == [row EXCEPT !.state = state, !.version = @ + 1]

CreatePermit(c, p, slot) ==
  /\ Idle(c) /\ permit[p].state = "absent"
  /\ permit' = [permit EXCEPT ![p] = [state |-> "pending", slot |-> slot, version |-> 1]]
  /\ Commits(c)
  /\ UNCHANGED <<audit, outbox, OthersThanPermits>>

ApprovePermit(c, p, expected) ==
  /\ Idle(c) /\ permit[p].state = "pending" /\ permit[p].version = expected
  /\ permit' = [permit EXCEPT ![p] = Moved(@, "approved")]
  /\ audit' = [audit EXCEPT ![p] = @ + 1]
  /\ Commits(c)
  /\ UNCHANGED <<outbox, OthersThanPermits>>

CancelPermit(c, p, expected) ==
  /\ Idle(c) /\ permit[p].state \in {"pending", "approved"} /\ permit[p].version = expected
  /\ permit' = [permit EXCEPT ![p] = Moved(@, "cancelled")]
  /\ outbox' = [outbox EXCEPT ![p] = @ + 1]
  /\ Commits(c)
  /\ UNCHANGED <<audit, OthersThanPermits>>

\* Mutant: a slot is taken by the permit itself only.
SlotTakenBySelf(p) == permit[p].state = "executing"

\* The count of ExecutePermit, and the unique index active_slot.
SlotTaken(p) == \E q \in Permits : permit[q].state = "executing" /\ permit[q].slot = permit[p].slot

\* Mutant: the state is left to the version check.
ExecutableAnyState(p) == permit[p].state \in {"pending", "approved"} /\ ~SlotTaken(p)

Executable(p) == permit[p].state = "approved" /\ ~SlotTaken(p)

ReadExecutePermit(c, p, expected) ==
  /\ Idle(c) /\ Executable(p)
  /\ tx' = [tx EXCEPT ![c] = [op |-> "execute", permit |-> p, version |-> expected, fresh |-> TRUE]]
  /\ UNCHANGED <<permit, audit, outbox, OthersThanPermits>>

\* The UPDATE asks for the version only; the index refuses a second executing permit.
WriteExecutePermit(c) ==
  /\ Doing(c, "execute") /\ MayWrite(c)
  /\ LET p == tx[c].permit
     IN /\ permit[p].version = tx[c].version /\ ~SlotTaken(p)
        /\ permit' = [permit EXCEPT ![p] = Moved(@, "executing")]
        /\ outbox' = [outbox EXCEPT ![p] = @ + 1]
  /\ Commits(c)
  /\ UNCHANGED <<audit, OthersThanPermits>>

-----------------------------------------------------------------------------
(* Event batches.                                                          *)

OthersThanBatches == <<permit, audit, outbox, checkpoint, command, accepted>>

CreateBatch(c, b) ==
  /\ Idle(c) /\ batch[b].state = "absent"
  /\ batch' = [batch EXCEPT ![b] = [state |-> "collecting", count |-> 0]]
  /\ Commits(c)
  /\ UNCHANGED <<event, OthersThanBatches>>

ReadRecordEvent(c, e, b, status) ==
  /\ Idle(c) /\ batch[b].state = "collecting"
  /\ tx' = [tx EXCEPT ![c] = [op |-> "record", event |-> e, batch |-> b, status |-> status, fresh |-> TRUE]]
  /\ UNCHANGED <<batch, event, OthersThanBatches>>

\* The event's primary key is free, and the batch is still collecting.
WriteRecordEvent(c) ==
  /\ Doing(c, "record") /\ MayWrite(c)
  /\ event[tx[c].event].status = "absent" /\ batch[tx[c].batch].state = "collecting"
  /\ event' = [event EXCEPT ![tx[c].event] = [status |-> tx[c].status, batch |-> tx[c].batch]]
  /\ batch' = [batch EXCEPT ![tx[c].batch].count = @ + 1]
  /\ Commits(c)
  /\ UNCHANGED OthersThanBatches

EventsOf(b) == {e \in Events : event[e].batch = b}

Unresolved(b) == {e \in EventsOf(b) : event[e].status = "unclassified"}

ReadCloseBatch(c, b) ==
  /\ Idle(c) /\ Unresolved(b) = {}
  /\ tx' = [tx EXCEPT ![c] = [op |-> "close", batch |-> b, fresh |-> TRUE]]
  /\ UNCHANGED <<batch, event, OthersThanBatches>>

WriteCloseBatch(c) ==
  /\ Doing(c, "close") /\ MayWrite(c)
  /\ batch[tx[c].batch].state = "collecting"
  /\ batch' = [batch EXCEPT ![tx[c].batch].state = "closed"]
  /\ Commits(c)
  /\ UNCHANGED <<event, OthersThanBatches>>

ClassifyEvent(c, e) ==
  /\ Idle(c) /\ event[e].status = "unclassified"
  /\ event' = [event EXCEPT ![e].status = "classified"]
  /\ Commits(c)
  /\ UNCHANGED <<batch, OthersThanBatches>>

-----------------------------------------------------------------------------
(* Checkpoints and commands.                                               *)

OthersThanSaves == <<permit, audit, outbox, batch, event>>

GenerationOf(s) == IF checkpoint[s] = None THEN None ELSE checkpoint[s].generation

\* Mutant: a save of the stored generation is let through.
AdvancesOrEqual(s, generation) == checkpoint[s] # None => generation >= checkpoint[s].generation

Advances(s, generation) == checkpoint[s] # None => generation > checkpoint[s].generation

ReadCheckpoint(c, s, row) ==
  /\ Idle(c) /\ Advances(s, row.generation)
  /\ tx' = [tx EXCEPT ![c] = [op |-> "checkpoint", stream |-> s, row |-> row,
                              found |-> GenerationOf(s), fresh |-> TRUE]]
  /\ UNCHANGED <<checkpoint, command, accepted, OthersThanSaves>>

\* INSERT, whose primary key is free, or UPDATE ... WHERE generation is the one read.
WriteCheckpoint(c) ==
  /\ Doing(c, "checkpoint") /\ MayWrite(c)
  /\ GenerationOf(tx[c].stream) = tx[c].found
  /\ checkpoint' = [checkpoint EXCEPT ![tx[c].stream] = tx[c].row]
  /\ Commits(c)
  /\ UNCHANGED <<command, accepted, OthersThanSaves>>

\* Mutant: a stored command answers whatever was asked.
SavedAnyHash(k, hash) == command[k] # None

Saved(k, hash) == command[k] = hash

\* SaveCommand finds the command it would save.
SaveCommandAgain(c, k, hash) ==
  /\ Idle(c) /\ Saved(k, hash)
  /\ accepted' = accepted \cup {<<k, hash>>}
  /\ UNCHANGED <<checkpoint, command, tx, OthersThanSaves>>

ReadSaveCommand(c, k, hash) ==
  /\ Idle(c) /\ command[k] = None
  /\ tx' = [tx EXCEPT ![c] = [op |-> "command", key |-> k, hash |-> hash, fresh |-> TRUE]]
  /\ UNCHANGED <<checkpoint, command, accepted, OthersThanSaves>>

WriteSaveCommand(c) ==
  /\ Doing(c, "command") /\ MayWrite(c)
  /\ command[tx[c].key] = None
  /\ command' = [command EXCEPT ![tx[c].key] = tx[c].hash]
  /\ accepted' = accepted \cup {<<tx[c].key, tx[c].hash>>}
  /\ Commits(c)
  /\ UNCHANGED <<checkpoint, OthersThanSaves>>

\* ReplayCommand answers with the stored response.
Replays(k, hash) == command[k] = hash

-----------------------------------------------------------------------------
PermitNext(c) ==
  \/ \E p \in Permits, slot \in Slots : CreatePermit(c, p, slot)
  \/ \E p \in Permits, v \in Versions :
       ApprovePermit(c, p, v) \/ CancelPermit(c, p, v) \/ ReadExecutePermit(c, p, v)
  \/ WriteExecutePermit(c)

BatchNext(c) ==
  \/ \E b \in Batches : CreateBatch(c, b) \/ ReadCloseBatch(c, b)
  \/ \E e \in Events, b \in Batches, status \in {"unclassified", "classified"} :
       ReadRecordEvent(c, e, b, status)
  \/ \E e \in Events : ClassifyEvent(c, e)
  \/ WriteRecordEvent(c) \/ WriteCloseBatch(c)

SaveNext(c) ==
  \/ \E s \in Streams, row \in [generation : Generations, payload : Payloads] : ReadCheckpoint(c, s, row)
  \/ \E k \in Keys, hash \in Hashes : SaveCommandAgain(c, k, hash) \/ ReadSaveCommand(c, k, hash)
  \/ WriteCheckpoint(c) \/ WriteSaveCommand(c)

Next == \E c \in Clients : PermitNext(c) \/ BatchNext(c) \/ SaveNext(c) \/ Rollback(c)

Spec == Init /\ [][Next]_vars

-----------------------------------------------------------------------------
(* Properties.                                                             *)

\* However approvals, executions and cancellations with stale versions interleave, the
\* version of a permit counts the audit and outbox rows that name it, and it executes
\* only after an approval, announced once.
PermitTrail ==
  \A p \in Permits : permit[p].state # "absent" =>
    /\ permit[p].version = 1 + audit[p] + outbox[p]
    /\ permit[p].state \in {"approved", "executing"} => audit[p] = 1
    /\ permit[p].state \in {"executing", "cancelled"} => outbox[p] = 1
    /\ permit[p].state \in {"pending", "approved"} => outbox[p] = 0

\* A slot has at most one executing permit.
SlotExclusive ==
  \A p, q \in Permits : /\ permit[p].state = "executing" /\ permit[q].state = "executing"
                        /\ permit[p].slot = permit[q].slot
                        => p = q

ClosedBatchSettled == \A b \in Batches : batch[b].state = "closed" => Unresolved(b) = {}

CountMatches == \A b \in Batches : batch[b].count = Cardinality(EventsOf(b))

\* A batch closed while others record into it and classify its events holds no event left
\* to classify, and the count it closes with is that of its events.
BatchesConsistent == ClosedBatchSettled /\ CountMatches

CheckpointMove ==
  \A s \in Streams : checkpoint[s] # None =>
    \/ checkpoint'[s] = checkpoint[s]
    \/ checkpoint'[s].generation > checkpoint[s].generation

\* A checkpoint is replaced only by a later generation, whoever read it before.
CheckpointsAdvance == [][CheckpointMove]_vars

\* A save that was accepted can be replayed with its own request for good, although
\* other requests race for the key.
AcceptedReplays == \A a \in accepted : Replays(a[1], a[2])

=============================================================================
