------------------------ MODULE RuntimeRecordsProofs ------------------------
(***************************************************************************)
(* The permits, batches, checkpoints and commands of runtimeops, for any   *)
(* number of clients, permits, events and keys.  What a transaction has    *)
(* read still holds when it is let through to write; each property follows *)
(* from that and from the condition the write itself repeats.              *)
(***************************************************************************)
EXTENDS RuntimeRecords, FiniteSetTheorems, TLAPS

-----------------------------------------------------------------------------
(* The inductive invariants.                                               *)

RecordsTypeOK ==
  /\ permit \in [Permits -> Permit]
  /\ audit \in [Permits -> Nat] /\ outbox \in [Permits -> Nat]
  /\ batch \in [Batches -> Batch]
  /\ event \in [Events -> Event]
  /\ checkpoint \in [Streams -> Checkpoint]
  /\ command \in [Keys -> Hashes \cup {None}]
  /\ accepted \subseteq Keys \X Hashes
  /\ tx \in [Clients -> Transaction \cup {None}]

\* What c has read, while nobody has committed since.
FreshRead(c) ==
  MayWrite(c) =>
    /\ tx[c].op = "execute" => Executable(tx[c].permit)
    /\ tx[c].op = "close" => Unresolved(tx[c].batch) = {}
    /\ tx[c].op = "checkpoint" => Advances(tx[c].stream, tx[c].row.generation)
    /\ tx[c].op = "command" => command[tx[c].key] = None

RecordsInv == RecordsTypeOK /\ \A c \in Clients : FreshRead(c)

\* The audit and outbox rows of a permit in each of its states.
TrailOf(p) ==
  /\ permit[p].state \in {"absent", "pending"} => audit[p] = 0
  /\ permit[p].state \in {"approved", "executing"} => audit[p] = 1
  /\ permit[p].state \in {"absent", "pending", "approved"} => outbox[p] = 0
  /\ permit[p].state \in {"executing", "cancelled"} => outbox[p] = 1
  /\ permit[p].state # "absent" => permit[p].version = 1 + audit[p] + outbox[p]

TrailInv == \A p \in Permits : TrailOf(p)

\* The events of a batch, and of none.
BatchInv(b) ==
  /\ IsFiniteSet(EventsOf(b)) /\ batch[b].count = Cardinality(EventsOf(b))
  /\ batch[b].state = "absent" => batch[b].count = 0
  /\ batch[b].state = "closed" => Unresolved(b) = {}

EventInv == \A e \in Events : event[e].status = "absent" => event[e].batch = None

BatchesInv == EventInv /\ \A b \in Batches : BatchInv(b)

-----------------------------------------------------------------------------
(* Transactions.                                                           *)

\* What an open transaction carries, by its operation.
LEMMA TransactionFields ==
  ASSUME NEW t \in Transaction
  PROVE  /\ t.op \in {"execute", "record", "close", "checkpoint", "command"}
         /\ t.fresh \in BOOLEAN
         /\ t.op = "execute" => t.permit \in Permits /\ t.version \in Versions
         /\ t.op = "record" => /\ t.event \in Events /\ t.batch \in Batches
                               /\ t.status \in {"unclassified", "classified"}
         /\ t.op = "close" => t.batch \in Batches
         /\ t.op = "checkpoint" => /\ t.stream \in Streams /\ t.row.generation \in Generations
                                   /\ t.row \in [generation : Generations, payload : Payloads]
         /\ t.op = "command" => t.key \in Keys /\ t.hash \in Hashes
BY DEF Transaction

\* A transaction whose snapshot ages stays what it was.
LEMMA AgedTransaction ==
  ASSUME NEW t \in Transaction
  PROVE  /\ [t EXCEPT !.fresh = FALSE] \in Transaction
         /\ ~[t EXCEPT !.fresh = FALSE].fresh
BY DEF Transaction

\* After a commit nobody else may write.
LEMMA CommitAges ==
  ASSUME RecordsTypeOK, NEW c \in Clients, Commits(c)
  PROVE  /\ tx' \in [Clients -> Transaction \cup {None}]
         /\ \A d \in Clients : FreshRead(d)'
<1>1. \A d \in Clients : /\ tx[d] \in Transaction \cup {None}
                         /\ tx'[d] = IF d = c \/ tx[d] = None THEN None
                                     ELSE [tx[d] EXCEPT !.fresh = FALSE]
  BY DEF RecordsTypeOK, Commits
<1>2. \A d \in Clients : tx'[d] \in Transaction \cup {None} /\ ~MayWrite(d)'
  BY <1>1, AgedTransaction DEF MayWrite
<1>3. tx' \in [Clients -> Transaction \cup {None}]
  BY <1>2 DEF Commits
<1>. QED  BY <1>2, <1>3 DEF FreshRead

\* A step that changes no table keeps what the others have read.
LEMMA TablesKept ==
  ASSUME RecordsInv, NEW c \in Clients, NEW t \in Transaction \cup {None},
         tx' = [tx EXCEPT ![c] = t],
         UNCHANGED <<permit, audit, outbox, batch, event, checkpoint, command, accepted>>,
         FreshRead(c)'
  PROVE  RecordsInv'
<1>1. RecordsTypeOK'
  BY DEF RecordsInv, RecordsTypeOK
<1>2. \A d \in Clients \ {c} : tx'[d] = tx[d]
  BY DEF RecordsInv, RecordsTypeOK
<1>3. ASSUME NEW d \in Clients \ {c} PROVE FreshRead(d)'
  BY <1>2 DEF RecordsInv, FreshRead, MayWrite, Executable, SlotTaken, Unresolved, EventsOf, Advances
<1>. QED  BY <1>1, <1>3 DEF RecordsInv

\* A step that commits keeps the invariant if it keeps the types of what it writes.
LEMMA CommitKept ==
  ASSUME RecordsTypeOK, NEW c \in Clients, Commits(c),
         permit' \in [Permits -> Permit], audit' \in [Permits -> Nat],
         outbox' \in [Permits -> Nat], batch' \in [Batches -> Batch],
         event' \in [Events -> Event], checkpoint' \in [Streams -> Checkpoint],
         command' \in [Keys -> Hashes \cup {None}], accepted' \subseteq Keys \X Hashes
  PROVE  RecordsInv'
BY CommitAges DEF RecordsInv, RecordsTypeOK

\* A permit that moves to another state keeps its slot and gets the next version.
LEMMA MovedFacts ==
  ASSUME NEW row \in Permit,
         NEW s \in {"absent", "pending", "approved", "executing", "cancelled"}
  PROVE  /\ Moved(row, s) \in Permit
         /\ Moved(row, s).state = s
         /\ Moved(row, s).slot = row.slot
         /\ Moved(row, s).version = row.version + 1
<1>1. row.version \in Nat /\ row.version + 1 \in Nat
  BY DEF Permit
<1>. QED  BY <1>1 DEF Moved, Permit

-----------------------------------------------------------------------------
(* The types, and what fresh transactions have read.                       *)

\* The permit operations (runtimeops/operations.go, permits).
LEMMA PermitStep ==
  ASSUME RecordsInv, NEW c \in Clients, PermitNext(c)
  PROVE  RecordsInv'
<1>0. /\ RecordsTypeOK
      /\ permit \in [Permits -> Permit]
      /\ audit \in [Permits -> Nat] /\ outbox \in [Permits -> Nat]
  BY DEF RecordsInv, RecordsTypeOK
<1>1. ASSUME NEW p \in Permits, NEW slot \in Slots, CreatePermit(c, p, slot)
      PROVE  RecordsInv'
  <2>1. /\ Commits(c) /\ UNCHANGED <<audit, outbox, OthersThanPermits>>
        /\ permit' = [permit EXCEPT ![p] = [state |-> "pending", slot |-> slot, version |-> 1]]
    BY <1>1 DEF CreatePermit
  <2>2. permit' \in [Permits -> Permit]
    BY <1>0, <2>1 DEF Permit
  <2>. QED  BY <1>0, <2>1, <2>2, CommitKept DEF RecordsTypeOK, OthersThanPermits
<1>2. ASSUME NEW p \in Permits, NEW v \in Versions, ApprovePermit(c, p, v)
      PROVE  RecordsInv'
  <2>1. /\ Commits(c) /\ UNCHANGED <<outbox, OthersThanPermits>>
        /\ permit' = [permit EXCEPT ![p] = Moved(permit[p], "approved")]
        /\ audit' = [audit EXCEPT ![p] = audit[p] + 1]
    BY <1>2 DEF ApprovePermit
  <2>2. permit' \in [Permits -> Permit] /\ audit' \in [Permits -> Nat]
    BY <1>0, <2>1, MovedFacts
  <2>. QED  BY <1>0, <2>1, <2>2, CommitKept DEF RecordsTypeOK, OthersThanPermits
<1>3. ASSUME NEW p \in Permits, NEW v \in Versions, CancelPermit(c, p, v)
      PROVE  RecordsInv'
  <2>1. /\ Commits(c) /\ UNCHANGED <<audit, OthersThanPermits>>
        /\ permit' = [permit EXCEPT ![p] = Moved(permit[p], "cancelled")]
        /\ outbox' = [outbox EXCEPT ![p] = outbox[p] + 1]
    BY <1>3 DEF CancelPermit
  <2>2. permit' \in [Permits -> Permit] /\ outbox' \in [Permits -> Nat]
    BY <1>0, <2>1, MovedFacts
  <2>. QED  BY <1>0, <2>1, <2>2, CommitKept DEF RecordsTypeOK, OthersThanPermits
<1>4. ASSUME NEW p \in Permits, NEW v \in Versions, ReadExecutePermit(c, p, v)
      PROVE  RecordsInv'
  <2>. DEFINE t == [op |-> "execute", permit |-> p, version |-> v, fresh |-> TRUE]
  <2>1. /\ tx' = [tx EXCEPT ![c] = t] /\ Executable(p)
        /\ UNCHANGED <<permit, audit, outbox, OthersThanPermits>>
    BY <1>4 DEF ReadExecutePermit
  <2>2. t \in Transaction /\ t.op = "execute" /\ t.permit = p
    BY DEF Transaction
  <2>. HIDE DEF t
  <2>3. tx'[c] = t
    BY <1>0, <2>1 DEF RecordsTypeOK
  <2>4. FreshRead(c)'
    BY <2>1, <2>2, <2>3 DEF FreshRead, Executable, SlotTaken
  <2>. QED  BY <2>1, <2>2, <2>4, TablesKept DEF OthersThanPermits
<1>5. CASE WriteExecutePermit(c)
  <2>. DEFINE p == tx[c].permit
  <2>1. /\ Commits(c) /\ UNCHANGED <<audit, OthersThanPermits>> /\ Doing(c, "execute")
        /\ permit' = [permit EXCEPT ![p] = Moved(permit[p], "executing")]
        /\ outbox' = [outbox EXCEPT ![p] = outbox[p] + 1]
    BY <1>5 DEF WriteExecutePermit
  <2>p. p \in Permits
    BY <2>1, TransactionFields DEF Doing, RecordsInv, RecordsTypeOK
  <2>. HIDE DEF p
  <2>2. permit' \in [Permits -> Permit] /\ outbox' \in [Permits -> Nat]
    BY <1>0, <2>1, <2>p, MovedFacts
  <2>. QED  BY <1>0, <2>1, <2>2, CommitKept DEF RecordsTypeOK, OthersThanPermits
<1>. QED  BY <1>1, <1>2, <1>3, <1>4, <1>5 DEF PermitNext

\* The batch operations (runtimeops/operations.go, events and batches).
LEMMA BatchStep ==
  ASSUME RecordsInv, NEW c \in Clients, BatchNext(c)
  PROVE  RecordsInv'
<1>0. /\ RecordsTypeOK
      /\ batch \in [Batches -> Batch]
      /\ event \in [Events -> Event]
      /\ tx[c] \in Transaction \cup {None}
  BY DEF RecordsInv, RecordsTypeOK
<1>1. ASSUME NEW b \in Batches, CreateBatch(c, b)
      PROVE  RecordsInv'
  <2>1. /\ Commits(c) /\ UNCHANGED <<event, OthersThanBatches>>
        /\ batch' = [batch EXCEPT ![b] = [state |-> "collecting", count |-> 0]]
    BY <1>1 DEF CreateBatch
  <2>2. batch' \in [Batches -> Batch]
    BY <1>0, <2>1 DEF Batch
  <2>. QED  BY <1>0, <2>1, <2>2, CommitKept DEF RecordsTypeOK, OthersThanBatches
<1>2. ASSUME NEW b \in Batches, ReadCloseBatch(c, b)
      PROVE  RecordsInv'
  <2>. DEFINE t == [op |-> "close", batch |-> b, fresh |-> TRUE]
  <2>1. /\ tx' = [tx EXCEPT ![c] = t] /\ Unresolved(b) = {}
        /\ UNCHANGED <<batch, event, OthersThanBatches>>
    BY <1>2 DEF ReadCloseBatch
  <2>2. t \in Transaction /\ t.op = "close" /\ t.batch = b
    BY DEF Transaction
  <2>. HIDE DEF t
  <2>3. tx'[c] = t
    BY <1>0, <2>1 DEF RecordsTypeOK
  <2>4. FreshRead(c)'
    BY <2>1, <2>2, <2>3 DEF FreshRead, Unresolved, EventsOf
  <2>. QED  BY <2>1, <2>2, <2>4, TablesKept DEF OthersThanBatches
<1>3. ASSUME NEW e \in Events, NEW b \in Batches, NEW status \in {"unclassified", "classified"},
             ReadRecordEvent(c, e, b, status)
      PROVE  RecordsInv'
  <2>. DEFINE t == [op |-> "record", event |-> e, batch |-> b, status |-> status, fresh |-> TRUE]
  <2>1. /\ tx' = [tx EXCEPT ![c] = t]
        /\ UNCHANGED <<batch, event, OthersThanBatches>>
    BY <1>3 DEF ReadRecordEvent
  <2>2. t \in Transaction /\ t.op = "record"
    BY DEF Transaction
  <2>. HIDE DEF t
  <2>3. tx'[c] = t
    BY <1>0, <2>1 DEF RecordsTypeOK
  <2>4. FreshRead(c)'
    BY <2>2, <2>3 DEF FreshRead
  <2>. QED  BY <2>1, <2>2, <2>4, TablesKept DEF OthersThanBatches
<1>4. ASSUME NEW e \in Events, ClassifyEvent(c, e)
      PROVE  RecordsInv'
  <2>1. /\ Commits(c) /\ UNCHANGED <<batch, OthersThanBatches>>
        /\ event' = [event EXCEPT ![e].status = "classified"]
    BY <1>4 DEF ClassifyEvent
  <2>2. event' \in [Events -> Event]
    BY <1>0, <2>1 DEF Event
  <2>. QED  BY <1>0, <2>1, <2>2, CommitKept DEF RecordsTypeOK, OthersThanBatches
<1>5. CASE WriteRecordEvent(c)
  <2>1. /\ Commits(c) /\ UNCHANGED OthersThanBatches /\ Doing(c, "record")
        /\ event' = [event EXCEPT ![tx[c].event] = [status |-> tx[c].status, batch |-> tx[c].batch]]
        /\ batch' = [batch EXCEPT ![tx[c].batch].count = @ + 1]
    BY <1>5 DEF WriteRecordEvent
  <2>2. /\ tx[c].batch \in Batches
        /\ tx[c].status \in {"unclassified", "classified"}
    BY <1>0, <2>1, TransactionFields DEF Doing
  <2>3. event' \in [Events -> Event] /\ batch' \in [Batches -> Batch]
    <3>1. [status |-> tx[c].status, batch |-> tx[c].batch] \in Event
      BY <2>2 DEF Event
    <3>2. event' \in [Events -> Event]
      BY <1>0, <2>1, <3>1
    <3>3. batch' \in [Batches -> Batch]
      BY <1>0, <2>1, <2>2 DEF Batch
    <3>. QED  BY <3>2, <3>3
  <2>. QED  BY <1>0, <2>1, <2>3, CommitKept DEF RecordsTypeOK, OthersThanBatches
<1>6. CASE WriteCloseBatch(c)
  <2>1. /\ Commits(c) /\ UNCHANGED <<event, OthersThanBatches>>
        /\ batch' = [batch EXCEPT ![tx[c].batch].state = "closed"]
    BY <1>6 DEF WriteCloseBatch
  <2>2. batch' \in [Batches -> Batch]
    BY <1>0, <2>1 DEF Batch
  <2>. QED  BY <1>0, <2>1, <2>2, CommitKept DEF RecordsTypeOK, OthersThanBatches
<1>. QED  BY <1>1, <1>2, <1>3, <1>4, <1>5, <1>6 DEF BatchNext

\* The checkpoint and command operations (runtimeops/operations.go).
LEMMA SaveStep ==
  ASSUME RecordsInv, NEW c \in Clients, SaveNext(c)
  PROVE  RecordsInv'
<1>0. /\ RecordsTypeOK
      /\ checkpoint \in [Streams -> Checkpoint]
      /\ command \in [Keys -> Hashes \cup {None}]
      /\ accepted \subseteq Keys \X Hashes
      /\ tx \in [Clients -> Transaction \cup {None}]
  BY DEF RecordsInv, RecordsTypeOK
<1>1. ASSUME NEW s \in Streams, NEW row \in [generation : Generations, payload : Payloads],
             ReadCheckpoint(c, s, row)
      PROVE  RecordsInv'
  <2>. DEFINE t == [op |-> "checkpoint", stream |-> s, row |-> row,
                    found |-> GenerationOf(s), fresh |-> TRUE]
  <2>1. /\ tx' = [tx EXCEPT ![c] = t] /\ Advances(s, row.generation)
        /\ UNCHANGED <<checkpoint, command, accepted, OthersThanSaves>>
    BY <1>1 DEF ReadCheckpoint
  <2>2. GenerationOf(s) \in Generations \cup {None}
    BY <1>0 DEF GenerationOf, Checkpoint
  <2>3. t \in Transaction /\ t.op = "checkpoint" /\ t.stream = s /\ t.row = row
    BY <2>2 DEF Transaction
  <2>. HIDE DEF t
  <2>4. tx'[c] = t
    BY <1>0, <2>1
  <2>5. FreshRead(c)'
    BY <2>1, <2>3, <2>4 DEF FreshRead, Advances
  <2>. QED  BY <2>1, <2>3, <2>5, TablesKept DEF OthersThanSaves
<1>2. ASSUME NEW k \in Keys, NEW hash \in Hashes, SaveCommandAgain(c, k, hash)
      PROVE  RecordsInv'
  <2>1. /\ accepted' = accepted \cup {<<k, hash>>}
        /\ UNCHANGED <<checkpoint, command, tx, OthersThanSaves>>
    BY <1>2 DEF SaveCommandAgain
  <2>2. RecordsTypeOK'
    BY <1>0, <2>1 DEF RecordsTypeOK, OthersThanSaves
  <2>3. \A d \in Clients : FreshRead(d)'
    BY <2>1 DEF RecordsInv, FreshRead, MayWrite, Executable, SlotTaken, Unresolved, EventsOf,
                Advances, OthersThanSaves
  <2>. QED  BY <2>2, <2>3 DEF RecordsInv
<1>3. ASSUME NEW k \in Keys, NEW hash \in Hashes, ReadSaveCommand(c, k, hash)
      PROVE  RecordsInv'
  <2>. DEFINE t == [op |-> "command", key |-> k, hash |-> hash, fresh |-> TRUE]
  <2>1. /\ tx' = [tx EXCEPT ![c] = t] /\ command[k] = None
        /\ UNCHANGED <<checkpoint, command, accepted, OthersThanSaves>>
    BY <1>3 DEF ReadSaveCommand
  <2>2. t \in Transaction /\ t.op = "command" /\ t.key = k
    BY DEF Transaction
  <2>. HIDE DEF t
  <2>3. tx'[c] = t
    BY <1>0, <2>1
  <2>4. FreshRead(c)'
    BY <2>1, <2>2, <2>3 DEF FreshRead
  <2>. QED  BY <2>1, <2>2, <2>4, TablesKept DEF OthersThanSaves
<1>4. CASE WriteCheckpoint(c)
  <2>1. /\ Commits(c) /\ UNCHANGED <<command, accepted, OthersThanSaves>> /\ Doing(c, "checkpoint")
        /\ checkpoint' = [checkpoint EXCEPT ![tx[c].stream] = tx[c].row]
    BY <1>4 DEF WriteCheckpoint
  <2>2. tx[c].row \in Checkpoint
    BY <1>0, <2>1, TransactionFields DEF Doing, Checkpoint
  <2>3. checkpoint' \in [Streams -> Checkpoint]
    BY <1>0, <2>1, <2>2
  <2>. QED  BY <1>0, <2>1, <2>3, CommitKept DEF RecordsTypeOK, OthersThanSaves
<1>5. CASE WriteSaveCommand(c)
  <2>1. /\ Commits(c) /\ UNCHANGED <<checkpoint, OthersThanSaves>> /\ Doing(c, "command")
        /\ command' = [command EXCEPT ![tx[c].key] = tx[c].hash]
        /\ accepted' = accepted \cup {<<tx[c].key, tx[c].hash>>}
    BY <1>5 DEF WriteSaveCommand
  <2>2. tx[c].key \in Keys /\ tx[c].hash \in Hashes
    BY <1>0, <2>1, TransactionFields DEF Doing
  <2>3. command' \in [Keys -> Hashes \cup {None}] /\ accepted' \subseteq Keys \X Hashes
    BY <1>0, <2>1, <2>2
  <2>. QED  BY <1>0, <2>1, <2>3, CommitKept DEF RecordsTypeOK, OthersThanSaves
<1>. QED  BY <1>1, <1>2, <1>3, <1>4, <1>5 DEF SaveNext

\* Whoever is let through to write acts on what still holds.
LEMMA RecordsInvHolds == Spec => []RecordsInv
<1>1. Init => RecordsInv
  BY DEF Init, RecordsInv, RecordsTypeOK, Permit, Batch, Event, Checkpoint, FreshRead, MayWrite
<1>2. RecordsInv /\ [Next]_vars => RecordsInv'
  <2>. SUFFICES ASSUME RecordsInv, [Next]_vars PROVE RecordsInv'
    OBVIOUS
  <2>1. ASSUME NEW c \in Clients, Rollback(c) PROVE RecordsInv'
    <3>1. /\ tx' = [tx EXCEPT ![c] = None]
          /\ UNCHANGED <<permit, audit, outbox, batch, event, checkpoint, command, accepted>>
      BY <2>1 DEF Rollback
    <3>2. FreshRead(c)'
      BY <3>1 DEF RecordsInv, RecordsTypeOK, FreshRead, MayWrite
    <3>. QED  BY <3>1, <3>2, TablesKept
  <2>2. CASE UNCHANGED vars
    BY <2>2 DEF vars, RecordsInv, RecordsTypeOK, FreshRead, MayWrite, Executable, SlotTaken,
                Unresolved, EventsOf, Advances
  <2>. QED  BY <2>1, <2>2, PermitStep, BatchStep, SaveStep DEF Next
<1>. QED  BY <1>1, <1>2, PTL DEF Spec

-----------------------------------------------------------------------------
(* Permits.                                                                *)

\* The steps that move a permit, and where from: a write of ExecutePermit only meets an
\* approved one, because its snapshot is still the latest.
LEMMA PermitMoves ==
  ASSUME RecordsInv, [Next]_vars
  PROVE  \/ UNCHANGED <<permit, audit, outbox>>
         \/ \E p \in Permits :
              \/ /\ permit[p].state = "absent"
                 /\ \E slot \in Slots :
                      permit' = [permit EXCEPT ![p] = [state |-> "pending", slot |-> slot, version |-> 1]]
                 /\ UNCHANGED <<audit, outbox>>
              \/ /\ permit[p].state = "pending"
                 /\ permit' = [permit EXCEPT ![p] = Moved(permit[p], "approved")]
                 /\ audit' = [audit EXCEPT ![p] = audit[p] + 1] /\ UNCHANGED outbox
              \/ /\ permit[p].state \in {"pending", "approved"}
                 /\ permit' = [permit EXCEPT ![p] = Moved(permit[p], "cancelled")]
                 /\ outbox' = [outbox EXCEPT ![p] = outbox[p] + 1] /\ UNCHANGED audit
              \/ /\ permit[p].state = "approved" /\ ~SlotTaken(p)
                 /\ permit' = [permit EXCEPT ![p] = Moved(permit[p], "executing")]
                 /\ outbox' = [outbox EXCEPT ![p] = outbox[p] + 1] /\ UNCHANGED audit
<1>1. ASSUME NEW c \in Clients, WriteExecutePermit(c)
      PROVE  \E p \in Permits :
               /\ permit[p].state = "approved" /\ ~SlotTaken(p)
               /\ permit' = [permit EXCEPT ![p] = Moved(permit[p], "executing")]
               /\ outbox' = [outbox EXCEPT ![p] = outbox[p] + 1] /\ UNCHANGED audit
  <2>1. tx[c] \in Transaction /\ tx[c].op = "execute" /\ MayWrite(c)
    BY <1>1 DEF WriteExecutePermit, Doing, RecordsInv, RecordsTypeOK
  <2>2. tx[c].permit \in Permits /\ Executable(tx[c].permit)
    BY <2>1, TransactionFields DEF RecordsInv, FreshRead
  <2>. QED  BY <1>1, <2>2 DEF WriteExecutePermit, Executable
<1>2. ASSUME NEW c \in Clients, BatchNext(c) \/ SaveNext(c) \/ Rollback(c)
      PROVE  UNCHANGED <<permit, audit, outbox>>
  BY <1>2 DEF BatchNext, CreateBatch, ReadCloseBatch, ReadRecordEvent, ClassifyEvent,
              WriteRecordEvent, WriteCloseBatch, SaveNext, ReadCheckpoint, SaveCommandAgain,
              ReadSaveCommand, WriteCheckpoint, WriteSaveCommand, Rollback,
              OthersThanBatches, OthersThanSaves
<1>3. CASE UNCHANGED vars
  BY <1>3 DEF vars
<1>. QED
  BY <1>1, <1>2, <1>3 DEF Next, PermitNext, CreatePermit, ApprovePermit, CancelPermit, ReadExecutePermit

\* For any number of permits and clients, and callers that pass any version: the trail of
\* a permit is as long as its version says, and one that executes was approved.
THEOREM TrailComplete == Spec => []PermitTrail
<1>1. Init => TrailInv
  BY DEF Init, TrailInv, TrailOf
<1>2. RecordsInv /\ TrailInv /\ [Next]_vars => TrailInv'
  <2>. SUFFICES ASSUME RecordsInv, TrailInv, [Next]_vars, NEW q \in Permits
                PROVE  TrailOf(q)'
    BY DEF TrailInv
  <2>0. /\ permit \in [Permits -> Permit]
        /\ audit \in [Permits -> Nat] /\ outbox \in [Permits -> Nat]
        /\ TrailOf(q)
    BY DEF RecordsInv, RecordsTypeOK, TrailInv
  <2>1. CASE UNCHANGED <<permit, audit, outbox>>
    BY <2>0, <2>1 DEF TrailOf
  <2>2. ASSUME NEW p \in Permits, permit'[q] = permit[q], audit'[q] = audit[q], outbox'[q] = outbox[q]
        PROVE  TrailOf(q)'
    BY <2>0, <2>2 DEF TrailOf
  <2>3. ASSUME permit[q].state = "absent", UNCHANGED <<audit, outbox>>,
               permit'[q].state = "pending", permit'[q].version = 1
        PROVE  TrailOf(q)'
    BY <2>0, <2>3 DEF TrailOf
  <2>4. ASSUME permit[q].state = "pending", permit'[q].state = "approved",
               permit'[q].version = permit[q].version + 1,
               audit'[q] = audit[q] + 1, outbox'[q] = outbox[q]
        PROVE  TrailOf(q)'
    BY <2>0, <2>4 DEF TrailOf
  <2>5. ASSUME \/ permit[q].state \in {"pending", "approved"} /\ permit'[q].state = "cancelled"
               \/ permit[q].state = "approved" /\ permit'[q].state = "executing",
               permit'[q].version = permit[q].version + 1,
               audit'[q] = audit[q], outbox'[q] = outbox[q] + 1
        PROVE  TrailOf(q)'
    BY <2>0, <2>5 DEF TrailOf, Permit
  <2>. QED  BY <2>0, <2>1, <2>2, <2>3, <2>4, <2>5, PermitMoves, MovedFacts
<1>3. TrailInv => PermitTrail
  BY DEF TrailInv, TrailOf, PermitTrail
<1>. QED  BY <1>1, <1>2, <1>3, RecordsInvHolds, PTL DEF Spec

\* For any number of permits and clients: two executions that read the slot as free at
\* the same time never both commit (ExecutePermit, and the index active_slot).
THEOREM SlotsExclusive == Spec => []SlotExclusive
<1>1. Init => SlotExclusive
  BY DEF Init, SlotExclusive
<1>2. RecordsInv /\ SlotExclusive /\ [Next]_vars => SlotExclusive'
  <2>. SUFFICES ASSUME RecordsInv, SlotExclusive, [Next]_vars PROVE SlotExclusive'
    OBVIOUS
  <2>0. permit \in [Permits -> Permit]
    BY DEF RecordsInv, RecordsTypeOK
  <2>1. CASE UNCHANGED <<permit, audit, outbox>>
    BY <2>1 DEF SlotExclusive
  <2>2. ASSUME NEW p \in Permits, \A q \in Permits \ {p} : permit'[q] = permit[q],
               permit'[p].state # "executing"
        PROVE  SlotExclusive'
    BY <2>2 DEF SlotExclusive
  <2>3. ASSUME NEW p \in Permits, \A q \in Permits \ {p} : permit'[q] = permit[q],
               permit'[p].slot = permit[p].slot, ~SlotTaken(p)
        PROVE  SlotExclusive'
    BY <2>3 DEF SlotExclusive, SlotTaken
  <2>. QED  BY <2>0, <2>1, <2>2, <2>3, PermitMoves, MovedFacts
<1>. QED  BY <1>1, <1>2, RecordsInvHolds, PTL DEF Spec

-----------------------------------------------------------------------------
(* Batches.                                                                *)

\* The steps that change batches and events: a batch closes on a snapshot that is still
\* the latest, so nothing is left to classify.
LEMMA BatchMoves ==
  ASSUME RecordsInv, [Next]_vars
  PROVE  \/ UNCHANGED <<batch, event>>
         \/ \E b \in Batches :
              /\ batch[b].state = "absent" /\ UNCHANGED event
              /\ batch' = [batch EXCEPT ![b] = [state |-> "collecting", count |-> 0]]
         \/ \E e \in Events :
              /\ event[e].status = "unclassified" /\ UNCHANGED batch
              /\ event' = [event EXCEPT ![e].status = "classified"]
         \/ \E e \in Events, b \in Batches, status \in {"unclassified", "classified"} :
              /\ event[e].status = "absent" /\ batch[b].state = "collecting"
              /\ event' = [event EXCEPT ![e] = [status |-> status, batch |-> b]]
              /\ batch' = [batch EXCEPT ![b].count = @ + 1]
         \/ \E b \in Batches :
              /\ batch[b].state = "collecting" /\ Unresolved(b) = {} /\ UNCHANGED event
              /\ batch' = [batch EXCEPT ![b].state = "closed"]
<1>1. ASSUME NEW c \in Clients, WriteRecordEvent(c)
      PROVE  \E e \in Events, b \in Batches, status \in {"unclassified", "classified"} :
               /\ event[e].status = "absent" /\ batch[b].state = "collecting"
               /\ event' = [event EXCEPT ![e] = [status |-> status, batch |-> b]]
               /\ batch' = [batch EXCEPT ![b].count = @ + 1]
  <2>1. tx[c] \in Transaction /\ tx[c].op = "record"
    BY <1>1 DEF WriteRecordEvent, Doing, RecordsInv, RecordsTypeOK
  <2>2. /\ tx[c].event \in Events /\ tx[c].batch \in Batches
        /\ tx[c].status \in {"unclassified", "classified"}
    BY <2>1, TransactionFields
  <2>. QED  BY <1>1, <2>2 DEF WriteRecordEvent
<1>2. ASSUME NEW c \in Clients, WriteCloseBatch(c)
      PROVE  \E b \in Batches :
               /\ batch[b].state = "collecting" /\ Unresolved(b) = {} /\ UNCHANGED event
               /\ batch' = [batch EXCEPT ![b].state = "closed"]
  <2>1. tx[c] \in Transaction /\ tx[c].op = "close" /\ MayWrite(c)
    BY <1>2 DEF WriteCloseBatch, Doing, RecordsInv, RecordsTypeOK
  <2>2. tx[c].batch \in Batches /\ Unresolved(tx[c].batch) = {}
    BY <2>1, TransactionFields DEF RecordsInv, FreshRead
  <2>. QED  BY <1>2, <2>2 DEF WriteCloseBatch
<1>3. ASSUME NEW c \in Clients, PermitNext(c) \/ SaveNext(c) \/ Rollback(c)
      PROVE  UNCHANGED <<batch, event>>
  BY <1>3 DEF PermitNext, CreatePermit, ApprovePermit, CancelPermit, ReadExecutePermit,
              WriteExecutePermit, SaveNext, ReadCheckpoint, SaveCommandAgain,
              ReadSaveCommand, WriteCheckpoint, WriteSaveCommand, Rollback,
              OthersThanPermits, OthersThanSaves
<1>4. CASE UNCHANGED vars
  BY <1>4 DEF vars
<1>5. ASSUME NEW c \in Clients, NEW b \in Batches, CreateBatch(c, b) \/ ReadCloseBatch(c, b)
      PROVE  \/ UNCHANGED <<batch, event>>
             \/ /\ batch[b].state = "absent" /\ UNCHANGED event
                /\ batch' = [batch EXCEPT ![b] = [state |-> "collecting", count |-> 0]]
  BY <1>5 DEF CreateBatch, ReadCloseBatch
<1>6. ASSUME NEW c \in Clients, NEW e \in Events, NEW b \in Batches,
             NEW status \in {"unclassified", "classified"}, ReadRecordEvent(c, e, b, status)
      PROVE  UNCHANGED <<batch, event>>
  BY <1>6 DEF ReadRecordEvent
<1>7. ASSUME NEW c \in Clients, NEW e \in Events, ClassifyEvent(c, e)
      PROVE  /\ event[e].status = "unclassified" /\ UNCHANGED batch
             /\ event' = [event EXCEPT ![e].status = "classified"]
  BY <1>7 DEF ClassifyEvent
<1>8. ASSUME NEW c \in Clients, BatchNext(c)
      PROVE  \/ \E b \in Batches : CreateBatch(c, b) \/ ReadCloseBatch(c, b)
             \/ \E e \in Events, b \in Batches, status \in {"unclassified", "classified"} :
                  ReadRecordEvent(c, e, b, status)
             \/ \E e \in Events : ClassifyEvent(c, e)
             \/ WriteRecordEvent(c) \/ WriteCloseBatch(c)
  BY <1>8 DEF BatchNext
<1>9. CASE \E c \in Clients : BatchNext(c)
  <2>1. PICK c \in Clients : BatchNext(c)
    BY <1>9
  <2>. QED  BY <2>1, <1>1, <1>2, <1>5, <1>6, <1>7, <1>8
<1>. QED  BY <1>3, <1>4, <1>9 DEF Next

\* A batch is consistent again after every step that touches it or one of its events.
LEMMA BatchesStep == RecordsInv /\ BatchesInv /\ [Next]_vars => BatchesInv'
<1>. SUFFICES ASSUME RecordsInv, BatchesInv, [Next]_vars PROVE BatchesInv'
  OBVIOUS
<1>0. /\ batch \in [Batches -> Batch] /\ event \in [Events -> Event]
      /\ \A b \in Batches : BatchInv(b)
      /\ \A e \in Events : event[e].status = "absent" => event[e].batch = None
      /\ None \notin Batches
  BY RecordsAssumption DEF RecordsInv, RecordsTypeOK, BatchesInv, EventInv
<1>1. CASE UNCHANGED <<batch, event>>
  BY <1>0, <1>1 DEF BatchesInv, EventInv, BatchInv, EventsOf, Unresolved
<1>2. ASSUME NEW b \in Batches, batch[b].state = "absent", UNCHANGED event,
             batch' = [batch EXCEPT ![b] = [state |-> "collecting", count |-> 0]]
      PROVE  BatchesInv'
  <2>1. ASSUME NEW a \in Batches PROVE BatchInv(a)'
    <3>1. CASE a = b
      BY <1>0, <1>2, <3>1 DEF BatchInv, EventsOf, Unresolved
    <3>2. CASE a # b
      BY <1>0, <1>2, <3>2 DEF BatchInv, EventsOf, Unresolved
    <3>. QED  BY <3>1, <3>2
  <2>. QED  BY <1>0, <1>2, <2>1 DEF BatchesInv, EventInv
<1>3. ASSUME NEW e \in Events, event[e].status = "unclassified", UNCHANGED batch,
             event' = [event EXCEPT ![e].status = "classified"]
      PROVE  BatchesInv'
  <2>1. \A f \in Events : /\ event'[f].batch = event[f].batch
                          /\ f # e => event'[f].status = event[f].status
                          /\ event'[e].status = "classified"
    BY <1>0, <1>3 DEF Event
  <2>2. ASSUME NEW a \in Batches PROVE BatchInv(a)'
    <3>1. EventsOf(a)' = EventsOf(a) /\ Unresolved(a)' \subseteq Unresolved(a)
      BY <2>1 DEF EventsOf, Unresolved
    <3>. QED  BY <1>0, <1>3, <3>1 DEF BatchInv
  <2>. QED  BY <1>0, <2>1, <2>2 DEF BatchesInv, EventInv
<1>4. ASSUME NEW e \in Events, NEW b \in Batches, NEW status \in {"unclassified", "classified"},
             event[e].status = "absent", batch[b].state = "collecting",
             event' = [event EXCEPT ![e] = [status |-> status, batch |-> b]],
             batch' = [batch EXCEPT ![b].count = @ + 1]
      PROVE  BatchesInv'
  <2>1. /\ event'[e].batch = b /\ event'[e].status # "absent"
        /\ \A f \in Events \ {e} : event'[f] = event[f]
        /\ event[e].batch = None
    BY <1>0, <1>4
  <2>2. ASSUME NEW a \in Batches PROVE BatchInv(a)'
    <3>0. BatchInv(a)
      BY <1>0
    <3>1. CASE a = b
      <4>1. EventsOf(b)' = EventsOf(b) \cup {e} /\ e \notin EventsOf(b)
        BY <1>0, <2>1 DEF EventsOf
      <4>2. IsFiniteSet(EventsOf(b)') /\ Cardinality(EventsOf(b)') = Cardinality(EventsOf(b)) + 1
        BY <3>0, <3>1, <4>1, FS_AddElement DEF BatchInv
      <4>3. batch'[b].count = batch[b].count + 1 /\ batch'[b].state = "collecting"
        BY <1>0, <1>4 DEF Batch
      <4>. QED  BY <3>0, <3>1, <4>2, <4>3 DEF BatchInv
    <3>2. CASE a # b
      <4>1. EventsOf(a)' = EventsOf(a) /\ Unresolved(a)' = Unresolved(a)
        BY <1>0, <2>1, <3>2 DEF EventsOf, Unresolved
      <4>2. batch'[a] = batch[a]
        BY <1>0, <1>4, <3>2
      <4>. QED  BY <3>0, <4>1, <4>2 DEF BatchInv
    <3>. QED  BY <3>1, <3>2
  <2>. QED  BY <1>0, <2>1, <2>2 DEF BatchesInv, EventInv
<1>5. ASSUME NEW b \in Batches, batch[b].state = "collecting", Unresolved(b) = {}, UNCHANGED event,
             batch' = [batch EXCEPT ![b].state = "closed"]
      PROVE  BatchesInv'
  <2>1. \A a \in Batches : /\ batch'[a].count = batch[a].count
                           /\ a # b => batch'[a].state = batch[a].state
                           /\ batch'[b].state = "closed"
    BY <1>0, <1>5 DEF Batch
  <2>2. ASSUME NEW a \in Batches PROVE BatchInv(a)'
    <3>1. EventsOf(a)' = EventsOf(a) /\ Unresolved(a)' = Unresolved(a)
      BY <1>5 DEF EventsOf, Unresolved
    <3>. QED  BY <1>0, <1>5, <2>1, <3>1 DEF BatchInv
  <2>. QED  BY <1>0, <1>5, <2>2 DEF BatchesInv, EventInv
<1>. QED  BY <1>1, <1>2, <1>3, <1>4, <1>5, BatchMoves

\* For any number of events and batches: a batch closes with nothing left to classify and
\* with the count of its events, although others record into it and classify meanwhile.
THEOREM BatchesSettle == Spec => []BatchesConsistent
<1>1. Init => BatchesInv
  <2>. SUFFICES ASSUME Init PROVE BatchesInv
    OBVIOUS
  <2>1. \A b \in Batches : EventsOf(b) = {}
    BY RecordsAssumption DEF Init, EventsOf
  <2>. QED  BY <2>1, FS_EmptySet DEF Init, BatchesInv, EventInv, BatchInv, Unresolved
<1>2. BatchesInv => BatchesConsistent
  BY DEF BatchesInv, BatchInv, BatchesConsistent, ClosedBatchSettled, CountMatches
<1>. QED  BY <1>1, <1>2, BatchesStep, RecordsInvHolds, PTL DEF Spec

-----------------------------------------------------------------------------
(* Checkpoints and commands.                                               *)

\* For any clients: a save read against an older checkpoint is never let through, so no
\* interleaving takes a stream back to a generation it has passed or stored.
THEOREM CheckpointsOnlyAdvance == Spec => CheckpointsAdvance
<1>1. RecordsInv /\ [Next]_vars => [CheckpointMove]_vars
  <2>. SUFFICES ASSUME RecordsInv, Next, NEW s \in Streams, checkpoint[s] # None,
                       checkpoint'[s] # checkpoint[s]
                PROVE  checkpoint'[s].generation > checkpoint[s].generation
    BY DEF CheckpointMove
  <2>1. ASSUME NEW c \in Clients, WriteCheckpoint(c)
        PROVE  checkpoint'[s].generation > checkpoint[s].generation
    <3>1. tx[c] \in Transaction /\ tx[c].op = "checkpoint" /\ MayWrite(c)
      BY <2>1 DEF WriteCheckpoint, Doing, RecordsInv, RecordsTypeOK
    <3>2. Advances(tx[c].stream, tx[c].row.generation)
      BY <3>1 DEF RecordsInv, FreshRead
    <3>3. s = tx[c].stream /\ checkpoint'[s] = tx[c].row
      BY <2>1 DEF WriteCheckpoint, RecordsInv, RecordsTypeOK
    <3>. QED  BY <3>2, <3>3 DEF Advances
  <2>2. ASSUME NEW c \in Clients, PermitNext(c) \/ BatchNext(c) \/ Rollback(c)
        PROVE  UNCHANGED checkpoint
    BY <2>2 DEF PermitNext, CreatePermit, ApprovePermit, CancelPermit, ReadExecutePermit,
                WriteExecutePermit, BatchNext, CreateBatch, ReadCloseBatch, ReadRecordEvent,
                ClassifyEvent, WriteRecordEvent, WriteCloseBatch, Rollback,
                OthersThanPermits, OthersThanBatches
  <2>. QED  BY <2>1, <2>2 DEF Next, SaveNext, ReadCheckpoint, SaveCommandAgain, ReadSaveCommand,
                              WriteSaveCommand
<1>. QED  BY <1>1, RecordsInvHolds, PTL DEF Spec, CheckpointsAdvance

\* For any clients, keys and requests: the request whose save returned without an error
\* is the one the stored command keeps answering.
THEOREM AcceptedStayReplayable == Spec => []AcceptedReplays
<1>1. Init => AcceptedReplays
  BY DEF Init, AcceptedReplays
<1>2. RecordsInv /\ AcceptedReplays /\ [Next]_vars => AcceptedReplays'
  <2>. SUFFICES ASSUME RecordsInv, AcceptedReplays, [Next]_vars PROVE AcceptedReplays'
    OBVIOUS
  <2>0. /\ command \in [Keys -> Hashes \cup {None}] /\ accepted \subseteq Keys \X Hashes
        /\ None \notin Hashes /\ \A a \in accepted : command[a[1]] = a[2]
    BY RecordsAssumption DEF RecordsInv, RecordsTypeOK, AcceptedReplays, Replays
  <2>1. ASSUME NEW c \in Clients, WriteSaveCommand(c) PROVE AcceptedReplays'
    <3>1. tx[c] \in Transaction /\ tx[c].op = "command"
      BY <2>1 DEF WriteSaveCommand, Doing, RecordsInv, RecordsTypeOK
    <3>2. tx[c].key \in Keys /\ tx[c].hash \in Hashes
      BY <3>1, TransactionFields
    <3>3. /\ command[tx[c].key] = None
          /\ command' = [command EXCEPT ![tx[c].key] = tx[c].hash]
          /\ accepted' = accepted \cup {<<tx[c].key, tx[c].hash>>}
      BY <2>1 DEF WriteSaveCommand
    <3>4. \A a \in accepted : a[1] # tx[c].key /\ command'[a[1]] = a[2]
      BY <2>0, <3>3
    <3>. QED  BY <2>0, <3>2, <3>3, <3>4 DEF AcceptedReplays, Replays
  <2>2. ASSUME NEW c \in Clients, NEW k \in Keys, NEW hash \in Hashes, SaveCommandAgain(c, k, hash)
        PROVE  AcceptedReplays'
    BY <2>0, <2>2 DEF SaveCommandAgain, Saved, AcceptedReplays, Replays
  <2>3. ASSUME NEW c \in Clients, PermitNext(c) \/ BatchNext(c) \/ Rollback(c)
        PROVE  UNCHANGED <<command, accepted>>
    BY <2>3 DEF PermitNext, CreatePermit, ApprovePermit, CancelPermit, ReadExecutePermit,
                WriteExecutePermit, BatchNext, CreateBatch, ReadCloseBatch, ReadRecordEvent,
                ClassifyEvent, WriteRecordEvent, WriteCloseBatch, Rollback,
                OthersThanPermits, OthersThanBatches
  <2>4. CASE UNCHANGED <<command, accepted>>
    BY <2>4 DEF AcceptedReplays, Replays
  <2>. QED  BY <2>1, <2>2, <2>3, <2>4 DEF Next, vars, SaveNext, ReadCheckpoint, ReadSaveCommand,
                                         WriteCheckpoint
<1>. QED  BY <1>1, <1>2, RecordsInvHolds, PTL DEF Spec

=============================================================================
