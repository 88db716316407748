--------------------- MODULE AIWorkloadOperationsProofs ---------------------
(***************************************************************************)
(* Theorems about AIWorkloadOperations for every set of versions and       *)
(* components, every bound and every number of crashes: type correctness,  *)
(* and the protocol by which the reconcile pass, the HTTP handlers and the *)
(* users share one object without losing a write or an outcome.            *)
(***************************************************************************)
EXTENDS AIWorkloadOperations, TLAPS, SequenceTheorems

-----------------------------------------------------------------------------
(* The list of handled requests.                                           *)

\* The list keeps its type, and holds the identity just added even when it
\* is full and its oldest entry is dropped (addHandled).
LEMMA AddHandledKeeps ==
    ASSUME NEW m \in Workloads, NEW id \in OpTypes \X Nat
    PROVE  /\ AddHandled(m, id) \in Seq(OpTypes \X Nat)
           /\ \E i \in DOMAIN AddHandled(m, id) : AddHandled(m, id)[i] = id
<1> DEFINE S == OpTypes \X Nat
           all == Append(m.handled, id)
<1>1. m.handled \in Seq(S)
  BY DEF Workloads
<1>2. CASE IsHandled(m, id)
  BY <1>1, <1>2 DEF AddHandled, IsHandled
<1>3. CASE ~IsHandled(m, id)
  <2>1. /\ all \in Seq(S) /\ all # <<>>
        /\ Len(all) = Len(m.handled) + 1 /\ all[Len(all)] = id
    BY <1>1, AppendProperties
  <2>2. CASE Len(all) > MaxHandledOps
    <3>1. AddHandled(m, id) = Tail(all)
      BY <1>3, <2>2 DEF AddHandled
    <3>2. Len(all) > 1 /\ Len(all) \in Nat
      BY <2>1, <2>2, BoundsAssumption, LenProperties, SMTT(30)
    <3>3. /\ Tail(all) \in Seq(S) /\ Len(Tail(all)) = Len(all) - 1
          /\ \A i \in 1 .. Len(Tail(all)) : Tail(all)[i] = all[i + 1]
      BY <2>1, HeadTailProperties
    <3>4. Len(all) - 1 \in 1 .. Len(Tail(all)) /\ Tail(all)[Len(all) - 1] = id
      BY <2>1, <3>2, <3>3
    <3>5. DOMAIN Tail(all) = 1 .. Len(Tail(all))
      BY <3>3, LenProperties
    <3> QED BY <3>1, <3>3, <3>4, <3>5
  <2>3. CASE ~(Len(all) > MaxHandledOps)
    <3>1. AddHandled(m, id) = all
      BY <1>3, <2>3 DEF AddHandled
    <3>2. Len(all) \in DOMAIN all
      BY <2>1, <1>1, LenProperties
    <3> QED BY <2>1, <3>1, <3>2
  <2> QED BY <2>2, <2>3
<1> QED BY <1>2, <1>3

-----------------------------------------------------------------------------
(* What the helpers of a pass return.                                      *)

\* Starting an upgrade or a rollback yields a well-formed object.
LEMMA StartVersionOpType ==
    ASSUME NEW m \in Workloads, NEW type \in OpTypes, NEW nonce \in Nat,
           NEW target \in Versions, NEW expected \in Digests \cup {None}
    PROVE  StartVersionOp(m, type, nonce, target, expected) \in Workloads
<1>1. AddHandled(m, <<type, nonce>>) \in Seq(OpTypes \X Nat)
  BY AddHandledKeeps
<1>2. [type |-> type, nonce |-> nonce, target |-> target,
       expected |-> expected, epoch |-> 0, intent |-> target,
       state |-> "InProgress", reason |-> ""] \in Operations
  BY DEF Operations, OpStates, Reasons
<1> QED BY <1>1, <1>2 DEF StartVersionOp, Workloads

\* Dropping a rollback request into the list yields a well-formed object.
LEMMA HandledFieldType ==
    ASSUME NEW m \in Workloads, NEW handled \in Seq(OpTypes \X Nat)
    PROVE  [m EXCEPT !.rb = None, !.handled = handled] \in Workloads
  BY DEF Workloads

\* Starting a retry yields a well-formed object.
LEMMA StartRetryType ==
    ASSUME NEW m \in Workloads, NEW nonce \in Nat
    PROVE  StartRetry(m, nonce) \in Workloads
<1>1. AddHandled(m, <<"Retry", nonce>>) \in Seq(OpTypes \X Nat)
  BY AddHandledKeeps DEF OpTypes
<1>2. NextEpoch(m.epoch) \in Nat
  BY DEF Workloads, NextEpoch
<1>3. [type |-> "Retry", nonce |-> nonce, target |-> None,
       expected |-> None, epoch |-> NextEpoch(m.epoch),
       intent |-> m.version, state |-> "InProgress", reason |-> ""] \in Operations
  BY <1>2 DEF Workloads, Operations, OpTypes, OpStates, Reasons
<1> QED BY <1>1, <1>2, <1>3 DEF StartRetry, Workloads

\* The outcome of an operation is the operation with another state.
LEMMA OutcomeType ==
    ASSUME NEW m \in Workloads, m.journal # None
    PROVE  OperationOutcome(m) \in Operations
<1>1. m.journal \in Operations
  BY DEF Workloads
<1>2. \A s \in OpStates, r \in Reasons :
        [m.journal EXCEPT !.state = s, !.reason = r] \in Operations
  BY <1>1 DEF Operations
<1> QED BY <1>1, <1>2 DEF OperationOutcome, OpStates, Reasons

\* Projecting the journal changes nothing but status.activeOperation.
LEMMA ProjectType ==
    ASSUME NEW m \in Workloads
    PROVE  ProjectOperation(m) \in Workloads
  BY DEF ProjectOperation, Workloads

\* The phase derived from a matrix, guarded or not, is a phase.
LEMMA PhaseType ==
    ASSUME NEW matrix \in Cells, NEW current \in Phases
    PROVE  GuardedPhase(PhaseFromCells(matrix), current) \in Phases
<1> DEFINE phases == {matrix[c] : c \in Components} \ {None}
<1>1. CASE \E p \in CellPhases : phases = {p}
  <2>1. (CHOOSE p \in CellPhases : phases = {p}) \in CellPhases
    BY <1>1
  <2> QED BY <2>1 DEF PhaseFromCells, GuardedPhase, CellPhases, Phases
<1>2. CASE ~\E p \in CellPhases : phases = {p}
  BY <1>2 DEF PhaseFromCells, GuardedPhase, Phases
<1> QED BY <1>1, <1>2

\* A cell is Pending, Running or Failed.
LEMMA CellType ==
    ASSUME NEW c \in Components, NEW digest \in Digests
    PROVE  MatrixCellPhase(c, digest) \in CellPhases
  BY DEF MatrixCellPhase, CellPhases

-----------------------------------------------------------------------------
(* Type correctness.                                                       *)

\* The initial state is well formed (createAIWorkload).
LEMMA InitTypeOK == Init => TypeOK
<1> SUFFICES ASSUME Init PROVE TypeOK
  OBVIOUS
<1>1. NewWorkload \in Workloads
  BY VersionsAssumption DEF NewWorkload, Workloads, NoCells, Cells, Phases
<1> QED
  BY <1>1, BoundsAssumption
  DEF Init, TypeOK, NoCells, Cells, Points

\* No HTTP handler and no edit leaves the types.
LEMMA ApiTypeOK == TypeOK /\ ApiStep => TypeOK'
<1> SUFFICES ASSUME TypeOK, ApiStep PROVE TypeOK'
  OBVIOUS
<1> USE DEF TypeOK, pass, fleet, world, client, history, store
<1>1. ASSUME NEW new \in Workloads, Patch(new)
      PROVE  w' \in Workloads /\ cache' \in Workloads
             /\ cacheCurrent' \in BOOLEAN /\ memCurrent' \in BOOLEAN
  BY <1>1 DEF Patch, Store
<1>2. ASSUME NEW v \in Versions, RequestUpgrade(v) PROVE TypeOK'
  <2>1. [w EXCEPT !.up = [nonce |-> nextNonce, target |-> v]] \in Workloads
    BY DEF Workloads, Requests
  <2> QED BY <1>1, <1>2, <2>1 DEF RequestUpgrade
<1>3. ASSUME NEW v \in Versions, UserEdit(v) PROVE TypeOK'
  <2>1. [w EXCEPT !.version = v] \in Workloads
    BY DEF Workloads
  <2> QED BY <1>1, <1>3, <2>1 DEF UserEdit
<1>4. ASSUME NEW v \in Versions, BlueprintEdit(v) \/ BlueprintDelete(v)
      PROVE  TypeOK'
  BY <1>4 DEF BlueprintEdit, BlueprintDelete
<1>5. CASE RequestRollback
  <2>1. [w EXCEPT !.rb = nextNonce] \in Workloads
    BY DEF Workloads
  <2> QED BY <1>1, <1>5, <2>1 DEF RequestRollback
<1>6. CASE RetryAllowed
  BY <1>6 DEF RetryAllowed
<1>7. CASE RequestRetry
  <2>1. [w EXCEPT !.rt = nextNonce] \in Workloads
    BY DEF Workloads
  <2>2. /\ w' \in Workloads /\ cache' \in Workloads
        /\ cacheCurrent' \in BOOLEAN /\ memCurrent' \in BOOLEAN
    BY <1>1, <1>7, <2>1 DEF RequestRetry
  <2>3. retryGate' = FALSE /\ nextNonce' = nextNonce + 1
    BY <1>7, Zenon DEF RequestRetry
  <2>4. UNCHANGED <<pc, mem, todo, bpRev, cells, result, fleet, world, edits,
                    faults, history>>
    BY <1>7 DEF RequestRetry
  <2>5. retryGate' \in BOOLEAN
    BY <2>3, Zenon
  <2>6. nextNonce' \in Nat
    BY <2>3
  <2> QED BY <2>2, <2>4, <2>5, <2>6
<1> QED BY <1>2, <1>3, <1>4, <1>5, <1>6, <1>7 DEF ApiStep

\* A write of the operator keeps the stored object and the copies well formed.
LEMMA WriteTypes ==
    ASSUME TypeOK, NEW new \in Workloads, Write(new) \/ LastWrite(new)
    PROVE  /\ w' \in Workloads /\ cache' \in Workloads /\ mem' \in Workloads
           /\ cacheCurrent' \in BOOLEAN /\ memCurrent' \in BOOLEAN
           /\ LastWrite(new) => /\ pc' \in Points /\ todo' \subseteq Components
                                /\ bpRev' \in Nat /\ cells' \in Cells
                                /\ result' \in {"ok", "requeue"}
<1>1. NewWorkload \in Workloads /\ NoCells \in Cells
  BY VersionsAssumption DEF NewWorkload, Workloads, NoCells, Cells, Phases
<1>2. w' \in Workloads /\ cache' \in Workloads /\ cacheCurrent' \in BOOLEAN
  BY DEF TypeOK, Write, LastWrite, Store
<1>3. mem' \in Workloads /\ memCurrent' \in BOOLEAN
  BY <1>1 DEF TypeOK, Write, LastWrite
<1>4. LastWrite(new) => /\ pc' \in Points /\ todo' \subseteq Components
                        /\ bpRev' \in Nat /\ cells' \in Cells
                        /\ result' \in {"ok", "requeue"}
  BY <1>1 DEF LastWrite, Forget, Points
<1> QED BY <1>2, <1>3, <1>4

\* No trigger writes an ill-formed object (handleTriggers).
LEMMA TriggerTypeOK == TypeOK /\ TriggerStep => TypeOK'
<1> SUFFICES ASSUME TypeOK, TriggerStep PROVE TypeOK'
  OBVIOUS
<1> USE DEF TypeOK, fleet, world, client, history, store
<1>m. mem \in Workloads
  OBVIOUS
<1>t. ASSUME NEW kind \in Kinds, NEW type \in OpTypes, NEW nonce \in Nat,
             NEW new \in Workloads, LastWrite(new), Started(kind, type, nonce)
      PROVE  TypeOK'
  BY <1>t, WriteTypes DEF Started
<1>1. CASE HandleUpgrade
  <2>1. mem.up.nonce \in Nat /\ mem.up.target \in Versions
    BY <1>1 DEF HandleUpgrade, UpgradePending, Workloads, Requests
  <2> DEFINE s == StartVersionOp(mem, "Upgrade", mem.up.nonce, mem.up.target, None)
  <2>2. s \in Workloads
    BY <2>1, <1>m, StartVersionOpType DEF OpTypes
  <2> DEFINE new == [s EXCEPT !.up = None]
  <2>3. LastWrite(new) /\ Started("up", "Upgrade", mem.up.nonce)
    BY <1>1 DEF HandleUpgrade
  <2> HIDE DEF s
  <2>4. new \in Workloads
    BY <2>2 DEF Workloads
  <2> HIDE DEF new, TypeOK
  <2> QED BY <1>t, <2>1, <2>3, <2>4 DEF Kinds, OpTypes
<1>2. CASE HandleUpgradeToCurrent
  <2>1. mem.up.nonce \in Nat
    BY <1>2 DEF HandleUpgradeToCurrent, UpgradePending, Workloads, Requests
  <2>2. StartRetry(mem, mem.up.nonce) \in Workloads
    BY <2>1, <1>m, StartRetryType
  <2> QED BY <1>2, <1>t, <2>1, <2>2 DEF HandleUpgradeToCurrent, Kinds, OpTypes
<1>3. CASE HandleRollback
  <2>1. mem.rb \in Nat /\ mem.deployed.version \in Versions
        /\ mem.deployed.digest \in Digests
    BY <1>3 DEF HandleRollback, RollbackPending, HasRollbackTarget, Workloads,
                Snapshots
  <2> DEFINE s == StartVersionOp(mem, "Rollback", mem.rb, mem.deployed.version,
                                 mem.deployed.digest)
  <2>2. s \in Workloads
    BY <2>1, <1>m, StartVersionOpType DEF OpTypes
  <2> DEFINE new == [s EXCEPT !.rb = None]
  <2>3. LastWrite(new) /\ Started("rb", "Rollback", mem.rb)
    BY <1>3 DEF HandleRollback
  <2> HIDE DEF s
  <2>4. new \in Workloads
    BY <2>2 DEF Workloads
  <2> HIDE DEF new, TypeOK
  <2> QED BY <1>t, <2>1, <2>3, <2>4 DEF Kinds, OpTypes
<1>4. CASE SkipRollback
  <2>1. mem.rb \in Nat
    BY <1>4 DEF SkipRollback, RollbackPending, Workloads
  <2>2. AddHandled(mem, <<"Rollback", mem.rb>>) \in Seq(OpTypes \X Nat)
    BY <2>1, <1>m, AddHandledKeeps DEF OpTypes
  <2>3. [mem EXCEPT !.rb = None,
                    !.handled = AddHandled(mem, <<"Rollback", mem.rb>>)] \in Workloads
    BY <1>m, <2>2, HandledFieldType
  <2> QED BY <1>4, <2>3, WriteTypes DEF SkipRollback
<1>5. CASE HandleRetry
  <2>1. mem.rt \in Nat
    BY <1>5 DEF HandleRetry, RetryPending, Workloads
  <2>2. StartRetry(mem, mem.rt) \in Workloads
    BY <2>1, <1>m, StartRetryType
  <2> QED BY <1>5, <1>t, <2>1, <2>2 DEF HandleRetry, Kinds, OpTypes
<1> QED BY <1>1, <1>2, <1>3, <1>4, <1>5 DEF TriggerStep

\* Assigning a field of the private copy keeps it well formed.
LEMMA FieldTypes ==
    ASSUME NEW m \in Workloads
    PROVE  /\ \A p \in Phases : [m EXCEPT !.phase = p] \in Workloads
           /\ \A p \in Phases, matrix \in Cells :
                [m EXCEPT !.cells = matrix, !.phase = p] \in Workloads
           /\ \A d \in Snapshots : [m EXCEPT !.deployed = d] \in Workloads
           /\ \A n \in SUBSET Components : [m EXCEPT !.names = n] \in Workloads
           /\ \A op \in Operations \cup {None} :
                /\ [m EXCEPT !.journal = op] \in Workloads
                /\ [m EXCEPT !.active = op] \in Workloads
<1>1. \A p \in Phases : [m EXCEPT !.phase = p] \in Workloads
  BY DEF Workloads
<1>2. \A p \in Phases, matrix \in Cells :
        [m EXCEPT !.cells = matrix, !.phase = p] \in Workloads
  BY DEF Workloads
<1>3. \A d \in Snapshots : [m EXCEPT !.deployed = d] \in Workloads
  BY DEF Workloads
<1>4. \A n \in SUBSET Components : [m EXCEPT !.names = n] \in Workloads
  BY DEF Workloads
<1>5. \A op \in Operations \cup {None} : [m EXCEPT !.journal = op] \in Workloads
  BY DEF Workloads
<1>6. \A op \in Operations \cup {None} : [m EXCEPT !.active = op] \in Workloads
  BY DEF Workloads
<1> QED BY <1>1, <1>2, <1>3, <1>4, <1>5, <1>6

\* What a pass derives from its copy.
LEMMA PassTypes ==
    ASSUME TypeOK
    PROVE  /\ Wanted \subseteq Components /\ Stale \subseteq Components
           /\ Desired \in Digests
           /\ mem.phase \in Phases /\ "Failed" \in Phases
           /\ GuardedPhase("Failed", mem.phase) \in Phases
           /\ NewWorkload \in Workloads /\ NoCells \in Cells
<1>1. mem.version \in Versions /\ mem.phase \in Phases
  BY DEF TypeOK, Workloads
<1>2. Wanted \subseteq Components
  BY <1>1, ComponentsAssumption DEF Wanted
<1>3. Desired \in Digests
  BY <1>1 DEF TypeOK, Desired, Digest, Digests
<1>4. NewWorkload \in Workloads /\ NoCells \in Cells
  BY VersionsAssumption DEF NewWorkload, Workloads, NoCells, Cells, Phases
<1> QED BY <1>1, <1>2, <1>3, <1>4 DEF Stale, GuardedPhase, Phases

\* Leaving a component behind keeps the loop's set of components.
LEMMA VisitTypes ==
    ASSUME TypeOK, NEW c, NEW next \in Points, NEW visits \in SUBSET Components,
           Visit(c, next, visits)
    PROVE  pc' \in Points /\ todo' \subseteq Components
  BY DEF Visit, TypeOK

\* An early return of reconcileStatus leaves a well-formed pass.
LEMMA IncompleteTypeOK ==
    ASSUME TypeOK, NEW p \in Phases, StatusIncomplete(p), faults' \in Nat
    PROVE  TypeOK'
<1>1. mem' \in Workloads
  BY FieldTypes DEF TypeOK, StatusIncomplete
<1>2. pc' \in Points /\ cells' \in Cells /\ result' \in {"ok", "requeue"}
      /\ todo' \subseteq Components
  BY PassTypes DEF StatusIncomplete, Points
<1> QED
  BY <1>1, <1>2 DEF TypeOK, StatusIncomplete, store, fleet, world, client, history

\* No step of reconcileStatus leaves the types.
LEMMA StatusTypeOK == TypeOK /\ StatusStep => TypeOK'
<1> SUFFICES ASSUME TypeOK, StatusStep PROVE TypeOK'
  OBVIOUS
<1> USE DEF fleet, world, client, history, store
<1>m. mem \in Workloads
  BY DEF TypeOK
<1>1. CASE BlueprintNotFound
  <2>1. mem' \in Workloads
    BY <1>1, <1>m, FieldTypes, PassTypes DEF BlueprintNotFound
  <2> QED BY <1>1, <2>1 DEF BlueprintNotFound, GoTo, TypeOK, Points
<1>2. CASE PopulateNames
  <2>1. [mem EXCEPT !.names = Wanted] \in Workloads
    BY <1>m, FieldTypes, PassTypes
  <2>2. /\ w' \in Workloads /\ cache' \in Workloads /\ mem' \in Workloads
        /\ cacheCurrent' \in BOOLEAN /\ memCurrent' \in BOOLEAN
    BY <1>2, <2>1, WriteTypes DEF PopulateNames
  <2> QED BY <1>2, <2>2 DEF PopulateNames, TypeOK, Points
<1>3. CASE BlueprintFound
  <2>1. mem.version \in Versions
    BY <1>m DEF Workloads
  <2> QED BY <1>3, <2>1, PassTypes DEF BlueprintFound, TypeOK, Points
<1>4. CASE RenderBlocked
  <2>1. faults' \in Nat
    BY <1>4 DEF RenderBlocked, TypeOK
  <2> QED BY <1>4, <2>1, PassTypes, IncompleteTypeOK DEF RenderBlocked
<1>5. CASE NotCertified
  BY <1>5 DEF NotCertified, TypeOK, Points
<1>6. CASE PersistStatus
  <2>1. ProjectOperation(mem) \in Workloads
    BY <1>m, ProjectType
  <2>2. CASE result = "ok"
    <3>1. Write(ProjectOperation(mem)) /\ GoTo("operation")
      BY <1>6, <2>2 DEF PersistStatus
    <3>2. /\ w' \in Workloads /\ cache' \in Workloads /\ mem' \in Workloads
          /\ cacheCurrent' \in BOOLEAN /\ memCurrent' \in BOOLEAN
      BY <2>1, <3>1, WriteTypes
    <3> QED BY <1>6, <3>1, <3>2 DEF PersistStatus, GoTo, TypeOK, Points
  <2>3. CASE result # "ok"
    <3>1. LastWrite(ProjectOperation(mem))
      BY <1>6, <2>3 DEF PersistStatus
    <3> QED BY <1>6, <2>1, <3>1, WriteTypes DEF PersistStatus, TypeOK
  <2> QED BY <2>2, <2>3
<1>7. ASSUME NEW c \in Components, RenderComponent(c) PROVE TypeOK'
  <2>1. pc' \in Points /\ todo' \subseteq Components
    BY <1>7, VisitTypes, PassTypes DEF RenderComponent, Points
  <2>2. [digest |-> Desired, epoch |-> mem.epoch] \in Renders
    BY <1>m, PassTypes DEF Renders, Workloads
  <2>3. helmOp' \in [Components -> Renders \cup {None}]
    BY <1>7, <2>2 DEF RenderComponent, TypeOK
  <2> QED BY <1>7, <2>1, <2>3 DEF RenderComponent, TypeOK
<1>8. ASSUME NEW c \in Components, DeleteStaleHelmOp(c) PROVE TypeOK'
  <2>1. helmOp' \in [Components -> Renders \cup {None}]
    BY <1>8 DEF DeleteStaleHelmOp, TypeOK
  <2> QED BY <1>8, <2>1 DEF DeleteStaleHelmOp, TypeOK, pass
<1>9. ASSUME NEW c \in Components, DeleteStaleBundle(c) PROVE TypeOK'
  <2>1. pc' \in Points /\ todo' \subseteq Components
    BY <1>9, VisitTypes, PassTypes DEF DeleteStaleBundle, Points
  <2>2. bundle' \in [Components -> Bundles \cup {None}]
    BY <1>9 DEF DeleteStaleBundle, TypeOK
  <2> QED BY <1>9, <2>1, <2>2 DEF DeleteStaleBundle, TypeOK
<1>10. ASSUME NEW c \in Components, BuildCell(c) PROVE TypeOK'
  <2> DEFINE matrix == [cells EXCEPT ![c] = MatrixCellPhase(c, Desired)]
  <2>1. pc' \in Points /\ todo' \subseteq Components
    BY <1>10, VisitTypes, PassTypes DEF BuildCell, Points
  <2>2. matrix \in Cells
    BY CellType, PassTypes DEF TypeOK, Cells
  <2> DEFINE phase == GuardedPhase(PhaseFromCells(matrix), mem.phase)
  <2>3. phase \in Phases
    BY <2>2, PhaseType, PassTypes
  <2>a. IF todo = {c}
        THEN cells' = NoCells /\ mem' = [mem EXCEPT !.cells = matrix, !.phase = phase]
        ELSE cells' = matrix /\ mem' = mem
    BY <1>10 DEF BuildCell
  <2>b. [mem EXCEPT !.cells = matrix, !.phase = phase] \in Workloads
    <3> HIDE DEF matrix, phase
    <3> QED BY <1>m, <2>2, <2>3, FieldTypes
  <2>4. mem' \in Workloads /\ cells' \in Cells
    <3> HIDE DEF matrix, phase
    <3> QED BY <1>m, <2>2, <2>a, <2>b, PassTypes
  <2> QED BY <1>10, <2>1, <2>4 DEF BuildCell, TypeOK
<1>11. ASSUME NEW c \in Components, CertifyBundle(c) PROVE TypeOK'
  <2>1. pc' \in Points /\ todo' \subseteq Components
    <3>1. Visit(c, "persist", {}) /\ {} \in SUBSET Components
      BY <1>11 DEF CertifyBundle
    <3> QED BY <3>1, VisitTypes DEF Points
  <2>2. [version |-> mem.version, digest |-> Desired] \in Snapshots
    BY <1>m, PassTypes DEF Snapshots, Workloads
  <2>3. mem' \in Workloads
    BY <1>11, <1>m, <2>2, FieldTypes DEF CertifyBundle
  <2> QED BY <1>11, <2>1, <2>3 DEF CertifyBundle, TypeOK
<1> QED
  BY <1>1, <1>2, <1>3, <1>4, <1>5, <1>6, <1>7, <1>8, <1>9, <1>10, <1>11
  DEF StatusStep

\* No step of reconcileOperation leaves the types.
LEMMA OperationTypeOK == TypeOK /\ (OperationStep \/ BeginPass \/ Conflict) => TypeOK'
<1> SUFFICES ASSUME TypeOK, OperationStep \/ BeginPass \/ Conflict PROVE TypeOK'
  OBVIOUS
<1> USE DEF fleet, world, client, history
<1>m. mem \in Workloads
  BY DEF TypeOK
<1>1. ASSUME EndPass, UNCHANGED <<fleet, world, client, faults, history>>
      PROVE  TypeOK'
  BY <1>1, PassTypes DEF EndPass, Forget, store, TypeOK, Points
<1>2. CASE NothingToConclude \/ Conflict
  BY <1>1, <1>2 DEF NothingToConclude, Conflict
<1>3. CASE JournalOutcome
  <2>1. mem.journal # None
    BY <1>3 DEF JournalOutcome, Concluding
  <2>2. OperationOutcome(mem) \in Operations
    BY <1>m, <2>1, OutcomeType
  <2>3. [mem EXCEPT !.journal = OperationOutcome(mem)] \in Workloads
    BY <1>m, <2>2, FieldTypes
  <2>4. /\ w' \in Workloads /\ cache' \in Workloads /\ mem' \in Workloads
        /\ cacheCurrent' \in BOOLEAN /\ memCurrent' \in BOOLEAN
    BY <1>3, <2>3, WriteTypes DEF JournalOutcome
  <2> QED BY <1>3, <2>4 DEF JournalOutcome, GoTo, TypeOK, Points
<1>4. CASE ProjectOutcome
  <2>1. mem.journal \in Operations \cup {None}
    BY <1>m DEF Workloads
  <2>2. [mem EXCEPT !.active = mem.journal] \in Workloads
    BY <1>m, <2>1, FieldTypes
  <2>3. /\ w' \in Workloads /\ cache' \in Workloads /\ mem' \in Workloads
        /\ cacheCurrent' \in BOOLEAN /\ memCurrent' \in BOOLEAN
    BY <1>4, <2>2, WriteTypes DEF ProjectOutcome
  <2> QED BY <1>4, <2>3 DEF ProjectOutcome, GoTo, TypeOK, Points
<1>5. CASE ClearJournal
  <2>1. [mem EXCEPT !.journal = None] \in Workloads
    BY <1>m, FieldTypes
  <2> QED BY <1>5, <2>1, WriteTypes DEF ClearJournal, TypeOK
<1>6. CASE BeginPass
  BY <1>6 DEF BeginPass, GoTo, store, TypeOK, Points
<1> QED BY <1>2, <1>3, <1>4, <1>5, <1>6 DEF OperationStep

\* No step of the Fleet controllers leaves the types.
LEMMA FleetTypeOK ==
    ASSUME TypeOK, NEW c \in Components,
           FleetProgress(c) \/ \E s \in BDStates : FleetDegrades(c, s)
    PROVE  TypeOK'
<1> USE DEF store, pass, world, client, history
<1>b. bundle[c] \in Bundles \cup {None} /\ helmOp[c] \in Renders \cup {None}
      /\ bd[c] \in BundleDeployments \cup {None}
  BY DEF TypeOK
<1>r. ASSUME NEW digest \in Digests, NEW s, Record(c, digest, s)
      PROVE  /\ rolledOut' \subseteq Components \X Digests
             /\ failedOut' \subseteq Components \X Digests
             /\ UNCHANGED <<started, repeated>>
  BY <1>r DEF Record, TypeOK
<1>1. CASE FleetHelmOp(c)
  <2>1. [render |-> helmOp[c], observed |-> FALSE,
         ready |-> IF bundle[c] = None THEN FALSE ELSE bundle[c].ready] \in Bundles
    BY <1>1, <1>b DEF FleetHelmOp, Bundles
  <2>2. bundle' \in [Components -> Bundles \cup {None}]
    BY <1>1, <2>1 DEF FleetHelmOp, TypeOK
  <2> QED BY <1>1, <2>2 DEF FleetHelmOp, TypeOK
<1>2. CASE FleetBundle(c)
  <2> DEFINE d == IF bd[c] = None
                  THEN [desired |-> bundle[c].render, applied |-> None,
                        state |-> "Progressing", sync |-> 0]
                  ELSE [bd[c] EXCEPT !.desired = bundle[c].render]
  <2>1. bundle[c] \in Bundles /\ bundle[c].render \in Renders
    BY <1>2, <1>b DEF FleetBundle, Bundles
  <2>2. d \in BundleDeployments
    BY <1>b, <2>1 DEF BundleDeployments, BDStates
  <2>3. BDReady(d) \in BOOLEAN
    BY DEF BDReady
  <2>4. /\ bd' = [bd EXCEPT ![c] = d]
        /\ bundle' = [bundle EXCEPT ![c].observed = TRUE, ![c].ready = BDReady(d)]
        /\ UNCHANGED <<store, pass, helmOp, world, client, faults, history>>
    BY <1>2 DEF FleetBundle
  <2> HIDE DEF d
  <2>5. bd' \in [Components -> BundleDeployments \cup {None}]
    BY <2>2, <2>4 DEF TypeOK
  <2>6. bundle' \in [Components -> Bundles \cup {None}]
    BY <2>1, <2>3, <2>4 DEF TypeOK, Bundles
  <2> QED BY <2>4, <2>5, <2>6 DEF TypeOK
<1>3. CASE FleetSummary(c)
  <2>1. bundle' \in [Components -> Bundles \cup {None}]
    BY <1>3, <1>b DEF FleetSummary, BDReady, TypeOK, Bundles
  <2> QED BY <1>3, <2>1 DEF FleetSummary, TypeOK
<1>4. CASE FleetRecovers(c)
  <2>1. bd[c].applied.digest \in Digests
    BY <1>4, <1>b DEF FleetRecovers, BundleDeployments, Renders
  <2>2. bd' \in [Components -> BundleDeployments \cup {None}]
    BY <1>4, <1>b DEF FleetRecovers, TypeOK, BundleDeployments, BDStates
  <2> QED BY <1>4, <1>r, <2>1, <2>2 DEF FleetRecovers, TypeOK
<1>5. CASE FleetCollects(c)
  BY <1>5 DEF FleetCollects, TypeOK
<1>6. ASSUME NEW s \in AgentStates, FleetAgent(c, s) PROVE TypeOK'
  <2>1. bd[c].desired \in Renders /\ bd[c].desired.digest \in Digests
        /\ bd[c].desired.epoch \in Nat /\ s \in BDStates
    BY <1>6, <1>b, AgentAssumption
    DEF FleetAgent, BundleDeployments, Renders, BDStates
  <2>2. bd' \in [Components -> BundleDeployments \cup {None}]
    BY <1>6, <1>b, <2>1 DEF FleetAgent, TypeOK, BundleDeployments
  <2> QED BY <1>6, <1>r, <2>1, <2>2 DEF FleetAgent, TypeOK
<1>7. ASSUME NEW s \in BDStates, FleetDegrades(c, s) PROVE TypeOK'
  <2>1. bd[c].applied.digest \in Digests
    BY <1>7, <1>b DEF FleetDegrades, BDReady, BundleDeployments, Renders
  <2>2. bd' \in [Components -> BundleDeployments \cup {None}]
    BY <1>7, <1>b DEF FleetDegrades, TypeOK, BundleDeployments
  <2> QED BY <1>7, <1>r, <2>1, <2>2 DEF FleetDegrades, TypeOK
<1> QED BY <1>1, <1>2, <1>3, <1>4, <1>5, <1>6, <1>7 DEF FleetProgress

\* No step of the environment leaves the types.
LEMMA EnvTypeOK == TypeOK /\ EnvStep => TypeOK'
<1> SUFFICES ASSUME TypeOK, EnvStep PROVE TypeOK'
  OBVIOUS
<1> USE DEF store, pass, fleet, world, client, history
<1>1. CASE CacheSync
  BY <1>1 DEF CacheSync, TypeOK
<1>2. CASE GraceEnds
  BY <1>2 DEF GraceEnds, TypeOK
<1>3. CASE DeadlinePasses
  <2>1. w.journal \in Operations
    BY <1>3 DEF DeadlinePasses, InProgress, TypeOK, Workloads
  <2>2. overdue' \subseteq OpTypes \X Nat
    BY <1>3, <2>1 DEF DeadlinePasses, TypeOK, Operations
  <2> QED BY <1>3, <2>2 DEF DeadlinePasses, TypeOK
<1>4. CASE RepoAppears
  BY <1>4 DEF RepoAppears, TypeOK
<1>5. CASE RepoGone
  <2>1. repoReady' \in BOOLEAN
    BY <1>5, Zenon DEF RepoGone
  <2>2. faults' \in Nat
    BY <1>5 DEF RepoGone, TypeOK
  <2> QED BY <1>5, <2>1, <2>2 DEF RepoGone, TypeOK
<1>6. CASE Crash
  <2>1. faults' \in Nat
    BY <1>6 DEF Crash, TypeOK
  <2>2. /\ pc' \in Points /\ todo' \subseteq Components /\ bpRev' \in Nat
        /\ cells' \in Cells /\ result' \in {"ok", "requeue"}
        /\ mem' \in Workloads /\ memCurrent' \in BOOLEAN
    BY <1>6, PassTypes DEF Crash, EndPass, Forget, Points
  <2> QED BY <1>6, <2>1, <2>2 DEF Crash, EndPass, TypeOK
<1>7. CASE ReadFails
  <2>1. faults' \in Nat
    BY <1>7 DEF ReadFails, TypeOK
  <2> QED BY <1>7, <2>1, PassTypes, IncompleteTypeOK DEF ReadFails
<1>8. ASSUME NEW c \in Components,
             FleetProgress(c) \/ \E s \in BDStates : FleetDegrades(c, s)
      PROVE  TypeOK'
  BY <1>8, FleetTypeOK
<1> QED BY <1>1, <1>2, <1>3, <1>4, <1>5, <1>6, <1>7, <1>8 DEF EnvStep

\* No step leaves the types.
LEMMA StepTypeOK == TypeOK /\ [Next]_vars => TypeOK'
<1> SUFFICES ASSUME TypeOK, [Next]_vars PROVE TypeOK'
  OBVIOUS
<1>1. CASE Next
  BY <1>1, ApiTypeOK, TriggerTypeOK, StatusTypeOK, OperationTypeOK, EnvTypeOK
  DEF Next, PassStep
<1>2. CASE UNCHANGED vars
  BY <1>2 DEF TypeOK, vars, store, pass, fleet, world, client, history
<1> QED BY <1>1, <1>2

\* Every reachable state is well formed.
THEOREM TypeCorrect == Spec => []TypeOK
  BY InitTypeOK, StepTypeOK, PTL DEF Spec

-----------------------------------------------------------------------------
(* One object, many writers.  The copy a pass holds is, while it counts as *)
(* current, the stored document but for the status; this is what makes the *)
(* resource version check sufficient, and what the two theorems rest on.   *)

SameDocument(m, n) ==
    /\ m.version = n.version /\ m.names = n.names /\ m.journal = n.journal
    /\ m.handled = n.handled /\ m.epoch = n.epoch
    /\ m.up = n.up /\ m.rb = n.rb /\ m.rt = n.rt

Coherent ==
    /\ cacheCurrent => cache = w
    /\ memCurrent =>
         /\ SameDocument(mem, w)
         /\ pc \in {"project", "clear"} =>
              mem.journal # None /\ ~InProgress(mem.journal)
         /\ pc = "clear" => w.active = w.journal

\* What a step has to do for the two action properties and the invariant.
Safe == Coherent' /\ KeepsWrites /\ ProjectsBeforeClear

\* A step that leaves the stored object alone only has to keep its copy.
LEMMA QuietStep ==
    ASSUME Coherent, UNCHANGED <<w, cache, cacheCurrent>>,
           memCurrent' => /\ memCurrent /\ SameDocument(mem', mem)
                          /\ pc' \notin {"project", "clear"}
    PROVE  Safe
  BY DEF Safe, Coherent, KeepsWrites, ProjectsBeforeClear, SameDocument

\* The informer's copy after a write.
LEMMA StoreCoherent ==
    ASSUME Coherent, NEW new, Store(new)
    PROVE  w' = new /\ (cacheCurrent' => cache' = w')
  BY DEF Coherent, Store

\* A patch of another party outdates the copy of the pass.
LEMMA PatchCoherent ==
    ASSUME Coherent, NEW new, Patch(new), UNCHANGED <<mem, pc>>
    PROVE  w' = new /\ Coherent'
<1>1. w' = new /\ (cacheCurrent' => cache' = w')
  BY StoreCoherent DEF Patch
<1>2. memCurrent' => memCurrent /\ w' = w
  BY <1>1 DEF Patch
<1> QED BY <1>1, <1>2 DEF Coherent

\* The last write of a pass leaves no copy behind.
LEMMA LastWriteCoherent ==
    ASSUME Coherent, NEW new, LastWrite(new)
    PROVE  w' = new /\ Coherent' /\ SameDocument(mem, w)
<1>1. w' = new /\ (cacheCurrent' => cache' = w')
  BY StoreCoherent DEF LastWrite
<1> QED BY <1>1 DEF LastWrite, WriteAccepted, Coherent

\* What the operator writes is what its copy held, changed.
LEMMA WriteCoherent ==
    ASSUME Coherent, NEW new, Write(new)
    PROVE  /\ w' = new /\ mem' = new /\ memCurrent' = memCurrent /\ memCurrent
           /\ (cacheCurrent' => cache' = w') /\ SameDocument(mem, w)
<1>1. w' = new /\ (cacheCurrent' => cache' = w')
  BY StoreCoherent DEF Write
<1> QED BY <1>1 DEF Write, WriteAccepted, Coherent

\* Handlers and users write around the pass: they outdate its copy and lose
\* no request.
LEMMA ApiSafe == TypeOK /\ Coherent /\ ApiStep => Safe
<1> SUFFICES ASSUME TypeOK, Coherent, ApiStep PROVE Safe
  OBVIOUS
<1> USE DEF KeepsWrites, ProjectsBeforeClear, Safe
<1>w. w \in Workloads /\ nextNonce \in Nat /\ edits \in Nat
  BY DEF TypeOK
<1>n. nextNonce # None
  BY <1>w, NoneAssumption
<1>1. ASSUME NEW v \in Versions, RequestUpgrade(v) PROVE Safe
  <2>1. w' = [w EXCEPT !.up = [nonce |-> nextNonce, target |-> v]] /\ Coherent'
    BY <1>1, PatchCoherent DEF RequestUpgrade
  <2>2. [nonce |-> nextNonce, target |-> v] # None
    BY <1>w, NoneAssumption DEF Requests
  <2> QED BY <2>1, <2>2, <1>w DEF Workloads
<1>2. ASSUME NEW v \in Versions, UserEdit(v) PROVE Safe
  <2>1. w' = [w EXCEPT !.version = v] /\ Coherent' /\ edits' # edits
    BY <1>2, <1>w, PatchCoherent DEF UserEdit
  <2> QED BY <2>1, <1>w DEF Workloads
<1>3. CASE RequestRollback
  <2>1. w' = [w EXCEPT !.rb = nextNonce] /\ Coherent'
    BY <1>3, PatchCoherent DEF RequestRollback
  <2> QED BY <2>1, <1>n, <1>w DEF Workloads
<1>4. CASE RequestRetry
  <2>1. w' = [w EXCEPT !.rt = nextNonce] /\ Coherent'
    BY <1>4, PatchCoherent DEF RequestRetry
  <2> QED BY <2>1, <1>n, <1>w DEF Workloads
<1>5. CASE UNCHANGED <<store, pass>>
  BY <1>5 DEF store, pass, Coherent, SameDocument
<1> QED
  BY <1>1, <1>2, <1>3, <1>4, <1>5
  DEF ApiStep, RetryAllowed, BlueprintEdit, BlueprintDelete

\* The object a version operation starts from, field by field.
LEMMA StartVersionOpFields ==
    ASSUME NEW m \in Workloads, NEW type \in OpTypes, NEW nonce \in Nat,
           NEW target \in Versions, NEW expected \in Digests \cup {None},
           NEW n, n = StartVersionOp(m, type, nonce, target, expected)
    PROVE  /\ n.version = target /\ n.up = m.up /\ n.rb = m.rb /\ n.rt = m.rt
           /\ IsHandled(n, <<type, nonce>>)
           /\ InProgress(n.journal) /\ n.journal.intent = target
<1>1. [type |-> type, nonce |-> nonce, target |-> target,
       expected |-> expected, epoch |-> 0, intent |-> target,
       state |-> "InProgress", reason |-> ""] \in Operations
  BY DEF Operations, OpStates, Reasons
<1>2. n.handled = AddHandled(m, <<type, nonce>>)
  BY DEF StartVersionOp, Workloads
<1>3. IsHandled(n, <<type, nonce>>)
  BY <1>2, AddHandledKeeps DEF IsHandled
<1>4. n.journal # None
  BY <1>1, NoneAssumption DEF StartVersionOp, Workloads
<1> QED BY <1>3, <1>4 DEF StartVersionOp, Workloads, InProgress

\* The object a retry starts from, field by field.
LEMMA StartRetryFields ==
    ASSUME NEW m \in Workloads, NEW nonce \in Nat, NEW n, n = StartRetry(m, nonce)
    PROVE  /\ n.version = m.version /\ n.up = m.up /\ n.rb = m.rb
           /\ InProgress(n.journal) /\ n.journal.type = "Retry"
<1>1. NextEpoch(m.epoch) \in Nat
  BY DEF Workloads, NextEpoch
<1>2. [type |-> "Retry", nonce |-> nonce, target |-> None,
       expected |-> None, epoch |-> NextEpoch(m.epoch),
       intent |-> m.version, state |-> "InProgress", reason |-> ""] \in Operations
  BY <1>1 DEF Workloads, Operations, OpTypes, OpStates, Reasons
<1>3. n.journal # None
  BY <1>2, NoneAssumption DEF StartRetry, Workloads
<1> QED BY <1>3 DEF StartRetry, Workloads, InProgress

\* A trigger consumes the request it acts on and no other's (finishTrigger),
\* or, for an upgrade to the current version, keeps it.
LEMMA TriggerSafe == TypeOK /\ Coherent /\ TriggerStep => Safe
<1> SUFFICES ASSUME TypeOK, Coherent, TriggerStep PROVE Safe
  OBVIOUS
<1>m. mem \in Workloads
  BY DEF TypeOK
<1>s. ASSUME NEW new, LastWrite(new)
      PROVE  /\ w' = new /\ Coherent' /\ w.version = mem.version
             /\ w.up = mem.up /\ w.rb = mem.rb /\ w.rt = mem.rt
             /\ w.journal = mem.journal
  BY <1>s, LastWriteCoherent DEF SameDocument
<1>1. CASE HandleUpgrade
  <2> DEFINE n == StartVersionOp(mem, "Upgrade", mem.up.nonce, mem.up.target, None)
  <2>1. mem.up.nonce \in Nat /\ mem.up.target \in Versions
    BY <1>1, <1>m DEF HandleUpgrade, UpgradePending, Workloads, Requests
  <2>2. n \in Workloads
    BY <1>m, <2>1, StartVersionOpType DEF OpTypes
  <2>3. /\ n.version = mem.up.target /\ n.rb = mem.rb /\ n.rt = mem.rt
        /\ IsHandled(n, <<"Upgrade", mem.up.nonce>>)
        /\ InProgress(n.journal) /\ n.journal.intent = mem.up.target
    BY <1>m, <2>1, StartVersionOpFields DEF OpTypes
  <2>4. LastWrite([n EXCEPT !.up = None])
    BY <1>1 DEF HandleUpgrade
  <2> HIDE DEF n
  <2>5. /\ w'.handled = n.handled /\ w'.rb = n.rb
        /\ w'.version = n.version /\ w'.journal = n.journal /\ w'.rt = n.rt
    BY <1>s, <2>2, <2>4 DEF Workloads
  <2>6. IsHandled(w', <<"Upgrade", mem.up.nonce>>)
    BY <2>3, <2>5 DEF IsHandled
  <2> QED BY <1>s, <2>3, <2>4, <2>5, <2>6 DEF InProgress, KeepsWrites, ProjectsBeforeClear, Safe
<1>2. CASE HandleUpgradeToCurrent
  <2>1. mem.up.nonce \in Nat
    BY <1>2, <1>m DEF HandleUpgradeToCurrent, UpgradePending, Workloads, Requests
  <2>2. LastWrite(StartRetry(mem, mem.up.nonce))
    BY <1>2 DEF HandleUpgradeToCurrent
  <2> QED BY <1>s, <1>m, <2>1, <2>2, StartRetryFields DEF InProgress, KeepsWrites, ProjectsBeforeClear, Safe
<1>3. CASE HandleRollback
  <2> DEFINE n == StartVersionOp(mem, "Rollback", mem.rb, mem.deployed.version,
                                 mem.deployed.digest)
  <2>1. mem.rb \in Nat /\ mem.deployed.version \in Versions
        /\ mem.deployed.digest \in Digests
    BY <1>3, <1>m
    DEF HandleRollback, RollbackPending, HasRollbackTarget, Workloads, Snapshots
  <2>2. n \in Workloads
    BY <1>m, <2>1, StartVersionOpType DEF OpTypes
  <2>3. /\ n.version = mem.deployed.version /\ n.up = mem.up /\ n.rt = mem.rt
        /\ IsHandled(n, <<"Rollback", mem.rb>>)
        /\ InProgress(n.journal) /\ n.journal.intent = mem.deployed.version
    BY <1>m, <2>1, StartVersionOpFields DEF OpTypes
  <2>4. LastWrite([n EXCEPT !.rb = None])
    BY <1>3 DEF HandleRollback
  <2> HIDE DEF n
  <2>5. /\ w'.handled = n.handled /\ w'.up = n.up
        /\ w'.version = n.version /\ w'.journal = n.journal /\ w'.rt = n.rt
    BY <1>s, <2>2, <2>4 DEF Workloads
  <2>6. IsHandled(w', <<"Rollback", mem.rb>>)
    BY <2>3, <2>5 DEF IsHandled
  <2> QED BY <1>s, <2>3, <2>4, <2>5, <2>6 DEF InProgress, KeepsWrites, ProjectsBeforeClear, Safe
<1>4. CASE SkipRollback
  <2>1. mem.rb \in Nat
    BY <1>4, <1>m DEF SkipRollback, RollbackPending, Workloads
  <2>2. LastWrite([mem EXCEPT !.rb = None,
                              !.handled = AddHandled(mem, <<"Rollback", mem.rb>>)])
    BY <1>4 DEF SkipRollback
  <2>3. /\ w'.handled = AddHandled(mem, <<"Rollback", mem.rb>>)
        /\ w'.version = mem.version /\ w'.journal = mem.journal
        /\ w'.rt = mem.rt /\ w'.up = mem.up
    <3> DEFINE handled == AddHandled(mem, <<"Rollback", mem.rb>>)
               n == [mem EXCEPT !.rb = None, !.handled = handled]
    <3>1. w' = n
      BY <1>s, <2>2
    <3>2. /\ n.version = mem.version /\ n.journal = mem.journal
          /\ n.rt = mem.rt /\ n.up = mem.up /\ n.handled = handled
      <4> HIDE DEF handled
      <4> QED BY <1>m DEF Workloads
    <3> QED BY <3>1, <3>2
  <2>4. IsHandled(w', <<"Rollback", mem.rb>>)
    BY <1>m, <2>1, <2>3, AddHandledKeeps DEF IsHandled, OpTypes
  <2> QED BY <1>s, <2>2, <2>3, <2>4 DEF KeepsWrites, ProjectsBeforeClear, Safe
<1>5. CASE HandleRetry
  <2>1. mem.rt \in Nat
    BY <1>5, <1>m DEF HandleRetry, RetryPending, Workloads
  <2>2. LastWrite(StartRetry(mem, mem.rt))
    BY <1>5 DEF HandleRetry
  <2> QED BY <1>s, <1>m, <2>1, <2>2, StartRetryFields DEF InProgress, KeepsWrites, ProjectsBeforeClear, Safe
<1> QED BY <1>1, <1>2, <1>3, <1>4, <1>5 DEF TriggerStep

\* Projecting the journal changes nothing but the status.
LEMMA ProjectFields ==
    ASSUME NEW m \in Workloads, NEW n, n = ProjectOperation(m)
    PROVE  SameDocument(n, m)
  BY DEF ProjectOperation, SameDocument, Workloads

\* reconcileStatus writes names and status only.
LEMMA StatusSafe == TypeOK /\ Coherent /\ StatusStep => Safe
<1> SUFFICES ASSUME TypeOK, Coherent, StatusStep PROVE Safe
  OBVIOUS
<1>m. mem \in Workloads
  BY DEF TypeOK
<1>q. ASSUME UNCHANGED <<w, cache, cacheCurrent, memCurrent>>,
             SameDocument(mem', mem), pc' \notin {"project", "clear"}
      PROVE  Safe
  BY <1>q, QuietStep
<1>d. ASSUME NEW phase, NEW matrix, NEW deployed, NEW n,
             \/ n = mem
             \/ n = [mem EXCEPT !.phase = phase]
             \/ n = [mem EXCEPT !.cells = matrix, !.phase = phase]
             \/ n = [mem EXCEPT !.deployed = deployed]
      PROVE  SameDocument(n, mem)
  BY <1>d, <1>m DEF SameDocument, Workloads
<1>v. ASSUME NEW c, NEW next, NEW visits, Visit(c, next, visits),
             next \notin {"project", "clear"}, pc \notin {"project", "clear"}
      PROVE  pc' \notin {"project", "clear"}
  BY <1>v DEF Visit
<1>1. CASE BlueprintNotFound
  BY <1>1, <1>d, <1>q DEF BlueprintNotFound, GoTo, store
<1>2. CASE PopulateNames
  <2> DEFINE n == [mem EXCEPT !.names = Wanted]
  <2>1. /\ w' = n /\ mem' = n /\ memCurrent' = memCurrent /\ memCurrent
        /\ (cacheCurrent' => cache' = w') /\ SameDocument(mem, w)
    BY <1>2, WriteCoherent DEF PopulateNames
  <2>2. /\ n.version = mem.version /\ n.journal = mem.journal
        /\ n.up = mem.up /\ n.rb = mem.rb /\ n.rt = mem.rt
    BY <1>m DEF Workloads
  <2>3. pc' = "persist"
    BY <1>2 DEF PopulateNames
  <2> HIDE DEF n
  <2> QED BY <2>1, <2>2, <2>3
          DEF Safe, Coherent, KeepsWrites, ProjectsBeforeClear, SameDocument
<1>3. CASE BlueprintFound
  BY <1>3, <1>d, <1>q DEF BlueprintFound, store
<1>4. CASE RenderBlocked
  BY <1>4, <1>d, <1>q DEF RenderBlocked, StatusIncomplete, store
<1>5. CASE NotCertified
  BY <1>5, <1>d, <1>q DEF NotCertified, store
<1>6. CASE PersistStatus
  <2> DEFINE n == ProjectOperation(mem)
  <2>1. SameDocument(n, mem)
    BY <1>m, ProjectFields
  <2>2. CASE Write(n) /\ GoTo("operation")
    <3>1. /\ w' = n /\ mem' = n /\ memCurrent' = memCurrent /\ memCurrent
          /\ (cacheCurrent' => cache' = w') /\ SameDocument(mem, w)
          /\ pc' = "operation"
      BY <2>2, WriteCoherent DEF GoTo
    <3> HIDE DEF n
    <3> QED BY <2>1, <3>1
            DEF Safe, Coherent, KeepsWrites, ProjectsBeforeClear, SameDocument
  <2>3. CASE LastWrite(n)
    <3>1. w' = n /\ Coherent' /\ SameDocument(mem, w)
      BY <2>3, LastWriteCoherent
    <3> HIDE DEF n
    <3> QED BY <2>1, <3>1 DEF Safe, KeepsWrites, ProjectsBeforeClear, SameDocument
  <2> QED BY <1>6, <2>2, <2>3 DEF PersistStatus
<1>7. ASSUME NEW c \in Components, RenderComponent(c) PROVE Safe
  BY <1>7, <1>d, <1>q, <1>v DEF RenderComponent, store
<1>8. ASSUME NEW c \in Components, DeleteStaleHelmOp(c) PROVE Safe
  BY <1>8, <1>d, <1>q DEF DeleteStaleHelmOp, store, pass
<1>9. ASSUME NEW c \in Components, DeleteStaleBundle(c) PROVE Safe
  BY <1>9, <1>d, <1>q, <1>v DEF DeleteStaleBundle, store
<1>10. ASSUME NEW c \in Components, BuildCell(c) PROVE Safe
  <2> DEFINE matrix == [cells EXCEPT ![c] = MatrixCellPhase(c, Desired)]
             phase == GuardedPhase(PhaseFromCells(matrix), mem.phase)
  <2>1. \/ mem' = mem
        \/ mem' = [mem EXCEPT !.cells = matrix, !.phase = phase]
    BY <1>10 DEF BuildCell
  <2> HIDE DEF matrix, phase
  <2>2. SameDocument(mem', mem)
    BY <1>d, <2>1
  <2> QED BY <1>10, <1>q, <1>v, <2>2 DEF BuildCell, store
<1>11. ASSUME NEW c \in Components, CertifyBundle(c) PROVE Safe
  <2>1. SameDocument(mem', mem)
    BY <1>11, <1>d DEF CertifyBundle
  <2> QED BY <1>11, <1>q, <1>v, <2>1 DEF CertifyBundle, store
<1> QED
  BY <1>1, <1>2, <1>3, <1>4, <1>5, <1>6, <1>7, <1>8, <1>9, <1>10, <1>11
  DEF StatusStep

\* reconcileOperation removes a journal only after projecting it.
LEMMA OperationSafe ==
    TypeOK /\ Coherent /\ (OperationStep \/ BeginPass \/ Conflict) => Safe
<1> SUFFICES ASSUME TypeOK, Coherent, OperationStep \/ BeginPass \/ Conflict
             PROVE  Safe
  OBVIOUS
<1>m. mem \in Workloads
  BY DEF TypeOK
<1>1. CASE NothingToConclude \/ Conflict
  BY <1>1, QuietStep DEF NothingToConclude, Conflict, EndPass, store
<1>2. CASE BeginPass
  <2>1. pc' \notin {"project", "clear"} /\ UNCHANGED <<w, cache, cacheCurrent>>
        /\ mem' = cache /\ (memCurrent' => cacheCurrent)
    BY <1>2 DEF BeginPass, GoTo, store
  <2> QED BY <2>1 DEF Safe, Coherent, KeepsWrites, ProjectsBeforeClear, SameDocument
<1>3. CASE JournalOutcome
  <2> DEFINE outcome == OperationOutcome(mem)
             n == [mem EXCEPT !.journal = outcome]
  <2>1. /\ w' = n /\ mem' = n /\ memCurrent' = memCurrent /\ memCurrent
        /\ (cacheCurrent' => cache' = w') /\ SameDocument(mem, w)
        /\ pc' = "project"
    BY <1>3, WriteCoherent DEF JournalOutcome, GoTo
  <2>2. outcome # None /\ ~InProgress(outcome)
    BY <1>3, <1>m, OutcomeType, NoneAssumption
    DEF JournalOutcome, Concluding, InProgress
  <2> HIDE DEF outcome
  <2>3. /\ n.version = mem.version /\ n.journal = outcome
        /\ n.up = mem.up /\ n.rb = mem.rb /\ n.rt = mem.rt
    BY <1>m DEF Workloads
  <2> HIDE DEF n
  <2> QED BY <2>1, <2>2, <2>3
          DEF Safe, Coherent, KeepsWrites, ProjectsBeforeClear, SameDocument
<1>4. CASE ProjectOutcome
  <2> DEFINE n == [mem EXCEPT !.active = mem.journal]
  <2>1. /\ w' = n /\ mem' = n /\ memCurrent' = memCurrent /\ memCurrent
        /\ (cacheCurrent' => cache' = w') /\ SameDocument(mem, w)
        /\ pc' = "clear" /\ pc = "project"
    BY <1>4, WriteCoherent DEF ProjectOutcome, GoTo
  <2>2. /\ n.version = mem.version /\ n.journal = mem.journal
        /\ n.active = mem.journal /\ n.up = mem.up /\ n.rb = mem.rb /\ n.rt = mem.rt
    BY <1>m DEF Workloads
  <2>3. mem.journal # None /\ ~InProgress(mem.journal)
    BY <2>1 DEF Coherent
  <2> HIDE DEF n
  <2> QED BY <2>1, <2>2, <2>3
          DEF Safe, Coherent, KeepsWrites, ProjectsBeforeClear, SameDocument
<1>5. CASE ClearJournal
  <2> DEFINE n == [mem EXCEPT !.journal = None]
  <2>1. w' = n /\ Coherent' /\ SameDocument(mem, w) /\ memCurrent /\ pc = "clear"
    BY <1>5, LastWriteCoherent DEF ClearJournal, LastWrite, WriteAccepted
  <2>2. /\ n.version = mem.version /\ n.up = mem.up /\ n.rb = mem.rb
        /\ n.rt = mem.rt
    BY <1>m DEF Workloads
  <2>3. ~InProgress(w.journal) /\ w.active = w.journal
    BY <2>1 DEF Coherent, SameDocument
  <2> HIDE DEF n
  <2> QED BY <2>1, <2>2, <2>3
          DEF Safe, KeepsWrites, ProjectsBeforeClear, SameDocument
<1> QED BY <1>1, <1>2, <1>3, <1>4, <1>5 DEF OperationStep

\* The environment does not touch the stored object.
LEMMA EnvSafe == TypeOK /\ Coherent /\ EnvStep => Safe
<1> SUFFICES ASSUME TypeOK, Coherent, EnvStep PROVE Safe
  OBVIOUS
<1>1. CASE CacheSync
  BY <1>1 DEF CacheSync, pass, Safe, Coherent, KeepsWrites,
              ProjectsBeforeClear, SameDocument
<1>2. CASE Crash
  BY <1>2, QuietStep DEF Crash, EndPass, store
<1>3. CASE ReadFails
  <2>1. mem' = [mem EXCEPT !.phase = mem.phase] /\ pc' = "persist"
        /\ UNCHANGED <<w, cache, cacheCurrent, memCurrent>>
    BY <1>3 DEF ReadFails, StatusIncomplete, store
  <2>2. mem \in Workloads
    BY DEF TypeOK
  <2>3. SameDocument(mem', mem)
    BY <2>1, <2>2 DEF SameDocument, Workloads
  <2> QED BY <2>1, <2>3, QuietStep
<1>4. CASE UNCHANGED <<store, pass>>
  BY <1>4 DEF store, pass, Safe, Coherent, KeepsWrites, ProjectsBeforeClear,
              SameDocument
<1>5. ASSUME NEW c \in Components,
             FleetProgress(c) \/ \E s \in BDStates : FleetDegrades(c, s)
      PROVE  UNCHANGED <<store, pass>>
  BY <1>5 DEF FleetProgress, FleetHelmOp, FleetBundle, FleetSummary, FleetAgent,
              FleetDegrades, FleetRecovers, FleetCollects
<1> QED
  BY <1>1, <1>2, <1>3, <1>4, <1>5
  DEF EnvStep, GraceEnds, DeadlinePasses, RepoAppears, RepoGone

\* Every step keeps the copies coherent, the writes and the outcome.
LEMMA StepSafe == TypeOK /\ Coherent /\ [Next]_vars => Safe
<1> SUFFICES ASSUME TypeOK, Coherent, [Next]_vars PROVE Safe
  OBVIOUS
<1>1. CASE Next
  BY <1>1, ApiSafe, TriggerSafe, StatusSafe, OperationSafe, EnvSafe
  DEF Next, PassStep
<1>2. CASE UNCHANGED vars
  BY <1>2 DEF vars, store, pass, Safe, Coherent, KeepsWrites,
              ProjectsBeforeClear, SameDocument
<1> QED BY <1>1, <1>2

\* In every reachable state a copy that still counts as current holds the
\* stored document, and a pass about to clear a journal has projected it.
THEOREM AlwaysCoherent == Spec => []Coherent
<1>1. Init => Coherent
  BY DEF Init, Coherent
<1>2. TypeOK /\ Coherent /\ [Next]_vars => Coherent'
  BY StepSafe DEF Safe
<1> QED BY <1>1, <1>2, TypeCorrect, PTL DEF Spec

\* Whatever the interleaving of passes, handlers, edits and crashes, and
\* however stale the informer, the operator loses no request and undoes no
\* edit made meanwhile (finishTrigger, Reconcile).
THEOREM NothingIsOverwritten == Spec => NothingOverwritten
<1>1. TypeOK /\ Coherent /\ [Next]_vars => [KeepsWrites]_vars
  BY StepSafe DEF Safe
<1> QED BY <1>1, TypeCorrect, AlwaysCoherent, PTL DEF Spec, NothingOverwritten

\* No operation disappears from the object without its terminal outcome
\* having been stored in the status first (reconcileOperation).
THEOREM OutcomeIsProjected == Spec => OutcomeProjectedBeforeClear
<1>1. TypeOK /\ Coherent /\ [Next]_vars => [ProjectsBeforeClear]_vars
  BY StepSafe DEF Safe
<1> QED BY <1>1, TypeCorrect, AlwaysCoherent, PTL
        DEF Spec, OutcomeProjectedBeforeClear
=============================================================================
