---------------------- MODULE AIWorkloadEvidenceProofs ----------------------
(***************************************************************************)
(* Further theorems about AIWorkloadOperations, for every value of its     *)
(* constants: what an operation's outcome and the recorded deployed source *)
(* say did happen on the cluster, a request starts one operation, and the  *)
(* forced sync generation never goes back.                                 *)
(*                                                                         *)
(* They share one description of what any step may do to the stored object *)
(* and to its copies (Effects), on top of Coherent.                        *)
(***************************************************************************)
EXTENDS AIWorkloadOperationsProofs

-----------------------------------------------------------------------------
(* What a step may do to the stored object and to its copies.              *)

\* An operation as a trigger starts it, from the copy of the pass.
Begun(op) ==
    /\ InProgress(op)
    /\ op.type # "Retry" => op.intent = op.target
    /\ op.type = "Rollback" =>
         /\ mem.deployed # None /\ op.target = mem.deployed.version
         /\ op.expected = mem.deployed.digest

JournalEffect ==
    \/ w'.journal \in {w.journal, None}
    \/ Begun(w'.journal)
    \/ /\ pc = "operation" /\ Concluding(mem) /\ w.journal = mem.journal
       /\ w'.journal = OperationOutcome(mem) /\ w'.version = mem.version

CopyEffect ==
    \/ pc' = "idle" /\ mem'.deployed = None
    \/ pc = "idle" /\ pc' = "triggers" /\ mem' = cache
    \/ /\ pc' # "idle" => pc # "idle"
       /\ mem'.epoch = mem.epoch /\ mem'.version = mem.version
       /\ \/ mem'.deployed = mem.deployed
          \/ /\ \E c \in Components : CertifyBundle(c) /\ todo = {c}
             /\ mem'.deployed = [version |-> mem.version, digest |-> Desired]

Effects ==
    /\ cache' \in {cache, w, w'}
    /\ w'.epoch >= w.epoch
    /\ w'.deployed \in {w.deployed, mem.deployed}
    /\ JournalEffect /\ CopyEffect

\* A step that leaves the stored object and the copy of the pass alone.
LEMMA IdleEffect ==
    ASSUME TypeOK, UNCHANGED <<w, mem, pc>>, cache' \in {cache, w}
    PROVE  Effects
<1>1. w.epoch \in Nat
  BY DEF TypeOK, Workloads
<1> QED BY <1>1 DEF Effects, JournalEffect, CopyEffect

\* A pass that returns without a write.
LEMMA EndPassEffect ==
    ASSUME TypeOK, EndPass
    PROVE  Effects
<1>1. w.epoch \in Nat
  BY DEF TypeOK, Workloads
<1> QED BY <1>1 DEF EndPass, Forget, store, NewWorkload, Effects, JournalEffect,
                    CopyEffect

\* Handlers and users change the version and the requests, nothing else.
LEMMA ApiEffect == TypeOK /\ ApiStep => Effects
<1> SUFFICES ASSUME TypeOK, ApiStep PROVE Effects
  OBVIOUS
<1>w. w \in Workloads /\ w.epoch \in Nat
  BY DEF TypeOK, Workloads
<1>p. ASSUME NEW new, Patch(new), UNCHANGED <<mem, pc>>,
             new.epoch = w.epoch, new.deployed = w.deployed,
             new.journal = w.journal
      PROVE  Effects
  <2>1. w' = new /\ cache' \in {cache, new}
    BY <1>p DEF Patch, Store
  <2> QED BY <1>p, <1>w, <2>1 DEF Effects, JournalEffect, CopyEffect
<1>1. ASSUME NEW v \in Versions, RequestUpgrade(v) PROVE Effects
  <2> DEFINE up == [nonce |-> nextNonce, target |-> v]
             n == [w EXCEPT !.up = up]
  <2>1. Patch(n) /\ UNCHANGED <<mem, pc>>
    BY <1>1 DEF RequestUpgrade
  <2> HIDE DEF up
  <2>2. n.epoch = w.epoch /\ n.deployed = w.deployed /\ n.journal = w.journal
    BY <1>w DEF Workloads
  <2> HIDE DEF n
  <2> QED BY <1>p, <2>1, <2>2
<1>2. ASSUME NEW v \in Versions, UserEdit(v) PROVE Effects
  <2> DEFINE n == [w EXCEPT !.version = v]
  <2>1. Patch(n) /\ UNCHANGED <<mem, pc>>
    BY <1>2 DEF UserEdit
  <2>2. n.epoch = w.epoch /\ n.deployed = w.deployed /\ n.journal = w.journal
    BY <1>w DEF Workloads
  <2> HIDE DEF n
  <2> QED BY <1>p, <2>1, <2>2
<1>3. CASE RequestRollback
  <2> DEFINE n == [w EXCEPT !.rb = nextNonce]
  <2>1. Patch(n) /\ UNCHANGED <<mem, pc>>
    BY <1>3 DEF RequestRollback
  <2>2. n.epoch = w.epoch /\ n.deployed = w.deployed /\ n.journal = w.journal
    BY <1>w DEF Workloads
  <2> HIDE DEF n
  <2> QED BY <1>p, <2>1, <2>2
<1>4. CASE RequestRetry
  <2> DEFINE n == [w EXCEPT !.rt = nextNonce]
  <2>1. Patch(n) /\ UNCHANGED <<mem, pc>>
    BY <1>4 DEF RequestRetry
  <2>2. n.epoch = w.epoch /\ n.deployed = w.deployed /\ n.journal = w.journal
    BY <1>w DEF Workloads
  <2> HIDE DEF n
  <2> QED BY <1>p, <2>1, <2>2
<1>5. CASE UNCHANGED <<store, pass>>
  BY <1>5, IdleEffect DEF store, pass
<1> QED
  BY <1>1, <1>2, <1>3, <1>4, <1>5
  DEF ApiStep, RetryAllowed, BlueprintEdit, BlueprintDelete

\* The effect of a write that ends the pass, by what it writes.
LEMMA LastWriteEffect ==
    ASSUME TypeOK, Coherent, NEW new, LastWrite(new),
           new.deployed \in {w.deployed, mem.deployed}, new.epoch >= mem.epoch,
           \/ new.journal \in {mem.journal, None}
           \/ Begun(new.journal)
    PROVE  Effects
<1>1. w' = new /\ SameDocument(mem, w)
  BY LastWriteCoherent
<1>2. cache' \in {cache, new} /\ pc' = "idle" /\ mem'.deployed = None
  BY DEF LastWrite, Store, Forget, NewWorkload
<1> QED BY <1>1, <1>2 DEF SameDocument, Effects, JournalEffect, CopyEffect

\* A version operation starts with its target as its intent, and keeps the
\* deployed source and the sync generation (startVersionOp).
LEMMA StartVersionOpEffect ==
    ASSUME NEW m \in Workloads, NEW type \in OpTypes, NEW nonce \in Nat,
           NEW target \in Versions, NEW expected \in Digests \cup {None},
           NEW n, n = StartVersionOp(m, type, nonce, target, expected)
    PROVE  /\ n.deployed = m.deployed /\ n.epoch = m.epoch
           /\ n.journal.type = type /\ n.journal.intent = target
           /\ n.journal.target = target /\ n.journal.expected = expected
           /\ InProgress(n.journal)
<1>1. InProgress(n.journal)
  BY StartVersionOpFields
<1>2. AddHandled(m, <<type, nonce>>) \in Seq(OpTypes \X Nat)
  BY AddHandledKeeps
<1> QED BY <1>1, <1>2 DEF StartVersionOp, Workloads

\* A retry moves the sync generation forward (startRetry).
LEMMA StartRetryEffect ==
    ASSUME NEW m \in Workloads, NEW nonce \in Nat, NEW n, n = StartRetry(m, nonce)
    PROVE  /\ n.deployed = m.deployed /\ n.epoch >= m.epoch
           /\ n.journal.type = "Retry" /\ InProgress(n.journal)
<1>1. /\ InProgress(n.journal) /\ n.journal.type = "Retry"
  BY StartRetryFields
<1>2. AddHandled(m, <<"Retry", nonce>>) \in Seq(OpTypes \X Nat)
  BY AddHandledKeeps DEF OpTypes
<1>3. NextEpoch(m.epoch) \in Nat /\ NextEpoch(m.epoch) >= m.epoch
  BY DEF Workloads, NextEpoch
<1> QED BY <1>1, <1>2, <1>3 DEF StartRetry, Workloads

\* A trigger starts an operation of its own kind, aimed at the version it
\* moves the workload to (handleTriggers).
LEMMA TriggerEffect == TypeOK /\ Coherent /\ TriggerStep => Effects
<1> SUFFICES ASSUME TypeOK, Coherent, TriggerStep PROVE Effects
  OBVIOUS
<1>m. mem \in Workloads /\ mem.epoch \in Nat
  BY DEF TypeOK, Workloads
<1>1. CASE HandleUpgrade
  <2> DEFINE n == StartVersionOp(mem, "Upgrade", mem.up.nonce, mem.up.target, None)
             new == [n EXCEPT !.up = None]
  <2>1. mem.up.nonce \in Nat /\ mem.up.target \in Versions
    BY <1>1, <1>m DEF HandleUpgrade, UpgradePending, Workloads, Requests
  <2>2. n \in Workloads
    BY <1>m, <2>1, StartVersionOpType DEF OpTypes
  <2>3. /\ n.deployed = mem.deployed /\ n.epoch = mem.epoch
        /\ n.journal.type = "Upgrade" /\ InProgress(n.journal)
        /\ n.journal.intent = n.journal.target
    BY <1>m, <2>1, StartVersionOpEffect DEF OpTypes
  <2>4. LastWrite(new)
    BY <1>1 DEF HandleUpgrade
  <2> HIDE DEF n
  <2>5. /\ new.deployed = n.deployed /\ new.epoch = n.epoch
        /\ new.journal = n.journal
    BY <2>2 DEF Workloads
  <2>6. Begun(n.journal)
    BY <2>3 DEF Begun
  <2> HIDE DEF new
  <2> QED BY <1>m, <2>3, <2>4, <2>5, <2>6, LastWriteEffect
<1>2. CASE HandleUpgradeToCurrent
  <2> DEFINE n == StartRetry(mem, mem.up.nonce)
  <2>1. mem.up.nonce \in Nat
    BY <1>2, <1>m DEF HandleUpgradeToCurrent, UpgradePending, Workloads, Requests
  <2>2. LastWrite(n)
    BY <1>2 DEF HandleUpgradeToCurrent
  <2>3. n.deployed = mem.deployed /\ n.epoch >= mem.epoch /\ Begun(n.journal)
    BY <1>m, <2>1, StartRetryEffect DEF Begun
  <2> HIDE DEF n
  <2> QED BY <2>2, <2>3, LastWriteEffect
<1>3. CASE HandleRollback
  <2> DEFINE n == StartVersionOp(mem, "Rollback", mem.rb, mem.deployed.version,
                                 mem.deployed.digest)
             new == [n EXCEPT !.rb = None]
  <2>1. mem.rb \in Nat /\ mem.deployed.version \in Versions
        /\ mem.deployed.digest \in Digests /\ mem.deployed # None
    BY <1>3, <1>m
    DEF HandleRollback, RollbackPending, HasRollbackTarget, Workloads, Snapshots
  <2>2. n \in Workloads
    BY <1>m, <2>1, StartVersionOpType DEF OpTypes
  <2>3. /\ n.deployed = mem.deployed /\ n.epoch = mem.epoch
        /\ n.journal.type = "Rollback" /\ InProgress(n.journal)
        /\ n.journal.intent = mem.deployed.version
        /\ n.journal.target = mem.deployed.version
        /\ n.journal.expected = mem.deployed.digest
    BY <1>m, <2>1, StartVersionOpEffect DEF OpTypes
  <2>4. LastWrite(new)
    BY <1>3 DEF HandleRollback
  <2> HIDE DEF n
  <2>5. /\ new.deployed = n.deployed /\ new.epoch = n.epoch
        /\ new.journal = n.journal
    BY <2>2 DEF Workloads
  <2>6. Begun(n.journal)
    BY <2>1, <2>3 DEF Begun
  <2> HIDE DEF new
  <2> QED BY <1>m, <2>3, <2>4, <2>5, <2>6, LastWriteEffect
<1>4. CASE SkipRollback
  <2> DEFINE handled == AddHandled(mem, <<"Rollback", mem.rb>>)
             n == [mem EXCEPT !.rb = None, !.handled = handled]
  <2>1. LastWrite(n)
    BY <1>4 DEF SkipRollback
  <2> HIDE DEF handled
  <2>2. n.deployed = mem.deployed /\ n.epoch = mem.epoch /\ n.journal = mem.journal
    BY <1>m DEF Workloads
  <2> HIDE DEF n
  <2> QED BY <1>m, <2>1, <2>2, LastWriteEffect
<1>5. CASE HandleRetry
  <2> DEFINE n == StartRetry(mem, mem.rt)
  <2>1. mem.rt \in Nat
    BY <1>5, <1>m DEF HandleRetry, RetryPending, Workloads
  <2>2. LastWrite(n)
    BY <1>5 DEF HandleRetry
  <2>3. n.deployed = mem.deployed /\ n.epoch >= mem.epoch /\ Begun(n.journal)
    BY <1>m, <2>1, StartRetryEffect DEF Begun
  <2> HIDE DEF n
  <2> QED BY <2>2, <2>3, LastWriteEffect
<1> QED BY <1>1, <1>2, <1>3, <1>4, <1>5 DEF TriggerStep

\* A step of a pass that leaves the stored object alone.
LEMMA PassEffect ==
    ASSUME TypeOK, UNCHANGED <<w, cache>>, pc # "idle",
           mem'.epoch = mem.epoch, mem'.version = mem.version,
           mem'.deployed = mem.deployed
    PROVE  Effects
<1>1. w.epoch \in Nat
  BY DEF TypeOK, Workloads
<1> QED BY <1>1 DEF Effects, JournalEffect, CopyEffect

\* The effect of a write after which the pass goes on.
LEMMA WriteEffect ==
    ASSUME TypeOK, Coherent, NEW new, Write(new), pc # "idle",
           new.epoch = mem.epoch, new.version = mem.version,
           new.deployed = mem.deployed,
           \/ new.journal = mem.journal
           \/ /\ pc = "operation" /\ Concluding(mem)
              /\ new.journal = OperationOutcome(mem)
    PROVE  Effects
<1>1. /\ w' = new /\ mem' = new /\ SameDocument(mem, w)
  BY WriteCoherent
<1>2. cache' \in {cache, new} /\ mem.epoch \in Nat
  BY DEF Write, Store, TypeOK, Workloads
<1> QED BY <1>1, <1>2 DEF SameDocument, Effects, JournalEffect, CopyEffect

\* reconcileStatus records a deployed source after certifying every Bundle,
\* and otherwise changes names, phase and matrix only.
LEMMA StatusEffect == TypeOK /\ Coherent /\ StatusStep => Effects
<1> SUFFICES ASSUME TypeOK, Coherent, StatusStep PROVE Effects
  OBVIOUS
<1>m. mem \in Workloads /\ mem.epoch \in Nat
  BY DEF TypeOK, Workloads
<1>d. ASSUME NEW phase, NEW matrix, NEW names, NEW n,
             \/ n = mem
             \/ n = [mem EXCEPT !.phase = phase]
             \/ n = [mem EXCEPT !.cells = matrix, !.phase = phase]
             \/ n = [mem EXCEPT !.names = names]
      PROVE  /\ n.epoch = mem.epoch /\ n.version = mem.version
             /\ n.deployed = mem.deployed /\ n.journal = mem.journal
  BY <1>d, <1>m DEF Workloads
<1>1. CASE BlueprintNotFound
  BY <1>1, <1>d, PassEffect DEF BlueprintNotFound, Untriggered, store
<1>2. CASE PopulateNames
  <2> DEFINE n == [mem EXCEPT !.names = Wanted]
  <2>1. Write(n) /\ pc # "idle"
    BY <1>2 DEF PopulateNames, NamesMissing, Untriggered
  <2>2. /\ n.epoch = mem.epoch /\ n.version = mem.version
        /\ n.deployed = mem.deployed /\ n.journal = mem.journal
    BY <1>d
  <2> HIDE DEF n
  <2> QED BY <2>1, <2>2, WriteEffect
<1>3. CASE BlueprintFound
  BY <1>3, PassEffect DEF BlueprintFound, Untriggered, store
<1>4. CASE RenderBlocked
  BY <1>4, <1>d, PassEffect DEF RenderBlocked, StatusIncomplete, store
<1>5. CASE NotCertified
  BY <1>5, PassEffect DEF NotCertified, store
<1>6. CASE PersistStatus
  <2> DEFINE n == ProjectOperation(mem)
  <2>1. /\ n.epoch = mem.epoch /\ n.version = mem.version
        /\ n.deployed = mem.deployed /\ n.journal = mem.journal
    BY <1>m DEF ProjectOperation, Workloads
  <2>2. pc # "idle" /\ (Write(n) \/ LastWrite(n))
    BY <1>6 DEF PersistStatus
  <2> HIDE DEF n
  <2> QED BY <1>m, <2>1, <2>2, WriteEffect, LastWriteEffect
<1>7. ASSUME NEW c \in Components,
             RenderComponent(c) \/ DeleteStaleHelmOp(c) \/ DeleteStaleBundle(c)
      PROVE  Effects
  BY <1>7, PassEffect
  DEF RenderComponent, DeleteStaleHelmOp, DeleteStaleBundle, store, pass
<1>8. ASSUME NEW c \in Components, BuildCell(c) PROVE Effects
  <2> DEFINE matrix == [cells EXCEPT ![c] = MatrixCellPhase(c, Desired)]
             phase == GuardedPhase(PhaseFromCells(matrix), mem.phase)
  <2>1. \/ mem' = mem
        \/ mem' = [mem EXCEPT !.cells = matrix, !.phase = phase]
    BY <1>8 DEF BuildCell
  <2> HIDE DEF matrix, phase
  <2>2. /\ mem'.epoch = mem.epoch /\ mem'.version = mem.version
        /\ mem'.deployed = mem.deployed
    BY <2>1, <1>m DEF Workloads
  <2> QED BY <1>8, <2>2, PassEffect DEF BuildCell, store
<1>9. ASSUME NEW c \in Components, CertifyBundle(c) PROVE Effects
  <2>1. pc # "idle" /\ UNCHANGED <<w, cache>>
    BY <1>9 DEF CertifyBundle, store
  <2>2. CASE todo = {c}
    <3> DEFINE snapshot == [version |-> mem.version, digest |-> Desired]
    <3>1. mem' = [mem EXCEPT !.deployed = snapshot]
      BY <1>9, <2>2 DEF CertifyBundle
    <3> HIDE DEF snapshot
    <3>2. /\ mem'.epoch = mem.epoch /\ mem'.version = mem.version
          /\ mem'.deployed = snapshot
      BY <1>m, <3>1 DEF Workloads
    <3>3. mem'.deployed = [version |-> mem.version, digest |-> Desired]
      BY <3>2 DEF snapshot
    <3>4. CopyEffect
      BY <1>9, <2>1, <2>2, <3>2, <3>3 DEF CopyEffect
    <3>5. w.epoch \in Nat
      BY DEF TypeOK, Workloads
    <3> QED BY <2>1, <3>4, <3>5 DEF Effects, JournalEffect
  <2>3. CASE todo # {c}
    BY <1>9, <2>1, <2>3, PassEffect DEF CertifyBundle
  <2> QED BY <2>2, <2>3
<1> QED
  BY <1>1, <1>2, <1>3, <1>4, <1>5, <1>6, <1>7, <1>8, <1>9 DEF StatusStep

\* reconcileOperation gives the journal its outcome, projects it, clears it.
LEMMA OperationEffect ==
    TypeOK /\ Coherent /\ (OperationStep \/ BeginPass \/ Conflict) => Effects
<1> SUFFICES ASSUME TypeOK, Coherent, OperationStep \/ BeginPass \/ Conflict
             PROVE  Effects
  OBVIOUS
<1>m. mem \in Workloads /\ mem.epoch \in Nat /\ w.epoch \in Nat
  BY DEF TypeOK, Workloads
<1>1. CASE NothingToConclude \/ Conflict
  BY <1>1, EndPassEffect DEF NothingToConclude, Conflict
<1>2. CASE BeginPass
  BY <1>2, <1>m DEF BeginPass, GoTo, store, Effects, JournalEffect, CopyEffect
<1>3. CASE JournalOutcome
  <2> DEFINE outcome == OperationOutcome(mem)
             n == [mem EXCEPT !.journal = outcome]
  <2>1. Write(n) /\ pc = "operation" /\ Concluding(mem)
    BY <1>3 DEF JournalOutcome
  <2> HIDE DEF outcome
  <2>2. /\ n.epoch = mem.epoch /\ n.version = mem.version
        /\ n.deployed = mem.deployed /\ n.journal = outcome
    BY <1>m DEF Workloads
  <2> HIDE DEF n
  <2> QED BY <2>1, <2>2, WriteEffect DEF outcome
<1>4. CASE ProjectOutcome
  <2> DEFINE n == [mem EXCEPT !.active = mem.journal]
  <2>1. Write(n) /\ pc # "idle"
    BY <1>4 DEF ProjectOutcome
  <2>2. /\ n.epoch = mem.epoch /\ n.version = mem.version
        /\ n.deployed = mem.deployed /\ n.journal = mem.journal
    BY <1>m DEF Workloads
  <2> HIDE DEF n
  <2> QED BY <2>1, <2>2, WriteEffect
<1>5. CASE ClearJournal
  <2> DEFINE n == [mem EXCEPT !.journal = None]
  <2>1. LastWrite(n)
    BY <1>5 DEF ClearJournal
  <2>2. n.epoch = mem.epoch /\ n.deployed = mem.deployed /\ n.journal = None
    BY <1>m DEF Workloads
  <2> HIDE DEF n
  <2> QED BY <1>m, <2>1, <2>2, LastWriteEffect
<1> QED BY <1>1, <1>2, <1>3, <1>4, <1>5 DEF OperationStep

\* The environment moves the informer and ends passes.
LEMMA EnvEffect == TypeOK /\ EnvStep => Effects
<1> SUFFICES ASSUME TypeOK, EnvStep PROVE Effects
  OBVIOUS
<1>1. CASE CacheSync
  BY <1>1, IdleEffect DEF CacheSync, pass
<1>2. CASE Crash
  BY <1>2, EndPassEffect DEF Crash
<1>3. CASE ReadFails
  <2>1. mem' = [mem EXCEPT !.phase = mem.phase] /\ mem \in Workloads
        /\ pc # "idle" /\ UNCHANGED <<w, cache>>
    BY <1>3 DEF ReadFails, StatusIncomplete, store, TypeOK
  <2>2. /\ mem'.epoch = mem.epoch /\ mem'.version = mem.version
        /\ mem'.deployed = mem.deployed
    BY <2>1 DEF Workloads
  <2> QED BY <2>1, <2>2, PassEffect
<1>4. CASE UNCHANGED <<store, pass>>
  BY <1>4, IdleEffect DEF store, pass
<1>5. ASSUME NEW c \in Components,
             FleetProgress(c) \/ \E s \in BDStates : FleetDegrades(c, s)
      PROVE  UNCHANGED <<store, pass>>
  BY <1>5 DEF FleetProgress, FleetHelmOp, FleetBundle, FleetSummary, FleetAgent,
              FleetDegrades, FleetRecovers, FleetCollects
<1> QED
  BY <1>1, <1>2, <1>3, <1>4, <1>5
  DEF EnvStep, GraceEnds, DeadlinePasses, RepoAppears, RepoGone

\* Every step has these effects and no other.
LEMMA StepEffects == TypeOK /\ Coherent /\ [Next]_vars => Effects
<1> SUFFICES ASSUME TypeOK, Coherent, [Next]_vars PROVE Effects
  OBVIOUS
<1>1. CASE Next
  BY <1>1, ApiEffect, TriggerEffect, StatusEffect, OperationEffect, EnvEffect
  DEF Next, PassStep
<1>2. CASE UNCHANGED vars
  BY <1>2, IdleEffect DEF vars, store, pass
<1> QED BY <1>1, <1>2

-----------------------------------------------------------------------------
(* Outcomes.                                                               *)

\* An outcome is the operation itself in another state; it is Succeeded only
\* at the operation's intent (reconcileOperation).
LEMMA OutcomeFields ==
    ASSUME NEW m \in Workloads, m.journal # None, NEW op,
           op = OperationOutcome(m)
    PROVE  /\ op.type = m.journal.type /\ op.target = m.journal.target
           /\ op.expected = m.journal.expected /\ op.intent = m.journal.intent
           /\ InProgress(m.journal) /\ op.state = "Succeeded" =>
                m.version = op.intent
<1>1. m.journal \in Operations
  BY DEF Workloads
<1>2. \A s, r : LET o == [m.journal EXCEPT !.state = s, !.reason = r]
                IN  /\ o.type = m.journal.type /\ o.target = m.journal.target
                    /\ o.expected = m.journal.expected
                    /\ o.intent = m.journal.intent /\ o.state = s
  BY <1>1 DEF Operations
<1> QED BY <1>2 DEF OperationOutcome

\* No pass declares an operation Succeeded that the spec has moved away
\* from, however late the pass learns of the edit (reconcileOperation).
THEOREM SuccessMatchesIntent == Spec => SucceededMatchesIntent
<1> DEFINE A == InProgress(w.journal) /\ w'.journal # None
                /\ w'.journal.state = "Succeeded"
                => w'.version = w'.journal.intent
<1>1. TypeOK /\ Coherent /\ [Next]_vars => A
  <2> SUFFICES ASSUME TypeOK, Coherent, [Next]_vars, InProgress(w.journal),
                      w'.journal # None, w'.journal.state = "Succeeded"
               PROVE  w'.version = w'.journal.intent
    OBVIOUS
  <2>1. JournalEffect
    BY StepEffects DEF Effects
  <2>2. /\ Concluding(mem) /\ w.journal = mem.journal
        /\ w'.journal = OperationOutcome(mem) /\ w'.version = mem.version
    BY <2>1 DEF JournalEffect, Begun, InProgress
  <2>3. mem \in Workloads /\ mem.journal # None
    BY <2>2 DEF TypeOK, Concluding
  <2> QED BY <2>2, <2>3, OutcomeFields
<1>2. TypeOK /\ Coherent /\ [Next]_vars => [A]_vars
  BY <1>1
<1> QED BY <1>2, TypeCorrect, AlwaysCoherent, PTL
        DEF Spec, SucceededMatchesIntent

-----------------------------------------------------------------------------
(* The forced sync generation.                                             *)

\* Only the render loop and the clean-up write HelmOps.
LEMMA HelmOpFrame ==
    ASSUME [Next]_vars
    PROVE  \/ helmOp' = helmOp
           \/ \E c \in Components : RenderComponent(c) \/ DeleteStaleHelmOp(c)
<1> USE DEF fleet
<1>1. ApiStep => helmOp' = helmOp
  BY DEF ApiStep, RequestUpgrade, UserEdit, BlueprintEdit, BlueprintDelete,
         RequestRollback, RetryAllowed, RequestRetry
<1>2. TriggerStep => helmOp' = helmOp
  BY DEF TriggerStep, HandleUpgrade, HandleUpgradeToCurrent, HandleRollback,
         SkipRollback, HandleRetry, Started
<1>3. StatusStep => \/ helmOp' = helmOp
                    \/ \E c \in Components : RenderComponent(c) \/ DeleteStaleHelmOp(c)
  BY DEF StatusStep, BlueprintNotFound, PopulateNames, BlueprintFound,
         RenderBlocked, StatusIncomplete, NotCertified, PersistStatus,
         DeleteStaleBundle, BuildCell, CertifyBundle
<1>4. OperationStep \/ BeginPass \/ Conflict => helmOp' = helmOp
  BY DEF OperationStep, BeginPass, Conflict, NothingToConclude, JournalOutcome,
         ProjectOutcome, ClearJournal
<1>5. EnvStep => helmOp' = helmOp
  BY DEF EnvStep, CacheSync, GraceEnds, DeadlinePasses, RepoAppears, RepoGone,
         Crash, ReadFails, StatusIncomplete, FleetProgress, FleetHelmOp,
         FleetBundle, FleetSummary, FleetAgent, FleetDegrades, FleetRecovers,
         FleetCollects
<1> QED BY <1>1, <1>2, <1>3, <1>4, <1>5 DEF Next, PassStep, vars

\* The generation a HelmOp carries is one the informer, and any pass under
\* way, has seen already; the copies never run ahead of the object.
Epochs ==
    /\ cache.epoch <= w.epoch
    /\ pc # "idle" => mem.epoch <= cache.epoch
    /\ \A c \in Components : helmOp[c] # None =>
         /\ helmOp[c].epoch <= cache.epoch
         /\ pc # "idle" => helmOp[c].epoch <= mem.epoch

\* What a step does to the generation of one HelmOp.
EpochStep(c) == helmOp[c] # None /\ helmOp'[c] # None
                  => helmOp'[c].epoch >= helmOp[c].epoch

\* No step takes a HelmOp's generation back, and Epochs is inductive.
LEMMA EpochsStep ==
    ASSUME TypeOK, Coherent, Epochs, [Next]_vars
    PROVE  Epochs' /\ \A c \in Components : EpochStep(c)
<1>e. /\ cache' \in {cache, w, w'} /\ w'.epoch >= w.epoch /\ CopyEffect
  BY StepEffects DEF Effects
<1>t. /\ w.epoch \in Nat /\ cache.epoch \in Nat /\ mem.epoch \in Nat
      /\ w'.epoch \in Nat /\ cache'.epoch \in Nat
      /\ \A c \in Components : helmOp[c] # None => helmOp[c].epoch \in Nat
  <2>1. /\ w.epoch \in Nat /\ cache.epoch \in Nat /\ mem.epoch \in Nat
    BY DEF TypeOK, Workloads
  <2>2. \A c \in Components : helmOp[c] # None => helmOp[c].epoch \in Nat
    BY DEF TypeOK, Renders
  <2>3. TypeOK'
    BY StepTypeOK
  <2>4. w'.epoch \in Nat /\ cache'.epoch \in Nat
    BY <2>3 DEF TypeOK, Workloads
  <2> QED BY <2>1, <2>2, <2>4
<1>1. cache'.epoch <= w'.epoch /\ cache'.epoch >= cache.epoch
  BY <1>e, <1>t DEF Epochs
<1>2. pc' # "idle" => mem'.epoch <= cache'.epoch
  BY <1>e, <1>t, <1>1 DEF CopyEffect, Epochs
<1>3. ASSUME NEW c \in Components
      PROVE  /\ EpochStep(c)
             /\ helmOp'[c] # None =>
                  /\ helmOp'[c].epoch <= cache'.epoch
                  /\ pc' # "idle" => helmOp'[c].epoch <= mem'.epoch
  <2>1. CASE helmOp'[c] = helmOp[c]
    BY <1>e, <1>t, <1>1, <2>1 DEF CopyEffect, Epochs, EpochStep
  <2>2. CASE helmOp'[c] = None
    BY <2>2 DEF EpochStep
  <2>3. CASE /\ pc = "render" /\ mem' = mem /\ UNCHANGED cache
             /\ helmOp'[c] = [digest |-> Desired, epoch |-> mem.epoch]
    <3>1. helmOp'[c].epoch = mem.epoch
      BY <2>3
    <3> QED BY <1>e, <1>t, <2>3, <3>1 DEF Epochs, EpochStep
  <2>4. ASSUME NEW d \in Components, RenderComponent(d), helmOp'[c] # helmOp[c]
        PROVE  /\ pc = "render" /\ mem' = mem /\ UNCHANGED cache
               /\ helmOp'[c] = [digest |-> Desired, epoch |-> mem.epoch]
    BY <2>4 DEF RenderComponent, store, TypeOK
  <2>5. ASSUME NEW d \in Components, DeleteStaleHelmOp(d)
        PROVE  helmOp'[c] \in {helmOp[c], None}
    BY <2>5 DEF DeleteStaleHelmOp, TypeOK
  <2> QED BY <2>1, <2>2, <2>3, <2>4, <2>5, HelmOpFrame
<1> QED BY <1>1, <1>2, <1>3 DEF Epochs

\* A concluded retry stays applied: whatever pass, however stale, renders
\* later, the generation a HelmOp carries never goes back (retryEpochValue).
THEOREM EpochsOnlyGrow == Spec => EpochNeverRegresses
<1>1. Init => Epochs
  BY DEF Init, Epochs, NewWorkload
<1>2. TypeOK /\ Coherent /\ Epochs /\ [Next]_vars => Epochs'
  BY EpochsStep
<1>3. TypeOK /\ Coherent /\ Epochs /\ [Next]_vars =>
        [\A c \in Components : helmOp[c] # None /\ helmOp'[c] # None
           => helmOp'[c].epoch >= helmOp[c].epoch]_vars
  BY EpochsStep DEF EpochStep
<1> QED BY <1>1, <1>2, <1>3, TypeCorrect, AlwaysCoherent, PTL
        DEF Spec, EpochNeverRegresses

-----------------------------------------------------------------------------
(* One operation per request.                                              *)

\* Every identity in use is an earlier one, and the rollback and the retry
\* request that stand in the object have started nothing yet.
Fresh ==
    /\ \A r \in started : r[2] < nextNonce
    /\ w.up # None => w.up.nonce < nextNonce
    /\ w.rb # None => w.rb < nextNonce /\ <<"rb", w.rb>> \notin started
    /\ w.rt # None => w.rt < nextNonce /\ <<"rt", w.rt>> \notin started
    /\ StartedOnce

\* Handlers ask with a nonce nothing was started for (newNonce).
LEMMA ApiFresh == TypeOK /\ Fresh /\ ApiStep => Fresh'
<1> SUFFICES ASSUME TypeOK, Fresh, ApiStep PROVE Fresh'
  OBVIOUS
<1>w. w \in Workloads /\ nextNonce \in Nat /\ started \subseteq Kinds \X Nat
  BY DEF TypeOK
<1>n. nextNonce # None /\ (w.up # None => w.up.nonce \in Nat)
  BY <1>w, NoneAssumption DEF Workloads, Requests
<1>r. /\ w.rb # None => w.rb \in Nat
      /\ w.rt # None => w.rt \in Nat
      /\ \A r \in started : r[2] \in Nat
  BY <1>w DEF Workloads
<1>1. ASSUME NEW v \in Versions, RequestUpgrade(v) PROVE Fresh'
  <2> DEFINE up == [nonce |-> nextNonce, target |-> v]
             n == [w EXCEPT !.up = up]
  <2>1. w' = n /\ nextNonce' = nextNonce + 1 /\ UNCHANGED <<started, repeated>>
    BY <1>1 DEF RequestUpgrade, Patch, Store, history
  <2>2. up.nonce = nextNonce
    OBVIOUS
  <2> HIDE DEF up
  <2>3. n.up = up /\ n.rb = w.rb /\ n.rt = w.rt
    BY <1>w DEF Workloads
  <2> HIDE DEF n
  <2> QED BY <1>w, <1>n, <1>r, <2>1, <2>2, <2>3 DEF Fresh, StartedOnce
<1>2. ASSUME NEW v \in Versions, UserEdit(v) PROVE Fresh'
  <2> DEFINE n == [w EXCEPT !.version = v]
  <2>1. w' = n /\ UNCHANGED <<nextNonce, started, repeated>>
    BY <1>2 DEF UserEdit, Patch, Store, history
  <2>2. n.up = w.up /\ n.rb = w.rb /\ n.rt = w.rt
    BY <1>w DEF Workloads
  <2> HIDE DEF n
  <2> QED BY <2>1, <2>2 DEF Fresh, StartedOnce
<1>3. CASE RequestRollback
  <2> DEFINE n == [w EXCEPT !.rb = nextNonce]
  <2>1. w' = n /\ nextNonce' = nextNonce + 1 /\ UNCHANGED <<started, repeated>>
    BY <1>3 DEF RequestRollback, Patch, Store, history
  <2>2. n.up = w.up /\ n.rb = nextNonce /\ n.rt = w.rt
    BY <1>w DEF Workloads
  <2>3. <<"rb", nextNonce>> \notin started
    BY <1>w DEF Fresh
  <2> HIDE DEF n
  <2> QED BY <1>w, <1>n, <1>r, <2>1, <2>2, <2>3 DEF Fresh, StartedOnce
<1>4. CASE RequestRetry
  <2> DEFINE n == [w EXCEPT !.rt = nextNonce]
  <2>1. w' = n /\ nextNonce' = nextNonce + 1 /\ UNCHANGED <<started, repeated>>
    BY <1>4 DEF RequestRetry, Patch, Store, history
  <2>2. n.up = w.up /\ n.rt = nextNonce /\ n.rb = w.rb
    BY <1>w DEF Workloads
  <2>3. <<"rt", nextNonce>> \notin started
    BY <1>w DEF Fresh
  <2> HIDE DEF n
  <2> QED BY <1>w, <1>n, <1>r, <2>1, <2>2, <2>3 DEF Fresh, StartedOnce
<1>5. CASE UNCHANGED <<store, nextNonce, history>>
  BY <1>5 DEF store, history, Fresh, StartedOnce
<1> QED
  BY <1>1, <1>2, <1>3, <1>4, <1>5
  DEF ApiStep, RetryAllowed, BlueprintEdit, BlueprintDelete, client

\* A rollback or a retry starts from a current copy, and its request leaves
\* the object with the write that starts it (finishTrigger, startRetry).
LEMMA TriggerFresh == TypeOK /\ Coherent /\ Fresh /\ TriggerStep => Fresh'
<1> SUFFICES ASSUME TypeOK, Coherent, Fresh, TriggerStep PROVE Fresh'
  OBVIOUS
<1>m. mem \in Workloads
  BY DEF TypeOK
<1>s. ASSUME NEW new, LastWrite(new)
      PROVE  /\ w' = new /\ w.up = mem.up /\ w.rb = mem.rb /\ w.rt = mem.rt
  BY <1>s, LastWriteCoherent DEF SameDocument
<1>f. ASSUME NEW kind \in Kinds, NEW nonce, nonce < nextNonce,
             kind # "up" => <<kind, nonce>> \notin started,
             started' = started \cup {<<kind, nonce>>},
             repeated' = repeated \cup (started \cap {<<kind, nonce>>}),
             nextNonce' = nextNonce,
             w'.up \in {w.up, None},
             w'.rb \in {w.rb, None}, kind = "rb" => w'.rb = None,
             w'.rt \in {w.rt, None}, kind = "rt" => w'.rt = None
      PROVE  Fresh'
  <2>1. \A r \in started' : r[2] < nextNonce'
    BY <1>f DEF Fresh
  <2>2. StartedOnce'
    BY <1>f DEF Fresh, StartedOnce
  <2>3. w'.up # None => w'.up.nonce < nextNonce'
    BY <1>f DEF Fresh
  <2>4. w'.rb # None => w'.rb < nextNonce' /\ <<"rb", w'.rb>> \notin started'
    BY <1>f DEF Fresh
  <2>5. w'.rt # None => w'.rt < nextNonce' /\ <<"rt", w'.rt>> \notin started'
    BY <1>f DEF Fresh
  <2> QED BY <2>1, <2>2, <2>3, <2>4, <2>5 DEF Fresh
<1>1. CASE HandleUpgrade
  <2> DEFINE n == StartVersionOp(mem, "Upgrade", mem.up.nonce, mem.up.target, None)
             new == [n EXCEPT !.up = None]
  <2>1. /\ mem.up # None /\ mem.up.nonce \in Nat /\ mem.up.target \in Versions
    BY <1>1, <1>m DEF HandleUpgrade, UpgradePending, Workloads, Requests
  <2>2. n \in Workloads
    BY <1>m, <2>1, StartVersionOpType DEF OpTypes
  <2>f. /\ n.rb = mem.rb /\ n.rt = mem.rt
        /\ IsHandled(n, <<"Upgrade", mem.up.nonce>>)
    BY <1>m, <2>1, StartVersionOpFields DEF OpTypes
  <2>3. /\ LastWrite(new)
        /\ started' = started \cup {<<"up", mem.up.nonce>>}
        /\ repeated' = repeated \cup (started \cap {<<"up", mem.up.nonce>>})
        /\ nextNonce' = nextNonce
    BY <1>1 DEF HandleUpgrade, Started, client
  <2> HIDE DEF n
  <2>4. new.up = None /\ new.rb = n.rb /\ new.rt = n.rt
    BY <2>2 DEF Workloads
  <2> HIDE DEF new
  <2>5. mem.up.nonce < nextNonce
    BY <1>s, <2>1, <2>3 DEF Fresh
  <2> QED BY <1>f, <1>s, <2>f, <2>3, <2>4, <2>5 DEF Kinds
<1>2. CASE HandleUpgradeToCurrent
  <2> DEFINE n == StartRetry(mem, mem.up.nonce)
  <2>1. /\ mem.up # None /\ mem.up.nonce \in Nat
    BY <1>2, <1>m DEF HandleUpgradeToCurrent, UpgradePending, Workloads, Requests
  <2>2. n.up = mem.up /\ n.rb = mem.rb /\ n.rt = None
    BY <1>m DEF StartRetry, Workloads
  <2>3. /\ LastWrite(n)
        /\ started' = started \cup {<<"up", mem.up.nonce>>}
        /\ repeated' = repeated \cup (started \cap {<<"up", mem.up.nonce>>})
        /\ nextNonce' = nextNonce
    BY <1>2 DEF HandleUpgradeToCurrent, Started, client
  <2> HIDE DEF n
  <2>5. mem.up.nonce < nextNonce
    BY <1>s, <2>1, <2>3 DEF Fresh
  <2> QED BY <1>f, <1>s, <2>2, <2>3, <2>5 DEF Kinds
<1>3. CASE HandleRollback
  <2> DEFINE n == StartVersionOp(mem, "Rollback", mem.rb, mem.deployed.version,
                                 mem.deployed.digest)
             new == [n EXCEPT !.rb = None]
  <2>1. mem.rb # None /\ mem.rb \in Nat /\ mem.deployed.version \in Versions
        /\ mem.deployed.digest \in Digests
    BY <1>3, <1>m
    DEF HandleRollback, RollbackPending, HasRollbackTarget, Workloads, Snapshots
  <2>2. n \in Workloads
    BY <1>m, <2>1, StartVersionOpType DEF OpTypes
  <2>f. /\ n.up = mem.up /\ n.rt = mem.rt
        /\ IsHandled(n, <<"Rollback", mem.rb>>)
    BY <1>m, <2>1, StartVersionOpFields DEF OpTypes
  <2>3. /\ LastWrite(new)
        /\ started' = started \cup {<<"rb", mem.rb>>}
        /\ repeated' = repeated \cup (started \cap {<<"rb", mem.rb>>})
        /\ nextNonce' = nextNonce
    BY <1>3 DEF HandleRollback, Started, client
  <2> HIDE DEF n
  <2>4. new.up = n.up /\ new.rb = None /\ new.rt = n.rt
    BY <2>2 DEF Workloads
  <2> HIDE DEF new
  <2>5. mem.rb < nextNonce /\ <<"rb", mem.rb>> \notin started
    BY <1>s, <2>1, <2>3 DEF Fresh
  <2> QED BY <1>f, <1>s, <2>f, <2>3, <2>4, <2>5 DEF Kinds
<1>4. CASE SkipRollback
  <2> DEFINE handled == AddHandled(mem, <<"Rollback", mem.rb>>)
             n == [mem EXCEPT !.rb = None, !.handled = handled]
  <2>1. LastWrite(n) /\ UNCHANGED <<nextNonce, started, repeated>>
    BY <1>4 DEF SkipRollback, client, history
  <2> HIDE DEF handled
  <2>2. n.up = mem.up /\ n.rb = None /\ n.rt = mem.rt
    BY <1>m DEF Workloads
  <2> HIDE DEF n
  <2> QED BY <1>s, <2>1, <2>2 DEF Fresh, StartedOnce
<1>5. CASE HandleRetry
  <2> DEFINE n == StartRetry(mem, mem.rt)
  <2>1. mem.rt # None /\ mem.rt \in Nat
    BY <1>5, <1>m DEF HandleRetry, RetryPending, Workloads
  <2>2. n.up = mem.up /\ n.rb = mem.rb /\ n.rt = None
    BY <1>m DEF StartRetry, Workloads
  <2>3. /\ LastWrite(n)
        /\ started' = started \cup {<<"rt", mem.rt>>}
        /\ repeated' = repeated \cup (started \cap {<<"rt", mem.rt>>})
        /\ nextNonce' = nextNonce
    BY <1>5 DEF HandleRetry, Started, client
  <2> HIDE DEF n
  <2>5. mem.rt < nextNonce /\ <<"rt", mem.rt>> \notin started
    BY <1>s, <2>1, <2>3 DEF Fresh
  <2> QED BY <1>f, <1>s, <2>2, <2>3, <2>5 DEF Kinds
<1> QED BY <1>1, <1>2, <1>3, <1>4, <1>5 DEF TriggerStep

\* No other step starts an operation or touches a request.
LEMMA OthersFresh ==
    TypeOK /\ Coherent /\ Fresh
      /\ (StatusStep \/ OperationStep \/ BeginPass \/ Conflict \/ EnvStep)
    => Fresh'
<1> SUFFICES ASSUME TypeOK, Coherent, Fresh,
                    StatusStep \/ OperationStep \/ BeginPass \/ Conflict \/ EnvStep
             PROVE  Fresh'
  OBVIOUS
<1> USE DEF client, history
<1>m. mem \in Workloads
  BY DEF TypeOK
<1>k. ASSUME UNCHANGED <<nextNonce, started, repeated>>,
             w'.up = w.up, w'.rb = w.rb, w'.rt = w.rt
      PROVE  Fresh'
  BY <1>k DEF Fresh, StartedOnce
<1>w. ASSUME NEW new, Write(new) \/ LastWrite(new),
             new.up = mem.up, new.rb = mem.rb, new.rt = mem.rt
      PROVE  w'.up = w.up /\ w'.rb = w.rb /\ w'.rt = w.rt
  BY <1>w, WriteCoherent, LastWriteCoherent DEF SameDocument
<1>1. CASE PopulateNames
  <2> DEFINE n == [mem EXCEPT !.names = Wanted]
  <2>1. n.up = mem.up /\ n.rb = mem.rb /\ n.rt = mem.rt
    BY <1>m DEF Workloads
  <2>2. Write(n) /\ UNCHANGED <<nextNonce, started, repeated>>
    BY <1>1 DEF PopulateNames
  <2> HIDE DEF n
  <2> QED BY <1>k, <1>w, <2>1, <2>2
<1>2. CASE PersistStatus
  <2> DEFINE n == ProjectOperation(mem)
  <2>1. n.up = mem.up /\ n.rb = mem.rb /\ n.rt = mem.rt
    BY <1>m, ProjectFields DEF SameDocument
  <2>2. (Write(n) \/ LastWrite(n)) /\ UNCHANGED <<nextNonce, started, repeated>>
    BY <1>2 DEF PersistStatus
  <2> HIDE DEF n
  <2> QED BY <1>k, <1>w, <2>1, <2>2
<1>3. CASE JournalOutcome
  <2> DEFINE outcome == OperationOutcome(mem)
             n == [mem EXCEPT !.journal = outcome]
  <2>2. Write(n) /\ UNCHANGED <<nextNonce, started, repeated>>
    BY <1>3 DEF JournalOutcome
  <2> HIDE DEF outcome
  <2>1. n.up = mem.up /\ n.rb = mem.rb /\ n.rt = mem.rt
    BY <1>m DEF Workloads
  <2> HIDE DEF n
  <2> QED BY <1>k, <1>w, <2>1, <2>2
<1>4. CASE ProjectOutcome
  <2> DEFINE n == [mem EXCEPT !.active = mem.journal]
  <2>1. n.up = mem.up /\ n.rb = mem.rb /\ n.rt = mem.rt
    BY <1>m DEF Workloads
  <2>2. Write(n) /\ UNCHANGED <<nextNonce, started, repeated>>
    BY <1>4 DEF ProjectOutcome
  <2> HIDE DEF n
  <2> QED BY <1>k, <1>w, <2>1, <2>2
<1>5. CASE ClearJournal
  <2> DEFINE n == [mem EXCEPT !.journal = None]
  <2>1. n.up = mem.up /\ n.rb = mem.rb /\ n.rt = mem.rt
    BY <1>m DEF Workloads
  <2>2. LastWrite(n) /\ UNCHANGED <<nextNonce, started, repeated>>
    BY <1>5 DEF ClearJournal
  <2> HIDE DEF n
  <2> QED BY <1>k, <1>w, <2>1, <2>2
<1>6. CASE UNCHANGED <<w, nextNonce, started, repeated>>
  BY <1>k, <1>6
<1>7. StatusStep => \/ PopulateNames \/ PersistStatus
                    \/ UNCHANGED <<w, nextNonce, started, repeated>>
  BY DEF StatusStep, BlueprintNotFound, BlueprintFound, RenderBlocked,
         StatusIncomplete, NotCertified, RenderComponent, DeleteStaleHelmOp,
         DeleteStaleBundle, BuildCell, CertifyBundle, store
<1>8. OperationStep \/ BeginPass \/ Conflict =>
        \/ JournalOutcome \/ ProjectOutcome \/ ClearJournal
        \/ UNCHANGED <<w, nextNonce, started, repeated>>
  BY DEF OperationStep, BeginPass, Conflict, NothingToConclude, EndPass, store
<1>9. EnvStep => UNCHANGED <<w, nextNonce, started, repeated>>
  BY DEF EnvStep, CacheSync, GraceEnds, DeadlinePasses, RepoAppears, RepoGone,
         Crash, EndPass, ReadFails, StatusIncomplete, FleetProgress, FleetHelmOp,
         FleetBundle, FleetSummary, FleetAgent, FleetDegrades, FleetRecovers,
         FleetCollects, Record, store
<1> QED BY <1>1, <1>2, <1>3, <1>4, <1>5, <1>6, <1>7, <1>8, <1>9

\* A rollback or a retry request starts one operation, whatever crashes,
\* conflicts and stale reads lie between its patch and its handling
\* (finishTrigger, startRetry).
THEOREM RequestsStartOnce == Spec => []StartedOnce
<1>1. Init => Fresh
  BY DEF Init, Fresh, NewWorkload, StartedOnce
<1>2. TypeOK /\ Coherent /\ Fresh /\ [Next]_vars => Fresh'
  <2> SUFFICES ASSUME TypeOK, Coherent, Fresh, [Next]_vars PROVE Fresh'
    OBVIOUS
  <2>1. CASE Next
    BY <2>1, ApiFresh, TriggerFresh, OthersFresh DEF Next, PassStep
  <2>2. CASE UNCHANGED vars
    BY <2>2 DEF vars, store, client, history, Fresh, StartedOnce
  <2> QED BY <2>1, <2>2
<1>3. Fresh => StartedOnce
  BY DEF Fresh
<1> QED BY <1>1, <1>2, <1>3, TypeCorrect, AlwaysCoherent, PTL DEF Spec

-----------------------------------------------------------------------------
(* Evidence from the cluster.  What the pass concludes from Bundles and     *)
(* BundleDeployments stands in the history of what Fleet rolled out.       *)

\* What Fleet's objects report did happen: a Bundle that has processed its
\* spec handed that spec on, and a display state belongs to what was applied.
TruthOf(c) ==
    /\ bundle[c] # None /\ bundle[c].observed =>
         /\ bd[c].desired = bundle[c].render
         /\ bundle[c].ready => <<c, bundle[c].render.digest>> \in rolledOut
    /\ bd[c] # None /\ bd[c].applied \in Renders =>
         /\ bd[c].state = "Ready" => <<c, bd[c].applied.digest>> \in rolledOut
         /\ bd[c].state = "ErrApplied" => <<c, bd[c].applied.digest>> \in failedOut

FleetTruth == \A c \in Components : TruthOf(c)

\* History is never forgotten.
LEMMA HistoryGrows ==
    ASSUME [Next]_vars
    PROVE  rolledOut \subseteq rolledOut' /\ failedOut \subseteq failedOut'
<1> USE DEF history
<1>1. ApiStep => UNCHANGED <<rolledOut, failedOut>>
  BY DEF ApiStep, RequestUpgrade, UserEdit, BlueprintEdit, BlueprintDelete,
         RequestRollback, RetryAllowed, RequestRetry
<1>2. TriggerStep => UNCHANGED <<rolledOut, failedOut>>
  BY DEF TriggerStep, HandleUpgrade, HandleUpgradeToCurrent, HandleRollback,
         SkipRollback, HandleRetry, Started
<1>3. StatusStep => UNCHANGED <<rolledOut, failedOut>>
  BY DEF StatusStep, BlueprintNotFound, PopulateNames, BlueprintFound,
         RenderBlocked, StatusIncomplete, NotCertified, PersistStatus,
         RenderComponent, DeleteStaleHelmOp, DeleteStaleBundle, BuildCell,
         CertifyBundle
<1>4. OperationStep \/ BeginPass \/ Conflict => UNCHANGED <<rolledOut, failedOut>>
  BY DEF OperationStep, BeginPass, Conflict, NothingToConclude, JournalOutcome,
         ProjectOutcome, ClearJournal
<1>5. EnvStep => rolledOut \subseteq rolledOut' /\ failedOut \subseteq failedOut'
  BY DEF EnvStep, CacheSync, GraceEnds, DeadlinePasses, RepoAppears, RepoGone,
         Crash, ReadFails, StatusIncomplete, FleetProgress, FleetHelmOp,
         FleetBundle, FleetSummary, FleetAgent, FleetDegrades, FleetRecovers,
         FleetCollects, Record
<1> QED BY <1>1, <1>2, <1>3, <1>4, <1>5 DEF Next, PassStep, vars

\* Bundles and BundleDeployments change by Fleet and by the clean-up only.
LEMMA BundleFrame ==
    ASSUME [Next]_vars
    PROVE  \/ UNCHANGED <<bundle, bd>>
           \/ \E c \in Components :
                \/ DeleteStaleBundle(c) \/ FleetProgress(c)
                \/ \E s \in BDStates : FleetDegrades(c, s)
<1> USE DEF fleet
<1>1. ApiStep => UNCHANGED <<bundle, bd>>
  BY DEF ApiStep, RequestUpgrade, UserEdit, BlueprintEdit, BlueprintDelete,
         RequestRollback, RetryAllowed, RequestRetry
<1>2. TriggerStep => UNCHANGED <<bundle, bd>>
  BY DEF TriggerStep, HandleUpgrade, HandleUpgradeToCurrent, HandleRollback,
         SkipRollback, HandleRetry, Started
<1>3. StatusStep => \/ UNCHANGED <<bundle, bd>>
                    \/ \E c \in Components : DeleteStaleBundle(c)
  BY DEF StatusStep, BlueprintNotFound, PopulateNames, BlueprintFound,
         RenderBlocked, StatusIncomplete, NotCertified, PersistStatus,
         RenderComponent, DeleteStaleHelmOp, BuildCell, CertifyBundle
<1>4. OperationStep \/ BeginPass \/ Conflict => UNCHANGED <<bundle, bd>>
  BY DEF OperationStep, BeginPass, Conflict, NothingToConclude, JournalOutcome,
         ProjectOutcome, ClearJournal
<1>5. EnvStep => \/ UNCHANGED <<bundle, bd>>
                 \/ \E c \in Components :
                      FleetProgress(c) \/ \E s \in BDStates : FleetDegrades(c, s)
  BY DEF EnvStep, CacheSync, GraceEnds, DeadlinePasses, RepoAppears, RepoGone,
         Crash, ReadFails, StatusIncomplete
<1> QED BY <1>1, <1>2, <1>3, <1>4, <1>5 DEF Next, PassStep, vars

\* One controller of Fleet acting on one component.
LEMMA FleetActs ==
    ASSUME TypeOK, FleetTruth, NEW c \in Components,
           FleetProgress(c) \/ \E s \in BDStates : FleetDegrades(c, s),
           rolledOut \subseteq rolledOut', failedOut \subseteq failedOut'
    PROVE  TruthOf(c)'
<1>b. /\ bundle[c] \in Bundles \cup {None} /\ helmOp[c] \in Renders \cup {None}
      /\ bd[c] \in BundleDeployments \cup {None} /\ TruthOf(c)
      /\ c \in DOMAIN bundle /\ c \in DOMAIN bd
  BY DEF TypeOK, FleetTruth, TruthOf
<1>1. CASE FleetHelmOp(c)
  <2>1. bundle'[c].observed = FALSE /\ bd' = bd
    BY <1>1, <1>b DEF FleetHelmOp
  <2> QED BY <1>b, <2>1 DEF TruthOf
<1>2. CASE FleetBundle(c)
  <2> DEFINE d == IF bd[c] = None
                  THEN [desired |-> bundle[c].render, applied |-> None,
                        state |-> "Progressing", sync |-> 0]
                  ELSE [bd[c] EXCEPT !.desired = bundle[c].render]
  <2>1. bundle[c] \in Bundles /\ bundle[c].render \in Renders
    BY <1>2, <1>b DEF FleetBundle, Bundles
  <2>2. /\ d.desired = bundle[c].render
        /\ d.state \in {"Ready", "ErrApplied"} =>
             bd[c] # None /\ d.applied = bd[c].applied /\ d.state = bd[c].state
    BY <1>b DEF BundleDeployments
  <2>3. /\ bd' = [bd EXCEPT ![c] = d]
        /\ bundle' = [bundle EXCEPT ![c].observed = TRUE, ![c].ready = BDReady(d)]
    BY <1>2 DEF FleetBundle
  <2> HIDE DEF d
  <2>4. bd'[c] = d
    BY <1>b, <2>3
  <2>5. bundle'[c].render = bundle[c].render /\ bundle'[c].ready = BDReady(d)
    BY <1>b, <2>1, <2>3 DEF Bundles
  <2>6. BDReady(d) => d.applied = bundle[c].render /\ d.state = "Ready"
    BY <2>2 DEF BDReady
  <2>7. d.applied \in Renders =>
          /\ d.state = "Ready" => <<c, d.applied.digest>> \in rolledOut'
          /\ d.state = "ErrApplied" => <<c, d.applied.digest>> \in failedOut'
    BY <1>b, <2>2 DEF TruthOf
  <2> QED BY <2>1, <2>2, <2>4, <2>5, <2>6, <2>7 DEF TruthOf
<1>3. CASE FleetSummary(c)
  <2>1. bundle[c] \in Bundles /\ bd[c] \in BundleDeployments /\ bd' = bd
        /\ bundle[c].observed /\ bd[c] # None /\ bundle[c] # None
    BY <1>3, <1>b DEF FleetSummary
  <2>2. /\ bundle'[c].render = bundle[c].render
        /\ bundle'[c].ready = BDReady(bd[c])
    BY <1>3, <1>b, <2>1 DEF FleetSummary, Bundles
  <2>3. BDReady(bd[c]) => <<c, bundle[c].render.digest>> \in rolledOut
    <3>1. bd[c].desired = bundle[c].render /\ bundle[c].render \in Renders
      BY <1>b, <2>1 DEF TruthOf, Bundles
    <3> QED BY <1>b, <2>1, <3>1 DEF BDReady, TruthOf
  <2> QED BY <1>b, <2>1, <2>2, <2>3 DEF TruthOf
<1>4. CASE FleetRecovers(c)
  <2>1. /\ bd[c] \in BundleDeployments /\ bundle' = bundle
        /\ bd' = [bd EXCEPT ![c].state = "Ready"]
        /\ <<c, bd[c].applied.digest>> \in rolledOut'
    BY <1>4, <1>b DEF FleetRecovers, Record
  <2>2. /\ bd'[c].state = "Ready" /\ bd'[c].applied = bd[c].applied
        /\ bd'[c].desired = bd[c].desired
    BY <1>b, <2>1 DEF BundleDeployments
  <2> QED BY <1>b, <2>1, <2>2 DEF TruthOf
<1>5. CASE FleetCollects(c)
  BY <1>5, <1>b DEF FleetCollects, TruthOf
<1>6. ASSUME NEW s \in AgentStates, FleetAgent(c, s) PROVE TruthOf(c)'
  <2>1. /\ bd[c] \in BundleDeployments /\ bundle' = bundle
        /\ bd' = [bd EXCEPT ![c].applied = bd[c].desired, ![c].state = s,
                            ![c].sync = bd[c].desired.epoch]
        /\ s = "Ready" => <<c, bd[c].desired.digest>> \in rolledOut'
        /\ s = "ErrApplied" => <<c, bd[c].desired.digest>> \in failedOut'
    BY <1>6, <1>b DEF FleetAgent, Record
  <2>2. /\ bd'[c].state = s /\ bd'[c].applied = bd[c].desired
        /\ bd'[c].desired = bd[c].desired
    BY <1>b, <2>1 DEF BundleDeployments
  <2> QED BY <1>b, <2>1, <2>2 DEF TruthOf
<1>7. ASSUME NEW s \in BDStates, FleetDegrades(c, s) PROVE TruthOf(c)'
  <2>1. /\ bd[c] \in BundleDeployments /\ bundle' = bundle
        /\ bd' = [bd EXCEPT ![c].state = s] /\ s # "Ready"
        /\ s = "ErrApplied" => <<c, bd[c].applied.digest>> \in failedOut'
    BY <1>7, <1>b DEF FleetDegrades, Record
  <2>2. /\ bd'[c].state = s /\ bd'[c].applied = bd[c].applied
        /\ bd'[c].desired = bd[c].desired
    BY <1>b, <2>1 DEF BundleDeployments
  <2> QED BY <1>b, <2>1, <2>2 DEF TruthOf
<1> QED BY <1>1, <1>2, <1>3, <1>4, <1>5, <1>6, <1>7 DEF FleetProgress

\* No step makes Fleet's objects report what did not happen.
LEMMA FleetTruthStep ==
    ASSUME TypeOK, FleetTruth, [Next]_vars
    PROVE  FleetTruth'
<1>h. rolledOut \subseteq rolledOut' /\ failedOut \subseteq failedOut'
  BY HistoryGrows
<1> SUFFICES ASSUME NEW c \in Components PROVE TruthOf(c)'
  BY DEF FleetTruth
<1>1. TruthOf(c)
  BY DEF FleetTruth
<1>2. CASE bundle'[c] = bundle[c] /\ bd'[c] = bd[c]
  BY <1>h, <1>1, <1>2 DEF TruthOf
<1>3. ASSUME NEW d \in Components, DeleteStaleBundle(d) PROVE TruthOf(c)'
  <2>1. bd' = bd /\ bundle'[c] \in {bundle[c], None}
    BY <1>3 DEF DeleteStaleBundle, TypeOK
  <2> QED BY <1>h, <1>1, <2>1 DEF TruthOf
<1>4. ASSUME NEW d \in Components,
             FleetProgress(d) \/ \E s \in BDStates : FleetDegrades(d, s)
      PROVE  TruthOf(c)'
  <2>1. CASE d = c
    BY <1>h, <1>4, <2>1, FleetActs
  <2>2. CASE d # c
    <3>1. bundle'[c] = bundle[c] /\ bd'[c] = bd[c]
      BY <1>4, <2>2
      DEF FleetProgress, FleetHelmOp, FleetBundle, FleetSummary, FleetAgent,
          FleetDegrades, FleetRecovers, FleetCollects, TypeOK
    <3> QED BY <1>2, <3>1
  <2> QED BY <2>1, <2>2
<1> QED BY <1>2, <1>3, <1>4, BundleFrame

\* What the pass under way has gathered did happen: every Bundle it has
\* certified was rolled out, every cell it shows as Failed failed.
MatrixTruth(matrix) ==
    \A c \in Components : matrix[c] = "Failed" =>
      c \in Wanted /\ <<c, Desired>> \in failedOut

PassTruth ==
    /\ pc \in {"idle", "triggers", "render", "cleanup"} => cells = NoCells
    /\ pc \in {"idle", "triggers"} => bpRev = 0
    /\ pc = "render" => todo \subseteq Wanted
    /\ pc = "matrix" => todo \subseteq Wanted /\ MatrixTruth(cells)
    /\ pc = "certify" => \A c \in Wanted \ todo : <<c, Desired>> \in rolledOut
    /\ bpRev # 0 /\ pc \in {"certify", "operation"} => MatrixTruth(mem.cells)
    /\ bpRev # 0 /\ pc = "persist" /\ result = "ok" => MatrixTruth(mem.cells)

\* A pass that is over, or about to write the outcome it has drawn.
LEMMA IdleTruth ==
    ASSUME Forget \/ pc' \in {"project", "clear"}
    PROVE  PassTruth'
  BY DEF PassTruth, Forget

\* A matrix without cells is true.
LEMMA NoCellsTruth == MatrixTruth(NoCells)
  BY NoneAssumption DEF MatrixTruth, NoCells, CellPhases

\* What the pass has gathered stays true while it does something else.
LEMMA GatheredTruth ==
    ASSUME PassTruth, UNCHANGED <<pc, todo, bpRev, cells, result>>,
           mem'.version = mem.version, mem'.cells = mem.cells,
           rolledOut \subseteq rolledOut', failedOut \subseteq failedOut'
    PROVE  PassTruth'
<1>1. Wanted' = Wanted /\ Desired' = Desired
  BY DEF Wanted, Desired
<1> QED BY <1>1 DEF PassTruth, MatrixTruth

\* A cell shows Failed only when what Fleet failed to apply is this render
\* (matrixCellPhase).
LEMMA CellTruth ==
    ASSUME TypeOK, FleetTruth, NEW c \in Components,
           MatrixCellPhase(c, Desired) = "Failed"
    PROVE  <<c, Desired>> \in failedOut
<1>1. /\ bd[c] # None /\ BundleRenderCurrent(c, Desired)
      /\ bd[c].applied = bd[c].desired /\ bd[c].state = "ErrApplied"
  BY DEF MatrixCellPhase
<1>2. /\ bundle[c] \in Bundles /\ bundle[c].observed
      /\ bundle[c].render.digest = Desired /\ bundle[c] # None
  BY <1>1 DEF BundleRenderCurrent, TypeOK
<1>3. bd[c].desired = bundle[c].render /\ bundle[c].render \in Renders
  BY <1>2 DEF FleetTruth, TruthOf, Bundles
<1> QED BY <1>1, <1>2, <1>3 DEF FleetTruth, TruthOf

\* reconcileStatus gathers only what holds on the cluster.
LEMMA StatusTruth ==
    ASSUME TypeOK, FleetTruth, PassTruth, StatusStep,
           rolledOut \subseteq rolledOut', failedOut \subseteq failedOut'
    PROVE  PassTruth'
<1>m. mem \in Workloads
  BY DEF TypeOK
<1>s. ASSUME mem'.version = mem.version, bpRev' = bpRev
      PROVE  Wanted' = Wanted /\ Desired' = Desired
  BY <1>s DEF Wanted, Desired
<1>1. CASE BlueprintNotFound \/ PopulateNames \/ RenderBlocked
  <2>1. pc' = "persist" /\ (result' = "requeue" \/ bpRev' = 0)
    BY <1>1
    DEF BlueprintNotFound, PopulateNames, RenderBlocked, StatusIncomplete,
        Untriggered, GoTo, PassTruth
  <2> QED BY <2>1 DEF PassTruth
<1>2. CASE BlueprintFound
  <2>1. /\ pc = "triggers" /\ pc' = "render" /\ todo' = Wanted /\ cells' = cells
        /\ mem' = mem
    BY <1>2 DEF BlueprintFound, Untriggered
  <2>2. Wanted' = Wanted
    BY <2>1 DEF Wanted
  <2> QED BY <2>1, <2>2 DEF PassTruth
<1>3. CASE NotCertified
  <2>1. /\ pc = "certify" /\ pc' = "persist"
        /\ UNCHANGED <<mem, bpRev, cells, result>>
    BY <1>3 DEF NotCertified
  <2> QED BY <1>s, <2>1 DEF PassTruth, MatrixTruth
<1>4. CASE PersistStatus
  <2>1. CASE result # "ok"
    BY <1>4, <2>1, IdleTruth DEF PersistStatus, LastWrite
  <2>2. CASE result = "ok"
    <3>1. /\ mem' = ProjectOperation(mem) /\ pc = "persist" /\ pc' = "operation"
          /\ UNCHANGED <<bpRev, cells, result>>
      BY <1>4, <2>2 DEF PersistStatus, Write, GoTo
    <3>2. mem'.version = mem.version /\ mem'.cells = mem.cells
      BY <1>m, <3>1 DEF ProjectOperation, Workloads
    <3> QED BY <1>s, <2>2, <3>1, <3>2 DEF PassTruth, MatrixTruth
  <2> QED BY <2>1, <2>2
<1>5. ASSUME NEW c \in Components, RenderComponent(c) PROVE PassTruth'
  <2>1. /\ pc = "render" /\ UNCHANGED <<mem, bpRev, cells, result>>
        /\ \/ pc' = "render" /\ todo' \subseteq todo
           \/ pc' = "matrix" /\ todo' = Wanted
           \/ pc' = "cleanup"
    BY <1>5 DEF RenderComponent, Visit
  <2>2. cells = NoCells /\ MatrixTruth(cells)
    BY <2>1, NoCellsTruth DEF PassTruth
  <2> QED BY <1>s, <2>1, <2>2 DEF PassTruth, MatrixTruth
<1>6. ASSUME NEW c \in Components, DeleteStaleHelmOp(c) PROVE PassTruth'
  BY <1>6, GatheredTruth DEF DeleteStaleHelmOp, pass
<1>7. ASSUME NEW c \in Components, DeleteStaleBundle(c) PROVE PassTruth'
  <2>1. /\ pc = "cleanup" /\ UNCHANGED <<mem, bpRev, cells, result>>
        /\ \/ pc' = "cleanup"
           \/ pc' = "matrix" /\ todo' = Wanted
    BY <1>7 DEF DeleteStaleBundle, Visit
  <2>2. cells = NoCells /\ MatrixTruth(cells)
    BY <2>1, NoCellsTruth DEF PassTruth
  <2> QED BY <1>s, <2>1, <2>2 DEF PassTruth, MatrixTruth
<1>8. ASSUME NEW c \in Components, BuildCell(c) PROVE PassTruth'
  <2> DEFINE matrix == [cells EXCEPT ![c] = MatrixCellPhase(c, Desired)]
             phase == GuardedPhase(PhaseFromCells(matrix), mem.phase)
  <2>1. /\ pc = "matrix" /\ c \in todo /\ UNCHANGED <<bpRev, result>>
        /\ \/ /\ pc' = "certify" /\ todo' = Wanted
              /\ mem' = [mem EXCEPT !.cells = matrix, !.phase = phase]
           \/ /\ pc' = "matrix" /\ todo' \subseteq todo
              /\ mem' = mem /\ cells' = matrix
    BY <1>8 DEF BuildCell, Visit
  <2>2. MatrixTruth(matrix)
    <3>1. ASSUME NEW d \in Components, matrix[d] = "Failed"
          PROVE  d \in Wanted /\ <<d, Desired>> \in failedOut
      <4>1. CASE d = c
        <5>1. MatrixCellPhase(c, Desired) = "Failed"
          BY <3>1, <4>1 DEF TypeOK, Cells
        <5> QED BY <2>1, <4>1, <5>1, CellTruth DEF PassTruth
      <4>2. CASE d # c
        <5>1. cells[d] = "Failed"
          BY <3>1, <4>2 DEF TypeOK, Cells
        <5> QED BY <2>1, <5>1 DEF PassTruth, MatrixTruth
      <4> QED BY <4>1, <4>2
    <3> HIDE DEF matrix
    <3> QED BY <3>1 DEF MatrixTruth
  <2> HIDE DEF matrix, phase
  <2>3. CASE /\ pc' = "certify" /\ todo' = Wanted
             /\ mem' = [mem EXCEPT !.cells = matrix, !.phase = phase]
    <3>1. mem'.version = mem.version /\ mem'.cells = matrix
      BY <1>m, <2>3 DEF Workloads
    <3> QED BY <1>s, <2>1, <2>2, <2>3, <3>1 DEF PassTruth, MatrixTruth
  <2>4. CASE /\ pc' = "matrix" /\ todo' \subseteq todo
             /\ mem' = mem /\ cells' = matrix
    BY <1>s, <2>1, <2>2, <2>4 DEF PassTruth, MatrixTruth
  <2> QED BY <2>1, <2>3, <2>4
<1>9. ASSUME NEW c \in Components, CertifyBundle(c) PROVE PassTruth'
  <2> DEFINE snapshot == [version |-> mem.version, digest |-> Desired]
  <2>1. /\ pc = "certify" /\ UNCHANGED <<bpRev, cells, result>>
        /\ \/ pc' = "persist"
           \/ pc' = "certify" /\ todo' = todo \ {c}
        /\ mem' = mem \/ mem' = [mem EXCEPT !.deployed = snapshot]
    BY <1>9 DEF CertifyBundle, Visit
  <2> HIDE DEF snapshot
  <2>2. mem'.version = mem.version /\ mem'.cells = mem.cells
    BY <1>m, <2>1 DEF Workloads
  <2>3. <<c, Desired>> \in rolledOut
    <3>1. /\ bundle[c] # None /\ bundle[c].observed /\ bundle[c].ready
          /\ bundle[c].render.digest = Desired
      BY <1>9 DEF CertifyBundle, BundleCertified, BundleRenderCurrent
    <3> QED BY <3>1 DEF FleetTruth, TruthOf
  <2> QED BY <1>s, <2>1, <2>2, <2>3 DEF PassTruth, MatrixTruth
<1> QED
  BY <1>1, <1>2, <1>3, <1>4, <1>5, <1>6, <1>7, <1>8, <1>9 DEF StatusStep

\* No step makes a pass gather what did not happen.
LEMMA PassTruthStep ==
    ASSUME TypeOK, FleetTruth, PassTruth, [Next]_vars
    PROVE  PassTruth'
<1>h. rolledOut \subseteq rolledOut' /\ failedOut \subseteq failedOut'
  BY HistoryGrows
<1>1. ASSUME UNCHANGED <<pc, mem, todo, bpRev, cells, result>> PROVE PassTruth'
  BY <1>h, <1>1, GatheredTruth
<1>2. ApiStep => UNCHANGED <<pc, mem, todo, bpRev, cells, result>>
  BY DEF ApiStep, RequestUpgrade, UserEdit, BlueprintEdit, BlueprintDelete,
         RequestRollback, RetryAllowed, RequestRetry, pass
<1>3. TriggerStep => Forget
  BY DEF TriggerStep, HandleUpgrade, HandleUpgradeToCurrent, HandleRollback,
         SkipRollback, HandleRetry, LastWrite
<1>4. OperationStep \/ Conflict => Forget \/ pc' \in {"project", "clear"}
  BY DEF OperationStep, Conflict, NothingToConclude, JournalOutcome,
         ProjectOutcome, ClearJournal, EndPass, LastWrite, GoTo
<1>5. BeginPass => PassTruth'
  BY DEF BeginPass, GoTo, PassTruth
<1>6. EnvStep => \/ Forget
                 \/ pc' = "persist" /\ result' = "requeue"
                 \/ UNCHANGED <<pc, mem, todo, bpRev, cells, result>>
  BY DEF EnvStep, CacheSync, GraceEnds, DeadlinePasses, RepoAppears, RepoGone,
         Crash, EndPass, ReadFails, StatusIncomplete, FleetProgress, FleetHelmOp,
         FleetBundle, FleetSummary, FleetAgent, FleetDegrades, FleetRecovers,
         FleetCollects, pass
<1>7. pc' = "persist" /\ result' = "requeue" => PassTruth'
  BY DEF PassTruth
<1>8. CASE UNCHANGED vars
  BY <1>1, <1>8 DEF vars, pass
<1>9. CASE Next
  BY <1>h, <1>1, <1>2, <1>3, <1>4, <1>5, <1>6, <1>7, <1>9, IdleTruth, StatusTruth
  DEF Next, PassStep
<1> QED BY <1>8, <1>9

\* Every copy of the deployed source is proven, and so is the target of a
\* journalled rollback; a version operation has its target as its intent.
Backed(d) == d # None => Proven(d.version, d.digest)

SoundOperation(op) ==
    op # None =>
      /\ op.type = "Rollback" => Proven(op.target, op.expected)
      /\ op.type # "Retry" => op.intent = op.target

DeployedTruth ==
    /\ Backed(w.deployed) /\ Backed(cache.deployed) /\ Backed(mem.deployed)
    /\ SoundOperation(w.journal)

\* The last Bundle certified proves the version deployed.
LEMMA CertifiedIsProven ==
    ASSUME FleetTruth, PassTruth, NEW c \in Components, CertifyBundle(c),
           todo = {c}
    PROVE  Proven(mem.version, Desired)
<1>1. /\ bundle[c] # None /\ bundle[c].observed /\ bundle[c].ready
      /\ bundle[c].render.digest = Desired /\ pc = "certify"
  BY DEF CertifyBundle, BundleCertified, BundleRenderCurrent
<1>2. <<c, Desired>> \in rolledOut
  BY <1>1 DEF FleetTruth, TruthOf
<1>3. \A d \in Wanted \ {c} : <<d, Desired>> \in rolledOut
  BY <1>1 DEF PassTruth
<1> QED BY <1>2, <1>3 DEF Proven, Wanted

\* No step records a deployed source, or a rollback's target, that did not
\* run on the cluster.
LEMMA DeployedTruthStep ==
    ASSUME TypeOK, Coherent, FleetTruth, PassTruth, DeployedTruth, [Next]_vars
    PROVE  DeployedTruth'
<1>h. rolledOut \subseteq rolledOut'
  BY HistoryGrows
<1>e. /\ cache' \in {cache, w, w'} /\ w'.deployed \in {w.deployed, mem.deployed}
      /\ JournalEffect /\ CopyEffect
  BY StepEffects DEF Effects
<1>p. \A v, d : Proven(v, d) => Proven(v, d)'
  BY <1>h DEF Proven
<1>b. \A d : Backed(d) => (d # None => Proven(d.version, d.digest)')
  BY <1>p DEF Backed
<1>1. Backed(w.deployed)' /\ Backed(cache.deployed)'
  BY <1>b, <1>e DEF DeployedTruth, Backed
<1>2. Backed(mem.deployed)'
  <2>1. CASE mem'.deployed = None
    BY <2>1 DEF Backed
  <2>2. CASE mem' = cache \/ mem'.deployed = mem.deployed
    BY <1>b, <2>2 DEF DeployedTruth, Backed
  <2>3. ASSUME NEW c \in Components, CertifyBundle(c), todo = {c},
               mem'.deployed = [version |-> mem.version, digest |-> Desired]
        PROVE  Backed(mem.deployed)'
    <3>1. \A d \in ComponentsOf[mem.version] : <<d, Desired>> \in rolledOut'
      BY <1>h, <2>3, CertifiedIsProven DEF Proven
    <3>2. mem'.deployed.version = mem.version /\ mem'.deployed.digest = Desired
      BY <2>3
    <3> QED BY <3>1, <3>2 DEF Backed, Proven
  <2> QED BY <1>e, <2>1, <2>2, <2>3 DEF CopyEffect
<1>3. SoundOperation(w.journal)'
  <2>1. CASE w'.journal \in {w.journal, None}
    BY <1>h, <2>1 DEF DeployedTruth, SoundOperation, Proven
  <2>2. CASE Begun(w'.journal)
    BY <1>h, <2>2 DEF Begun, DeployedTruth, SoundOperation, Backed, Proven
  <2>3. CASE /\ Concluding(mem) /\ w.journal = mem.journal
             /\ w'.journal = OperationOutcome(mem)
    <3>1. mem \in Workloads /\ mem.journal # None
      BY <2>3 DEF TypeOK, Concluding
    <3>2. /\ w'.journal.type = w.journal.type
          /\ w'.journal.target = w.journal.target
          /\ w'.journal.expected = w.journal.expected
          /\ w'.journal.intent = w.journal.intent
      BY <2>3, <3>1, OutcomeFields
    <3> QED BY <1>h, <2>3, <3>1, <3>2 DEF DeployedTruth, SoundOperation, Proven
  <2> QED BY <1>e, <2>1, <2>2, <2>3 DEF JournalEffect
<1> QED BY <1>1, <1>2, <1>3 DEF DeployedTruth

Evidence == FleetTruth /\ PassTruth /\ DeployedTruth

\* In every reachable state the operator's conclusions rest on what Fleet
\* did.
THEOREM AlwaysEvidence == Spec => []Evidence
<1>1. Init => Evidence
  <2> SUFFICES ASSUME Init PROVE Evidence
    OBVIOUS
  <2>1. FleetTruth
    BY DEF Init, FleetTruth, TruthOf
  <2>2. PassTruth
    BY DEF Init, PassTruth
  <2>3. DeployedTruth
    BY DEF Init, NewWorkload, DeployedTruth, Backed, SoundOperation
  <2> QED BY <2>1, <2>2, <2>3 DEF Evidence
<1>2. TypeOK /\ Coherent /\ Evidence /\ [Next]_vars => Evidence'
  BY FleetTruthStep, PassTruthStep, DeployedTruthStep DEF Evidence
<1> QED BY <1>1, <1>2, TypeCorrect, AlwaysCoherent, PTL DEF Spec

\* status.deployedSource and the target of a rollback only ever name a
\* version whose every component ran on the cluster with exactly that
\* content (certifyBlueprintDeployment, handleTriggers).
THEOREM DeployedIsProven == Spec => []ProvenDeployed
<1>1. Evidence => ProvenDeployed
  BY DEF Evidence, DeployedTruth, Backed, SoundOperation, ProvenDeployed
<1> QED BY <1>1, AlwaysEvidence, PTL

\* An outcome without a reason is Failed because a cell of the matrix is.
LEMMA FailedOutcome ==
    ASSUME NEW m \in Workloads, m.journal # None, NEW op,
           op = OperationOutcome(m), InProgress(m.journal),
           op.state = "Failed", op.reason = ""
    PROVE  AnyFailed(m) /\ m.journal.intent = m.version
<1>1. m.journal \in Operations
  BY DEF Workloads
<1> DEFINE to(s, r) == [m.journal EXCEPT !.state = s, !.reason = r]
<1>2. \A s, r : to(s, r).state = s /\ to(s, r).reason = r
  BY <1>1 DEF Operations
<1>3. \/ op \in {m.journal, to("Superseded", ""), to("Succeeded", ""),
                 to("Failed", "BlueprintDrift"), to("Failed", "TimedOut")}
      \/ AnyFailed(m) /\ m.journal.intent = m.version
  BY DEF OperationOutcome
<1> HIDE DEF to
<1>4. m.journal.state = "InProgress"
  BY DEF InProgress
<1>5. op \notin {m.journal, to("Superseded", ""), to("Succeeded", ""),
                to("Failed", "BlueprintDrift"), to("Failed", "TimedOut")}
  <2>1. op # m.journal
    BY <1>4
  <2>2. /\ to("Superseded", "").state = "Superseded"
        /\ to("Succeeded", "").state = "Succeeded"
        /\ to("Failed", "BlueprintDrift").reason = "BlueprintDrift"
        /\ to("Failed", "TimedOut").reason = "TimedOut"
    BY <1>2, Zenon
  <2> QED BY <2>1, <2>2
<1> QED BY <1>3, <1>5

\* An upgrade or a rollback that fails before its deadline does so because
\* its own content failed to apply (matrixCellPhase, reconcileOperation).
THEOREM FailureIsItsOwn == Spec => FailureBelongsToRender
<1> DEFINE A == /\ InProgress(w.journal) /\ w.journal.type # "Retry"
                /\ w'.journal # None /\ w'.journal.state = "Failed"
                /\ w'.journal.reason = "" /\ bpRev # 0
                => \E c \in ComponentsOf[w.journal.target] :
                     <<c, Digest(w.journal.target, bpRev)>> \in failedOut
<1>1. TypeOK /\ Coherent /\ Evidence /\ [Next]_vars => A
  <2> SUFFICES ASSUME TypeOK, Coherent, Evidence, [Next]_vars,
                      InProgress(w.journal), w.journal.type # "Retry",
                      w'.journal # None, w'.journal.state = "Failed",
                      w'.journal.reason = "", bpRev # 0
               PROVE  \E c \in ComponentsOf[w.journal.target] :
                        <<c, Digest(w.journal.target, bpRev)>> \in failedOut
    OBVIOUS
  <2>1. JournalEffect
    BY StepEffects DEF Effects
  <2>2. /\ pc = "operation" /\ Concluding(mem) /\ w.journal = mem.journal
        /\ w'.journal = OperationOutcome(mem)
    BY <2>1 DEF JournalEffect, Begun, InProgress
  <2>3. mem \in Workloads /\ mem.journal # None
    BY <2>2 DEF TypeOK, Concluding
  <2>4. AnyFailed(mem) /\ w.journal.intent = mem.version
    BY <2>2, <2>3, FailedOutcome
  <2>5. w.journal.target = mem.version
    BY <2>2, <2>3, <2>4 DEF Evidence, DeployedTruth, SoundOperation
  <2>7. MatrixTruth(mem.cells)
    BY <2>2 DEF Evidence, PassTruth
  <2> QED BY <2>4, <2>5, <2>7 DEF AnyFailed, MatrixTruth, Wanted, Desired
<1>2. TypeOK /\ Coherent /\ Evidence /\ [Next]_vars => [A]_vars
  BY <1>1
<1> QED BY <1>2, TypeCorrect, AlwaysCoherent, AlwaysEvidence, PTL
        DEF Spec, FailureBelongsToRender
=============================================================================
