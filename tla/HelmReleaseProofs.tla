-------------------------- MODULE HelmReleaseProofs --------------------------
(***************************************************************************)
(* Theorems about HelmRelease for every set of tags, charts and values and *)
(* every bound: type correctness, that no shutdown leaves a pending release*)
(* behind, and, when every tag is its chart's version, that EnsureRelease  *)
(* reports success only with the requested rendering deployed.             *)
(***************************************************************************)
EXTENDS HelmRelease, TLAPS, SequenceTheorems

-----------------------------------------------------------------------------
(* Revisions.                                                              *)

\* Helm marks the revision it replaces before the one that replaces it.
OneDeployed(h) ==
    \A i, j \in DOMAIN h :
        h[i].status = "deployed" /\ h[j].status = "deployed" => i = j

\* deployedRelease finds the one revision with that status, if there is one.
LEMMA DeployedAtIsDeployed ==
    ASSUME NEW h \in Seq(Revisions), OneDeployed(h)
    PROVE  /\ DeployedAt(h) \in Nat
           /\ \A i \in DOMAIN h : h[i].status = "deployed" => DeployedAt(h) = i
           /\ DeployedAt(h) # 0 =>
                DeployedAt(h) \in DOMAIN h /\ h[DeployedAt(h)].status = "deployed"
<1> DEFINE at == {i \in DOMAIN h : h[i].status = "deployed"}
<1>1. Len(h) \in Nat /\ DOMAIN h = 1 .. Len(h)
  BY LenProperties
<1>2. CASE at = {}
  BY <1>2 DEF DeployedAt
<1>3. CASE at # {}
  <2>1. PICK i \in at : at = {i}
    BY <1>3 DEF OneDeployed
  <2>2. DeployedAt(h) = i
    BY <1>1, <1>3, <2>1 DEF DeployedAt
  <2> QED BY <1>1, <2>1, <2>2
<1> QED BY <1>2, <1>3

\* Marking a revision changes its status and nothing else.
LEMMA MarkKeeps ==
    ASSUME NEW h \in Seq(Revisions), NEW i \in DOMAIN h, NEW s \in Statuses
    PROVE  LET n == [h EXCEPT ![i].status = s]
           IN  /\ n \in Seq(Revisions) /\ Len(n) = Len(h) /\ DOMAIN n = DOMAIN h
               /\ n[i] = [h[i] EXCEPT !.status = s] /\ n[i].status = s
               /\ \A j \in DOMAIN h \ {i} : n[j] = h[j]
<1> DEFINE r == [h[i] EXCEPT !.status = s]
           n == [h EXCEPT ![i] = r]
<1>1. Len(h) \in Nat /\ DOMAIN h = 1 .. Len(h) /\ h[i] \in Revisions
  BY LenProperties, ElementOfSeq
<1>2. r \in Revisions /\ r.status = s
  BY <1>1 DEF Revisions
<1>3. n \in Seq(Revisions) /\ Len(n) = Len(h) /\ DOMAIN n = DOMAIN h
  BY <1>1, <1>2, ExceptSeq
<1>4. n[i] = r /\ \A j \in DOMAIN h \ {i} : n[j] = h[j]
  BY <1>1
<1> QED BY <1>2, <1>3, <1>4

\* Appending a revision keeps those below.
LEMMA AppendKeeps ==
    ASSUME NEW h \in Seq(Revisions), NEW r \in Revisions
    PROVE  LET n == Append(h, r)
           IN  /\ n \in Seq(Revisions) /\ n # <<>> /\ Len(n) = Len(h) + 1
               /\ Len(n) \in DOMAIN n /\ n[Len(n)] = r
               /\ \A j \in DOMAIN h : j \in DOMAIN n /\ n[j] = h[j]
               /\ \A j \in DOMAIN n : j # Len(n) => j \in DOMAIN h
<1>1. Append(h, r) \in Seq(Revisions) /\ Len(Append(h, r)) = Len(h) + 1
  BY AppendProperties
<1>2. /\ Len(h) \in Nat /\ DOMAIN h = 1 .. Len(h)
      /\ DOMAIN Append(h, r) = 1 .. Len(Append(h, r))
  BY <1>1, LenProperties
<1> QED BY <1>1, <1>2, AppendProperties

-----------------------------------------------------------------------------
(* Type correctness.  What a call has read and loaded stays there until it *)
(* is used: nobody else writes the revisions while a call runs.            *)

CallShape ==
    /\ pc \in {"render", "create"} => chart # None
    /\ pc \in {"load", "render"} /\ op = "render" => DeployedAt(releases) # 0
    /\ pc = "render" => op = "render"
    /\ pc \in {"apply", "supersede", "record", "delete"} => releases # <<>>
    /\ pc = "supersede" => DeployedAt(releases) # 0
    /\ pc = "record" => DeployedAt(releases) = 0
    /\ OneDeployed(releases)

Shaped == TypeOK /\ CallShape

\* The newest revision and the one an upgrade starts from.
LEMMA RevisionTypes ==
    ASSUME Shaped, releases # <<>>
    PROVE  /\ Len(releases) \in DOMAIN releases
           /\ Newest(releases) \in Revisions /\ Base \in Revisions
           /\ DeployedAt(releases) # 0 => DeployedRevision \in Revisions
<1>1. releases \in Seq(Revisions)
  BY DEF Shaped, TypeOK
<1>2. Len(releases) \in Nat /\ Len(releases) # 0 /\ DOMAIN releases = 1 .. Len(releases)
  BY <1>1, LenProperties, EmptySeq
<1>3. Len(releases) \in DOMAIN releases /\ Newest(releases) \in Revisions
  BY <1>1, <1>2, ElementOfSeq DEF Newest
<1>4. DeployedAt(releases) # 0 => DeployedRevision \in Revisions
  BY <1>1, DeployedAtIsDeployed, ElementOfSeq, <1>2 DEF DeployedRevision, Shaped, CallShape
<1> QED BY <1>3, <1>4 DEF Base

\* What is rendered, and with which values.
LEMMA RenderTypes ==
    ASSUME Shaped
    PROVE  /\ EffectiveValues \in ValueSets
           /\ \A c \in Charts, v \in ValueSets : Render(c, v) \in Manifests
<1>1. EffectiveValues \in ValueSets
  BY RevisionTypes DEF EffectiveValues, Shaped, TypeOK, Specs, Revisions
<1>2. ASSUME NEW c \in Charts, NEW v \in ValueSets PROVE Render(c, v) \in Manifests
  BY ChartAssumption DEF Render, Charts, Manifests
<1> QED BY <1>1, <1>2

\* The start is well formed.
LEMMA InitShaped == Init => Shaped
<1> SUFFICES ASSUME Init PROVE Shaped
  OBVIOUS
<1>1. TypeOK
  BY ChartAssumption, EmptySeq DEF Init, TypeOK, Points, Outcomes
<1>2. CallShape
  BY DEF Init, CallShape, OneDeployed
<1> QED BY <1>1, <1>2 DEF Shaped

\* A step that leaves the revisions and the call alone.
LEMMA OutsideTheCall ==
    ASSUME Shaped, UNCHANGED <<releases, call>>, TypeOK'
    PROVE  Shaped'
<1>1. DeployedAt(releases') = DeployedAt(releases)
  BY DEF DeployedAt
<1> QED BY <1>1 DEF Shaped, CallShape, call

\* A call that returns without touching the revisions.
LEMMA ReturnShaped ==
    ASSUME Shaped, NEW r \in Outcomes, Return(r), UNCHANGED releases,
           UNCHANGED <<spec, registry, stopping, stuck>>,
           latch' \in Latches \cup {None},
           archive' \in [Tags -> Charts \cup {None}],
           edits' \in Nat, pushes' \in Nat, faults' \in Nat
    PROVE  Shaped'
<1>1. TypeOK'
  BY DEF Shaped, TypeOK, Return, Points
<1>2. CallShape'
  BY DEF Shaped, CallShape, Return, OneDeployed
<1> QED BY <1>1, <1>2 DEF Shaped

\* Deciding: the release is absent, busy, never deployed, or deployed.
LEMMA DecideShaped == Shaped /\ Decide => Shaped'
<1> SUFFICES ASSUME Shaped, Decide PROVE Shaped'
  OBVIOUS
<1> USE DEF Decide
<1>1. /\ UNCHANGED <<spec, registry, releases, latch, archive, stopping,
                     stuck, edits, pushes, faults>>
      /\ latch \in Latches \cup {None} /\ archive \in [Tags -> Charts \cup {None}]
      /\ edits \in Nat /\ pushes \in Nat /\ faults \in Nat
  BY DEF memory, bounds, Shaped, TypeOK
<1>2. ASSUME NEW r \in Outcomes, Return(r) PROVE Shaped'
  BY <1>1, <1>2, ReturnShaped
<1>3. ASSUME NEW for \in {"install", "upgrade", "render"}, Load(for),
             for = "render" => DeployedAt(releases) # 0
      PROVE  Shaped'
  <2>1. TypeOK'
    BY <1>1, <1>3 DEF Shaped, TypeOK, Load, GoTo, Points
  <2>2. CallShape'
    BY <1>1, <1>3 DEF Shaped, CallShape, Load, GoTo, OneDeployed
  <2> QED BY <2>1, <2>2 DEF Shaped
<1> QED BY <1>2, <1>3 DEF Outcomes, Drifted, HasDeployed

\* The steps between the decision and the first write.
LEMMA PrepareShaped ==
    Shaped /\ (EnsureRelease \/ LoadChart \/ RenderChanges \/ RenderSame
               \/ StepFails \/ NothingToUpgrade)
    => Shaped'
<1> SUFFICES ASSUME Shaped,
                    EnsureRelease \/ LoadChart \/ RenderChanges \/ RenderSame
                    \/ StepFails \/ NothingToUpgrade
             PROVE  Shaped'
  OBVIOUS
<1>1. CASE EnsureRelease
  BY <1>1 DEF EnsureRelease, memory, bounds, Shaped, TypeOK, CallShape,
              Points, OneDeployed
<1>2. CASE LoadChart
  <2>1. req.tag \in Tags
    BY DEF Shaped, TypeOK, Specs
  <2>2. /\ chart' \in Charts /\ chart' # None
        /\ archive' \in [Tags -> Charts \cup {None}]
    BY <1>2, <2>1, ChartAssumption DEF LoadChart, Shaped, TypeOK
  <2>3. TypeOK'
    BY <1>2, <2>2 DEF LoadChart, GoTo, bounds, Shaped, TypeOK, Points
  <2>4. CallShape'
    BY <1>2, <2>2 DEF LoadChart, GoTo, Shaped, CallShape, OneDeployed
  <2> QED BY <2>3, <2>4 DEF Shaped
<1>3. CASE RenderChanges
  BY <1>3 DEF RenderChanges, Load, GoTo, memory, bounds, Shaped, TypeOK,
              CallShape, Points, OneDeployed
<1>4. CASE RenderSame
  <2>1. DeployedAt(releases) # 0 /\ DeployedAt(releases) \in Nat
        /\ releases[DeployedAt(releases)] \in Revisions
    BY <1>4, DeployedAtIsDeployed, ElementOfSeq, LenProperties
    DEF RenderSame, Shaped, TypeOK, CallShape
  <2>2. latch' \in Latches
    BY <1>4, <2>1 DEF RenderSame, LatchFor, Latches, Revisions, Specs, Shaped, TypeOK
  <2>3. "ok" \in Outcomes
    BY DEF Outcomes
  <2> QED BY <1>4, <2>2, <2>3, ReturnShaped
          DEF RenderSame, bounds, Shaped, TypeOK
<1>5. CASE StepFails
  <2>1. faults' \in Nat /\ "error" \in Outcomes
    BY <1>5 DEF StepFails, Shaped, TypeOK, Outcomes
  <2> QED BY <1>5, <2>1, ReturnShaped
          DEF StepFails, memory, Shaped, TypeOK
<1>6. CASE NothingToUpgrade
  <2>1. "error" \in Outcomes
    BY DEF Outcomes
  <2> QED BY <1>6, <2>1, ReturnShaped
          DEF NothingToUpgrade, memory, bounds, Shaped, TypeOK
<1> QED BY <1>1, <1>2, <1>3, <1>4, <1>5, <1>6

\* The revision a write starts with.
LEMMA NewRevision ==
    ASSUME Shaped, CreateRevision
    PROVE  LET r == Newest(releases')
           IN  /\ r \in Revisions /\ r.status = "pending"
               /\ r.version = chart.version /\ r.values = EffectiveValues
               /\ r.manifest = Render(chart, EffectiveValues)
               /\ releases' = Append(releases, r)
<1> DEFINE r == [status |-> "pending", version |-> chart.version,
                 values |-> EffectiveValues,
                 manifest |-> Render(chart, EffectiveValues), labelled |-> TRUE]
<1>1. chart \in Charts
  BY DEF CreateRevision, Shaped, TypeOK, CallShape
<1>2. r \in Revisions
  BY <1>1, RenderTypes DEF Revisions, Statuses, Charts
<1>3. releases' = Append(releases, r)
  BY DEF CreateRevision
<1>4. Newest(releases') = r
  BY <1>2, <1>3, AppendKeeps DEF Newest, Shaped, TypeOK
<1> QED BY <1>2, <1>3, <1>4

\* The writes.
LEMMA WriteShaped ==
    Shaped /\ (CreateRevision \/ Apply \/ Supersede \/ RecordDeployed) => Shaped'
<1> SUFFICES ASSUME Shaped, CreateRevision \/ Apply \/ Supersede \/ RecordDeployed
             PROVE  Shaped'
  OBVIOUS
<1>r. releases \in Seq(Revisions) /\ OneDeployed(releases)
  BY DEF Shaped, TypeOK, CallShape
<1>1. CASE CreateRevision
  <2>1. PICK r \in Revisions : releases' = Append(releases, r) /\ r.status = "pending"
    BY <1>1, NewRevision
  <2>2. releases' \in Seq(Revisions) /\ releases' # <<>> /\ OneDeployed(releases')
    BY <1>r, <2>1, AppendKeeps DEF OneDeployed
  <2>3. TypeOK'
    BY <1>1, <2>2 DEF CreateRevision, GoTo, memory, bounds, Shaped, TypeOK, Points
  <2> QED BY <1>1, <2>2, <2>3 DEF CreateRevision, GoTo, Shaped, CallShape
<1>2. CASE Apply
  <2>1. TypeOK'
    BY <1>2 DEF Apply, GoTo, memory, bounds, Shaped, TypeOK, Points
  <2> QED BY <1>2, <2>1 DEF Apply, GoTo, Shaped, CallShape, OneDeployed
<1>3. CASE Supersede
  <2>1. DeployedAt(releases) \in DOMAIN releases /\ "superseded" \in Statuses
    BY <1>3, <1>r, DeployedAtIsDeployed DEF Supersede, Shaped, CallShape, Statuses
  <2>2. /\ releases' \in Seq(Revisions) /\ Len(releases') = Len(releases)
        /\ \A j \in DOMAIN releases' : releases'[j].status # "deployed"
    BY <1>3, <1>r, <2>1, MarkKeeps, DeployedAtIsDeployed DEF Supersede, Mark
  <2>3. DeployedAt(releases') = 0 /\ OneDeployed(releases')
    BY <2>2 DEF DeployedAt, OneDeployed
  <2>4. releases' # <<>>
    BY <1>r, <1>3, <2>2, EmptySeq, LenProperties DEF Supersede, Shaped, CallShape
  <2>5. TypeOK'
    BY <1>3, <2>2 DEF Supersede, GoTo, memory, bounds, Shaped, TypeOK, Points
  <2> QED BY <1>3, <2>3, <2>4, <2>5 DEF Supersede, GoTo, Shaped, CallShape
<1>4. CASE RecordDeployed
  <2>1. Len(releases) \in DOMAIN releases /\ "deployed" \in Statuses
    BY <1>4, RevisionTypes DEF RecordDeployed, Shaped, CallShape, Statuses
  <2>2. \A j \in DOMAIN releases : releases[j].status # "deployed"
    BY <1>4, <1>r, DeployedAtIsDeployed, LenProperties
    DEF RecordDeployed, Shaped, CallShape
  <2>3. /\ releases' \in Seq(Revisions) /\ OneDeployed(releases')
    BY <1>4, <1>r, <2>1, <2>2, MarkKeeps DEF RecordDeployed, Mark, OneDeployed
  <2>4. TypeOK'
    BY <1>4, <2>3 DEF RecordDeployed, Return, memory, bounds, Shaped, TypeOK,
                      Points, Outcomes
  <2> QED BY <1>4, <2>3, <2>4 DEF RecordDeployed, Return, Shaped, CallShape
<1> QED BY <1>1, <1>2, <1>3, <1>4

\* A write that fails or is cut off.
LEMMA FailShaped == Shaped /\ (ApplyFails \/ GraceExpires) => Shaped'
<1> SUFFICES ASSUME Shaped, WriteFails, faults' \in Nat PROVE Shaped'
  BY DEF ApplyFails, GraceExpires, Shaped, TypeOK
<1>r. releases \in Seq(Revisions) /\ OneDeployed(releases)
  BY DEF Shaped, TypeOK, CallShape
<1>1. Len(releases) \in DOMAIN releases /\ "failed" \in Statuses
  BY RevisionTypes DEF WriteFails, Shaped, CallShape, Statuses
<1>2. releases' \in Seq(Revisions) /\ OneDeployed(releases')
  BY <1>r, <1>1, MarkKeeps DEF WriteFails, Mark, OneDeployed
<1>3. TypeOK'
  BY <1>2 DEF WriteFails, Return, memory, Shaped, TypeOK, Points, Outcomes
<1> QED BY <1>2, <1>3 DEF WriteFails, Return, Shaped, CallShape

\* Deletion, and a release that somebody else installs.
LEMMA DeleteShaped ==
    Shaped /\ (DeleteRelease \/ FinishDelete
               \/ \E t \in Tags, v \in ValueSets : ForeignInstall(t, v))
    => Shaped'
<1> SUFFICES ASSUME Shaped,
                    DeleteRelease \/ FinishDelete
                    \/ \E t \in Tags, v \in ValueSets : ForeignInstall(t, v)
             PROVE  Shaped'
  OBVIOUS
<1>1. CASE DeleteRelease
  <2>1. releases \in Seq(Revisions) /\ OneDeployed(releases) /\ releases # <<>>
    BY <1>1 DEF DeleteRelease, Shaped, TypeOK, CallShape
  <2>2. Len(releases) \in DOMAIN releases /\ "uninstalling" \in Statuses
    BY <2>1, RevisionTypes DEF Statuses
  <2>3. /\ releases' \in Seq(Revisions) /\ Len(releases') = Len(releases)
        /\ OneDeployed(releases')
    BY <1>1, <2>1, <2>2, MarkKeeps DEF DeleteRelease, Mark, OneDeployed
  <2>4. releases' # <<>>
    BY <2>1, <2>3, EmptySeq, LenProperties
  <2>5. TypeOK'
    BY <1>1, <2>3 DEF DeleteRelease, Shaped, TypeOK, Points
  <2> QED BY <1>1, <2>3, <2>4, <2>5 DEF DeleteRelease, Shaped, CallShape
<1>2. CASE FinishDelete
  <2>1. releases' \in Seq(Revisions) /\ OneDeployed(releases')
    BY <1>2, EmptySeq DEF FinishDelete, OneDeployed
  <2>2. TypeOK'
    BY <1>2, <2>1 DEF FinishDelete, memory, bounds, Shaped, TypeOK, Points, Outcomes
  <2> QED BY <1>2, <2>1, <2>2 DEF FinishDelete, Shaped, CallShape
<1>3. ASSUME NEW t \in Tags, NEW v \in ValueSets, ForeignInstall(t, v) PROVE Shaped'
  <2> DEFINE m == Render(registry[t], v)
             r == [status |-> "deployed", version |-> registry[t].version,
                   values |-> v, manifest |-> m, labelled |-> FALSE]
  <2>1. registry[t] \in Charts
    BY DEF Shaped, TypeOK
  <2>2. m \in Manifests
    BY <2>1, RenderTypes
  <2>3. r \in Revisions
    BY <2>1, <2>2 DEF Revisions, Statuses, Charts
  <2>4. releases' = <<r>>
    BY <1>3 DEF ForeignInstall
  <2>5. releases' \in Seq(Revisions) /\ OneDeployed(releases')
    BY <2>3, <2>4 DEF OneDeployed
  <2>6. faults' \in Nat /\ stuck' = FALSE
    BY <1>3 DEF ForeignInstall, Shaped, TypeOK
  <2>7. /\ UNCHANGED <<spec, registry, latch, archive, pc, req, op, chart, outcome,
                       stopping, edits, pushes>>
        /\ pc = "idle"
    BY <1>3 DEF ForeignInstall, memory, call
  <2>8. TypeOK'
    BY <2>5, <2>6, <2>7 DEF Shaped, TypeOK
  <2> QED BY <2>5, <2>7, <2>8 DEF Shaped, CallShape
<1> QED BY <1>1, <1>2, <1>3

\* Shutdowns, kills, edits, pushes and the passing of time.
LEMMA OutsideShaped ==
    ASSUME Shaped,
           \/ DeleteFails \/ Shutdown \/ Exit \/ Killed \/ LatchExpires
           \/ \E s \in Specs : EditSpec(s)
           \/ \E t \in Tags : ArchiveExpires(t) \/ \E c \in Charts : PushAgain(t, c)
    PROVE  Shaped'
<1>1. CASE Exit \/ Killed
  <2>1. UNCHANGED <<spec, registry, releases, req, edits, pushes>>
    BY <1>1 DEF Exit, Killed, Restart, bounds
  <2>2. faults' \in Nat
    BY <1>1 DEF Exit, Killed, bounds, Shaped, TypeOK
  <2>3. stuck' \in BOOLEAN
    BY <1>1, Zenon DEF Exit, Killed, Restart, Shaped, TypeOK
  <2>4. /\ latch' = None /\ archive' \in [Tags -> Charts \cup {None}]
        /\ pc' = "idle" /\ op' = "none" /\ chart' = None
        /\ outcome' = "none" /\ stopping' = FALSE
    BY <1>1 DEF Exit, Killed, Restart
  <2>5. TypeOK'
    BY <2>1, <2>2, <2>3, <2>4 DEF Shaped, TypeOK, Points, Outcomes
  <2> QED BY <2>1, <2>4, <2>5 DEF Shaped, CallShape, OneDeployed
<1>2. CASE Shutdown
  BY <1>2, OutsideTheCall DEF Shutdown, memory, call, Shaped, TypeOK
<1>3. CASE LatchExpires
  BY <1>3, OutsideTheCall DEF LatchExpires, call, bounds, Shaped, TypeOK
<1>4. ASSUME NEW s \in Specs, EditSpec(s) PROVE Shaped'
  BY <1>4, OutsideTheCall DEF EditSpec, memory, call, Shaped, TypeOK
<1>5. ASSUME NEW t \in Tags, ArchiveExpires(t) PROVE Shaped'
  BY <1>5, OutsideTheCall DEF ArchiveExpires, call, bounds, Shaped, TypeOK
<1>6. ASSUME NEW t \in Tags, NEW c \in Charts, PushAgain(t, c) PROVE Shaped'
  BY <1>6, OutsideTheCall DEF PushAgain, memory, call, Shaped, TypeOK
<1>7. CASE DeleteFails
  <2>1. TypeOK'
    BY <1>7 DEF DeleteFails, memory, Shaped, TypeOK, Points, Outcomes
  <2> QED BY <1>7, <2>1 DEF DeleteFails, Shaped, CallShape, OneDeployed
<1> QED BY <1>1, <1>2, <1>3, <1>4, <1>5, <1>6, <1>7

\* Every step keeps the types and the shape of a call.
LEMMA NextShaped == Shaped /\ [Next]_vars => Shaped'
<1> SUFFICES ASSUME Shaped, [Next]_vars PROVE Shaped'
  OBVIOUS
<1>1. CASE Next
  BY <1>1, DecideShaped, PrepareShaped, WriteShaped, FailShaped, DeleteShaped,
     OutsideShaped
  DEF Next, CallStep, FaultStep, OutsideStep
<1>2. CASE UNCHANGED vars
  BY <1>2, OutsideTheCall
  DEF vars, memory, call, bounds, Shaped, TypeOK
<1> QED BY <1>1, <1>2

\* Every reachable state is well formed.
THEOREM HelmTypeCorrect == Spec => []TypeOK
<1>1. Spec => []Shaped
  BY InitShaped, NextShaped, PTL DEF Spec
<1>2. Shaped => TypeOK
  BY DEF Shaped
<1> QED BY <1>1, <1>2, PTL

-----------------------------------------------------------------------------
(* No pending release is left behind: only the write that created it may   *)
(* leave it pending, and that write marks it before it returns, on success,*)
(* on failure and when a shutdown cuts it short.                           *)

\* A marked newest revision has the status it was marked with.
LEMMA NewestMarked ==
    ASSUME NEW h \in Seq(Revisions), h # <<>>, NEW s \in Statuses
    PROVE  Newest([h EXCEPT ![Len(h)].status = s]).status = s
<1>1. Len(h) \in DOMAIN h
  BY LenProperties, EmptySeq
<1> QED BY <1>1, MarkKeeps DEF Newest

\* The steps that write revisions.
LEMMA WritesEndPending ==
    ASSUME Shaped, PendingIsRunning,
           \/ CreateRevision \/ Supersede \/ RecordDeployed \/ ApplyFails
           \/ GraceExpires \/ DeleteRelease \/ FinishDelete
           \/ \E t \in Tags, v \in ValueSets : ForeignInstall(t, v)
    PROVE  PendingIsRunning'
<1>1. releases \in Seq(Revisions)
  BY DEF Shaped, TypeOK
<1>2. CASE CreateRevision \/ Supersede
  BY <1>2 DEF CreateRevision, Supersede, GoTo, PendingIsRunning
<1>3. CASE RecordDeployed
  <2>1. Newest(releases').status = "deployed"
    BY <1>1, <1>3, NewestMarked
    DEF RecordDeployed, Mark, Statuses, Shaped, CallShape
  <2> QED BY <2>1 DEF PendingIsRunning, Pending
<1>4. CASE ApplyFails \/ GraceExpires
  <2>1. Newest(releases').status = "failed"
    BY <1>1, <1>4, NewestMarked
    DEF ApplyFails, GraceExpires, WriteFails, Mark, Statuses, Shaped, CallShape
  <2> QED BY <2>1 DEF PendingIsRunning, Pending
<1>5. CASE DeleteRelease
  <2>1. Newest(releases').status = "uninstalling"
    BY <1>1, <1>5, NewestMarked DEF DeleteRelease, Mark, Statuses
  <2> QED BY <2>1 DEF PendingIsRunning, Pending
<1>6. CASE FinishDelete
  BY <1>6 DEF FinishDelete, PendingIsRunning, Pending
<1>7. ASSUME NEW t \in Tags, NEW v \in ValueSets, ForeignInstall(t, v)
      PROVE  PendingIsRunning'
  <2>1. PICK r : releases' = <<r>> /\ r.status = "deployed"
    BY <1>7 DEF ForeignInstall
  <2> QED BY <2>1 DEF PendingIsRunning, Pending, Newest
<1> QED BY <1>2, <1>3, <1>4, <1>5, <1>6, <1>7

\* The steps that leave the revisions alone: what was pending still is, and
\* either its write goes on or a killed process left it.
LEMMA OthersKeepPending ==
    ASSUME Shaped, PendingIsRunning, UNCHANGED releases, [Next]_vars
    PROVE  PendingIsRunning'
<1> SUFFICES ASSUME Pending(releases) PROVE PendingIsRunning'
  BY DEF PendingIsRunning
<1>1. stuck \/ pc \in {"apply", "supersede", "record"}
  BY DEF PendingIsRunning
<1>2. CASE UNCHANGED <<stuck, pc>>
  BY <1>1, <1>2 DEF PendingIsRunning
<1>3. CASE Apply
  BY <1>3 DEF Apply, GoTo, PendingIsRunning
<1>4. CASE Exit \/ Killed \/ DeleteFails
  BY <1>1, <1>4 DEF Exit, Killed, DeleteFails, Restart, PendingIsRunning
<1>5. CASE EnsureRelease \/ Decide \/ LoadChart \/ RenderChanges \/ RenderSame
           \/ NothingToUpgrade \/ StepFails
  BY <1>1, <1>5
  DEF EnsureRelease, Decide, LoadChart, RenderChanges, RenderSame,
      NothingToUpgrade, StepFails, PendingIsRunning
<1> QED
  <2>1. CASE UNCHANGED vars
    BY <1>2, <2>1 DEF vars, call
  <2>2. CASE Shutdown \/ LatchExpires \/ (\E s \in Specs : EditSpec(s))
             \/ \E t \in Tags : ArchiveExpires(t)
                                \/ \E c \in Charts : PushAgain(t, c)
    BY <1>2, <2>2 DEF Shutdown, LatchExpires, EditSpec, ArchiveExpires, PushAgain, call
  <2> QED BY <1>3, <1>4, <1>5, <2>1, <2>2, WritesEndPending
          DEF Next, CallStep, FaultStep, OutsideStep

\* A release is pending only while its write runs, or after a kill.
THEOREM NoPendingLeftBehind == Spec => []PendingIsRunning
<1>1. Init => PendingIsRunning
  BY DEF Init, PendingIsRunning, Pending
<1>2. Shaped /\ PendingIsRunning /\ [Next]_vars => PendingIsRunning'
  <2> SUFFICES ASSUME Shaped, PendingIsRunning, [Next]_vars, ~UNCHANGED releases
               PROVE  PendingIsRunning'
    BY OthersKeepPending
  <2>1. \/ CreateRevision \/ Supersede \/ RecordDeployed \/ ApplyFails
        \/ GraceExpires \/ DeleteRelease \/ FinishDelete
        \/ \E t \in Tags, v \in ValueSets : ForeignInstall(t, v)
    BY DEF Next, CallStep, FaultStep, OutsideStep, EnsureRelease, Decide, LoadChart,
           RenderChanges, RenderSame, NothingToUpgrade, Apply, StepFails, Shutdown,
           Exit, Killed, DeleteFails, LatchExpires, EditSpec, ArchiveExpires, PushAgain, vars
  <2> QED BY <2>1, WritesEndPending
<1> QED BY <1>1, <1>2, InitShaped, NextShaped, PTL DEF Spec

-----------------------------------------------------------------------------
(* What EnsureRelease promises, until a chart is pushed again and when     *)
(* every tag is its chart's version.  Each revision then records the rendering of its version   *)
(* and values, and the latch remembers an equality of two renderings.      *)

TagsAreVersions == \A t \in Tags : Published[t].version = t

\* The values behind a rendering: empty ones stand for the stored ones.
Chosen(values, stored) == IF values = NoValues THEN stored ELSE values

ChartsAreFresh ==
    /\ registry = Published
    /\ \A t \in Tags : archive[t] \in {None, Published[t]}
    /\ pc \in {"render", "create"} => chart = Published[req.tag]

IsRendered(rev) == rev.manifest = Render(Published[rev.version], rev.values)

RevisionsAreRendered == \A i \in DOMAIN releases : IsRendered(releases[i])

LatchIsTrue ==
    latch # None =>
        Render(Published[latch.tag], Chosen(latch.values, latch.stored))
            = Render(Published[latch.version], latch.stored)

WriteIsRequested ==
    pc \in {"apply", "supersede", "record"} =>
        /\ Newest(releases).version = req.tag
        /\ req.values # NoValues => Newest(releases).values = req.values

Truth == ChartsAreFresh /\ RevisionsAreRendered /\ LatchIsTrue /\ WriteIsRequested

\* A revision with the version asked for, and the values, renders the request.
Answers(rev) ==
    rev.manifest = Render(registry[req.tag], Chosen(req.values, rev.values))

\* Nothing takes a push back.
LEMMA PushesOnlyGrow == ASSUME Shaped, [Next]_vars PROVE pushes' = pushes \/ pushes' = pushes + 1
BY DEF Next, CallStep, FaultStep, OutsideStep, EnsureRelease, Decide, LoadChart,
       RenderChanges, RenderSame, NothingToUpgrade, CreateRevision, Apply, Supersede,
       RecordDeployed, FinishDelete, StepFails, ApplyFails, GraceExpires, WriteFails,
       Shutdown, Exit, Killed, DeleteFails, DeleteRelease, LatchExpires, EditSpec, ArchiveExpires,
       PushAgain, ForeignInstall, vars, bounds

\* The registry has not changed, and downloads come from it.
LEMMA ChartsStayFresh ==
    ASSUME Shaped, ChartsAreFresh, [Next]_vars, pushes' = 0
    PROVE  ChartsAreFresh'
<1>1. registry' = registry
  BY DEF Shaped, TypeOK, Next, CallStep, FaultStep, OutsideStep,
         EnsureRelease, Decide, LoadChart, RenderChanges, RenderSame,
         NothingToUpgrade, CreateRevision, Apply, Supersede, RecordDeployed,
         FinishDelete, StepFails, ApplyFails, GraceExpires, WriteFails, Shutdown,
         Exit, Killed, DeleteFails, Restart, DeleteRelease, LatchExpires, EditSpec,
         ArchiveExpires, PushAgain, ForeignInstall, vars
<1>2. CASE LoadChart
  <2>1. req.tag \in Tags /\ UNCHANGED req
    BY <1>2 DEF LoadChart, GoTo, Shaped, TypeOK, Specs
  <2>2. chart' = Published[req.tag]
    BY <1>2, <2>1 DEF LoadChart, ChartsAreFresh
  <2>3. archive' = [archive EXCEPT ![req.tag] = chart']
    BY <1>2 DEF LoadChart
  <2>4. \A t \in Tags : archive'[t] \in {None, Published[t]}
    BY <2>1, <2>2, <2>3 DEF ChartsAreFresh, Shaped, TypeOK
  <2> QED BY <1>1, <2>1, <2>2, <2>4 DEF ChartsAreFresh
<1>3. ASSUME ~LoadChart PROVE \A t \in Tags : archive'[t] \in {None, archive[t]}
  BY <1>3 DEF Shaped, TypeOK, Next, CallStep, FaultStep, OutsideStep,
         EnsureRelease, Decide, RenderChanges, RenderSame, NothingToUpgrade,
         CreateRevision, Apply, Supersede, RecordDeployed, FinishDelete, StepFails,
         ApplyFails, GraceExpires, WriteFails, Shutdown, Exit, Killed, DeleteFails, Restart,
         DeleteRelease, LatchExpires, EditSpec, ArchiveExpires, PushAgain,
         ForeignInstall, memory, vars
<1>4. ASSUME ~LoadChart, pc' \in {"render", "create"} PROVE UNCHANGED <<pc, chart, req>>
  BY <1>4 DEF Next, CallStep, FaultStep, OutsideStep, EnsureRelease, Decide,
         RenderChanges, RenderSame, NothingToUpgrade, CreateRevision, Apply,
         Supersede, RecordDeployed, FinishDelete, StepFails, ApplyFails,
         GraceExpires, WriteFails, Shutdown, Exit, Killed, DeleteFails, Restart, DeleteRelease,
         LatchExpires, EditSpec, ArchiveExpires, PushAgain, ForeignInstall, Load,
         GoTo, Return, call, vars
<1> QED BY <1>1, <1>2, <1>3, <1>4 DEF ChartsAreFresh

\* A revision with another status renders what it rendered.
LEMMA MarkRendered ==
    ASSUME NEW h \in Seq(Revisions), NEW i \in DOMAIN h, NEW s \in Statuses,
           \A j \in DOMAIN h : IsRendered(h[j])
    PROVE  LET n == [h EXCEPT ![i].status = s]
           IN  \A j \in DOMAIN n : IsRendered(n[j])
<1> DEFINE n == [h EXCEPT ![i].status = s]
<1>1. /\ DOMAIN n = DOMAIN h /\ n[i] = [h[i] EXCEPT !.status = s]
      /\ \A j \in DOMAIN h \ {i} : n[j] = h[j]
  BY MarkKeeps
<1>2. h[i] \in Revisions
  BY LenProperties, ElementOfSeq
<1>3. IsRendered(n[i])
  BY <1>1, <1>2 DEF IsRendered, Revisions
<1> QED BY <1>1, <1>3 DEF IsRendered

\* Every revision records the rendering of its version and values.
LEMMA RevisionsStayRendered ==
    ASSUME TagsAreVersions, Shaped, ChartsAreFresh, RevisionsAreRendered, [Next]_vars
    PROVE  RevisionsAreRendered'
<1>r. releases \in Seq(Revisions) /\ \A j \in DOMAIN releases : IsRendered(releases[j])
  BY DEF Shaped, TypeOK, RevisionsAreRendered
<1>1. CASE CreateRevision
  <2>1. PICK r \in Revisions :
          /\ releases' = Append(releases, r)
          /\ r.version = chart.version /\ r.values = EffectiveValues
          /\ r.manifest = Render(chart, EffectiveValues)
    BY <1>1, NewRevision
  <2>2. chart = Published[req.tag] /\ chart.version = req.tag
    BY <1>1 DEF CreateRevision, ChartsAreFresh, TagsAreVersions, Shaped, TypeOK, Specs
  <2>3. IsRendered(r)
    BY <2>1, <2>2 DEF IsRendered
  <2> QED BY <1>r, <2>1, <2>3, AppendKeeps DEF RevisionsAreRendered
<1>2. CASE Supersede
  <2>1. DeployedAt(releases) \in DOMAIN releases /\ "superseded" \in Statuses
    BY <1>2, <1>r, DeployedAtIsDeployed DEF Supersede, Shaped, CallShape, Statuses
  <2> QED BY <1>2, <1>r, <2>1, MarkRendered DEF Supersede, Mark, RevisionsAreRendered
<1>3. CASE RecordDeployed \/ ApplyFails \/ GraceExpires \/ DeleteRelease
  <2>1. PICK s \in Statuses : releases' = [releases EXCEPT ![Len(releases)].status = s]
    BY <1>3 DEF RecordDeployed, ApplyFails, GraceExpires, WriteFails, DeleteRelease,
                Mark, Statuses
  <2>2. Len(releases) \in DOMAIN releases
    BY <1>3, RevisionTypes
    DEF RecordDeployed, ApplyFails, GraceExpires, WriteFails, DeleteRelease,
        Shaped, CallShape
  <2> QED BY <1>r, <2>1, <2>2, MarkRendered DEF RevisionsAreRendered
<1>4. ASSUME NEW t \in Tags, NEW v \in ValueSets, ForeignInstall(t, v)
      PROVE  RevisionsAreRendered'
  <2>1. PICK r : /\ releases' = <<r>> /\ r.version = registry[t].version
                 /\ r.values = v /\ r.manifest = Render(registry[t], v)
    BY <1>4 DEF ForeignInstall
  <2>2. IsRendered(r)
    BY <2>1 DEF IsRendered, ChartsAreFresh, TagsAreVersions
  <2> QED BY <2>1, <2>2 DEF RevisionsAreRendered
<1>5. CASE FinishDelete
  BY <1>5 DEF FinishDelete, RevisionsAreRendered
<1>6. CASE UNCHANGED releases
  BY <1>6 DEF RevisionsAreRendered, IsRendered
<1> QED
  BY <1>1, <1>2, <1>3, <1>4, <1>5, <1>6
  DEF Next, CallStep, FaultStep, OutsideStep, EnsureRelease, Decide, LoadChart,
      RenderChanges, RenderSame, NothingToUpgrade, Apply, StepFails, Shutdown,
      Exit, Killed, DeleteFails, LatchExpires, EditSpec, ArchiveExpires, PushAgain, vars

\* What the latch is set to, and what a dry run shows, is the request's
\* rendering.
LEMMA DeployedAnswers ==
    ASSUME Shaped, ChartsAreFresh, RevisionsAreRendered, DeployedAt(releases) # 0
    PROVE  /\ DeployedRevision \in Revisions /\ IsRendered(DeployedRevision)
           /\ EffectiveValues = Chosen(req.values, DeployedRevision.values)
<1>1. releases \in Seq(Revisions) /\ OneDeployed(releases)
  BY DEF Shaped, TypeOK, CallShape
<1>2. DeployedAt(releases) \in DOMAIN releases /\ releases # <<>>
  BY <1>1, DeployedAtIsDeployed
<1>3. DeployedRevision \in Revisions /\ IsRendered(DeployedRevision)
  BY <1>2, RevisionTypes DEF DeployedRevision, RevisionsAreRendered
<1> QED BY <1>2, <1>3 DEF EffectiveValues, Chosen, Base

\* The latch is written only when the dry run equals what is deployed.
LEMMA LatchStaysTrue ==
    ASSUME Shaped, ChartsAreFresh, RevisionsAreRendered, LatchIsTrue, [Next]_vars
    PROVE  LatchIsTrue'
<1>1. CASE RenderSame
  <2>1. DeployedAt(releases) # 0 /\ chart = Published[req.tag]
    BY <1>1 DEF RenderSame, Shaped, CallShape, ChartsAreFresh
  <2>2. /\ IsRendered(DeployedRevision)
        /\ EffectiveValues = Chosen(req.values, DeployedRevision.values)
    BY <2>1, DeployedAnswers
  <2>3. Render(Published[req.tag], Chosen(req.values, DeployedRevision.values))
          = Render(Published[DeployedRevision.version], DeployedRevision.values)
    BY <1>1, <2>1, <2>2 DEF RenderSame, IsRendered
  <2>4. latch' = LatchFor(DeployedAt(releases))
    BY <1>1 DEF RenderSame
  <2> QED BY <2>3, <2>4 DEF LatchFor, LatchIsTrue, DeployedRevision
<1>2. CASE latch' \in {latch, None}
  BY <1>2 DEF LatchIsTrue
<1> QED
  BY <1>1, <1>2
  DEF Next, CallStep, FaultStep, OutsideStep, EnsureRelease, Decide, LoadChart,
      RenderChanges, NothingToUpgrade, CreateRevision, Apply, Supersede,
      RecordDeployed, FinishDelete, StepFails, ApplyFails, GraceExpires, WriteFails,
      Shutdown, Exit, Killed, DeleteFails, Restart, DeleteRelease, LatchExpires, EditSpec,
      ArchiveExpires, PushAgain, ForeignInstall, vars, memory

\* The revision being written is the one the call was made for.
LEMMA WriteStaysRequested ==
    ASSUME TagsAreVersions, Shaped, ChartsAreFresh, WriteIsRequested, [Next]_vars
    PROVE  WriteIsRequested'
<1>1. CASE CreateRevision
  <2>1. /\ Newest(releases').version = chart.version
        /\ Newest(releases').values = EffectiveValues
    BY <1>1, NewRevision
  <2>2. chart.version = req.tag /\ UNCHANGED req
    BY <1>1 DEF CreateRevision, GoTo, ChartsAreFresh, TagsAreVersions, Shaped, TypeOK, Specs
  <2> QED BY <2>1, <2>2 DEF EffectiveValues, WriteIsRequested
<1>2. CASE Apply
  BY <1>2 DEF Apply, GoTo, WriteIsRequested, Newest
<1>3. CASE Supersede
  <2>1. releases \in Seq(Revisions) /\ releases # <<>>
    BY <1>3 DEF Supersede, Shaped, TypeOK, CallShape
  <2>2. DeployedAt(releases) \in DOMAIN releases /\ "superseded" \in Statuses
    BY <1>3, <2>1, DeployedAtIsDeployed DEF Supersede, Shaped, CallShape, Statuses
  <2>3. Len(releases) \in DOMAIN releases /\ Newest(releases) \in Revisions
    BY <2>1, RevisionTypes
  <2>4. /\ Newest(releases').version = Newest(releases).version
        /\ Newest(releases').values = Newest(releases).values
    BY <1>3, <2>1, <2>2, <2>3, MarkKeeps DEF Supersede, Mark, Newest, Revisions
  <2> QED BY <1>3, <2>4 DEF Supersede, GoTo, WriteIsRequested
<1>4. CASE UNCHANGED <<pc, req, releases>>
  BY <1>4 DEF WriteIsRequested, Newest
<1>5. CASE pc' \notin {"apply", "supersede", "record"}
  BY <1>5 DEF WriteIsRequested
<1> QED
  BY <1>1, <1>2, <1>3, <1>4, <1>5
  DEF Next, CallStep, FaultStep, OutsideStep, EnsureRelease, Decide, LoadChart,
      RenderChanges, RenderSame, NothingToUpgrade, RecordDeployed, FinishDelete,
      StepFails, ApplyFails, GraceExpires, WriteFails, Shutdown, Exit, Killed, DeleteFails,
      Restart, DeleteRelease, LatchExpires, EditSpec, ArchiveExpires, PushAgain,
      ForeignInstall, Load, GoTo, Return, vars, call

\* The start is true: nothing is deployed, loaded or remembered.
LEMMA InitTrue == Init => Truth
BY DEF Init, Truth, ChartsAreFresh, RevisionsAreRendered, LatchIsTrue, WriteIsRequested

\* A call that returns ok found, showed or recorded the requested rendering.
LEMMA OkAnswers ==
    ASSUME Shaped, Truth, [Next]_vars,
           pc # "idle", pc' = "idle", outcome' = "ok"
    PROVE  /\ DeployedAt(releases') # 0
           /\ LET d == releases'[DeployedAt(releases')]
              IN  d.manifest = Render(registry[req.tag],
                                      IF req.values = NoValues THEN d.values
                                      ELSE req.values)
<1>r. releases \in Seq(Revisions) /\ registry = Published /\ req.tag \in Tags
  BY DEF Shaped, TypeOK, Specs, Truth, ChartsAreFresh
<1>1. ASSUME DeployedAt(releases) # 0, UNCHANGED releases, Answers(DeployedRevision)
      PROVE  /\ DeployedAt(releases') # 0
             /\ Answers(releases'[DeployedAt(releases')])
  BY <1>1 DEF DeployedRevision
<1>2. CASE Decide
  <2>1. DeployedAt(releases) # 0 /\ UNCHANGED releases /\ (Unchanged \/ ConvergenceHolds)
    BY <1>2 DEF Decide, Load, GoTo, Return, Unchanged, Drifted, HasDeployed, Outcomes
  <2>2. DeployedRevision \in Revisions /\ IsRendered(DeployedRevision)
    BY <2>1, DeployedAnswers DEF Truth
  <2>3. ASSUME Unchanged PROVE Answers(DeployedRevision)
    <3>1. DeployedRevision.version = req.tag /\ DeployedRevision.values = req.values
      BY <2>3 DEF Unchanged, ReleaseNeedsUpgrade
    <3>2. Chosen(req.values, DeployedRevision.values) = DeployedRevision.values
      BY <3>1 DEF Chosen
    <3> QED BY <1>r, <2>2, <3>1, <3>2 DEF Answers, IsRendered
  <2>4. ASSUME ConvergenceHolds PROVE Answers(DeployedRevision)
    <3>1. /\ latch # None /\ latch.tag = req.tag /\ latch.values = req.values
          /\ latch.version = DeployedRevision.version
          /\ latch.stored = DeployedRevision.values
      <4>1. DeployedAt(releases) \in Nat
        BY <1>r, DeployedAtIsDeployed DEF Shaped, CallShape
      <4>2. LatchFor(DeployedAt(releases)) \in Latches
        BY <2>2, <4>1 DEF LatchFor, Latches, DeployedRevision, Revisions, Shaped, TypeOK, Specs
      <4> QED BY <2>4, <4>2, ChartAssumption DEF ConvergenceHolds, LatchFor, DeployedRevision
    <3>2. Render(Published[req.tag], Chosen(req.values, DeployedRevision.values))
            = Render(Published[DeployedRevision.version], DeployedRevision.values)
      BY <3>1 DEF Truth, LatchIsTrue
    <3> QED BY <1>r, <2>2, <3>2 DEF Answers, IsRendered
  <2>5. Answers(DeployedRevision)
    BY <2>1, <2>3, <2>4
  <2> QED BY <1>1, <2>1, <2>5 DEF Answers, Chosen
<1>3. CASE RenderSame
  <2>1. DeployedAt(releases) # 0 /\ UNCHANGED releases /\ chart = Published[req.tag]
    BY <1>3 DEF RenderSame, Shaped, CallShape, Truth, ChartsAreFresh
  <2>2. EffectiveValues = Chosen(req.values, DeployedRevision.values)
    BY <2>1, DeployedAnswers DEF Truth
  <2>3. Answers(DeployedRevision)
    BY <1>3, <1>r, <2>1, <2>2 DEF RenderSame, Answers
  <2> QED BY <1>1, <2>1, <2>3 DEF Answers, Chosen
<1>4. CASE RecordDeployed
  <2>1. Len(releases) \in DOMAIN releases /\ Newest(releases) \in Revisions
        /\ DOMAIN releases = 1 .. Len(releases) /\ Len(releases) \in Nat
    BY <1>4, <1>r, RevisionTypes, LenProperties DEF RecordDeployed, Shaped, CallShape
  <2>2. "deployed" \in Statuses
    BY DEF Statuses
  <2>3. /\ releases' \in Seq(Revisions) /\ DOMAIN releases' = DOMAIN releases
        /\ releases'[Len(releases)] = [Newest(releases) EXCEPT !.status = "deployed"]
        /\ releases'[Len(releases)].status = "deployed"
    BY <1>4, <1>r, <2>1, <2>2, MarkKeeps DEF RecordDeployed, Mark, Newest
  <2>4. OneDeployed(releases')
    BY <1>4, NextShaped DEF Shaped, CallShape
  <2>5. DeployedAt(releases') = Len(releases)
    BY <2>1, <2>3, <2>4, DeployedAtIsDeployed
  <2>6. /\ IsRendered(Newest(releases)) /\ Newest(releases).version = req.tag
        /\ req.values # NoValues => Newest(releases).values = req.values
    BY <1>4, <2>1 DEF RecordDeployed, Truth, RevisionsAreRendered, WriteIsRequested, Newest
  <2>7. Answers(releases'[Len(releases)])
    BY <1>r, <2>1, <2>3, <2>6 DEF Answers, Chosen, IsRendered, Revisions
  <2> QED BY <2>1, <2>5, <2>7 DEF Answers, Chosen
<1> QED
  BY <1>2, <1>3, <1>4
  DEF Next, CallStep, FaultStep, OutsideStep, EnsureRelease, LoadChart,
      RenderChanges, NothingToUpgrade, CreateRevision, Apply, Supersede,
      FinishDelete, StepFails, ApplyFails, GraceExpires, WriteFails, Shutdown,
      Exit, Killed, DeleteFails, Restart, DeleteRelease, LatchExpires, EditSpec, ArchiveExpires,
      PushAgain, ForeignInstall, Load, GoTo, Return, call, vars

\* When EnsureRelease reports success the deployed revision is the requested
\* rendering: the skip, the latch and the dry run included, whatever fails,
\* whatever process is killed and whoever else installs the release.
THEOREM EnsureTellsTheTruth ==
    ASSUME TagsAreVersions
    PROVE  Spec => EnsuredIsDeployed
<1>1. Init => Shaped /\ (pushes = 0 => Truth)
  BY InitShaped, InitTrue
<1>2. Shaped /\ (pushes = 0 => Truth) /\ [Next]_vars
        => (Shaped /\ (pushes = 0 => Truth))'
  <2> SUFFICES ASSUME Shaped, pushes = 0 => Truth, [Next]_vars, pushes' = 0
               PROVE  Truth'
    BY NextShaped
  <2>1. Truth
    BY PushesOnlyGrow DEF Shaped, TypeOK
  <2> QED BY <2>1, TagsAreVersions, ChartsStayFresh, RevisionsStayRendered,
             LatchStaysTrue, WriteStaysRequested DEF Truth
<1>3. Shaped /\ (pushes = 0 => Truth) /\ [Next]_vars =>
        [pc # "idle" /\ pc' = "idle" /\ outcome' = "ok" /\ pushes = 0 =>
           /\ DeployedAt(releases') # 0
           /\ LET d == releases'[DeployedAt(releases')]
              IN  d.manifest = Render(registry[req.tag],
                                      IF req.values = NoValues THEN d.values
                                      ELSE req.values)]_vars
  BY OkAnswers
<1> QED BY <1>1, <1>2, <1>3, PTL DEF Spec, EnsuredIsDeployed
=============================================================================
