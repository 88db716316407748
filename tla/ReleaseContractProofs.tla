------------------------ MODULE ReleaseContractProofs ------------------------
(***************************************************************************)
(* HelmRelease implements ReleaseContract, for every set of tags, charts   *)
(* and values and every bound: a step of the client is a step of the       *)
(* contract on what the record shows, or none at all.                      *)
(***************************************************************************)
EXTENDS HelmReleaseProofs

-----------------------------------------------------------------------------
(* Beyond the shape of a call: who writes has a pending revision, and who  *)
(* is about to write found none.                                           *)

PendingMatches ==
    /\ pc \in {"apply", "supersede", "record"} => Pending(releases)
    /\ pc \in {"load", "render", "create", "delete"} => ~Pending(releases)

Ready == Shaped /\ PendingMatches

\* Nothing is pending at the start.
LEMMA InitReady == Init => Ready
BY InitShaped DEF Init, Ready, PendingMatches

\* The revision that is superseded is not the one being written.
LEMMA SupersedeKeepsNewest ==
    ASSUME Ready, Supersede
    PROVE  /\ releases' # <<>> /\ Newest(releases') = Newest(releases)
           /\ DeployedAt(releases') = 0
<1>1. /\ releases \in Seq(Revisions) /\ OneDeployed(releases) /\ releases # <<>>
      /\ DeployedAt(releases) # 0 /\ Newest(releases).status = "pending"
  BY DEF Supersede, Ready, Shaped, TypeOK, CallShape, PendingMatches, Pending
<1>2. /\ Len(releases) \in DOMAIN releases
      /\ DeployedAt(releases) \in DOMAIN releases
      /\ releases[DeployedAt(releases)].status = "deployed"
      /\ "superseded" \in Statuses
  BY <1>1, DeployedAtIsDeployed, LenProperties, EmptySeq DEF Statuses
<1>3. /\ releases' \in Seq(Revisions) /\ Len(releases') = Len(releases)
      /\ DOMAIN releases' = DOMAIN releases
      /\ releases'[DeployedAt(releases)].status = "superseded"
      /\ \A j \in DOMAIN releases \ {DeployedAt(releases)} : releases'[j] = releases[j]
  BY <1>1, <1>2, MarkKeeps DEF Supersede, Mark
<1>4. Len(releases) # DeployedAt(releases)
  BY <1>1, <1>2 DEF Newest
<1>5. \A j \in DOMAIN releases' : releases'[j].status # "deployed"
  BY <1>1, <1>3, DeployedAtIsDeployed
<1> QED BY <1>1, <1>2, <1>3, <1>4, <1>5, EmptySeq, LenProperties DEF Newest, DeployedAt

\* A newest revision marked anything but pending is not pending.
LEMMA MarkedIsNotPending ==
    ASSUME Shaped, RecordDeployed \/ WriteFails \/ DeleteRelease
    PROVE  /\ ~Pending(releases') /\ releases # <<>>
           /\ \E s \in {"deployed", "failed", "uninstalling"} :
                releases' = [releases EXCEPT ![Len(releases)].status = s]
<1>1. releases \in Seq(Revisions) /\ releases # <<>>
  BY DEF RecordDeployed, WriteFails, DeleteRelease, Shaped, TypeOK, CallShape
<1>2. PICK s \in {"deployed", "failed", "uninstalling"} :
         releases' = [releases EXCEPT ![Len(releases)].status = s]
  BY DEF RecordDeployed, WriteFails, DeleteRelease, Mark
<1>3. Newest(releases').status = s
  BY <1>1, <1>2, NewestMarked DEF Statuses
<1> QED BY <1>1, <1>2, <1>3 DEF Pending

\* The steps that write revisions.
LEMMA WritesMatch ==
    ASSUME Ready,
           \/ CreateRevision \/ Supersede \/ RecordDeployed \/ WriteFails
           \/ DeleteRelease \/ FinishDelete
           \/ \E t \in Tags, v \in ValueSets : ForeignInstall(t, v)
    PROVE  PendingMatches'
<1>1. CASE CreateRevision
  <2>1. PICK r \in Revisions : releases' = Append(releases, r) /\ r.status = "pending"
                               /\ Newest(releases') = r
    BY <1>1, NewRevision DEF Ready
  <2>2. releases' # <<>>
    BY <2>1, AppendKeeps DEF Ready, Shaped, TypeOK
  <2> QED BY <1>1, <2>1, <2>2 DEF CreateRevision, GoTo, PendingMatches, Pending
<1>2. CASE Supersede
  BY <1>2, SupersedeKeepsNewest
  DEF Supersede, GoTo, PendingMatches, Pending, Ready
<1>3. CASE RecordDeployed \/ WriteFails \/ DeleteRelease
  BY <1>3, MarkedIsNotPending
  DEF RecordDeployed, WriteFails, DeleteRelease, Return, PendingMatches, Ready
<1>4. CASE FinishDelete
  BY <1>4 DEF FinishDelete, PendingMatches
<1>5. ASSUME NEW t \in Tags, NEW v \in ValueSets, ForeignInstall(t, v)
      PROVE  PendingMatches'
  BY <1>5 DEF ForeignInstall, call, PendingMatches
<1> QED BY <1>1, <1>2, <1>3, <1>4, <1>5

\* Every step keeps the pending revision and the writer together.
LEMMA NextReady == Ready /\ [Next]_vars => Ready'
<1> SUFFICES ASSUME Ready, [Next]_vars PROVE PendingMatches'
  BY NextShaped DEF Ready
<1>1. CASE UNCHANGED <<pc, releases>>
  BY <1>1 DEF Ready, PendingMatches, Pending, Newest
<1>2. CASE EnsureRelease \/ LoadChart \/ RenderChanges \/ RenderSame
           \/ NothingToUpgrade \/ StepFails \/ Apply \/ Exit \/ Killed \/ DeleteFails
  BY <1>2
  DEF EnsureRelease, LoadChart, RenderChanges, RenderSame, NothingToUpgrade,
      StepFails, Apply, Exit, Killed, DeleteFails, Restart, Load, GoTo, Return, Ready,
      PendingMatches, Pending, Newest
<1>3. CASE Decide
  <2>1. UNCHANGED releases /\ (pc' = "idle" \/ (pc' = "load" /\ ~Pending(releases)))
    BY <1>3 DEF Decide, Load, GoTo, Return, NotInstalled, NeverDeployed, Drifted,
                HasDeployed, OperationPending, Pending
  <2> QED BY <2>1 DEF PendingMatches, Pending, Newest
<1>4. CASE \/ CreateRevision \/ Supersede \/ RecordDeployed \/ WriteFails
           \/ DeleteRelease \/ FinishDelete
           \/ \E t \in Tags, v \in ValueSets : ForeignInstall(t, v)
  BY <1>4, WritesMatch
<1> QED BY <1>1, <1>2, <1>3, <1>4
        DEF Next, CallStep, FaultStep, OutsideStep, ApplyFails, GraceExpires,
            Shutdown, LatchExpires, EditSpec, ArchiveExpires, PushAgain, call, vars

-----------------------------------------------------------------------------
(* What each step is to the contract.                                      *)

\* Histories in which the same revision is deployed put the same in force.
LEMMA SameInForce ==
    ASSUME Shaped, Shaped',
           \A i \in DOMAIN releases : releases[i].status = "deployed" =>
             i \in DOMAIN releases' /\ releases'[i] = releases[i],
           \A i \in DOMAIN releases' : releases'[i].status = "deployed" =>
             i \in DOMAIN releases /\ releases[i] = releases'[i]
    PROVE  InForce' = InForce
<1>1. /\ releases \in Seq(Revisions) /\ OneDeployed(releases)
      /\ releases' \in Seq(Revisions) /\ OneDeployed(releases')
  BY DEF Shaped, TypeOK, CallShape
<1>2. DeployedAt(releases') = DeployedAt(releases)
  BY <1>1, DeployedAtIsDeployed
<1>3. DeployedAt(releases) # 0 => releases'[DeployedAt(releases)] = releases[DeployedAt(releases)]
  BY <1>1, DeployedAtIsDeployed
<1> QED BY <1>2, <1>3 DEF InForce, DeployedRevision

\* Steps that leave the revisions alone and the writer where it was.
LEMMA Stutters ==
    ASSUME UNCHANGED releases, Writer' = Writer
    PROVE  UNCHANGED Contract!contract
BY DEF Contract!contract, InForce, DeployedRevision, DeployedAt, Target, Pending, Newest

\* CreateRevision begins a write.
LEMMA CreateBegins ==
    ASSUME Ready, Ready', CreateRevision
    PROVE  Contract!Begin
<1>1. PICK r \in Revisions : /\ releases' = Append(releases, r) /\ r.status = "pending"
                             /\ Newest(releases') = r
  BY NewRevision DEF Ready
<1>2. InForce' = InForce
  BY <1>1, SameInForce, AppendKeeps DEF Ready, Shaped, TypeOK
<1>3. Writer = "free" /\ Writer' = "writing"
  BY DEF CreateRevision, GoTo, Writer, Ready, PendingMatches
<1>4. Target' \in Manifests
  <2>1. Pending(releases')
    BY DEF Ready, PendingMatches, CreateRevision, GoTo
  <2> QED BY <1>1, <2>1 DEF Target, Revisions
<1> QED BY <1>2, <1>3, <1>4 DEF Contract!Begin

\* Supersede, or an Apply that has nothing to supersede, retires the content.
LEMMA SupersedeRetires ==
    ASSUME Ready, Ready', Supersede
    PROVE  Contract!Retire
<1>1. Writer = "writing" /\ Writer' = "switching"
  BY DEF Supersede, GoTo, Writer
<1>2. InForce' = None
  BY SupersedeKeepsNewest DEF InForce
<1>3. Target' = Target
  <2>1. Pending(releases) /\ Pending(releases')
    BY DEF Ready, PendingMatches, Supersede, GoTo
  <2> QED BY <2>1, SupersedeKeepsNewest DEF Target
<1> QED BY <1>1, <1>2, <1>3 DEF Contract!Retire

LEMMA ApplyRetires ==
    ASSUME Ready, Apply
    PROVE  Contract!Retire \/ UNCHANGED Contract!contract
<1>1. UNCHANGED releases /\ pc = "apply"
  BY DEF Apply
<1>2. CASE DeployedAt(releases) # 0
  BY <1>1, <1>2, Stutters DEF Apply, GoTo, Writer
<1>3. CASE DeployedAt(releases) = 0
  <2>1. Writer = "writing" /\ Writer' = "switching"
    BY <1>1, <1>3 DEF Apply, GoTo, Writer
  <2>2. InForce' = None /\ Target' = Target
    BY <1>1, <1>3 DEF InForce, DeployedAt, Target, Pending, Newest
  <2> QED BY <2>1, <2>2 DEF Contract!Retire
<1> QED BY <1>2, <1>3

\* RecordDeployed commits it.
LEMMA RecordCommits ==
    ASSUME Ready, Ready', RecordDeployed
    PROVE  Contract!Commit
<1>1. releases \in Seq(Revisions) /\ Pending(releases) /\ releases # <<>>
  BY DEF Ready, Shaped, TypeOK, PendingMatches, RecordDeployed, Pending
<1>2. /\ Len(releases) \in DOMAIN releases /\ Newest(releases) \in Revisions
      /\ "deployed" \in Statuses
  BY <1>1, RevisionTypes DEF Ready, Statuses
<1>3. /\ Len(releases) \in DOMAIN releases'
      /\ releases'[Len(releases)] = [Newest(releases) EXCEPT !.status = "deployed"]
      /\ releases'[Len(releases)].status = "deployed"
  BY <1>1, <1>2, MarkKeeps DEF RecordDeployed, Mark, Newest
<1>4. DeployedAt(releases') = Len(releases) /\ Len(releases) # 0
  BY <1>1, <1>3, DeployedAtIsDeployed, LenProperties, EmptySeq
  DEF Ready, Shaped, TypeOK, CallShape
<1>5. InForce' = Newest(releases).manifest
  BY <1>2, <1>3, <1>4 DEF InForce, DeployedRevision, Revisions
<1>6. ~Pending(releases')
  BY MarkedIsNotPending DEF Ready
<1>7. Target = Newest(releases).manifest /\ Target' = None
  BY <1>1, <1>6 DEF Target
<1>8. Writer = "switching" /\ Writer' = "free"
  BY <1>6 DEF RecordDeployed, Return, Writer
<1> QED BY <1>5, <1>7, <1>8 DEF Contract!Commit

\* A failed write is abandoned with the old content in force.
LEMMA FailureAborts ==
    ASSUME Ready, Ready', WriteFails
    PROVE  Contract!Abort
<1>1. releases \in Seq(Revisions) /\ Pending(releases) /\ releases # <<>>
  BY DEF Ready, Shaped, TypeOK, PendingMatches, WriteFails, Pending
<1>2. Len(releases) \in DOMAIN releases /\ "failed" \in Statuses
  BY <1>1, LenProperties, EmptySeq DEF Statuses
<1>3. /\ DOMAIN releases' = DOMAIN releases
      /\ releases'[Len(releases)].status = "failed"
      /\ \A j \in DOMAIN releases \ {Len(releases)} : releases'[j] = releases[j]
  BY <1>1, <1>2, MarkKeeps DEF WriteFails, Mark
<1>4. InForce' = InForce
  BY <1>1, <1>3, SameInForce DEF Ready, Pending, Newest
<1>5. ~Pending(releases')
  BY MarkedIsNotPending DEF Ready
<1> QED BY <1>4, <1>5 DEF WriteFails, Return, Writer, Target, Contract!Abort

\* A deletion starts a removal, of the deployed revision or of one above it.
LEMMA DeletionStarts ==
    ASSUME Ready, Ready', DeleteRelease
    PROVE  Contract!StartRemoval
<1>1. releases \in Seq(Revisions) /\ OneDeployed(releases) /\ releases # <<>>
  BY DEF Ready, Shaped, TypeOK, CallShape, DeleteRelease
<1>2. Len(releases) \in DOMAIN releases /\ "uninstalling" \in Statuses
  BY <1>1, LenProperties, EmptySeq DEF Statuses
<1>3. /\ DOMAIN releases' = DOMAIN releases
      /\ releases'[Len(releases)].status = "uninstalling"
      /\ \A j \in DOMAIN releases \ {Len(releases)} : releases'[j] = releases[j]
  BY <1>1, <1>2, MarkKeeps DEF DeleteRelease, Mark
<1>4. InForce' \in {InForce, None}
  <2>1. CASE releases[Len(releases)].status = "deployed"
    <3>1. \A j \in DOMAIN releases' : releases'[j].status # "deployed"
      BY <1>1, <1>2, <1>3, <2>1 DEF OneDeployed
    <3> QED BY <3>1 DEF InForce, DeployedAt
  <2>2. CASE releases[Len(releases)].status # "deployed"
    BY <1>3, <2>2, SameInForce DEF Ready
  <2> QED BY <2>1, <2>2
<1>5. ~Pending(releases')
  BY MarkedIsNotPending DEF Ready
<1>6. Writer \in {"free", "broken"} /\ Writer' = "removing" /\ Target' = None
  BY <1>5 DEF DeleteRelease, Writer, Target
<1> QED BY <1>4, <1>6 DEF Contract!StartRemoval

\* A kill breaks a write, ends a removal, as its failure does, and is nothing
\* to anybody else.
LEMMA KillBreaks ==
    ASSUME Ready, Exit \/ Killed \/ DeleteFails
    PROVE  Contract!Break \/ Contract!EndRemoval \/ UNCHANGED Contract!contract
<1>1. UNCHANGED releases /\ pc' = "idle" /\ (Exit => pc = "idle")
  BY DEF Exit, Killed, DeleteFails, Restart
<1>2. UNCHANGED <<InForce, Target>>
  BY <1>1 DEF InForce, DeployedRevision, DeployedAt, Target, Pending, Newest
<1>3. CASE pc \in {"apply", "supersede", "record"}
  <2>1. Writer \in {"writing", "switching"} /\ Writer' = "broken"
    BY <1>1, <1>3 DEF Writer, Ready, PendingMatches, Pending, Newest
  <2> QED BY <1>2, <2>1 DEF Contract!Break
<1>4. CASE pc = "delete"
  <2>1. Writer = "removing" /\ Writer' = "free"
    BY <1>1, <1>4 DEF Writer, Ready, PendingMatches, Pending, Newest
  <2> QED BY <1>2, <2>1 DEF Contract!EndRemoval
<1>5. CASE pc \notin {"apply", "supersede", "record", "delete"}
  BY <1>1, <1>5, Stutters DEF Writer, Pending, Newest
<1> QED BY <1>3, <1>4, <1>5

\* A deletion that ends leaves nothing.
LEMMA FinishEnds ==
    ASSUME Ready, FinishDelete
    PROVE  Contract!EndRemoval
<1>1. Writer = "removing" /\ Writer' = "free" /\ Target = None /\ Target' = None
  BY DEF FinishDelete, Writer, Target, Pending, Ready, PendingMatches
<1>2. InForce' = None
  BY DEF FinishDelete, InForce, DeployedAt
<1> QED BY <1>1, <1>2 DEF Contract!EndRemoval

\* Another release in its place.
LEMMA ForeignReplaces ==
    ASSUME Ready, NEW t \in Tags, NEW v \in ValueSets, ForeignInstall(t, v)
    PROVE  Contract!Replace
<1> DEFINE m == Render(registry[t], v)
<1>1. m \in Manifests
  BY RenderTypes DEF Ready, Shaped, TypeOK
<1>2. PICK r : releases' = <<r>> /\ r.status = "deployed" /\ r.manifest = m
  BY DEF ForeignInstall
<1>3. DeployedAt(releases') = 1 /\ releases'[1] = r
  BY <1>2 DEF DeployedAt
<1>4. InForce' = m
  BY <1>2, <1>3 DEF InForce, DeployedRevision
<1>5. ~Pending(releases')
  BY <1>2 DEF Pending, Newest
<1>6. Writer \in {"free", "broken"} /\ Writer' = "free" /\ Target' = None
  BY <1>5 DEF ForeignInstall, call, Writer, Target
<1> QED BY <1>1, <1>4, <1>6 DEF Contract!Replace

\* Everything else is nothing to the contract.
LEMMA OthersStutter ==
    ASSUME Ready,
           \/ EnsureRelease \/ Decide \/ LoadChart \/ RenderChanges \/ RenderSame
           \/ NothingToUpgrade \/ StepFails \/ Shutdown \/ LatchExpires
           \/ \E s \in Specs : EditSpec(s)
           \/ \E t \in Tags : ArchiveExpires(t) \/ \E c \in Charts : PushAgain(t, c)
           \/ UNCHANGED vars
    PROVE  UNCHANGED Contract!contract
<1>1. UNCHANGED releases
  BY DEF EnsureRelease, Decide, LoadChart, RenderChanges, RenderSame,
         NothingToUpgrade, StepFails, Shutdown, LatchExpires, EditSpec,
         ArchiveExpires, PushAgain, vars
<1>2. \/ UNCHANGED pc
      \/ /\ pc \in {"idle", "decide", "load", "render", "create"}
         /\ pc' \in {"idle", "decide", "load", "render", "create"}
  BY DEF EnsureRelease, Decide, LoadChart, RenderChanges, RenderSame,
         NothingToUpgrade, StepFails, Shutdown, LatchExpires, EditSpec,
         ArchiveExpires, PushAgain, Load, GoTo, Return, call, vars
<1>3. Pending(releases') = Pending(releases)
  BY <1>1 DEF Pending, Newest
<1>4. Writer' = Writer
  BY <1>2, <1>3 DEF Writer
<1> QED BY <1>1, <1>4, Stutters

\* The steps of the Helm client, with every failure, kill and foreign install
\* between them, are whole writes by one writer: nothing is out of force
\* before the new content is applied, and a release left pending is not
\* written again (decideRelease, withShutdownGrace).
THEOREM RefinesContract == Spec => KeepsContract
<1>1. Init => Contract!Init
  BY DEF Init, Contract!Init, InForce, DeployedAt, Writer, Target, Pending
<1>2. Ready /\ Ready' /\ [Next]_vars => [Contract!Next]_(Contract!contract)
  <2> SUFFICES ASSUME Ready, Ready', [Next]_vars
               PROVE  Contract!Next \/ UNCHANGED Contract!contract
    OBVIOUS
  <2> QED BY CreateBegins, SupersedeRetires, ApplyRetires, RecordCommits,
             FailureAborts, DeletionStarts, KillBreaks, FinishEnds,
             ForeignReplaces, OthersStutter
          DEF Next, CallStep, FaultStep, OutsideStep, ApplyFails, GraceExpires,
              Contract!Next
<1> QED BY <1>1, <1>2, InitReady, NextReady, PTL DEF Spec, KeepsContract, Contract!Spec
=============================================================================
