------------------------- MODULE SettingsReposProofs -------------------------
(***************************************************************************)
(* Theorems about SettingsRepos for every set of registries, repositories, *)
(* catalogs and credentials, and every bound: type correctness; what a     *)
(* save omits or leaves to Helm really goes; no pass deletes a custom      *)
(* repository that Settings lists; and the controller is at rest only when *)
(* the cluster is as Settings ask, and without faults has nothing left     *)
(* over.                                                                   *)
(***************************************************************************)
EXTENDS SettingsRepos, TLAPS

-----------------------------------------------------------------------------
(* Types.                                                                  *)

\* What a pass goes on with.
LEMMA PassTypes ==
    ASSUME NEW m \in Passes
    PROVE  /\ \A t \in SUBSET Mirrored : [m EXCEPT !.todo = t] \in Passes
           /\ \A s \in Specs : [m EXCEPT !.spec = s] \in Passes
           /\ \A w \in SUBSET Repos : [m EXCEPT !.work = w] \in Passes
           /\ \A b \in BOOLEAN, w \in SUBSET Repos :
                [m EXCEPT !.changed = b, !.work = w] \in Passes
           /\ [m EXCEPT !.failed = TRUE] \in Passes
           /\ \A t \in SUBSET Mirrored : [m EXCEPT !.at = None, !.todo = t] \in Passes
           /\ \A k \in Mirrored :
                /\ [m EXCEPT !.at = k] \in Passes
                /\ [m EXCEPT !.todo = @ \ {k}] \in Passes
                /\ [m EXCEPT !.todo = @ \ {k}, !.failed = TRUE] \in Passes
                /\ [m EXCEPT !.todo = @ \ {k}, !.keep = @ \cup ({k} \cap Customs)] \in Passes
                /\ k \in Customs => [m EXCEPT !.todo = @ \ {k}, !.keep = @ \cup {k},
                                              !.failed = TRUE] \in Passes
                /\ \A c \in Creds \cup {None}, t \in BOOLEAN, w \in SUBSET Repos :
                     [m EXCEPT !.at = k, !.cred = c, !.tear = t, !.work = w,
                               !.changed = FALSE] \in Passes
  BY DEF Passes

\* What the other fields are meanwhile.
LEMMA Fields ==
    ASSUME NEW m \in Passes
    PROVE  /\ \A w : LET n == [m EXCEPT !.work = w]
                    IN  /\ n.work = w /\ n.at = m.at /\ n.cred = m.cred /\ n.spec = m.spec
                        /\ n.todo = m.todo /\ n.keep = m.keep
           /\ \A b, w : LET n == [m EXCEPT !.changed = b, !.work = w]
                       IN  /\ n.work = w /\ n.at = m.at /\ n.cred = m.cred /\ n.spec = m.spec
                           /\ n.todo = m.todo /\ n.keep = m.keep
           /\ \A k, c, t, w :
                LET n == [m EXCEPT !.at = k, !.cred = c, !.tear = t, !.work = w,
                                   !.changed = FALSE]
                IN  /\ n.work = w /\ n.at = k /\ n.cred = c /\ n.spec = m.spec
                    /\ n.todo = m.todo /\ n.keep = m.keep
  BY DEF Passes

\* The types of everything but the pass.
Things ==
    /\ spec \in Specs /\ owners \in [Owned -> SUBSET Managers]
    /\ save \in Saves \cup {None}
    /\ source \in [Keyed -> Creds \cup {None}]
    /\ known \in [Built -> Creds \cup {None}]
    /\ userless \in BOOLEAN /\ broken \subseteq Owned /\ astray \subseteq Built
    /\ mirror \in [Mirrored -> [Places -> Copies \cup {None}]]
    /\ repo \in [Repos -> RepoObjs \cup {None}]
    /\ git \in [GitRepos -> BOOLEAN] /\ client \in Creds \cup {None}
    /\ edits \in Nat /\ faults \in Nat

\* The repositories that are to carry a pass's credentials.
Carriers(m) ==
    IF m.cred = None THEN {}
    ELSE IF m.at # Nvidia THEN {m.at}
    ELSE IF m.spec.mirrored THEN NvRepos ELSE {"gated"}

\* What a pass is about to write to is there, and is its own.
Aims(stage, m, there) ==
    /\ stage \in {"retype", "unmirrorPruned"} => m.at \in Customs
    /\ stage \in {"mirror", "apply", "force"} => m.at \in Built \cup Customs
    /\ stage \in {"drop", "unmirror"} => m.at \in Built
    /\ stage = "mirror" => m.cred # None
    /\ stage = "drop" => m.work \subseteq Repos \ Customs
    /\ stage = "apply" => /\ m.work \cap Customs \subseteq {m.at}
                          /\ \A r \in Carriers(m) : r \in m.work \/ there[r] # None
    /\ stage = "force" => \A r \in m.work : there[r] # None

TypeInv == TypeOK /\ (mem # None => Aims(pc, mem, repo))

LEMMA TypesOfThings == ASSUME TypeOK PROVE Things
  BY DEF TypeOK, Things

\* What a pass under way holds.
LEMMA Held ==
    ASSUME TypeOK, pc # "idle"
    PROVE  /\ mem \in Passes /\ mem # None /\ mem.spec \in Specs
           /\ mem.todo \subseteq Mirrored /\ mem.at \in Mirrored \cup {None}
           /\ mem.cred \in Creds \cup {None} /\ mem.tear \in BOOLEAN
           /\ mem.changed \in BOOLEAN /\ mem.work \subseteq Repos
           /\ mem.keep \subseteq Customs /\ mem.failed \in BOOLEAN
  BY DEF TypeOK, Passes

\* A step of a pass that goes on.
LEMMA Goes ==
    ASSUME TypeInv, NEW stage \in Stages \ {"idle"}, NEW m \in Passes, GoTo(stage, m),
           Things', Aims(stage, m, repo')
    PROVE  TypeInv'
  BY KindsAssumption DEF GoTo, TypeInv, TypeOK, Things

\* One that may have written NVIDIA's well-known Secret.
LEMMA GoesOnward ==
    ASSUME TypeInv, NEW stage \in Stages \ {"idle"}, NEW m \in Passes, Onward(stage, m),
           Things', Aims(stage, m, repo')
    PROVE  TypeInv'
  <1>1. queued' \in BOOLEAN
    BY DEF Onward, TypeInv, TypeOK
  <1> QED BY <1>1, KindsAssumption DEF Onward, TypeInv, TypeOK, Things

LEMMA CompletedTypes ==
    ASSUME userless \in BOOLEAN, NEW r, NEW e, NEW d, Completed(r, e, d)
    PROVE  userless' \in BOOLEAN
  BY DEF Completed

\* A step that ends it.
LEMMA Ends ==
    ASSUME TypeInv, NEW e \in BOOLEAN, EndPass(e), Things'
    PROVE  TypeInv'
  BY DEF EndPass, TypeInv, TypeOK, Things, Stages

\* A step of somebody else.
LEMMA Outside ==
    ASSUME TypeInv, UNCHANGED <<pc, mem>>, Things', queued' \in BOOLEAN,
           \A r \in Repos : repo[r] # None => repo'[r] # None
    PROVE  TypeInv'
  <1>1. TypeOK'
    BY DEF TypeInv, TypeOK, Things
  <1>2. ASSUME mem # None PROVE Aims(pc, mem, repo')
    <2>1. mem.work \subseteq Repos /\ mem.spec \in Specs /\ pc # "idle"
      BY <1>2, Held DEF TypeInv, TypeOK
    <2>2. ASSUME pc = "apply", NEW r \in Carriers(mem), r \notin mem.work
          PROVE  repo'[r] # None
      <3>1. repo[r] # None /\ mem.at \in Built \cup Customs
        BY <1>2, <2>2 DEF TypeInv, Aims
      <3>2. r \in Repos
        BY <2>2, <3>1 DEF Carriers, Repos, Built, NvRepos
      <3> QED BY <3>1, <3>2
    <2> QED BY <1>2, <2>1, <2>2 DEF TypeInv, Aims
  <1> QED BY <1>1, <1>2 DEF TypeInv

\* A turn that fails or ends well goes back to the list.
LEMMA TurnEnds ==
    ASSUME TypeInv, pc # "idle", NEW k \in Mirrored, Fails(k) \/ Done(k), Things'
    PROVE  TypeInv'
  <1>1. mem \in Passes
    BY Held DEF TypeInv
  <1>2. \A m : Aims("next", m, repo')
    BY DEF Aims
  <1>3. CASE Done(k)
    BY <1>1, <1>2, <1>3, PassTypes, Goes DEF Done, Stages
  <1>4. CASE Fails(k) /\ k \in Customs
    BY <1>1, <1>2, <1>4, PassTypes, Goes DEF Fails, Stages
  <1>5. CASE Fails(k) /\ k \notin Customs
    BY <1>5, Ends DEF Fails
  <1> QED BY <1>3, <1>4, <1>5

\* What reading credentials yields.
LEMMA ReadTypes ==
    ASSUME Things, NEW r \in Built, NEW ref \in Refs
    PROVE  /\ Effective(r, ref) \in Refs /\ Read(r, ref) \in Creds \cup {None}
           /\ Effective(r, ref) # ref => Effective(r, ref) = "known"
           /\ Strays(r, ref) \subseteq Refs
           /\ \A e \in Refs : Pair(r, e) \in Creds \cup {None}
  BY DEF Things, Effective, Read, Pair, Strays, Refs, Keyed, Mirrored

\* Another step of a write to the mirror, to a repository.
LEMMA MirrorTypes ==
    ASSUME Things
    PROVE  /\ \A k : [mirror EXCEPT ![k] = NoCopy] \in [Mirrored -> [Places -> Copies \cup {None}]]
           /\ \A k : \A x \in HalfDeleted(k) : x \in [Mirrored -> [Places -> Copies \cup {None}]]
           /\ \A k \in Mirrored, n \in Places, c \in Copies :
                [mirror EXCEPT ![k][n] = c] \in [Mirrored -> [Places -> Copies \cup {None}]]
  <1>1. \A k : [mirror EXCEPT ![k] = NoCopy] \in [Mirrored -> [Places -> Copies \cup {None}]]
    BY DEF Things, NoCopy
  <1>2. ASSUME NEW k, NEW x \in HalfDeleted(k)
        PROVE  x \in [Mirrored -> [Places -> Copies \cup {None}]]
    <2>1. PICK left : x = [mirror EXCEPT ![k] = [n \in Places |-> IF n \in left THEN @[n] ELSE None]]
      BY <1>2 DEF HalfDeleted
    <2>2. CASE k \in Mirrored
      <3>1. [n \in Places |-> IF n \in left THEN mirror[k][n] ELSE None] \in [Places -> Copies \cup {None}]
        BY <2>2 DEF Things
      <3> QED BY <2>1, <2>2, <3>1 DEF Things
    <2>3. CASE k \notin Mirrored
      BY <2>1, <2>3 DEF Things
    <2> QED BY <2>2, <2>3
  <1>3. ASSUME NEW k \in Mirrored, NEW n \in Places, NEW c \in Copies
        PROVE  [mirror EXCEPT ![k][n] = c] \in [Mirrored -> [Places -> Copies \cup {None}]]
    <2>1. [mirror[k] EXCEPT ![n] = c] \in [Places -> Copies \cup {None}]
      BY <1>3 DEF Things
    <2> QED BY <2>1 DEF Things
  <1> QED BY <1>1, <1>2, <1>3

LEMMA CopiedTypes ==
    ASSUME Things, pc # "idle", TypeOK, mem.cred # None, NEW k \in Mirrored, NEW upTo
    PROVE  Copied(k, upTo) \in [Mirrored -> [Places -> Copies \cup {None}]]
  <1>1. CopyOf(k) \in Copies
    BY Held DEF CopyOf, CopyType, Copies
  <1> DEFINE c == CopyOf(k)
  <1> HIDE DEF c
  <1>2. [n \in Places |-> IF n <= upTo THEN c ELSE mirror[k][n]] \in [Places -> Copies \cup {None}]
    BY <1>1 DEF Things, c
  <1>3. Copied(k, upTo) = [mirror EXCEPT ![k] = [n \in Places |-> IF n <= upTo THEN c ELSE mirror[k][n]]]
    BY DEF Copied, c, Things
  <1> QED BY <1>2, <1>3 DEF Things

LEMMA AppliedTypes ==
    ASSUME Things, pc # "idle", TypeOK, NEW r \in Repos, NEW secret \in BOOLEAN
    PROVE  /\ Applied(r, secret) \in RepoObjs
           /\ [repo EXCEPT ![r] = Applied(r, secret)] \in [Repos -> RepoObjs \cup {None}]
           /\ Applied(r, secret) # None
           /\ r \in Customs => Applied(r, secret).label = "custom"
  <1>1. Applied(r, secret) \in RepoObjs
    <2>1. LabelOf(r) \in {"managed", "team", "custom", "foreign"}
      BY DEF LabelOf
    <2>2. repo[r] # None => repo[r].told \in Creds \cup {None}
      BY DEF Things, RepoObjs
    <2>3. mem.cred \in Creds \cup {None}
      BY Held
    <2> QED BY <2>1, <2>2, <2>3 DEF Applied, RepoObjs
  <1>2. Applied(r, secret) # None
    BY <1>1, KindsAssumption
  <1>3. r \in Customs => Applied(r, secret).label = "custom"
    BY KindsAssumption DEF Applied, LabelOf, NvRepos
  <1>4. [repo EXCEPT ![r] = Applied(r, secret)] \in [Repos -> RepoObjs \cup {None}]
    BY <1>1 DEF Things
  <1> QED BY <1>1, <1>2, <1>3, <1>4

\* What is to be applied, and which of it carries the credentials.
LEMMA ApplyTargets ==
    ASSUME TypeOK, pc # "idle", NEW k \in Built \cup Customs
    PROVE  /\ ToApply(k) \subseteq Repos /\ ToApply(k) \cap Customs \subseteq {k}
           /\ Authenticated(k) \subseteq ToApply(k)
  BY KindsAssumption DEF ToApply, Authenticated, Repos, NvRepos, Built

LEMMA CarriersOf ==
    ASSUME NEW m \in Passes, m.at = mem.at, m.cred = mem.cred, m.spec = mem.spec
    PROVE  Carriers(m) = Authenticated(mem.at)
  BY DEF Carriers, Authenticated

\* Whatever the look-ups find, what they wire is a well-known Secret.
LEMMA WiredKnown ==
    ASSUME Things, NEW e \in [Built -> Refs], FoundRefs(e), NEW r \in Wired(e),
           mem.spec.refs[r] \in Refs
    PROVE  e[r] = "known"
  <1>1. r \in Built /\ e[r] # mem.spec.refs[r]
    BY DEF Wired
  <1>2. CASE e = Wanted
    BY <1>1, <1>2, ReadTypes DEF Wanted
  <1>3. CASE e[r] \in Strays(r, mem.spec.refs[r])
    BY <1>1, <1>3 DEF Strays
  <1> QED BY <1>1, <1>2, <1>3 DEF FoundRefs

\* A copy that enters the stage that applies.
LEMMA EntersApply ==
    ASSUME TypeInv, pc # "idle", mem.at \in Built \cup Customs, Things',
           NEW m \in Passes, GoTo("apply", m), m.work = ToApply(mem.at),
           m.at = mem.at, m.cred = mem.cred, m.spec = mem.spec
    PROVE  TypeInv'
  <1>1. Aims("apply", m, repo')
    BY ApplyTargets, CarriersOf DEF TypeInv, Aims
  <1> QED BY <1>1, Goes DEF Stages

\* The start, and the wiring of references.
LEMMA StartTypes ==
    ASSUME TypeInv, BeginPass \/ Wire \/ WireFails
    PROVE  TypeInv'
  <1> TypeOK /\ Things BY TypesOfThings DEF TypeInv
  <1>1. CASE BeginPass
    <2> DEFINE m == [spec |-> spec, todo |-> GitRepos, at |-> None, cred |-> None,
                     tear |-> FALSE, changed |-> FALSE, work |-> {}, keep |-> {},
                     failed |-> FALSE]
    <2>1. m \in Passes
      BY DEF Passes, TypeOK, Mirrored
    <2>2. pc' = "wire" /\ mem' = m /\ queued' = FALSE
      BY <1>1 DEF BeginPass
    <2> HIDE DEF m
    <2>3. Things'
      BY <1>1 DEF BeginPass, Things, settings, secrets, objects, bounds
    <2> QED BY <2>1, <2>2, <2>3, KindsAssumption DEF TypeInv, TypeOK, Things, Aims, Stages
  <1>2. CASE Wire
    <2> PICK e \in [Built -> Refs] :
          /\ FoundRefs(e)
          /\ LET new == [spec EXCEPT !.refs = [r \in Built |->
                           IF r \in Wired(e) THEN e[r] ELSE @[r]]]
             IN  IF Wired(e) = {} THEN Onward("git", mem) /\ UNCHANGED settings
                 ELSE /\ spec' = new
                      /\ owners' = [o \in Owned |->
                           IF Value(new, o) # Value(spec, o) THEN {"controller"} ELSE owners[o]]
                      /\ pc' = "git" /\ mem' = [mem EXCEPT !.spec = new]
                      /\ queued' = TRUE
      BY <1>2 DEF Wire
    <2>0. /\ pc = "wire" /\ mem \in Passes
          /\ UNCHANGED <<save, source, known, broken, astray, objects, edits>>
          /\ faults' \in Nat /\ userless' \in BOOLEAN
      <3>1. pc = "wire" /\ UNCHANGED <<save, source, known, broken, astray, objects, edits>>
        BY <1>2 DEF Wire
      <3>2. faults' \in Nat
        <4>1. UNCHANGED faults \/ Fault("lookup")
          BY DEF FoundRefs
        <4> QED BY <4>1 DEF Fault, Things
      <3>3. userless' \in BOOLEAN
        BY CompletedTypes DEF FoundRefs, Things
      <3> QED BY <3>1, <3>2, <3>3, Held
    <2>1. CASE Wired(e) = {}
      <3>0. Onward("git", mem) /\ UNCHANGED settings
        BY <2>1
      <3>1. Things'
        BY <2>0, <3>0 DEF Things, settings, objects
      <3> QED BY <2>0, <3>0, <3>1, GoesOnward DEF Aims, Stages
    <2>2. CASE Wired(e) # {}
      <3> DEFINE refs == [r \in Built |-> IF r \in Wired(e) THEN e[r] ELSE spec.refs[r]]
                 new == [spec EXCEPT !.refs = [r \in Built |->
                     IF r \in Wired(e) THEN e[r] ELSE @[r]]]
      <3>1. /\ spec' = new /\ pc' = "git" /\ mem' = [mem EXCEPT !.spec = new]
            /\ owners' = [o \in Owned |->
                 IF Value(new, o) # Value(spec, o) THEN {"controller"} ELSE owners[o]]
            /\ queued' = TRUE
        BY <2>2
      <3>3. refs \in [Built -> Refs]
        BY DEF Things, Specs
      <3>4. new \in Specs
        BY <3>3 DEF Things, Specs
      <3>5. owners' \in [Owned -> SUBSET Managers]
        BY <3>1 DEF Things, Managers
      <3> HIDE DEF new
      <3>6. mem' \in Passes /\ mem' # None
        <4>1. [mem EXCEPT !.spec = new] \in Passes
          BY <2>0, <3>4, PassTypes
        <4> QED BY <3>1, <4>1, KindsAssumption
      <3>7. Things'
        BY <2>0, <3>1, <3>4, <3>5 DEF Things, objects
      <3> QED BY <3>1, <3>6, <3>7 DEF TypeInv, TypeOK, Things, Aims, Stages
    <2> QED BY <2>1, <2>2
  <1>3. CASE WireFails
    <2>1. Things'
      <3>1. userless' \in BOOLEAN
        BY <1>3, CompletedTypes DEF WireFails, Things
      <3> QED BY <1>3, <3>1 DEF WireFails, Fault, Things, settings, objects
    <2> QED BY <1>3, <2>1, Ends DEF WireFails
  <1> QED BY <1>1, <1>2, <1>3

\* Fleet's repository and the catalogs.
LEMMA GitTypes ==
    ASSUME TypeInv,
           GitPruned \/ \E g \in GitRepos :
                          ApplyGit(g) \/ GitFails(g) \/ PruneGit(g) \/ PruneGitFails(g)
    PROVE  TypeInv'
  <1> TypeOK /\ Things BY TypesOfThings DEF TypeInv
  <1> DEFINE Rest == /\ pc = "git"
                     /\ UNCHANGED <<settings, save, secrets, repo, client, edits>>
                     /\ faults' \in Nat
  <1>0. Rest
    <2>1. CASE GitPruned
      BY <2>1 DEF GitPruned, bounds, objects, Things
    <2>2. ASSUME NEW g \in GitRepos, ApplyGit(g) \/ PruneGit(g) PROVE Rest
      BY <2>2 DEF ApplyGit, PruneGit, GitTurn, bounds, Things
    <2>3. ASSUME NEW g \in GitRepos, GitFails(g) PROVE Rest
      <3>1. faults' = faults \/ faults' = faults + 1
        BY <2>3 DEF GitFails, GivesUp, Fault
      <3> QED BY <2>3, <3>1 DEF GitFails, GivesUp, GitTurn, Things
    <2>4. ASSUME NEW g \in GitRepos, PruneGitFails(g) PROVE Rest
      BY <2>4 DEF PruneGitFails, Fault, Things
    <2> QED BY <2>1, <2>2, <2>3, <2>4
  <1>1. mem \in Passes /\ Built \subseteq Mirrored
    BY <1>0, Held DEF Mirrored
  <1>2. [mem EXCEPT !.todo = Built] \in Passes
    BY <1>1, PassTypes
  <1>3. \A g \in GitRepos : [mem EXCEPT !.todo = @ \ {g}] \in Passes
    BY <1>1, PassTypes DEF Mirrored
  <1>4. ASSUME Things', \/ GoTo("git", mem) \/ ToRegistries \/ EndPass(TRUE)
                        \/ \E g \in GitRepos : GitDone(g)
        PROVE  TypeInv'
    <2>1. \A m : Aims("git", m, repo') /\ Aims("next", m, repo')
      BY DEF Aims
    <2>2. CASE GoTo("git", mem)
      BY <1>1, <1>4, <2>1, <2>2, Goes DEF Stages
    <2>3. CASE ToRegistries
      BY <1>2, <1>4, <2>1, <2>3, Goes DEF Stages, ToRegistries
    <2>4. CASE \E g \in GitRepos : GitDone(g)
      BY <1>3, <1>4, <2>1, <2>4, Goes DEF Stages, GitDone
    <2> QED BY <1>4, <2>2, <2>3, <2>4, Ends
  <1>5. ASSUME mirror' \in [Mirrored -> [Places -> Copies \cup {None}]],
               git' \in [GitRepos -> BOOLEAN]
        PROVE  Things'
    BY <1>0, <1>5 DEF Things, settings, secrets
  <1>6. ASSUME NEW g \in GitRepos
        PROVE  GitCopied(g) \in [Mirrored -> [Places -> Copies \cup {None}]]
    <2>1. CASE GitMode(g) = "basic" /\ source[g] # None
      <3>1. source[g] \in Creds
        BY <1>6, <2>1 DEF Things, Keyed, Mirrored
      <3> DEFINE c == [type |-> "basic", cred |-> source[g]]
      <3>2. c \in Copies
        BY <3>1 DEF Copies
      <3>3. GitCopied(g) = [mirror EXCEPT ![g][2] = c]
        BY <2>1 DEF GitCopied
      <3>4. g \in Mirrored /\ 2 \in Places
        BY DEF Mirrored, Places
      <3> HIDE DEF c
      <3> QED BY <3>2, <3>3, <3>4, MirrorTypes
    <2> QED BY <2>1 DEF GitCopied, Things
  <1>7. ASSUME NEW g \in GitRepos, ApplyGit(g) PROVE TypeInv'
    <2>1. git' \in [GitRepos -> BOOLEAN]
      BY <1>7 DEF ApplyGit, Things
    <2>2. mirror' \in [Mirrored -> [Places -> Copies \cup {None}]]
      <3>1. mirror' = GitCopied(g) \/ mirror' = mirror
        BY <1>7 DEF ApplyGit
      <3> QED BY <1>6, <3>1 DEF Things
    <2>3. GitDone(g)
      BY <1>7 DEF ApplyGit
    <2> QED BY <1>4, <1>5, <2>1, <2>2, <2>3
  <1>8. ASSUME NEW g \in GitRepos, GitFails(g) PROVE TypeInv'
    <2>1. mirror' \in [Mirrored -> [Places -> Copies \cup {None}]]
      <3>1. mirror' = GitCopied(g) \/ mirror' = mirror
        BY <1>8 DEF GitFails
      <3> QED BY <1>6, <3>1 DEF Things
    <2>2. git' = git /\ (EndPass(TRUE) \/ GitDone(g))
      BY <1>8 DEF GitFails, GivesUp
    <2> QED BY <1>4, <1>5, <2>1, <2>2 DEF Things
  <1>9. ASSUME NEW g \in GitRepos, PruneGit(g) \/ PruneGitFails(g) PROVE TypeInv'
    <2>1. git' \in [GitRepos -> BOOLEAN] /\ (GoTo("git", mem) \/ ToRegistries)
      BY <1>9 DEF PruneGit, PruneGitFails, Things
    <2>2. mirror' \in [Mirrored -> [Places -> Copies \cup {None}]]
      BY <1>9, MirrorTypes DEF PruneGit, PruneGitFails, Things
    <2> QED BY <1>4, <1>5, <2>1, <2>2
  <1>10. CASE GitPruned
    BY <1>4, <1>5, <1>10 DEF GitPruned, Things, objects
  <1> QED BY <1>7, <1>8, <1>9, <1>10

\* A registry's turn.
LEMMA TurnTypes ==
    ASSUME TypeInv, NEW r \in Built, TearDown(r) \/ SetUp(r) \/ TurnFails(r)
    PROVE  TypeInv'
  <1> TypeOK /\ Things BY TypesOfThings DEF TypeInv
  <1>0. /\ pc = "next" /\ r \in Mirrored /\ r \in Repos \cup {Nvidia}
        /\ UNCHANGED <<settings, save, source, known, broken, mirror, git, client, edits>>
    BY DEF TearDown, SetUp, TurnFails, LookedUp, Turn, Mirrored, Repos, Built
  <1>1. /\ mem \in Passes /\ mem.spec.refs[r] \in Refs
        /\ \A e \in Refs : Obtained(r, e) \in Creds \cup {None}
    <2>1. mem \in Passes /\ mem.spec.refs[r] \in Refs
      BY <1>0, Held DEF Specs
    <2> QED BY <2>1, ReadTypes DEF Obtained
  <1>2. OrgApplied(r) \in [Repos -> RepoObjs \cup {None}]
    BY <1>0, AppliedTypes DEF OrgApplied, Things, Repos, NvRepos
  <1>3. CASE TurnFails(r)
    <2>1. userless' \in BOOLEAN /\ faults' \in Nat
      <3>1. userless' \in BOOLEAN
        BY <1>3, CompletedTypes DEF TurnFails, Things
      <3> QED BY <1>3, <3>1 DEF TurnFails, Fault, Things
    <2>2. repo' \in [Repos -> RepoObjs \cup {None}] /\ UNCHANGED astray /\ Fails(r)
      BY <1>2, <1>3 DEF TurnFails, Things
    <2>3. Things'
      BY <1>0, <2>1, <2>2 DEF Things, settings
    <2> QED BY <1>0, <2>2, <2>3, TurnEnds
  <1> DEFINE work == IF r = Nvidia THEN NvRepos ELSE {r}
             m(cred, tear, w) == [mem EXCEPT !.at = r, !.cred = cred, !.tear = tear, !.work = w,
                                             !.changed = FALSE]
  <1>4. \A cred \in Creds \cup {None}, tear \in BOOLEAN, w \in SUBSET Repos :
          /\ m(cred, tear, w) \in Passes /\ m(cred, tear, w).at = r
          /\ m(cred, tear, w).cred = cred /\ m(cred, tear, w).work = w
    <2> TAKE cred \in Creds \cup {None}, tear \in BOOLEAN, w \in SUBSET Repos
    <2>2. m(cred, tear, w) \in Passes
      BY <1>0, <1>1, PassTypes
    <2>3. m(cred, tear, w).at = r /\ m(cred, tear, w).cred = cred /\ m(cred, tear, w).work = w
      BY <1>1, Fields
    <2> QED BY <2>2, <2>3
  <1>8. ASSUME NEW e \in Refs, LooksUp(r, e)
        PROVE  userless' \in BOOLEAN /\ astray' \subseteq Built /\ faults' \in Nat
    <2>1. userless' \in BOOLEAN
      BY <1>8, CompletedTypes DEF LooksUp, Things
    <2>2. /\ astray' = astray \ {r} \/ astray' = astray \cup {r}
          /\ UNCHANGED faults \/ Fault("lookup")
      BY <1>8 DEF LooksUp
    <2>3. astray' \subseteq Built /\ faults' \in Nat
      BY <2>2 DEF Fault, Things
    <2> QED BY <2>1, <2>3
  <1>5. work \subseteq Repos \ Customs
    BY <1>0, KindsAssumption DEF Repos, NvRepos, Built
  <1>6. CASE TearDown(r)
    <2>0. PICK e \in Refs : LooksUp(r, e) /\ Onward("drop", m(Obtained(r, e), TRUE, work))
      BY <1>6 DEF TearDown, Holding
    <2>1. repo' = repo /\ Obtained(r, e) \in Creds \cup {None}
      BY <1>1, <1>6 DEF TearDown
    <2> DEFINE n == m(Obtained(r, e), TRUE, work)
    <2>2. Things'
      BY <1>0, <1>8, <2>0, <2>1 DEF Things, settings
    <2> HIDE DEF m, work
    <2>3. n \in Passes /\ n.at = r /\ n.work = work
      <3>1. work \in SUBSET Repos /\ TRUE \in BOOLEAN
        BY <1>5
      <3> QED BY <1>4, <2>1, <3>1
    <2>4. Aims("drop", n, repo')
      BY <1>5, <2>3 DEF Aims
    <2> HIDE DEF n
    <2>5. Onward("drop", n)
      BY <2>0 DEF n
    <2> QED BY <2>2, <2>3, <2>4, <2>5, GoesOnward DEF Stages
  <1>7. CASE SetUp(r)
    <2>0. PICK e \in Refs :
            /\ LooksUp(r, e)
            /\ Onward(IF Obtained(r, e) = None THEN "unmirror" ELSE "mirror",
                      m(Obtained(r, e), FALSE, {}))
      BY <1>7 DEF SetUp, Holding
    <2>1. repo' = OrgApplied(r) /\ Obtained(r, e) \in Creds \cup {None}
      BY <1>1, <1>7 DEF SetUp
    <2> DEFINE n == m(Obtained(r, e), FALSE, {})
               stage == IF Obtained(r, e) = None THEN "unmirror" ELSE "mirror"
    <2>2. Things'
      BY <1>0, <1>2, <1>8, <2>0, <2>1 DEF Things, settings
    <2> HIDE DEF m, work
    <2>3. n \in Passes /\ n.at = r /\ n.cred = Obtained(r, e)
      <3> DEFINE none == {}
      <3>1. FALSE \in BOOLEAN /\ none \in SUBSET Repos
        OBVIOUS
      <3>2. n = m(Obtained(r, e), FALSE, none)
        OBVIOUS
      <3> HIDE DEF n, none
      <3> QED BY <1>4, <2>1, <3>1, <3>2
    <2>4. Aims(stage, n, repo')
      BY <2>3 DEF Aims
    <2>5. Onward(stage, n)
      BY <2>0
    <2>6. stage \in Stages \ {"idle"}
      BY DEF Stages
    <2> HIDE DEF n, stage
    <2> QED BY <2>2, <2>3, <2>4, <2>5, <2>6, GoesOnward
  <1> QED BY <1>3, <1>6, <1>7

\* The copies of the credentials.
LEMMA MirrorStepTypes ==
    ASSUME TypeInv, WriteMirror \/ MirrorFails \/ Unmirror \/ DropFails
    PROVE  TypeInv'
  <1> TypeOK /\ Things BY TypesOfThings DEF TypeInv
  <1>0. /\ pc \in {"mirror", "unmirror", "drop"} /\ mem \in Passes
        /\ mem.at \in Built \cup Customs /\ mem.at \in Mirrored
        /\ pc \in {"unmirror", "drop"} => mem.at \in Built
        /\ pc = "mirror" => mem.cred # None
        /\ UNCHANGED <<settings, save, secrets, repo, git, client, edits>>
    BY Held DEF WriteMirror, MirrorFails, Unmirror, DropFails, TypeInv, Aims, bounds, Mirrored
  <1>1. ASSUME mirror' \in [Mirrored -> [Places -> Copies \cup {None}]], faults' \in Nat
        PROVE  Things'
    BY <1>0, <1>1 DEF Things, settings, secrets
  <1>2. ToApply(mem.at) \subseteq Repos
    BY <1>0, ApplyTargets
  <1>3. CASE WriteMirror
    <2> DEFINE changed == mirror[mem.at][1] # CopyOf(mem.at)
               m == [mem EXCEPT !.changed = changed, !.work = ToApply(mem.at)]
    <2>1. /\ pc = "mirror" /\ mirror' = Copied(mem.at, 2) /\ GoTo("apply", m) /\ UNCHANGED faults
      BY <1>3 DEF WriteMirror, bounds
    <2>2. Things'
      BY <1>0, <1>1, <2>1, CopiedTypes DEF Things
    <2>3. changed \in BOOLEAN
      OBVIOUS
    <2> HIDE DEF changed
    <2>4. /\ m \in Passes /\ m.work = ToApply(mem.at) /\ m.at = mem.at /\ m.cred = mem.cred
          /\ m.spec = mem.spec
      <3>1. m \in Passes
        BY <1>0, <1>2, <2>3, PassTypes
      <3>2. /\ m.work = ToApply(mem.at) /\ m.at = mem.at /\ m.cred = mem.cred
            /\ m.spec = mem.spec
        BY <1>0, Fields
      <3> QED BY <3>1, <3>2
    <2> HIDE DEF m
    <2> QED BY <1>0, <2>1, <2>2, <2>4, EntersApply
  <1>4. CASE MirrorFails
    <2>1. /\ mirror' = mirror \/ \E upTo \in 0 .. 1 : mirror' = Copied(mem.at, upTo)
          /\ UNCHANGED faults \/ Fault("mirror")
      BY <1>4 DEF MirrorFails
    <2>2. pc = "mirror" /\ Fails(mem.at)
      BY <1>4 DEF MirrorFails
    <2>3. faults' \in Nat
      BY <2>1 DEF Fault, Things
    <2>5. mirror' \in [Mirrored -> [Places -> Copies \cup {None}]]
      BY <1>0, <2>1, <2>2, CopiedTypes DEF Things
    <2>4. Things'
      BY <1>1, <2>3, <2>5
    <2> QED BY <1>0, <2>2, <2>4, TurnEnds
  <1>5. CASE Unmirror
    <2>1. pc = "unmirror" /\ mirror' = [mirror EXCEPT ![mem.at] = NoCopy] /\ UNCHANGED faults
      BY <1>5 DEF Unmirror, bounds
    <2>2. Things'
      BY <1>1, <2>1, MirrorTypes DEF Things
    <2>3. CASE Done(mem.at)
      BY <1>0, <2>2, <2>3, TurnEnds
    <2>4. CASE ~Done(mem.at)
      <3> DEFINE m == [mem EXCEPT !.work = ToApply(mem.at)]
      <3>1. GoTo("apply", m)
        BY <1>5, <2>4 DEF Unmirror
      <3>2. /\ m \in Passes /\ m.work = ToApply(mem.at) /\ m.at = mem.at /\ m.cred = mem.cred
            /\ m.spec = mem.spec
        BY <1>0, <1>2, PassTypes, Fields
      <3> HIDE DEF m
      <3> QED BY <1>0, <2>2, <3>1, <3>2, EntersApply
    <2> QED BY <2>3, <2>4
  <1>6. CASE DropFails
    <2>1. mirror' \in [Mirrored -> [Places -> Copies \cup {None}]]
      BY <1>6, MirrorTypes DEF DropFails, Things
    <2>2. Things'
      BY <1>1, <1>6, <2>1 DEF DropFails, Fault, Things
    <2> QED BY <1>0, <1>6, <2>2, TurnEnds DEF DropFails
  <1> QED BY <1>3, <1>4, <1>5, <1>6

\* The repositories of one turn.
LEMMA RepoStepTypes ==
    ASSUME TypeInv,
           \/ ApplyFails \/ ForceFails \/ Forced
           \/ \E r \in Repos : ApplyRepo(r) \/ ForceUpdate(r) \/ DropRepo(r)
    PROVE  TypeInv'
  <1> TypeOK /\ Things BY TypesOfThings DEF TypeInv
  <1>0. /\ pc \in {"apply", "force", "drop"} /\ mem \in Passes
        /\ mem.at \in Built \cup Customs /\ mem.at \in Mirrored /\ mem.work \subseteq Repos
        /\ pc = "drop" => mem.at \in Built
        /\ UNCHANGED <<settings, save, secrets, mirror, git, client, edits>>
    BY Held DEF ApplyFails, ForceFails, Forced, ApplyRepo, ForceUpdate, DropRepo, TypeInv, Aims,
                objects, bounds, Mirrored
  <1>1. ASSUME repo' \in [Repos -> RepoObjs \cup {None}], faults' \in Nat PROVE Things'
    BY <1>0, <1>1 DEF Things, settings, secrets
  <1>2. CASE ApplyFails \/ ForceFails
    <2>1. Things'
      BY <1>1, <1>2 DEF ApplyFails, ForceFails, Fault, objects, Things
    <2> QED BY <1>0, <1>2, <2>1, TurnEnds DEF ApplyFails, ForceFails
  <1>3. CASE Forced
    <2>1. Things'
      BY <1>1, <1>3 DEF Forced, bounds, Things
    <2> QED BY <1>0, <1>3, <2>1, TurnEnds DEF Forced
  <1>4. ASSUME NEW r \in Repos, ApplyRepo(r) PROVE TypeInv'
    <2> DEFINE secret == r \in Authenticated(mem.at)
               left   == mem.work \ {r}
               force  == IF mem.changed THEN Authenticated(mem.at) ELSE {}
               m(w)   == [mem EXCEPT !.work = w]
    <2>1. /\ pc = "apply" /\ repo' = [repo EXCEPT ![r] = Applied(r, secret)] /\ UNCHANGED faults
          /\ IF left # {} THEN GoTo("apply", m(left)) ELSE GoTo("force", m(force))
      BY <1>4 DEF ApplyRepo, bounds
    <2>2. secret \in BOOLEAN
      OBVIOUS
    <2> HIDE DEF secret
    <2>3. Things' /\ repo'[r] # None /\ \A x \in Repos : x # r => repo'[x] = repo[x]
      BY <1>0, <1>1, <2>1, <2>2, AppliedTypes DEF Things
    <2>4. Authenticated(mem.at) \subseteq Repos
      BY <1>0, ApplyTargets
    <2>5. \A w \in SUBSET Repos :
            /\ m(w) \in Passes /\ m(w).work = w /\ m(w).at = mem.at
            /\ Carriers(m(w)) = Authenticated(mem.at)
      <3>1. \A w \in SUBSET Repos :
              /\ m(w) \in Passes /\ m(w).work = w /\ m(w).at = mem.at
              /\ m(w).cred = mem.cred /\ m(w).spec = mem.spec
        BY <1>0, PassTypes, Fields
      <3> HIDE DEF m
      <3> QED BY <3>1, CarriersOf
    <2>6. \A x \in Authenticated(mem.at) : x \in left \/ repo'[x] # None
      <3>1. Carriers(mem) = Authenticated(mem.at)
        BY <1>0, CarriersOf
      <3> QED BY <1>0, <2>1, <2>3, <2>4, <3>1, Held DEF TypeInv, Aims
    <2>7. mem.work \cap Customs \subseteq {mem.at}
      BY <2>1, <1>0, Held DEF TypeInv, Aims
    <2> HIDE DEF m
    <2>8. CASE left # {}
      <3>1. Aims("apply", m(left), repo')
        BY <1>0, <2>5, <2>6, <2>7 DEF Aims
      <3> QED BY <1>0, <2>1, <2>3, <2>5, <2>8, <3>1, Goes DEF Stages
    <2>9. CASE left = {}
      <3>1. Aims("force", m(force), repo')
        BY <1>0, <2>4, <2>5, <2>6, <2>9 DEF Aims
      <3> QED BY <1>0, <2>1, <2>3, <2>4, <2>5, <2>9, <3>1, Goes DEF Stages
    <2> QED BY <2>8, <2>9
  <1>5. ASSUME NEW r \in Repos, ForceUpdate(r) PROVE TypeInv'
    <2> DEFINE m == [mem EXCEPT !.work = @ \ {r}]
               o == [repo[r] EXCEPT !.told = mem.cred]
    <2>1. /\ pc = "force" /\ r \in mem.work /\ repo' = [repo EXCEPT ![r] = o]
          /\ GoTo("force", m) /\ UNCHANGED faults
      BY <1>5 DEF ForceUpdate, bounds
    <2>2. \A x \in mem.work : repo[x] # None
      BY <1>0, <2>1, Held DEF TypeInv, Aims
    <2>3. o \in RepoObjs
      BY <1>0, <2>1, <2>2, Held DEF RepoObjs, Things
    <2>4. o # None
      BY <2>3, KindsAssumption
    <2> HIDE DEF o
    <2>5. Things' /\ \A x \in mem.work : repo'[x] # None
      BY <1>0, <1>1, <2>1, <2>2, <2>3, <2>4 DEF Things
    <2>6. m \in Passes /\ m.work \subseteq mem.work /\ m.at = mem.at
      <3>1. m \in Passes
        BY <1>0, PassTypes
      <3>2. m.work = mem.work \ {r} /\ m.at = mem.at
        BY <1>0, Fields
      <3> QED BY <3>1, <3>2
    <2> HIDE DEF m
    <2> QED BY <1>0, <2>1, <2>5, <2>6, Goes DEF Aims, Stages
  <1>6. ASSUME NEW r \in Repos, DropRepo(r) PROVE TypeInv'
    <2> DEFINE left == mem.work \ {r}
               m    == [mem EXCEPT !.work = left]
    <2>1. /\ pc = "drop" /\ repo' = [repo EXCEPT ![r] = None] /\ UNCHANGED faults
          /\ GoTo(IF left = {} THEN "unmirror" ELSE "drop", m)
      BY <1>6 DEF DropRepo, bounds
    <2>2. Things'
      BY <1>1, <2>1 DEF Things
    <2>3. m \in Passes /\ m.work = left /\ m.at = mem.at
      BY <1>0, PassTypes, Fields
    <2>4. left \subseteq Repos \ Customs
      BY <1>0, <2>1, Held DEF TypeInv, Aims
    <2> HIDE DEF m, left
    <2>5. Aims(IF left = {} THEN "unmirror" ELSE "drop", m, repo')
      BY <1>0, <2>1, <2>3, <2>4 DEF Aims
    <2> QED BY <2>1, <2>2, <2>3, <2>5, Goes DEF Stages
  <1> QED BY <1>2, <1>3, <1>4, <1>5, <1>6

\* Custom repositories.
LEMMA CustomTypes ==
    ASSUME TypeInv,
           \/ ToCustoms \/ Retype \/ RetypeFails
           \/ \E c \in Customs : SkipCustom(c) \/ StartCustom(c) \/ CustomFails(c)
    PROVE  TypeInv'
  <1> TypeOK /\ Things BY TypesOfThings DEF TypeInv
  <1>0. /\ pc \in {"next", "retype"} /\ mem \in Passes
        /\ pc = "retype" => mem.at \in Customs
        /\ UNCHANGED <<settings, save, secrets, repo, git, client, edits>>
    BY Held DEF ToCustoms, Retype, RetypeFails, SkipCustom, StartCustom, CustomFails, CustomTurn,
                TypeInv, Aims, objects, bounds
  <1>1. ASSUME mirror' \in [Mirrored -> [Places -> Copies \cup {None}]], faults' \in Nat
        PROVE  Things'
    BY <1>0, <1>1 DEF Things, settings, secrets
  <1>2. Customs \subseteq Mirrored /\ Customs \subseteq Repos
    BY DEF Mirrored, Repos
  <1>3. CASE ToCustoms
    <2> DEFINE t == {c \in Customs : CustomMode(c) # "absent"}
               m == [mem EXCEPT !.at = None, !.todo = t]
    <2>1. GoTo("next", m) /\ UNCHANGED <<mirror, faults>>
      BY <1>3 DEF ToCustoms, objects, bounds
    <2>2. m \in Passes
      BY <1>0, <1>2, PassTypes
    <2>3. Aims("next", m, repo')
      BY DEF Aims
    <2> QED BY <1>1, <2>1, <2>2, <2>3, Goes DEF Things, Stages
  <1>4. ASSUME NEW c \in Customs, SkipCustom(c) PROVE TypeInv'
    <2>1. UNCHANGED <<mirror, faults>>
      BY <1>4 DEF SkipCustom, objects, bounds
    <2>2. CASE Done(c)
      BY <1>0, <1>1, <1>2, <2>1, <2>2, TurnEnds DEF Things
    <2>3. CASE GoTo("next", [mem EXCEPT !.todo = @ \ {c}, !.failed = TRUE])
      <3>1. [mem EXCEPT !.todo = @ \ {c}, !.failed = TRUE] \in Passes
        BY <1>0, <1>2, PassTypes
      <3>2. \A m : Aims("next", m, repo')
        BY DEF Aims
      <3> QED BY <1>1, <2>1, <2>3, <3>1, <3>2, Goes DEF Things, Stages
    <2> QED BY <1>4, <2>2, <2>3 DEF SkipCustom
  <1>5. ASSUME NEW c \in Customs, StartCustom(c) PROVE TypeInv'
    <2> DEFINE cred == IF CustomMode(c) = "anonymous" THEN None ELSE source[c]
               m == [mem EXCEPT !.at = c, !.cred = cred, !.tear = FALSE, !.work = {},
                                !.changed = FALSE]
    <2>1. GoTo("retype", m) /\ UNCHANGED <<mirror, faults>>
      BY <1>5 DEF StartCustom, Holding, objects, bounds
    <2>2. cred \in Creds \cup {None}
      BY <1>2 DEF Things, Keyed
    <2> HIDE DEF cred
    <2>3. m \in Passes
      BY <1>0, <1>2, <2>2, PassTypes
    <2>4. m.at = c
      BY <1>0, Fields
    <2> HIDE DEF m
    <2>5. Aims("retype", m, repo')
      BY <2>4 DEF Aims
    <2> QED BY <1>1, <2>1, <2>3, <2>5, Goes DEF Things, Stages
  <1>6. ASSUME NEW c \in Customs, CustomFails(c) PROVE TypeInv'
    <2>1. Things'
      BY <1>1, <1>6 DEF CustomFails, Fault, Things, objects
    <2> QED BY <1>0, <1>2, <1>6, <2>1, TurnEnds DEF CustomFails
  <1>7. CASE Retype
    <2>1. /\ pc = "retype" /\ mem.at \in Customs /\ mem.at \in Mirrored
          /\ UNCHANGED faults
      BY <1>0, <1>2, <1>7 DEF Retype, bounds
    <2>2. Things'
      BY <1>1, <1>7, <2>1, MirrorTypes DEF Retype, Things
    <2>3. CASE Fails(mem.at)
      BY <2>1, <2>2, <2>3, TurnEnds
    <2>4. CASE GoTo("mirror", mem) /\ mem.cred # None
      <3>1. Aims("mirror", mem, repo')
        BY <2>1, <2>4 DEF Aims
      <3> QED BY <1>0, <2>2, <2>4, <3>1, Goes DEF Stages
    <2>5. CASE GoTo("apply", [mem EXCEPT !.work = {mem.at}])
      <3> DEFINE m == [mem EXCEPT !.work = {mem.at}]
      <3>1. {mem.at} \subseteq Repos /\ ToApply(mem.at) = {mem.at}
        BY <1>2, <2>1, KindsAssumption DEF ToApply, Built
      <3>2. m \in Passes
        BY <1>0, <3>1, PassTypes
      <3>3. m.work = ToApply(mem.at) /\ m.at = mem.at /\ m.cred = mem.cred /\ m.spec = mem.spec
        BY <1>0, <3>1, Fields
      <3>4. GoTo("apply", m)
        BY <2>5
      <3> HIDE DEF m
      <3> QED BY <2>1, <2>2, <3>2, <3>3, <3>4, EntersApply
    <2> QED BY <1>7, <2>3, <2>4, <2>5 DEF Retype
  <1>8. CASE RetypeFails
    <2>1. mirror' \in [Mirrored -> [Places -> Copies \cup {None}]]
      BY <1>8, MirrorTypes DEF RetypeFails
    <2>2. Things'
      BY <1>1, <1>8, <2>1 DEF RetypeFails, Fault, Things
    <2>3. pc = "retype" /\ Fails(mem.at) /\ mem.at \in Mirrored
      BY <1>0, <1>2, <1>8 DEF RetypeFails
    <2> QED BY <2>2, <2>3, TurnEnds
  <1> QED BY <1>3, <1>4, <1>5, <1>6, <1>7, <1>8

\* What is left over, and the status.
LEMMA LastTypes ==
    ASSUME TypeInv,
           \/ ToPrune \/ UnmirrorPruned \/ PruneFails \/ Pruned \/ Status \/ StatusFails
           \/ \E c \in Customs : PruneRepo(c)
    PROVE  TypeInv'
  <1> TypeOK /\ Things BY TypesOfThings DEF TypeInv
  <1>0. /\ pc \in {"next", "prune", "unmirrorPruned", "status"} /\ mem \in Passes
        /\ UNCHANGED <<settings, save, secrets, git, edits>>
    BY Held DEF ToPrune, UnmirrorPruned, PruneFails, Pruned, Status, StatusFails, PruneRepo,
                objects, bounds
  <1>1. ASSUME mirror' \in [Mirrored -> [Places -> Copies \cup {None}]], faults' \in Nat,
               repo' \in [Repos -> RepoObjs \cup {None}], client' \in Creds \cup {None}
        PROVE  Things'
    BY <1>0, <1>1 DEF Things, settings, secrets
  <1>2. \A m : Aims("prune", m, repo') /\ Aims("status", m, repo')
    BY DEF Aims
  <1>3. CASE ToPrune \/ Pruned
    <2>1. Things' /\ (GoTo("prune", mem) \/ GoTo("status", mem))
      BY <1>1, <1>3 DEF ToPrune, Pruned, Things, objects, bounds
    <2> QED BY <1>0, <1>2, <2>1, Goes DEF Stages
  <1>4. CASE UnmirrorPruned
    <2>1. Things' /\ GoTo("prune", mem)
      BY <1>1, <1>4, MirrorTypes DEF UnmirrorPruned, Things, bounds
    <2> QED BY <1>0, <1>2, <2>1, Goes DEF Stages
  <1>5. CASE PruneFails
    <2>1. mirror' \in [Mirrored -> [Places -> Copies \cup {None}]]
      BY <1>5, MirrorTypes DEF PruneFails, Things
    <2>2. Things' /\ GoTo("status", [mem EXCEPT !.failed = TRUE])
      BY <1>1, <1>5, <2>1 DEF PruneFails, Fault, Things
    <2>3. [mem EXCEPT !.failed = TRUE] \in Passes
      BY <1>0, PassTypes
    <2> QED BY <1>2, <2>2, <2>3, Goes DEF Stages
  <1>6. ASSUME NEW c \in Customs, PruneRepo(c) PROVE TypeInv'
    <2> DEFINE m == [mem EXCEPT !.at = c]
    <2>1. Things' /\ GoTo("unmirrorPruned", m)
      BY <1>1, <1>6 DEF PruneRepo, Things, bounds
    <2>2. m \in Passes
      BY <1>0, PassTypes DEF Mirrored
    <2>3. m.at = c
      BY <1>0 DEF Passes
    <2> HIDE DEF m
    <2>4. Aims("unmirrorPruned", m, repo')
      BY <2>3 DEF Aims
    <2> QED BY <2>1, <2>2, <2>4, Goes DEF Stages
  <1>7. CASE Status \/ StatusFails
    <2>1. client' \in Creds \cup {None} /\ faults' \in Nat
      <3>1. faults' \in {faults, faults + 1} /\ client' \in {source[Token], None}
        BY <1>7 DEF Status, StatusFails, Fault
      <3>2. source[Token] \in Creds \cup {None}
        BY DEF Things, Keyed
      <3> QED BY <3>1, <3>2 DEF Things
    <2>2. Things'
      BY <1>1, <1>7, <2>1 DEF Status, StatusFails, Things
    <2>3. \E e \in BOOLEAN : EndPass(e)
      <3>1. mem.failed \in BOOLEAN
        BY <1>0, Held
      <3>2. CASE StatusFails
        BY <3>2 DEF StatusFails
      <3>3. CASE Status
        <4>1. PICK stamped \in BOOLEAN : EndPass(mem.failed \/ stamped)
          BY <3>3 DEF Status
        <4>2. (mem.failed \/ stamped) \in BOOLEAN
          BY <3>1, <4>1
        <4> QED BY <4>1, <4>2
      <3> QED BY <1>7, <3>2, <3>3
    <2> QED BY <2>2, <2>3, Ends
  <1> QED BY <1>3, <1>4, <1>5, <1>6, <1>7

\* Saving.
LEMMA SaveTypes ==
    ASSUME TypeInv, Save
    PROVE  TypeInv'
  <1> TypeOK /\ Things BY TypesOfThings DEF TypeInv
  <1>0. /\ UNCHANGED <<secrets, objects, pc, mem>> /\ queued' \in BOOLEAN
        /\ edits' \in Nat /\ faults' \in Nat
    <2> DEFINE Rest == /\ UNCHANGED <<secrets, objects, pc, mem>> /\ queued' \in BOOLEAN
                       /\ edits' \in Nat /\ faults' \in Nat
    <2>1. ASSUME NEW req \in Requests, SaveBegin(req) PROVE Rest
      BY <2>1 DEF SaveBegin, Edit, TypeOK
    <2>2. CASE SaveClear \/ SaveApply
      BY <2>2 DEF SaveClear, SaveApply, bounds, TypeOK
    <2>3. CASE SaveFails
      BY <2>3 DEF SaveFails, Fault, TypeOK
    <2> QED BY <2>1, <2>2, <2>3 DEF Save
  <1>1. ASSUME spec' \in Specs, owners' \in [Owned -> SUBSET Managers], save' \in Saves \cup {None}
        PROVE  TypeInv'
    <2>1. Things'
      BY <1>0, <1>1 DEF Things, secrets, objects
    <2> QED BY <1>0, <2>1, Outside DEF objects
  <1>2. ASSUME NEW req \in Requests, SaveBegin(req) PROVE TypeInv'
    <2>1. req \in Specs
      BY KindsAssumption
    <2>2. Undeclared(req) \in Specs /\ Omitted(req) \in SUBSET Built
      BY <2>1 DEF Undeclared, Omitted, Specs, Modes
    <2>3. save' \in Saves
      BY <1>2, <2>2 DEF SaveBegin, Saves
    <2> QED BY <1>1, <1>2, <2>3 DEF SaveBegin, settings, Things
  <1>3. CASE SaveClear
    <2>1. save \in Saves /\ [save EXCEPT !.clear = {}] \in Saves
      BY <1>3 DEF SaveClear, Saves, Things
    <2>2. spec' \in Specs
      <3> DEFINE refs == [r \in Built |-> IF r \in save.clear THEN "none" ELSE spec.refs[r]]
      <3>1. refs \in [Built -> Refs]
        BY DEF Things, Specs, Refs
      <3>2. spec' = [spec EXCEPT !.refs = refs]
        BY <1>3 DEF SaveClear
      <3> HIDE DEF refs
      <3> QED BY <3>1, <3>2 DEF Things, Specs
    <2>3. owners' \in [Owned -> SUBSET Managers]
      BY <1>3 DEF SaveClear, Things
    <2> QED BY <1>1, <1>3, <2>1, <2>2, <2>3 DEF SaveClear
  <1>4. CASE SaveApply
    <2>1. save \in Saves /\ save.spec \in Specs
      BY <1>4 DEF SaveApply, Saves, Things
    <2>2. \A r \in Built : After(r) \in Refs
      BY <2>1 DEF After, Left, Value, Unset, Things, Specs, Refs
    <2>3. \A g \in GitRepos : After(g) \in Modes
      BY <2>1, KindsAssumption DEF After, Left, Value, Unset, Things, Specs, Modes, Built
    <2>4. spec' \in Specs
      <3> DEFINE refs == [r \in Built |-> After(r)]
                 gits == [g \in GitRepos |-> After(g)]
      <3>1. refs \in [Built -> Refs] /\ gits \in [GitRepos -> Modes]
        BY <2>2, <2>3
      <3>2. spec' = [save.spec EXCEPT !.refs = refs, !.git = gits]
        BY <1>4 DEF SaveApply
      <3> HIDE DEF refs, gits
      <3> QED BY <2>1, <3>1, <3>2 DEF Specs
    <2>5. owners' \in [Owned -> SUBSET Managers]
      BY <1>4 DEF SaveApply, Things, Managers
    <2> QED BY <1>1, <1>4, <2>4, <2>5 DEF SaveApply
  <1>5. CASE SaveFails
    BY <1>1, <1>5 DEF SaveFails, Things, settings
  <1> QED BY <1>2, <1>3, <1>4, <1>5 DEF Save

\* Rotations, edits by hand, other people's repositories, Helm, restarts.
LEMMA OthersTypes ==
    ASSUME TypeInv, Others \/ Restart
    PROVE  TypeInv'
  <1> TypeOK /\ Things BY TypesOfThings DEF TypeInv
  <1>1. ASSUME NEW k \in Keyed, NEW new \in Creds \cup {None}, Rotate(k, new) PROVE TypeInv'
    <2>1. Things'
      BY <1>1 DEF Rotate, Edit, Things, settings, objects
    <2>2. queued' \in BOOLEAN
      BY <1>1 DEF Rotate
    <2> QED BY <1>1, <2>1, <2>2, Outside DEF Rotate, objects
  <1>2. ASSUME NEW r \in Built, NEW new \in Creds \cup {None}, RotateKnown(r, new) PROVE TypeInv'
    <2>0. userless' \in BOOLEAN
      BY <1>2 DEF RotateKnown, Things
    <2>1. Things'
      BY <1>2, <2>0 DEF RotateKnown, Edit, Things, settings, objects
    <2> QED BY <1>2, <2>1, Outside DEF RotateKnown, objects
  <1>7. CASE Discover
    <2>1. Things'
      BY <1>7 DEF Discover, Things, settings, objects, bounds
    <2> QED BY <1>7, <2>1, Outside DEF Discover, objects
  <1>8. ASSUME NEW o \in Owned, RotateCA(o) PROVE TypeInv'
    <2>1. Things'
      BY <1>8 DEF RotateCA, Edit, Things, settings, objects
    <2> QED BY <1>8, <2>1, Outside DEF RotateCA, objects
  <1>3. ASSUME NEW c \in Customs, HandEdit(c) PROVE TypeInv'
    <2>1. spec' = [spec EXCEPT !.custom[c] = "invalid"]
      BY <1>3 DEF HandEdit
    <2>2. [spec.custom EXCEPT ![c] = "invalid"] \in [Customs -> Modes]
      BY DEF Things, Specs, Modes
    <2>3. spec' \in Specs
      BY <2>1, <2>2 DEF Things, Specs
    <2>4. Things'
      BY <1>3, <2>3 DEF HandEdit, Edit, Things, secrets, objects
    <2> QED BY <1>3, <2>4, Outside DEF HandEdit, objects
  <1>4. ASSUME NEW c \in Customs, TakeName(c) PROVE TypeInv'
    <2> DEFINE o == [label |-> "foreign", secret |-> FALSE, told |-> None]
    <2>1. o \in RepoObjs
      BY DEF RepoObjs
    <2>2. o # None
      BY <2>1, KindsAssumption
    <2>3. repo[c] = None /\ repo' = [repo EXCEPT ![c] = o]
      BY <1>4 DEF TakeName
    <2> HIDE DEF o
    <2>4. \A r \in Repos : repo[r] # None => repo'[r] # None
      BY <2>2, <2>3 DEF Things
    <2>5. Things'
      <3>1. repo' \in [Repos -> RepoObjs \cup {None}]
        BY <2>1, <2>3 DEF Things
      <3>2. edits' \in Nat
        BY <1>4 DEF TakeName, Edit, Things
      <3> QED BY <1>4, <3>1, <3>2 DEF TakeName, Things, settings, secrets
    <2>6. UNCHANGED <<pc, mem, queued>>
      BY <1>4 DEF TakeName
    <2> QED BY <2>4, <2>5, <2>6, Outside DEF TypeOK
  <1>5. ASSUME NEW o \in Owned, HelmRemove(o) PROVE TypeInv'
    <2>1. owners' \in [Owned -> SUBSET Managers]
      BY <1>5 DEF HelmRemove, Things
    <2>2. spec' \in Specs
      <3>1. CASE o \in Built
        <4>1. [spec.refs EXCEPT ![o] = "none"] \in [Built -> Refs]
          BY <3>1 DEF Things, Specs, Refs
        <4> QED BY <1>5, <3>1, <4>1 DEF HelmRemove, Things, Specs
      <3>2. CASE o \notin Built
        <4>1. [spec.git EXCEPT ![o] = "absent"] \in [GitRepos -> Modes]
          BY <3>2 DEF Things, Specs, Modes
        <4> QED BY <1>5, <3>2, <4>1 DEF HelmRemove, Things, Specs
      <3> QED BY <3>1, <3>2
    <2>3. Things'
      BY <1>5, <2>1, <2>2 DEF HelmRemove, Edit, Things, secrets, objects
    <2> QED BY <1>5, <2>3, Outside DEF HelmRemove, objects
  <1>6. CASE Restart
    <2>1. Things'
      BY <1>6 DEF Restart, Fault, Things, settings, secrets
    <2> QED BY <1>6, <2>1 DEF Restart, TypeInv, TypeOK, Things, Stages
  <1> QED BY <1>1, <1>2, <1>3, <1>4, <1>5, <1>6, <1>7, <1>8 DEF Others

\* The start is well formed.
LEMMA InitTypes == Init => TypeInv
  <1> SUFFICES ASSUME Init PROVE TypeInv
    OBVIOUS
  <1>1. spec \in Specs
    BY KindsAssumption DEF Init
  <1>2. owners \in [Owned -> SUBSET Managers]
    BY DEF Init, Managers
  <1> QED BY <1>1, <1>2 DEF Init, TypeInv, TypeOK, NoCopy, Stages

LEMMA StepTypes == TypeInv /\ [Next]_vars => TypeInv'
  <1>1. ASSUME TypeInv, Pass PROVE TypeInv'
    BY <1>1, StartTypes, GitTypes, TurnTypes, MirrorStepTypes, RepoStepTypes, CustomTypes,
       LastTypes DEF Pass
  <1>2. ASSUME TypeInv, UNCHANGED vars PROVE TypeInv'
    <2>1. Things'
      BY <1>2, TypesOfThings
         DEF TypeInv, Things, vars, settings, secrets, objects, bounds
    <2> QED BY <1>2, <2>1, Outside DEF vars, objects, TypeInv, TypeOK
  <1> QED BY <1>1, <1>2, SaveTypes, OthersTypes DEF Next

LEMMA SpecTypes == Spec => []TypeInv
  BY InitTypes, StepTypes, PTL DEF Spec

\* The state of Settings, of Secrets, repositories and catalogs and of the pass
\* stays well formed.
THEOREM SettingsTypeCorrect == Spec => []TypeOK
  <1>1. TypeInv => TypeOK
    BY DEF TypeInv
  <1> QED BY <1>1, SpecTypes, PTL

-----------------------------------------------------------------------------
(* Saving.                                                                 *)

\* What the chart declares it owns alone, and no save under way asks for it;
\* what a save omits is to be cleared, or is not explicit any more.
Saving ==
    /\ \A g \in Catalogs : g \in Declared =>
         owners[g] = {"helm"} /\ (save # None => save.spec.git[g] = "absent")
    /\ save # None => \A r \in Built :
         save.spec.refs[r] = "none" /\ r \notin save.clear => spec.refs[r] # "explicit"

\* What the steps of RemovedByHelmIsGone and OmittedRefIsGone may do.
RemovedGoes ==
    \A g \in Catalogs : g \in Declared /\ "helm" \notin owners'[g] => spec'.git[g] = "absent"
OmittedGoes ==
    \A r \in Built : save # None /\ save' = None /\ faults' = faults
                     /\ save.spec.refs[r] = "none" => spec'.refs[r] # "explicit"

\* Catalogs and built-in registries are owned, and apart.
LEMMA OwnedKinds ==
    /\ Catalogs \subseteq Owned /\ Catalogs \subseteq GitRepos
    /\ Built \subseteq Owned /\ Catalogs \cap Built = {}
  BY KindsAssumption DEF Catalogs, Owned, Built

\* A step that leaves Settings and the save alone.
LEMMA SavingStays ==
    ASSUME TypeInv, Saving, UNCHANGED <<settings, save>>
    PROVE  Saving' /\ RemovedGoes /\ OmittedGoes
  <1> TypeOK /\ Things BY TypesOfThings DEF TypeInv
  <1>1. Saving'
    BY DEF Saving, Declared, settings
  <1>2. RemovedGoes
    BY OwnedKinds DEF RemovedGoes, Declared, settings
  <1>3. OmittedGoes
    BY DEF OmittedGoes
  <1> QED BY <1>1, <1>2, <1>3

\* The controller wires well-known references and nothing else.
LEMMA WireSaves ==
    ASSUME TypeInv, Saving, Wire
    PROVE  Saving' /\ RemovedGoes /\ OmittedGoes
  <1> TypeOK /\ Things BY TypesOfThings DEF TypeInv
  <1>1. CASE UNCHANGED settings
    BY <1>1, SavingStays DEF Wire
  <1>2. CASE ~UNCHANGED settings
    <2> PICK e \in [Built -> Refs] :
          /\ FoundRefs(e)
          /\ LET new == [spec EXCEPT !.refs = [r \in Built |->
                           IF r \in Wired(e) THEN e[r] ELSE @[r]]]
             IN  /\ spec' = new
                 /\ owners' = [o \in Owned |->
                      IF Value(new, o) # Value(spec, o) THEN {"controller"} ELSE owners[o]]
      BY <1>2 DEF Wire
    <2> DEFINE refs == [r \in Built |-> IF r \in Wired(e) THEN e[r] ELSE spec.refs[r]]
               new == [spec EXCEPT !.refs = refs]
    <2>1. /\ spec' = new /\ save' = save /\ pc = "wire"
          /\ owners' = [o \in Owned |->
               IF Value(new, o) # Value(spec, o) THEN {"controller"} ELSE owners[o]]
      BY DEF Wire
    <2>2. \A r \in Built : refs[r] = "explicit" => spec.refs[r] = "explicit"
      <3> SUFFICES ASSUME NEW r \in Built, r \in Wired(e) PROVE e[r] = "known"
        OBVIOUS
      <3>1. mem.spec.refs[r] \in Refs
        BY <2>1, Held DEF Specs
      <3> QED BY <3>1, WiredKnown
    <2>3. new.refs = refs /\ new.git = spec.git
      BY DEF Things, Specs
    <2>4. \A g \in Catalogs : owners'[g] = owners[g]
      BY <2>1, <2>3, OwnedKinds DEF Value
    <2> HIDE DEF new, refs
    <2>5. Saving'
      BY <2>1, <2>2, <2>3, <2>4, OwnedKinds DEF Saving, Declared
    <2>6. RemovedGoes
      BY <2>4, OwnedKinds DEF RemovedGoes, Declared
    <2> QED BY <2>1, <2>5, <2>6 DEF OmittedGoes
  <1> QED BY <1>1, <1>2

\* The requests.
LEMMA SaveSaves ==
    ASSUME TypeInv, Saving, Save
    PROVE  Saving' /\ RemovedGoes /\ OmittedGoes
  <1> TypeOK /\ Things BY TypesOfThings DEF TypeInv
  <1>1. ASSUME NEW req \in Requests, SaveBegin(req) PROVE Saving' /\ RemovedGoes /\ OmittedGoes
    <2>1. /\ save = None /\ save' = [spec |-> Undeclared(req), clear |-> Omitted(req)]
          /\ spec' = spec /\ owners' = owners
      BY <1>1 DEF SaveBegin, settings
    <2>2. req \in Specs
      BY KindsAssumption
    <2>3. /\ \A g \in GitRepos : g \in Declared => Undeclared(req).git[g] = "absent"
          /\ Undeclared(req).refs = req.refs
      BY <2>2 DEF Undeclared, Specs
    <2>4. \A r \in Built : req.refs[r] = "none" /\ r \notin Omitted(req) => spec.refs[r] = "none"
      BY DEF Omitted
    <2>5. Saving'
      BY <2>1, <2>3, <2>4, OwnedKinds DEF Saving, Declared
    <2>6. RemovedGoes
      BY <2>1, OwnedKinds DEF RemovedGoes, Declared
    <2> QED BY <2>1, <2>5, <2>6 DEF OmittedGoes
  <1>2. CASE SaveClear
    <2> DEFINE refs == [r \in Built |-> IF r \in save.clear THEN "none" ELSE spec.refs[r]]
               request == [save EXCEPT !.clear = {}]
    <2>1. /\ save # None /\ spec' = [spec EXCEPT !.refs = refs] /\ save' = request
          /\ owners' = [o \in Owned |-> IF o \in save.clear THEN {} ELSE owners[o]]
      BY <1>2 DEF SaveClear
    <2>2. spec'.refs = refs /\ spec'.git = spec.git
      BY <2>1 DEF Things, Specs
    <2>3. save \in Saves /\ request \in Saves /\ request.spec = save.spec /\ request.clear = {}
      BY <2>1 DEF Things, Saves
    <2>4. \A g \in Catalogs : owners'[g] = owners[g]
      BY <2>1, <2>3, OwnedKinds DEF Saves
    <2>5. request # None
      BY <2>3, KindsAssumption
    <2> HIDE DEF request
    <2>6. Saving'
      BY <2>1, <2>2, <2>3, <2>4, OwnedKinds DEF Saving, Declared
    <2>7. RemovedGoes
      BY <2>4, OwnedKinds DEF RemovedGoes, Declared
    <2> QED BY <2>1, <2>5, <2>6, <2>7 DEF OmittedGoes
  <1>3. CASE SaveApply
    <2>1. /\ save # None /\ save \in Saves /\ save.spec \in Specs /\ save.clear = {} /\ save' = None
          /\ owners' = [o \in Owned |->
               IF ~Asked(o) THEN owners[o] \ {"api"}
               ELSE IF After(o) = Value(spec, o) THEN owners[o] \cup {"api"}
               ELSE {"api"}]
      BY <1>3 DEF SaveApply, Things, Saves
    <2>2. \A g \in Catalogs : g \in Declared => owners[g] = {"helm"} /\ ~Asked(g)
      BY <2>1, OwnedKinds DEF Saving, Asked, Value, Unset
    <2>3. \A g \in Catalogs : g \in Declared => owners'[g] = {"helm"}
      BY <2>1, <2>2, OwnedKinds
    <2>4. \A g \in Catalogs : "helm" \in owners'[g] => g \in Declared
      BY <2>1, OwnedKinds DEF Declared
    <2>5. Saving'
      BY <2>1, <2>3, <2>4, OwnedKinds DEF Saving, Declared
    <2>6. RemovedGoes
      BY <2>3 DEF RemovedGoes
    <2>7. OmittedGoes
      <3> SUFFICES ASSUME NEW r \in Built, save.spec.refs[r] = "none"
                   PROVE  spec'.refs[r] # "explicit"
        BY DEF OmittedGoes
      <3>1. spec'.refs[r] = After(r)
        <4> DEFINE refs == [x \in Built |-> After(x)]
                   gits == [g \in GitRepos |-> After(g)]
        <4>1. spec' = [save.spec EXCEPT !.refs = refs, !.git = gits]
          BY <1>3 DEF SaveApply
        <4>2. spec'.refs = refs
          <5> HIDE DEF refs, gits
          <5> QED BY <2>1, <4>1 DEF Specs
        <4> QED BY <4>2
      <3>2. ~Asked(r) /\ spec.refs[r] # "explicit"
        BY <2>1 DEF Asked, Value, Unset, Saving
      <3> QED BY <3>1, <3>2 DEF After, Left, Value, Unset
    <2> QED BY <2>5, <2>6, <2>7
  <1>4. CASE SaveFails
    <2>1. save' = None /\ UNCHANGED <<spec, owners>> /\ faults' = faults + 1
      BY <1>4 DEF SaveFails, Fault, settings
    <2>2. faults' # faults
      BY <2>1 DEF Things
    <2> QED BY <2>1, <2>2, OwnedKinds DEF Saving, RemovedGoes, OmittedGoes, Declared
  <1> QED BY <1>1, <1>2, <1>3, <1>4 DEF Save

\* An edit by hand, the chart, a restart.
LEMMA OthersSave ==
    ASSUME TypeInv, Saving, Others \/ Restart
    PROVE  Saving' /\ RemovedGoes /\ OmittedGoes
  <1> TypeOK /\ Things BY TypesOfThings DEF TypeInv
  <1>1. CASE UNCHANGED <<settings, save>>
    BY <1>1, SavingStays
  <1>2. ASSUME NEW c \in Customs, HandEdit(c) PROVE Saving' /\ RemovedGoes /\ OmittedGoes
    <2>1. spec' = [spec EXCEPT !.custom[c] = "invalid"] /\ owners' = owners /\ save' = save
      BY <1>2 DEF HandEdit
    <2>2. spec'.refs = spec.refs /\ spec'.git = spec.git
      BY <2>1 DEF Things, Specs
    <2> QED BY <2>1, <2>2, OwnedKinds DEF Saving, RemovedGoes, OmittedGoes, Declared
  <1>3. ASSUME NEW o \in Owned, HelmRemove(o) PROVE Saving' /\ RemovedGoes /\ OmittedGoes
    <2>1. /\ owners' = [owners EXCEPT ![o] = @ \ {"helm"}] /\ save' = save /\ o \in Declared
          /\ spec' = IF owners'[o] # {} THEN spec
                     ELSE IF o \in Built THEN [spec EXCEPT !.refs[o] = "none"]
                     ELSE [spec EXCEPT !.git[o] = "absent"]
      BY <1>3 DEF HelmRemove
    <2>2. \A r \in Built : spec'.refs[r] \in {spec.refs[r], "none"}
      BY <2>1 DEF Things, Specs
    <2>3. \A g \in Catalogs : /\ "helm" \in owners'[g] => g \in Declared
                              /\ g # o => owners'[g] = owners[g]
      BY <2>1, OwnedKinds DEF Things, Declared
    <2>4. o \in Catalogs => owners'[o] = {} /\ spec'.git[o] = "absent"
      <3> SUFFICES ASSUME o \in Catalogs PROVE owners'[o] = {} /\ spec'.git[o] = "absent"
        OBVIOUS
      <3>1. owners'[o] = {}
        BY <2>1, OwnedKinds DEF Saving, Things
      <3>2. spec' = [spec EXCEPT !.git[o] = "absent"]
        BY <2>1, <3>1, OwnedKinds
      <3> QED BY <3>1, <3>2, OwnedKinds DEF Things, Specs
    <2>5. Saving'
      <3>1. \A g \in Catalogs : "helm" \in owners'[g] =>
              owners'[g] = {"helm"} /\ (save' # None => save'.spec.git[g] = "absent")
        BY <2>1, <2>3, <2>4 DEF Saving
      <3>2. save' # None => \A r \in Built :
              save'.spec.refs[r] = "none" /\ r \notin save'.clear => spec'.refs[r] # "explicit"
        BY <2>1, <2>2 DEF Saving
      <3> QED BY <3>1, <3>2 DEF Saving, Declared
    <2>6. RemovedGoes
      BY <2>3, <2>4, OwnedKinds DEF RemovedGoes, Declared
    <2> QED BY <2>1, <2>5, <2>6 DEF OmittedGoes
  <1>4. CASE Restart
    <2>1. save' = None /\ UNCHANGED <<spec, owners>> /\ faults' = faults + 1
      BY <1>4 DEF Restart, Fault, settings
    <2>2. faults' # faults
      BY <2>1 DEF Things
    <2> QED BY <2>1, <2>2, OwnedKinds DEF Saving, RemovedGoes, OmittedGoes, Declared
  <1>5. ASSUME Others, ~UNCHANGED <<settings, save>>
        PROVE  (\E c \in Customs : HandEdit(c)) \/ (\E o \in Owned : HelmRemove(o))
    BY <1>5 DEF Others, Rotate, RotateKnown, TakeName, Discover, RotateCA
  <1> QED BY <1>1, <1>2, <1>3, <1>4, <1>5

LEMMA StepSaving ==
    ASSUME TypeInv, Saving, [Next]_vars
    PROVE  Saving' /\ RemovedGoes /\ OmittedGoes
  <1>1. CASE Pass /\ ~Wire
    <2>1. UNCHANGED <<settings, save>>
      <3>1. CASE BeginPass \/ WireFails \/ GitPruned \/ WriteMirror \/ MirrorFails \/ ApplyFails
                 \/ ForceFails \/ Forced \/ Unmirror \/ DropFails
        BY <3>1 DEF BeginPass, WireFails, GitPruned, WriteMirror, MirrorFails, ApplyFails,
                    ForceFails, Forced, Unmirror, DropFails
      <3>2. CASE ToCustoms \/ ToPrune \/ Retype \/ RetypeFails \/ UnmirrorPruned \/ PruneFails
                 \/ Pruned \/ Status \/ StatusFails
        BY <3>2 DEF ToCustoms, ToPrune, Retype, RetypeFails, UnmirrorPruned, PruneFails, Pruned,
                    Status, StatusFails
      <3>3. ASSUME NEW g \in GitRepos, ApplyGit(g) \/ GitFails(g) \/ PruneGit(g) \/ PruneGitFails(g)
            PROVE  UNCHANGED <<settings, save>>
        BY <3>3 DEF ApplyGit, GitFails, GivesUp, PruneGit, PruneGitFails
      <3>4. ASSUME NEW r \in Built, TearDown(r) \/ SetUp(r) \/ TurnFails(r)
            PROVE  UNCHANGED <<settings, save>>
        BY <3>4 DEF TearDown, SetUp, TurnFails, LookedUp
      <3>5. ASSUME NEW r \in Repos, ApplyRepo(r) \/ ForceUpdate(r) \/ DropRepo(r)
            PROVE  UNCHANGED <<settings, save>>
        BY <3>5 DEF ApplyRepo, ForceUpdate, DropRepo
      <3>6. ASSUME NEW c \in Customs, SkipCustom(c) \/ StartCustom(c) \/ CustomFails(c) \/ PruneRepo(c)
            PROVE  UNCHANGED <<settings, save>>
        BY <3>6 DEF SkipCustom, StartCustom, CustomFails, PruneRepo
      <3> QED BY <1>1, <3>1, <3>2, <3>3, <3>4, <3>5, <3>6 DEF Pass
    <2> QED BY <2>1, SavingStays
  <1>2. CASE UNCHANGED vars
    BY <1>2, SavingStays DEF vars
  <1> QED BY <1>1, <1>2, WireSaves, SaveSaves, OthersSave DEF Next

LEMMA SpecSaving == Spec => []Saving
  <1>1. Init => Saving
    <2> SUFFICES ASSUME Init PROVE Saving
      OBVIOUS
    <2>1. \A g \in Catalogs : owners[g] \in {{}, {"helm"}, {"api"}} /\ save = None
      BY OwnedKinds DEF Init
    <2> QED BY <2>1, OwnedKinds DEF Init, Saving, Declared
  <1>2. TypeInv /\ Saving /\ [Next]_vars => Saving'
    BY StepSaving
  <1> QED BY <1>1, <1>2, SpecTypes, PTL DEF Spec

\* A catalog the chart declared goes when the chart drops it: no save, whatever
\* it asks for and whatever comes between its two writes, makes a second owner
\* of it (filterHelmManagedCatalogs).
THEOREM ChartKeepsItsCatalogs == Spec => RemovedByHelmIsGone
  <1>1. TypeInv /\ Saving /\ [Next]_vars =>
          [\A g \in Catalogs :
             g \in Declared /\ "helm" \notin owners'[g] => spec'.git[g] = "absent"]_vars
    BY StepSaving DEF RemovedGoes
  <1> QED BY <1>1, SpecTypes, SpecSaving, PTL DEF Spec, RemovedByHelmIsGone

\* A save that leaves a registry's explicit credentials out removes them, also
\* when the controller wires references between its two writes
\* (omittedSecretRefs).
THEOREM OmittedRefsGo == Spec => OmittedRefIsGone
  <1>1. TypeInv /\ Saving /\ [Next]_vars =>
          [\A r \in Built :
             save # None /\ save' = None /\ faults' = faults
             /\ save.spec.refs[r] = "none" => spec'.refs[r] # "explicit"]_vars
    BY StepSaving DEF OmittedGoes
  <1> QED BY <1>1, SpecTypes, SpecSaving, PTL DEF Spec, OmittedRefIsGone

-----------------------------------------------------------------------------
(* Custom repositories.                                                    *)

\* The list of a pass after a turn.
LEMMA ListFields ==
    ASSUME NEW m \in Passes, NEW k
    PROVE  /\ LET n == [m EXCEPT !.todo = @ \ {k}, !.failed = TRUE]
              IN  n.todo = m.todo \ {k} /\ n.keep = m.keep /\ n.at = m.at /\ n.spec = m.spec
           /\ LET n == [m EXCEPT !.todo = @ \ {k}, !.keep = @ \cup {k}, !.failed = TRUE]
              IN  /\ n.todo = m.todo \ {k} /\ n.keep = m.keep \cup {k}
                  /\ n.at = m.at /\ n.spec = m.spec
           /\ LET n == [m EXCEPT !.todo = @ \ {k}, !.keep = @ \cup ({k} \cap Customs)]
              IN  /\ n.todo = m.todo \ {k} /\ n.keep = m.keep \cup ({k} \cap Customs)
                  /\ n.at = m.at /\ n.spec = m.spec
           /\ LET n == [m EXCEPT !.todo = k]
              IN  n.todo = k /\ n.keep = m.keep /\ n.at = m.at /\ n.spec = m.spec
           /\ LET n == [m EXCEPT !.at = None, !.todo = k]
              IN  n.todo = k /\ n.keep = m.keep /\ n.at = None /\ n.spec = m.spec
           /\ LET n == [m EXCEPT !.at = k]
              IN  n.todo = m.todo /\ n.keep = m.keep /\ n.at = k /\ n.spec = m.spec
  BY DEF Passes

Working == {"next", "retype", "mirror", "apply", "force", "drop", "unmirror", "prune",
            "unmirrorPruned"}

\* The pass is past the registries.
Late(stage, m) ==
    \/ stage \in {"prune", "unmirrorPruned"}
    \/ m.at \in Customs
    \/ m.at = None /\ Nvidia \notin m.todo

\* A listed repository waits for its turn, is kept, or is somebody else's.
Covered(m, there) ==
    \A c \in Customs : m.spec.custom[c] # "absent" =>
        c \in m.todo \cup m.keep \/ (there[c] # None /\ there[c].label # "custom")

\* NVIDIA's turn is the last of the registries', and the pass does not leave
\* them without it.
Ordered(m) ==
    /\ m.at \in Built \cup Customs \cup {None}
    /\ m.todo \cap Registries # {} => Nvidia \in m.todo /\ m.at # Nvidia
    /\ m.at \in Registries => Nvidia \in m.todo
    /\ m.todo \cap Customs # {} => Nvidia \notin m.todo /\ m.at \notin Built

Keeps(stage, m, there) ==
    /\ stage \in {"wire", "git"} => m.at = None
    /\ stage \in Working =>
        /\ Late(stage, m) => Covered(m, there)
        /\ Ordered(m)
        /\ stage \in {"prune", "unmirrorPruned"} => m.todo = {}
        /\ stage \in {"retype", "mirror", "apply", "force"} /\ m.at \in Customs => m.at \in m.todo

Keeping == mem # None => Keeps(pc, mem, repo)

\* What a step of WantedIsKept may do.
KeepsWanted ==
    \A c \in Customs : repo[c] # None /\ repo'[c] = None => mem.spec.custom[c] = "absent"

\* What other parts of the pass do to ClusterRepos of custom repositories.
Untouched == \A c \in Customs : repo'[c] = repo[c]

LEMMA UntouchedKeeps == Untouched => KeepsWanted
  BY DEF Untouched, KeepsWanted

LEMMA KeepingGoes ==
    ASSUME NEW stage, NEW m, GoTo(stage, m) \/ Onward(stage, m), Keeps(stage, m, repo')
    PROVE  Keeping'
  BY DEF GoTo, Onward, Keeping

LEMMA KeepingEnds ==
    ASSUME NEW e \in BOOLEAN, EndPass(e)
    PROVE  Keeping'
  BY DEF EndPass, Keeping

LEMMA EarlyKeeps ==
    ASSUME pc' \in {"wire", "git"}, mem'.at = None
    PROVE  Keeping'
  BY DEF Keeping, Keeps, Working

\* A turn that ends, well or not.
LEMMA TurnKeeps ==
    ASSUME TypeInv, Keeping, Untouched, NEW k \in Mirrored, Done(k) \/ Fails(k),
           \/ pc \in {"retype", "mirror", "apply", "force", "drop", "unmirror"} /\ k = mem.at
           \/ pc = "next" /\ (k \in Customs \/ (Fails(k) /\ k \in Built))
    PROVE  Keeping'
  <1>1. /\ mem \in Passes /\ mem # None /\ pc \in Working /\ Aims(pc, mem, repo)
        /\ Customs \cap Built = {} /\ Nvidia \notin Customs /\ Nvidia \in Built
        /\ Nvidia \notin Registries /\ Registries \subseteq Built
    BY Held, KindsAssumption DEF TypeInv, Working, Built
  <1>2. Keeps(pc, mem, repo)
    BY <1>1 DEF Keeping
  <1>3. CASE Fails(k) /\ k \notin Customs
    BY <1>3, KeepingEnds DEF Fails
  <1>4. ASSUME Done(k) \/ k \in Customs PROVE Keeping'
    <2>1. PICK m : /\ GoTo("next", m) /\ m.todo = mem.todo \ {k} /\ m.at = mem.at
                   /\ m.spec = mem.spec /\ m.keep = mem.keep \cup ({k} \cap Customs)
      <3>1. CASE Done(k)
        <4> DEFINE m == [mem EXCEPT !.todo = @ \ {k}, !.keep = @ \cup ({k} \cap Customs)]
        <4>1. /\ m.todo = mem.todo \ {k} /\ m.at = mem.at /\ m.spec = mem.spec
              /\ m.keep = mem.keep \cup ({k} \cap Customs)
          BY <1>1, ListFields
        <4>2. GoTo("next", m)
          BY <3>1 DEF Done
        <4> HIDE DEF m
        <4> QED BY <4>1, <4>2
      <3>2. CASE Fails(k) /\ k \in Customs
        <4> DEFINE m == [mem EXCEPT !.todo = @ \ {k}, !.keep = @ \cup {k}, !.failed = TRUE]
        <4>1. /\ m.todo = mem.todo \ {k} /\ m.at = mem.at /\ m.spec = mem.spec
              /\ m.keep = mem.keep \cup {k}
          BY <1>1, ListFields
        <4>2. GoTo("next", m)
          BY <3>2 DEF Fails
        <4>3. {k} \cap Customs = {k}
          BY <3>2
        <4> HIDE DEF m
        <4> QED BY <4>1, <4>2, <4>3
      <3> QED BY <1>4, <3>1, <3>2
    <2>2. ASSUME pc = "next", k \notin Customs PROVE FALSE
      BY <1>1, <1>3, <1>4, <2>2, <2>1, KindsAssumption DEF Done, Fails, EndPass, GoTo
    <2>3. k = Nvidia => mem.at = Nvidia
      BY <1>1, <2>2
    <2>4. Ordered(m)
      BY <1>1, <1>2, <2>1, <2>3 DEF Keeps, Ordered
    <2>5. ASSUME Late("next", m) PROVE Covered(m, repo')
      <3>1. Late(pc, mem)
        BY <1>1, <2>1, <2>3, <2>5, KindsAssumption DEF Late, Mirrored, Keyed
      <3> QED BY <1>1, <1>2, <2>1, <3>1 DEF Keeps, Covered, Untouched
    <2>6. Keeps("next", m, repo')
      BY <2>4, <2>5 DEF Keeps, Working
    <2> QED BY <2>1, <2>6, KeepingGoes
  <1> QED BY <1>3, <1>4

\* A turn that goes on.
LEMMA TurnGoesOn ==
    ASSUME TypeInv, Keeping, NEW stage \in {"mirror", "apply", "force", "drop", "unmirror"}, NEW m,
           GoTo(stage, m), pc \in {"retype", "mirror", "apply", "force", "drop", "unmirror"},
           m.at = mem.at, m.spec = mem.spec, m.todo = mem.todo, m.keep = mem.keep,
           \A c \in Customs : repo[c] # None /\ repo[c].label # "custom" =>
               c \in mem.todo \/ (repo'[c] # None /\ repo'[c].label # "custom")
    PROVE  Keeping'
  <1>1. /\ mem # None /\ pc \in Working /\ Aims(pc, mem, repo) /\ Keeps(pc, mem, repo)
        /\ Customs \cap Built = {}
    BY Held, KindsAssumption DEF TypeInv, Working, Keeping
  <1>2. Late(stage, m) => Late(pc, mem)
    BY <1>1 DEF Late
  <1>3. Late(pc, mem) => Covered(m, repo')
    BY <1>1 DEF Keeps, Covered
  <1>4. Ordered(m)
    BY <1>1 DEF Keeps, Ordered
  <1>5. stage \in {"mirror", "apply", "force"} /\ m.at \in Customs => m.at \in m.todo
    BY <1>1 DEF Keeps, Aims
  <1>6. Keeps(stage, m, repo')
    BY <1>2, <1>3, <1>4, <1>5 DEF Keeps
  <1> QED BY <1>6, KeepingGoes

\* Before the registries.
LEMMA StartKeeps ==
    ASSUME TypeInv, Keeping,
           \/ BeginPass \/ Wire \/ WireFails \/ GitPruned
           \/ \E g \in GitRepos : ApplyGit(g) \/ GitFails(g) \/ PruneGit(g) \/ PruneGitFails(g)
    PROVE  Keeping' /\ KeepsWanted
  <1> TypeOK /\ Things BY TypesOfThings DEF TypeInv
  <1>1. KeepsWanted
    <2>1. repo' = repo
      BY DEF BeginPass, Wire, WireFails, GitPruned, ApplyGit, GitFails, GivesUp, PruneGit, PruneGitFails,
             objects
    <2> QED BY <2>1, UntouchedKeeps DEF Untouched
  <1> SUFFICES Keeping'
    BY <1>1
  <1>2. CASE BeginPass
    BY <1>2, EarlyKeeps DEF BeginPass
  <1>3. CASE Wire
    <2>0. pc = "wire" /\ mem \in Passes /\ mem # None /\ mem.at = None
      BY <1>3, Held DEF Wire, Keeping, Keeps
    <2>1. CASE Onward("git", mem)
      BY <2>0, <2>1, EarlyKeeps DEF Onward
    <2>2. CASE ~Onward("git", mem)
      <3>1. PICK new : pc' = "git" /\ mem' = [mem EXCEPT !.spec = new]
        <4>1. \E e \in [Built -> Refs] :
                LET new == [spec EXCEPT !.refs = [r \in Built |->
                              IF r \in Wired(e) THEN e[r] ELSE @[r]]]
                IN  pc' = "git" /\ mem' = [mem EXCEPT !.spec = new]
          BY <1>3, <2>2 DEF Wire
        <4> QED BY <4>1
      <3>2. mem'.at = None
        BY <2>0, <3>1 DEF Passes
      <3> QED BY <3>1, <3>2, EarlyKeeps
    <2> QED BY <2>1, <2>2
  <1>4. CASE WireFails
    BY <1>4, KeepingEnds DEF WireFails
  <1>5. ASSUME pc = "git", \/ GoTo("git", mem) \/ ToRegistries \/ EndPass(TRUE)
                           \/ \E g \in GitRepos : GitDone(g)
        PROVE  Keeping'
    <2>0. mem \in Passes /\ mem # None /\ mem.at = None
      BY <1>5, Held DEF Keeping, Keeps
    <2>1. CASE GoTo("git", mem)
      BY <2>0, <2>1, KeepingGoes DEF Keeps, Working
    <2>2. CASE ToRegistries
      <3> DEFINE m == [mem EXCEPT !.todo = Built]
      <3>1. m.todo = Built /\ m.at = None
        BY <2>0, ListFields
      <3>2. GoTo("next", m)
        BY <2>2 DEF ToRegistries
      <3> HIDE DEF m
      <3>3. None \notin Customs \cup Built /\ Nvidia \in Built /\ Customs \cap Built = {}
            /\ Registries \subseteq Built /\ Nvidia # None
        BY KindsAssumption DEF Keyed, Mirrored, Built
      <3>4. Ordered(m) /\ ~Late("next", m)
        BY <3>1, <3>3 DEF Ordered, Late
      <3>5. Keeps("next", m, repo')
        BY <3>4 DEF Keeps
      <3> QED BY <3>2, <3>5, KeepingGoes
    <2>3. ASSUME NEW g \in GitRepos, GitDone(g) PROVE Keeping'
      <3> DEFINE m == [mem EXCEPT !.todo = @ \ {g}]
      <3>1. m.at = None
        BY <2>0 DEF Passes
      <3>2. GoTo("git", m)
        BY <2>3 DEF GitDone
      <3> HIDE DEF m
      <3> QED BY <3>1, <3>2, KeepingGoes DEF Keeps, Working
    <2> QED BY <1>5, <2>1, <2>2, <2>3, KeepingEnds
  <1>6. CASE GitPruned
    BY <1>5, <1>6 DEF GitPruned
  <1>7. ASSUME NEW g \in GitRepos, ApplyGit(g) \/ GitFails(g) PROVE Keeping'
    BY <1>5, <1>7 DEF ApplyGit, GitFails, GivesUp, GitTurn
  <1>8. ASSUME NEW g \in GitRepos, PruneGit(g) \/ PruneGitFails(g) PROVE Keeping'
    BY <1>5, <1>8 DEF PruneGit, PruneGitFails
  <1> QED BY <1>1, <1>2, <1>3, <1>4, <1>6, <1>7, <1>8

\* A registry's turn begins.
LEMMA RegistryKeeps ==
    ASSUME TypeInv, Keeping, NEW r \in Built, TearDown(r) \/ SetUp(r) \/ TurnFails(r)
    PROVE  Keeping' /\ KeepsWanted
  <1> TypeOK /\ Things BY TypesOfThings DEF TypeInv
  <1>1. /\ Turn(r) /\ pc = "next" /\ r \in mem.todo /\ mem \in Passes /\ mem # None
        /\ Keeps(pc, mem, repo) /\ r \in Mirrored
        /\ Customs \cap Built = {} /\ None \notin Customs \cup Built
    BY Held, KindsAssumption
       DEF TearDown, SetUp, TurnFails, Turn, Keeping, Mirrored, Keyed
  <1>2. Untouched
    <2>1. repo' = repo \/ repo' = OrgApplied(r)
      BY DEF TearDown, SetUp, TurnFails, objects
    <2>2. "org" \notin Customs
      BY KindsAssumption DEF NvRepos
    <2> QED BY <2>1, <2>2 DEF OrgApplied, Untouched, Things, Repos
  <1>3. CASE TurnFails(r)
    BY <1>1, <1>2, <1>3, TurnKeeps, UntouchedKeeps DEF TurnFails
  <1>4. CASE TearDown(r) \/ SetUp(r)
    <2>1. PICK stage \in {"drop", "mirror", "unmirror"} : \E e \in Refs : \E tear, work :
            Onward(stage, Holding(r, Obtained(r, e), tear, work))
      BY <1>4 DEF TearDown, SetUp
    <2>2. PICK cred, tear, work : Onward(stage, Holding(r, cred, tear, work))
      BY <2>1
    <2> DEFINE m == Holding(r, cred, tear, work)
    <2>3. m.at = r /\ m.spec = mem.spec /\ m.todo = mem.todo /\ m.keep = mem.keep
      BY <1>1, Fields DEF Holding
    <2>4. Onward(stage, m)
      BY <2>2
    <2> HIDE DEF m
    <2>5. Ordered(mem) /\ (r \in Registries \/ r = Nvidia) /\ Nvidia \in Built
          /\ Nvidia \notin Registries
      BY <1>1, KindsAssumption DEF Keeps, Working, Built
    <2>6. Ordered(m)
      <3>1. r = Nvidia => mem.todo \cap Registries = {}
        BY <1>1 DEF Turn
      <3> QED BY <1>1, <2>3, <2>5, <3>1 DEF Ordered
    <2>7. ~Late(stage, m)
      BY <1>1, <2>3 DEF Late
    <2>8. Keeps(stage, m, repo')
      BY <1>1, <2>3, <2>6, <2>7 DEF Keeps
    <2> QED BY <1>2, <2>4, <2>8, KeepingGoes, UntouchedKeeps
  <1> QED BY <1>3, <1>4

\* The copies and ClusterRepos of one turn.
LEMMA TurnStepKeeps ==
    ASSUME TypeInv, Keeping,
           \/ WriteMirror \/ MirrorFails \/ Unmirror \/ DropFails
           \/ ApplyFails \/ ForceFails \/ Forced \/ Retype \/ RetypeFails
           \/ \E r \in Repos : ApplyRepo(r) \/ ForceUpdate(r) \/ DropRepo(r)
    PROVE  Keeping' /\ KeepsWanted
  <1> TypeOK /\ Things BY TypesOfThings DEF TypeInv
  <1> DEFINE Stage == pc \in {"retype", "mirror", "apply", "force", "drop", "unmirror"}
             Alike(m) == /\ m.at = mem.at /\ m.spec = mem.spec /\ m.todo = mem.todo
                         /\ m.keep = mem.keep
  <1>0. /\ Stage /\ mem \in Passes /\ mem # None /\ Aims(pc, mem, repo) /\ Keeps(pc, mem, repo)
        /\ mem.at \in Built \cup Customs /\ mem.at \in Mirrored
    <2>1. Stage
      BY DEF WriteMirror, MirrorFails, Unmirror, DropFails, ApplyFails, ForceFails, Forced, Retype,
             RetypeFails, ApplyRepo, ForceUpdate, DropRepo
    <2> QED BY <2>1, Held DEF TypeInv, Aims, Keeping, Mirrored
  <1>1. \A w : Alike([mem EXCEPT !.work = w])
    BY <1>0, Fields
  <1>2. "gated" \notin Customs
    BY KindsAssumption DEF NvRepos
  <1>3. ASSUME Untouched, Fails(mem.at) \/ Done(mem.at) PROVE Keeping' /\ KeepsWanted
    BY <1>0, <1>3, TurnKeeps, UntouchedKeeps
  <1>4. ASSUME Untouched, NEW m, Alike(m),
               NEW stage \in {"mirror", "apply", "force", "drop", "unmirror"}, GoTo(stage, m)
        PROVE  Keeping' /\ KeepsWanted
    BY <1>0, <1>4, TurnGoesOn, UntouchedKeeps DEF Untouched
  <1>5. CASE WriteMirror
    <2> DEFINE m == [mem EXCEPT !.changed = mirror[mem.at][1] # CopyOf(mem.at),
                                !.work = ToApply(mem.at)]
    <2>1. Alike(m)
      BY <1>0, Fields
    <2>2. GoTo("apply", m) /\ Untouched
      BY <1>5 DEF WriteMirror, Untouched
    <2> HIDE DEF m
    <2> QED BY <1>4, <2>1, <2>2
  <1>6. CASE MirrorFails \/ DropFails \/ ApplyFails \/ ForceFails \/ RetypeFails
    <2>1. Untouched /\ Fails(mem.at)
      BY <1>6 DEF MirrorFails, DropFails, ApplyFails, ForceFails, RetypeFails, Untouched, objects
    <2> QED BY <1>3, <2>1
  <1>7. CASE Unmirror
    <2>1. Untouched
      BY <1>7 DEF Unmirror, Untouched
    <2>2. CASE Done(mem.at)
      BY <1>3, <2>1, <2>2
    <2>3. CASE GoTo("apply", [mem EXCEPT !.work = ToApply(mem.at)])
      BY <1>1, <1>4, <2>1, <2>3
    <2> QED BY <1>7, <2>2, <2>3 DEF Unmirror
  <1>8. CASE Forced
    <2>1. Untouched
      BY <1>2, <1>8 DEF Forced, Untouched, Things, Repos
    <2> QED BY <1>3, <1>8, <2>1 DEF Forced
  <1>9. CASE Retype
    <2>1. Untouched
      BY <1>9 DEF Retype, Untouched
    <2>2. CASE Fails(mem.at)
      BY <1>3, <2>1, <2>2
    <2>3. CASE GoTo("mirror", mem)
      BY <1>4, <2>1, <2>3
    <2>4. CASE GoTo("apply", [mem EXCEPT !.work = {mem.at}])
      BY <1>1, <1>4, <2>1, <2>4
    <2> QED BY <1>9, <2>2, <2>3, <2>4 DEF Retype
  <1>10. ASSUME NEW r \in Repos, ApplyRepo(r) PROVE Keeping' /\ KeepsWanted
    <2> DEFINE secret == r \in Authenticated(mem.at)
               m(w)   == [mem EXCEPT !.work = w]
    <2>1. /\ pc = "apply" /\ r \in mem.work /\ repo' = [repo EXCEPT ![r] = Applied(r, secret)]
          /\ \E w : GoTo("apply", m(w)) \/ GoTo("force", m(w))
      BY <1>10 DEF ApplyRepo
    <2>2. secret \in BOOLEAN
      OBVIOUS
    <2> HIDE DEF secret
    <2>3. repo'[r] # None /\ \A c \in Repos : c # r => repo'[c] = repo[c]
      BY <1>0, <2>1, <2>2, AppliedTypes DEF Things
    <2>4. KeepsWanted
      BY <2>3 DEF KeepsWanted, Repos
    <2>5. r \in Customs => r \in mem.todo
      BY <1>0, <2>1 DEF Aims, Keeps, Working
    <2>6. PICK w : GoTo("apply", m(w)) \/ GoTo("force", m(w))
      BY <2>1
    <2>7. Alike(m(w))
      BY <1>1
    <2> HIDE DEF m
    <2>8. \A c \in Customs : repo[c] # None /\ repo[c].label # "custom" =>
              c \in mem.todo \/ (repo'[c] # None /\ repo'[c].label # "custom")
      BY <2>3, <2>5 DEF Repos
    <2> QED BY <1>0, <2>4, <2>6, <2>7, <2>8, TurnGoesOn
  <1>11. ASSUME NEW r \in Repos, ForceUpdate(r) PROVE Keeping' /\ KeepsWanted
    <2> DEFINE o == [repo[r] EXCEPT !.told = mem.cred]
               m == [mem EXCEPT !.work = @ \ {r}]
    <2>1. /\ pc = "force" /\ r \in mem.work /\ repo' = [repo EXCEPT ![r] = o] /\ GoTo("force", m)
      BY <1>11 DEF ForceUpdate
    <2>2. repo[r] # None
      BY <1>0, <2>1 DEF Aims
    <2>3. o.label = repo[r].label /\ o \in RepoObjs
      BY <1>0, <2>2, Held DEF Things, RepoObjs
    <2>4. o # None
      BY <2>3, KindsAssumption
    <2> HIDE DEF o
    <2>5. \A c \in Customs : repo[c] # None => repo'[c] # None /\ repo'[c].label = repo[c].label
      BY <2>1, <2>3, <2>4 DEF Things, Repos
    <2>6. Alike(m)
      BY <1>1
    <2> HIDE DEF m
    <2>7. Keeping'
      BY <1>0, <2>1, <2>5, <2>6, TurnGoesOn
    <2> QED BY <2>5, <2>7 DEF KeepsWanted
  <1>12. ASSUME NEW r \in Repos, DropRepo(r) PROVE Keeping' /\ KeepsWanted
    <2> DEFINE m == [mem EXCEPT !.work = mem.work \ {r}]
    <2>1. /\ pc = "drop" /\ r \in mem.work /\ repo' = [repo EXCEPT ![r] = None]
          /\ GoTo("unmirror", m) \/ GoTo("drop", m)
      BY <1>12 DEF DropRepo
    <2>2. Untouched
      BY <1>0, <2>1 DEF Aims, Untouched, Things, Repos
    <2>3. Alike(m)
      BY <1>1
    <2> HIDE DEF m
    <2> QED BY <1>4, <2>1, <2>2, <2>3
  <1> QED BY <1>5, <1>6, <1>7, <1>8, <1>9, <1>10, <1>11, <1>12

\* The list of custom repositories, and what is left of others.
LEMMA CustomKeeps ==
    ASSUME TypeInv, Keeping,
           \/ ToCustoms \/ ToPrune \/ UnmirrorPruned \/ PruneFails \/ Pruned
           \/ Status \/ StatusFails
           \/ \E c \in Customs : SkipCustom(c) \/ StartCustom(c) \/ CustomFails(c) \/ PruneRepo(c)
    PROVE  Keeping' /\ KeepsWanted
  <1> TypeOK /\ Things BY TypesOfThings DEF TypeInv
  <1>0. /\ pc \in {"next", "prune", "unmirrorPruned", "status"} /\ mem \in Passes /\ mem # None
        /\ Aims(pc, mem, repo) /\ Keeps(pc, mem, repo)
        /\ pc # "status" => Ordered(mem) /\ (Late(pc, mem) => Covered(mem, repo))
    <2>1. pc \in {"next", "prune", "unmirrorPruned", "status"}
      BY DEF ToCustoms, ToPrune, UnmirrorPruned, PruneFails, Pruned, Status, StatusFails, SkipCustom,
             CustomTurn, StartCustom, CustomFails, PruneRepo
    <2> QED BY <2>1, Held DEF TypeInv, Keeping, Keeps, Working
  <1>1. /\ Customs \cap Built = {} /\ Nvidia \in Built /\ Registries \subseteq Built
        /\ None \notin Customs \cup Built /\ Customs \subseteq Mirrored /\ Nvidia \notin Registries
        /\ Built = Registries \cup {Nvidia}
    BY KindsAssumption DEF Built, Mirrored, Keyed
  <1>2. CASE ToCustoms
    <2> DEFINE t == {c \in Customs : CustomMode(c) # "absent"}
               m == [mem EXCEPT !.at = None, !.todo = t]
    <2>1. GoTo("next", m) /\ Untouched
      BY <1>2 DEF ToCustoms, Untouched, objects
    <2>2. m.todo = t /\ m.at = None /\ m.spec = mem.spec
      BY <1>0, ListFields
    <2> HIDE DEF m
    <2>3. Covered(m, repo')
      BY <2>2 DEF Covered, CustomMode
    <2>4. Ordered(m)
      BY <1>1, <2>2 DEF Ordered
    <2>5. Keeps("next", m, repo')
      BY <2>3, <2>4 DEF Keeps
    <2> QED BY <2>1, <2>5, KeepingGoes, UntouchedKeeps
  <1>3. ASSUME NEW c \in Customs, SkipCustom(c) PROVE Keeping' /\ KeepsWanted
    <2>1. Untouched /\ pc = "next" /\ c \in mem.todo
      BY <1>3 DEF SkipCustom, CustomTurn, Untouched, objects
    <2>2. CASE Done(c)
      BY <1>1, <2>1, <2>2, TurnKeeps, UntouchedKeeps
    <2>3. CASE Taken(c) /\ GoTo("next", [mem EXCEPT !.todo = @ \ {c}, !.failed = TRUE])
      <3> DEFINE m == [mem EXCEPT !.todo = @ \ {c}, !.failed = TRUE]
      <3>1. m.todo = mem.todo \ {c} /\ m.keep = mem.keep /\ m.at = mem.at /\ m.spec = mem.spec
        BY <1>0, ListFields
      <3>2. GoTo("next", m)
        BY <2>3
      <3> HIDE DEF m
      <3>3. Late("next", m) => Late(pc, mem)
        BY <1>1, <2>1, <3>1 DEF Late
      <3>4. Late("next", m) => Covered(m, repo')
        BY <1>0, <2>1, <2>3, <3>1, <3>3 DEF Covered, Taken, Untouched
      <3>5. Ordered(m)
        BY <1>0, <1>1, <2>1, <3>1 DEF Ordered
      <3>6. Keeps("next", m, repo')
        BY <3>4, <3>5 DEF Keeps
      <3> QED BY <2>1, <3>2, <3>6, KeepingGoes, UntouchedKeeps
    <2> QED BY <1>3, <2>2, <2>3 DEF SkipCustom
  <1>4. ASSUME NEW c \in Customs, StartCustom(c) PROVE Keeping' /\ KeepsWanted
    <2>1. /\ pc = "next" /\ c \in mem.todo /\ Untouched
          /\ \E cred : GoTo("retype", Holding(c, cred, FALSE, {}))
      BY <1>4 DEF StartCustom, CustomTurn, Untouched, objects
    <2>2. PICK cred : GoTo("retype", Holding(c, cred, FALSE, {}))
      BY <2>1
    <2> DEFINE m == Holding(c, cred, FALSE, {})
    <2>3. m.at = c /\ m.todo = mem.todo /\ m.keep = mem.keep /\ m.spec = mem.spec
      BY <1>0, Fields DEF Holding
    <2>4. GoTo("retype", m)
      BY <2>2
    <2> HIDE DEF m
    <2>5. Late(pc, mem)
      BY <1>0, <1>1, <2>1 DEF Ordered, Late
    <2>6. Ordered(m) /\ Covered(m, repo')
      BY <1>0, <1>1, <2>1, <2>3, <2>5 DEF Ordered, Covered, Untouched
    <2>7. Keeps("retype", m, repo')
      BY <2>1, <2>3, <2>6 DEF Keeps
    <2> QED BY <2>1, <2>4, <2>7, KeepingGoes, UntouchedKeeps
  <1>5. ASSUME NEW c \in Customs, CustomFails(c) PROVE Keeping' /\ KeepsWanted
    <2>1. Untouched /\ pc = "next" /\ Fails(c)
      BY <1>5 DEF CustomFails, CustomTurn, Untouched, objects
    <2> QED BY <1>1, <2>1, TurnKeeps, UntouchedKeeps
  <1>6. CASE ToPrune
    <2>1. pc = "next" /\ mem.todo = {} /\ mem.at # Nvidia /\ GoTo("prune", mem) /\ Untouched
      BY <1>6 DEF ToPrune, Untouched, objects
    <2>2. Late(pc, mem)
      BY <1>0, <1>1, <2>1 DEF Ordered, Late
    <2>3. Covered(mem, repo')
      BY <1>0, <2>1, <2>2 DEF Covered, Untouched
    <2>4. Keeps("prune", mem, repo')
      BY <1>0, <2>1, <2>3 DEF Keeps
    <2> QED BY <2>1, <2>4, KeepingGoes, UntouchedKeeps
  <1>7. ASSUME NEW c \in Customs, PruneRepo(c) PROVE Keeping' /\ KeepsWanted
    <2> DEFINE m == [mem EXCEPT !.at = c]
    <2>1. /\ pc = "prune" /\ c \in Unwanted /\ repo' = [repo EXCEPT ![c] = None]
          /\ GoTo("unmirrorPruned", m)
      BY <1>7 DEF PruneRepo
    <2>2. Covered(mem, repo) /\ mem.todo = {}
      BY <1>0, <2>1 DEF Late, Keeps, Working
    <2>3. mem.spec.custom[c] = "absent"
      BY <2>1, <2>2 DEF Covered, Unwanted
    <2>4. KeepsWanted
      BY <2>1, <2>3 DEF KeepsWanted, Things, Repos
    <2>5. m.todo = mem.todo /\ m.keep = mem.keep /\ m.at = c /\ m.spec = mem.spec
      BY <1>0, ListFields
    <2> HIDE DEF m
    <2>6. Covered(m, repo')
      BY <2>1, <2>2, <2>3, <2>5 DEF Covered, Things, Repos
    <2>7. Ordered(m)
      BY <1>1, <2>2, <2>5 DEF Ordered
    <2>8. Keeps("unmirrorPruned", m, repo')
      BY <2>2, <2>5, <2>6, <2>7 DEF Keeps
    <2> QED BY <2>1, <2>4, <2>8, KeepingGoes
  <1>8. CASE UnmirrorPruned
    <2>1. pc = "unmirrorPruned" /\ GoTo("prune", mem) /\ Untouched
      BY <1>8 DEF UnmirrorPruned, Untouched
    <2>2. Covered(mem, repo') /\ Ordered(mem) /\ mem.todo = {}
      BY <1>0, <2>1 DEF Late, Keeps, Working, Covered, Untouched
    <2>3. Keeps("prune", mem, repo')
      BY <2>2 DEF Keeps
    <2> QED BY <2>1, <2>3, KeepingGoes, UntouchedKeeps
  <1>9. CASE PruneFails \/ Pruned
    <2>1. Untouched /\ \E m : GoTo("status", m)
      BY <1>9 DEF PruneFails, Pruned, Untouched, objects
    <2>2. \A m : Keeps("status", m, repo')
      BY DEF Keeps, Working
    <2> QED BY <2>1, <2>2, KeepingGoes, UntouchedKeeps
  <1>10. CASE Status \/ StatusFails
    <2>1. Untouched /\ mem' = None
      BY <1>10 DEF Status, StatusFails, EndPass, Untouched
    <2> QED BY <2>1, UntouchedKeeps DEF Keeping
  <1> QED BY <1>2, <1>3, <1>4, <1>5, <1>6, <1>7, <1>8, <1>9, <1>10

\* Saves, edits, other people's repositories, restarts.
LEMMA OutsideKeeps ==
    ASSUME TypeInv, Keeping, Save \/ Others \/ Restart \/ UNCHANGED vars
    PROVE  Keeping' /\ KeepsWanted
  <1> TypeOK /\ Things BY TypesOfThings DEF TypeInv
  <1>1. CASE Restart
    <2>1. Untouched /\ mem' = None
      BY <1>1 DEF Restart, Untouched
    <2> QED BY <2>1, UntouchedKeeps DEF Keeping
  <1>2. ASSUME UNCHANGED <<repo, pc, mem>> PROVE Keeping' /\ KeepsWanted
    BY <1>2 DEF Keeping, KeepsWanted
  <1>3. CASE Save
    <2>1. UNCHANGED <<repo, pc, mem>>
      BY <1>3 DEF Save, SaveBegin, SaveClear, SaveApply, SaveFails, objects
    <2> QED BY <1>2, <2>1
  <1>4. ASSUME NEW c \in Customs, TakeName(c) PROVE Keeping' /\ KeepsWanted
    <2> DEFINE o == [label |-> "foreign", secret |-> FALSE, told |-> None]
    <2>1. UNCHANGED <<pc, mem>> /\ repo[c] = None /\ repo' = [repo EXCEPT ![c] = o]
      BY <1>4 DEF TakeName
    <2>2. \A d \in Customs : repo[d] # None => repo'[d] = repo[d]
      BY <2>1 DEF Things, Repos
    <2>3. Covered(mem, repo) => Covered(mem, repo')
      BY <2>2 DEF Covered
    <2>4. Keeping'
      BY <2>1, <2>3 DEF Keeping, Keeps
    <2> QED BY <2>2, <2>4 DEF KeepsWanted
  <1>5. CASE Others /\ ~\E c \in Customs : TakeName(c)
    <2>1. UNCHANGED <<repo, pc, mem>>
      BY <1>5 DEF Others, Rotate, RotateKnown, Discover, RotateCA, HandEdit, HelmRemove, objects
    <2> QED BY <1>2, <2>1
  <1>6. CASE UNCHANGED vars
    BY <1>2, <1>6 DEF vars, objects
  <1> QED BY <1>1, <1>3, <1>4, <1>5, <1>6

LEMMA StepKeeping ==
    ASSUME TypeInv, Keeping, [Next]_vars
    PROVE  Keeping' /\ KeepsWanted
  <1>1. CASE Pass
    BY <1>1, StartKeeps, RegistryKeeps, TurnStepKeeps, CustomKeeps DEF Pass
  <1> QED BY <1>1, OutsideKeeps DEF Next

\* A custom repository that Settings lists, well-formed or not, is never deleted
\* by a pass that could not provision it, nor by one that an edit, a restart or
\* a failure of another repository came between (pruneCustomRepos).
THEOREM ListedIsKept == Spec => WantedIsKept
  <1>1. Init => Keeping
    BY DEF Init, Keeping
  <1>2. TypeInv /\ Keeping /\ [Next]_vars => Keeping'
    BY StepKeeping
  <1>3. TypeInv /\ Keeping /\ [Next]_vars =>
          [\A c \in Customs :
             repo[c] # None /\ repo'[c] = None => mem.spec.custom[c] = "absent"]_vars
    BY StepKeeping DEF KeepsWanted
  <1> QED BY <1>1, <1>2, <1>3, SpecTypes, PTL DEF Spec, WantedIsKept
-----------------------------------------------------------------------------
(* What a pass leaves behind.  Each turn is on the one registry or custom  *)
(* repository it is about, and ends with that one as it should be.         *)

\* What a pass goes by for a registry or a custom repository, as things are.
CredOf(k) ==
    IF k \in Built THEN Read(k, spec.refs[k])
    ELSE IF spec.custom[k] = "anonymous" THEN None ELSE source[k]

\* A registry without credentials is to go; NVIDIA's has its own rules.
Gone(r) ==
    IF r # Nvidia THEN CredOf(r) = None
    ELSE IF spec.mirrored THEN HasRefs(r, spec.refs[r]) /\ CredOf(r) = None
    ELSE ~HasRefs(r, spec.refs[r])

Turns == {"retype", "mirror", "apply", "force", "drop", "unmirror"}

\* The ClusterRepos of a registry or custom repository.
ReposOf(k) == IF k = Nvidia THEN NvRepos ELSE {k}

\* Those a pass applies, once the organisation's are.
Targets(m) ==
    IF m.at # Nvidia THEN {m.at}
    ELSE IF m.spec.mirrored THEN NvRepos ELSE {"public"} \cup Carriers(m)

\* A ClusterRepo as the pass applies it.
Fits(m, x) ==
    /\ repo[x] # None /\ repo[x].secret = (x \in Carriers(m))
    /\ x \in Customs => repo[x].label = "custom"

\* The copies of the credentials as the pass leaves them.
Copying(m) ==
    IF m.cred # None
    THEN Holds(m.at, IF m.at \in Customs THEN m.spec.custom[m.at] ELSE "basic", m.cred)
    ELSE IF m.at \in Built THEN Holds(m.at, "basic", None)
    ELSE m.spec.custom[m.at] # "ssh" /\ (m.spec.custom[m.at] = "anonymous" => mirror[m.at][1] = None)

\* How far a turn is.
InTurn(stage, m) ==
    /\ m.at \in m.todo /\ m.work \subseteq ReposOf(m.at)
    /\ m.at \in Customs => /\ m.spec.custom[m.at] \in {"anonymous", "basic", "ssh"}
                           /\ ~m.tear
                           /\ m.spec.custom[m.at] = "anonymous" => m.cred = None
    /\ stage = "drop" => m.tear /\ \A x \in ReposOf(m.at) \ m.work : repo[x] = None
    /\ stage = "unmirror" => IF m.tear THEN \A x \in ReposOf(m.at) : repo[x] = None
                             ELSE m.cred = None
    /\ stage \in {"mirror", "apply", "force"} => ~m.tear
    /\ ~m.tear /\ m.at = Nvidia /\ ~m.spec.mirrored => repo["org"] # None /\ ~repo["org"].secret
    /\ stage \in {"apply", "force"} => Copying(m)
    /\ stage = "apply" => \A x \in Targets(m) \ m.work : Fits(m, x)
    /\ stage = "force" => \A x \in Targets(m) : Fits(m, x)

\* The lists of a pass, and how far it is.
Shape(stage, m) ==
    /\ stage \in {"wire", "git"} => m.todo \subseteq GitRepos /\ m.keep = {}
    /\ stage \in Working => \A c \in Customs \cap (m.todo \cup m.keep) : m.spec.custom[c] # "absent"
    /\ stage \in Turns => InTurn(stage, m)

Labelled == \A c \in Customs : repo[c] # None => repo[c].label \in {"custom", "foreign"}

Shaped == Labelled /\ (mem # None => Shape(pc, mem))

-----------------------------------------------------------------------------

\* Nothing belongs to two of them.
LEMMA ReposApart ==
    ASSUME NEW k \in Built \cup Customs
    PROVE  /\ ReposOf(k) \subseteq Repos /\ k \in Mirrored /\ k # None
           /\ \A l \in Built \cup Customs : l # k => ReposOf(l) \cap ReposOf(k) = {}
           /\ k \in Customs => k \notin Built /\ ReposOf(k) = {k} /\ k # Nvidia
           /\ k \in Built => Customs \cap ReposOf(k) = {} /\ k \notin GitRepos
           /\ k \in Built /\ k # Nvidia => k \in Registries /\ ReposOf(k) = {k}
           /\ k \notin GitRepos
  BY KindsAssumption DEF ReposOf, Repos, Mirrored, Built, NvRepos, Keyed

\* Only what belongs to one of them changes.
OnlyAt(k) ==
    /\ \A l \in Mirrored \ {k} : mirror'[l] = mirror[l]
    /\ \A x \in Repos \ ReposOf(k) : repo'[x] = repo[x]

\* What a step of a turn leaves as it is.
Same(n, m) ==
    /\ n.spec = m.spec /\ n.todo = m.todo /\ n.at = m.at /\ n.cred = m.cred
    /\ n.tear = m.tear /\ n.keep = m.keep /\ n.failed = m.failed

LEMMA SameFields ==
    ASSUME NEW m \in Passes
    PROVE  /\ Same(m, m)
           /\ \A w : LET n == [m EXCEPT !.work = w]
                     IN  Same(n, m) /\ n.work = w /\ n.changed = m.changed
           /\ \A b, w : LET n == [m EXCEPT !.changed = b, !.work = w]
                        IN  Same(n, m) /\ n.work = w /\ n.changed = b
  BY DEF Passes, Same

\* What a turn ends with.
Ending(n, m, k) ==
    /\ n.spec = m.spec /\ n.todo = m.todo \ {k} /\ n.at = m.at
    /\ n.keep \subseteq m.keep \cup ({k} \cap Customs) /\ n.failed \in {m.failed, TRUE}

LEMMA EndingFields ==
    ASSUME NEW k, mem \in Passes, Done(k) \/ Fails(k)
    PROVE  \/ Fails(k) /\ k \notin Customs /\ EndPass(TRUE)
           \/ /\ Fails(k) => k \in Customs
              /\ \E m : /\ GoTo("next", m) /\ Ending(m, mem, k)
                        /\ m.failed = mem.failed \/ Fails(k)
                        /\ Fails(k) => m.failed
  <1>1. CASE Fails(k) /\ k \notin Customs
    BY <1>1 DEF Fails
  <1>2. CASE Fails(k) /\ k \in Customs
    <2> DEFINE m == [mem EXCEPT !.todo = @ \ {k}, !.keep = @ \cup {k}, !.failed = TRUE]
    <2>1. GoTo("next", m)
      BY <1>2 DEF Fails
    <2>2. Ending(m, mem, k) /\ m.failed
      BY <1>2 DEF Ending, Passes
    <2> HIDE DEF m
    <2> QED BY <1>2, <2>1, <2>2
  <1>3. CASE Done(k) /\ ~Fails(k)
    <2> DEFINE m == [mem EXCEPT !.todo = @ \ {k}, !.keep = @ \cup ({k} \cap Customs)]
    <2>1. GoTo("next", m)
      BY <1>3 DEF Done
    <2>2. Ending(m, mem, k) /\ m.failed = mem.failed
      BY DEF Ending, Passes
    <2> HIDE DEF m
    <2> QED BY <1>3, <2>1, <2>2
  <1> QED BY <1>1, <1>2, <1>3

\* The steps of a turn once it has begun.
TurnStep ==
    \/ WriteMirror \/ MirrorFails \/ Unmirror \/ DropFails
    \/ ApplyFails \/ ForceFails \/ Forced \/ Retype \/ RetypeFails
    \/ \E r \in Repos : ApplyRepo(r) \/ ForceUpdate(r) \/ DropRepo(r)

\* A turn under way.
LEMMA TurnHeld ==
    ASSUME TypeInv, Shaped, pc \in Turns
    PROVE  /\ Things /\ mem \in Passes /\ mem # None /\ Aims(pc, mem, repo)
           /\ InTurn(pc, mem) /\ mem.at \in Built \cup Customs
           /\ mem.cred \in Creds \cup {None} /\ mem.spec \in Specs
           /\ mem.work \subseteq ReposOf(mem.at) /\ ReposOf(mem.at) \subseteq Repos
           /\ Same(mem, mem)
  <1>1. mem \in Passes /\ mem # None /\ mem.spec \in Specs /\ mem.cred \in Creds \cup {None}
    BY Held DEF TypeInv, Turns
  <1>2. Things /\ Aims(pc, mem, repo) /\ InTurn(pc, mem)
    BY <1>1, TypesOfThings DEF TypeInv, Shaped, Shape
  <1>3. mem.at \in Built \cup Customs
    BY <1>2 DEF Aims, Turns
  <1> QED BY <1>1, <1>2, <1>3, ReposApart DEF InTurn, Same

LEMMA Alikes ==
    ASSUME NEW m, NEW n, Same(n, m)
    PROVE  /\ Carriers(n) = Carriers(m) /\ Targets(n) = Targets(m)
           /\ Copying(n) <=> Copying(m)
           /\ \A x : Fits(n, x) <=> Fits(m, x)
  <1>1. Carriers(n) = Carriers(m)
    BY DEF Same, Carriers
  <1> QED BY <1>1 DEF Same, Targets, Copying, Fits

\* What is applied, and to what.
LEMMA TargetsOf ==
    ASSUME TypeInv, Shaped, pc \in Turns
    PROVE  /\ ToApply(mem.at) = Targets(mem) /\ Authenticated(mem.at) = Carriers(mem)
           /\ Targets(mem) \subseteq ReposOf(mem.at) /\ Carriers(mem) \subseteq Targets(mem)
           /\ mem.at = Nvidia /\ ~mem.spec.mirrored => "org" \notin Carriers(mem)
  <1>1. Authenticated(mem.at) = Carriers(mem)
    BY DEF Authenticated, Carriers
  <1> QED BY <1>1 DEF Carriers, Targets, ToApply, ReposOf, NvRepos

\* A step of a turn changes nothing but what the turn is about; the turn goes
\* on, ends well, or fails.
LEMMA TurnFrame ==
    ASSUME TypeInv, Shaped, TurnStep
    PROVE  /\ pc \in Turns /\ OnlyAt(mem.at)
           /\ UNCHANGED <<settings, save, secrets, git, client, edits>>
           /\ \/ Fails(mem.at)
              \/ Done(mem.at) /\ (Forced \/ (Unmirror /\ mem.tear))
              \/ \E stage \in Turns : \E m :
                   GoTo(stage, m) /\ Same(m, mem)
  <1>0. pc \in Turns
    BY DEF TurnStep, WriteMirror, MirrorFails, Unmirror, DropFails, ApplyFails, ForceFails, Forced,
           Retype, RetypeFails, ApplyRepo, ForceUpdate, DropRepo, Turns
  <1> DEFINE Goal == /\ OnlyAt(mem.at)
                     /\ UNCHANGED <<settings, save, secrets, git, client, edits>>
                     /\ \/ Fails(mem.at)
                        \/ Done(mem.at) /\ (Forced \/ (Unmirror /\ mem.tear))
                        \/ \E stage \in Turns : \E m :
                             GoTo(stage, m) /\ Same(m, mem)
  <1> SUFFICES Goal
    BY <1>0
  <1>h. /\ Things /\ mem \in Passes /\ mem.work \subseteq ReposOf(mem.at) /\ Same(mem, mem)
        /\ ReposOf(mem.at) \subseteq Repos
    BY <1>0, TurnHeld
  <1>1. CASE WriteMirror
    <2> DEFINE m == [mem EXCEPT !.changed = mirror[mem.at][1] # CopyOf(mem.at),
                                !.work = ToApply(mem.at)]
    <2>1. GoTo("apply", m) /\ Same(m, mem)
      BY <1>1, <1>h, SameFields DEF WriteMirror
    <2> HIDE DEF m
    <2>2. OnlyAt(mem.at)
      BY <1>1, <1>h DEF WriteMirror, Copied, OnlyAt, Things
    <2> QED BY <1>1, <2>1, <2>2 DEF WriteMirror, bounds, Turns
  <1>2. CASE MirrorFails \/ DropFails \/ ApplyFails \/ ForceFails \/ RetypeFails
    <2>1. Fails(mem.at) /\ UNCHANGED <<settings, save, secrets, repo, git, client, edits>>
      BY <1>2 DEF MirrorFails, DropFails, ApplyFails, ForceFails, RetypeFails, objects
    <2>2. mirror' = mirror \/ mirror' \in HalfDeleted(mem.at) \/ \E u : mirror' = Copied(mem.at, u)
      BY <1>2 DEF MirrorFails, DropFails, ApplyFails, ForceFails, RetypeFails, objects
    <2>3. \A l \in Mirrored \ {mem.at} : mirror'[l] = mirror[l]
      BY <2>2, <1>h DEF HalfDeleted, Copied, Things
    <2> QED BY <2>1, <2>3 DEF OnlyAt
  <1>3. CASE Unmirror
    <2>1. OnlyAt(mem.at)
      BY <1>3, <1>h DEF Unmirror, OnlyAt, Things
    <2>2. \A w : Same([mem EXCEPT !.work = w], mem)
      BY <1>h, SameFields
    <2> QED BY <1>3, <2>1, <2>2 DEF Unmirror, bounds, Turns
  <1>4. CASE Forced
    <2>1. \A x \in Repos \ ReposOf(mem.at) : repo'[x] = repo[x]
      BY <1>4, <1>h DEF Forced, ReposOf, NvRepos, Things
    <2> QED BY <1>4, <2>1 DEF Forced, OnlyAt, bounds
  <1>5. CASE Retype
    <2>1. OnlyAt(mem.at)
      BY <1>5, <1>h DEF Retype, OnlyAt, Things
    <2>2. \A w : Same([mem EXCEPT !.work = w], mem)
      BY <1>h, SameFields
    <2> QED BY <1>5, <1>h, <2>1, <2>2 DEF Retype, bounds, Turns
  <1>6. ASSUME NEW r \in Repos, ApplyRepo(r) \/ ForceUpdate(r) \/ DropRepo(r) PROVE Goal
    <2>1. /\ r \in ReposOf(mem.at) /\ \E o : repo' = [repo EXCEPT ![r] = o]
          /\ UNCHANGED <<settings, save, secrets, mirror, git, client, bounds>>
      <3>1. CASE ApplyRepo(r)
        BY <1>h, <3>1 DEF ApplyRepo
      <3>2. CASE ForceUpdate(r)
        <4>1. repo' = [repo EXCEPT ![r] = [repo[r] EXCEPT !.told = mem.cred]]
          BY <1>h, <3>2 DEF ForceUpdate, Things
        <4> QED BY <1>h, <3>2, <4>1 DEF ForceUpdate
      <3>3. CASE DropRepo(r)
        BY <1>h, <3>3 DEF DropRepo
      <3> QED BY <1>6, <3>1, <3>2, <3>3
    <2>2. OnlyAt(mem.at)
      BY <2>1, <1>h DEF OnlyAt, Things
    <2>3. \A w : Same([mem EXCEPT !.work = w], mem)
      BY <1>h, SameFields
    <2>4. \E stage \in Turns : \E w :
             GoTo(stage, [mem EXCEPT !.work = w])
      <3>1. CASE ApplyRepo(r)
        BY <3>1 DEF ApplyRepo, Turns
      <3>2. CASE ForceUpdate(r)
        BY <3>2 DEF ForceUpdate, Turns
      <3>3. CASE DropRepo(r)
        <4> DEFINE m == [mem EXCEPT !.work = mem.work \ {r}]
        <4>1. GoTo("unmirror", m) \/ GoTo("drop", m)
          BY <3>3 DEF DropRepo
        <4> QED BY <4>1 DEF Turns
      <3> QED BY <1>6, <3>1, <3>2, <3>3
    <2> QED BY <2>1, <2>2, <2>3, <2>4 DEF bounds
  <1> QED BY <1>1, <1>2, <1>3, <1>4, <1>5, <1>6 DEF TurnStep

LEMMA ShapedGoes ==
    ASSUME NEW stage, NEW m, GoTo(stage, m) \/ Onward(stage, m), Labelled', Shape(stage, m)'
    PROVE  Shaped'
  BY DEF GoTo, Onward, Shaped

LEMMA ShapedEnds ==
    ASSUME NEW e, EndPass(e), Labelled'
    PROVE  Shaped'
  BY DEF EndPass, Shaped

\* A turn that ends, well or not.
LEMMA EndShapes ==
    ASSUME Shaped, mem \in Passes, mem # None, pc \in Working, Labelled',
           NEW k, k \in Mirrored, k \in mem.todo, Done(k) \/ Fails(k)
    PROVE  Shaped'
  <1>1. CASE EndPass(TRUE)
    BY <1>1, ShapedEnds
  <1>2. ASSUME NEW m, GoTo("next", m), Ending(m, mem, k) PROVE Shaped'
    <2>1. \A c \in Customs \cap (mem.todo \cup mem.keep) : mem.spec.custom[c] # "absent"
      BY DEF Shaped, Shape
    <2>2. \A c \in Customs \cap (m.todo \cup m.keep) : m.spec.custom[c] # "absent"
      BY <1>2, <2>1 DEF Ending
    <2>3. Shape("next", m)'
      BY <2>2 DEF Shape, Turns
    <2> QED BY <1>2, <2>3, ShapedGoes
  <1> QED BY <1>1, <1>2, EndingFields

\* Labels of the ClusterRepos of custom repositories.
LEMMA TurnLabels ==
    ASSUME TypeInv, Shaped, TurnStep
    PROVE  Labelled'
  <1>1. pc \in Turns /\ OnlyAt(mem.at)
    BY TurnFrame
  <1>2. /\ Things /\ mem \in Passes /\ Aims(pc, mem, repo) /\ mem.at \in Built \cup Customs
        /\ mem.work \subseteq ReposOf(mem.at) /\ ReposOf(mem.at) \subseteq Repos /\ Labelled
    BY <1>1, TurnHeld DEF Shaped
  <1>3. \A c \in Customs : c # mem.at => repo'[c] = repo[c]
    <2>1. \A c \in Customs : c # mem.at => c \notin ReposOf(mem.at) /\ c \in Repos
      BY <1>2, ReposApart DEF Repos
    <2> QED BY <1>1, <2>1 DEF OnlyAt
  <1> SUFFICES ASSUME mem.at \in Customs, repo'[mem.at] # None
               PROVE  repo'[mem.at].label \in {"custom", "foreign"}
    BY <1>2, <1>3 DEF Labelled
  <1>4. mem.at \in Repos /\ mem.at # Nvidia /\ ReposOf(mem.at) = {mem.at} /\ mem.at \notin Built
    BY ReposApart DEF Repos
  <1>5. CASE repo' = repo
    BY <1>2, <1>5 DEF Labelled
  <1>6. ASSUME NEW r \in Repos, ApplyRepo(r) PROVE repo'[mem.at].label = "custom"
    <2> DEFINE secret == r \in Authenticated(mem.at)
    <2>1. r = mem.at /\ repo' = [repo EXCEPT ![r] = Applied(r, secret)]
      BY <1>2, <1>4, <1>6 DEF ApplyRepo
    <2>2. secret \in BOOLEAN
      OBVIOUS
    <2> HIDE DEF secret
    <2> QED BY <1>1, <1>2, <2>1, <2>2, AppliedTypes DEF Things, TypeInv, Turns
  <1>7. ASSUME NEW r \in Repos, ForceUpdate(r) PROVE repo'[mem.at].label = repo[mem.at].label /\ repo[mem.at] # None
    <2>1. /\ r = mem.at /\ repo[r] # None
          /\ repo' = [repo EXCEPT ![r] = [repo[r] EXCEPT !.told = mem.cred]]
      BY <1>2, <1>4, <1>7 DEF ForceUpdate, Things, Aims
    <2> QED BY <1>2, <2>1 DEF Things, RepoObjs
  <1>8. ASSUME NEW r \in Repos, DropRepo(r) PROVE FALSE
    BY <1>2, <1>4, <1>8 DEF DropRepo, Aims
  <1>9. CASE Forced
    BY <1>4, <1>5, <1>9 DEF Forced
  <1>10. CASE ~Forced /\ ~\E r \in Repos : ApplyRepo(r) \/ ForceUpdate(r) \/ DropRepo(r)
    <2>1. repo' = repo
      BY <1>10 DEF TurnStep, WriteMirror, MirrorFails, Unmirror, DropFails, ApplyFails, ForceFails,
                   Retype, RetypeFails, objects
    <2> QED BY <1>5, <2>1
  <1> QED BY <1>2, <1>6, <1>7, <1>8, <1>9, <1>10 DEF Labelled

\* Credentials written to both places.
LEMMA WrittenCopies ==
    ASSUME TypeInv, Shaped, WriteMirror, NEW m, Same(m, mem)
    PROVE  Copying(m)'
  <1>1. pc = "mirror" /\ mirror' = Copied(mem.at, 2) /\ pc \in Turns
    BY DEF WriteMirror, Turns
  <1>2. /\ Things /\ InTurn(pc, mem) /\ mem.at \in Built \cup Customs /\ mem.cred # None
    BY <1>1, TurnHeld DEF Aims
  <1>3. mem.at \in Mirrored /\ (mem.at \in Customs => mem.at \notin Built)
    BY <1>2, ReposApart
  <1>4. m.at = mem.at /\ m.cred = mem.cred /\ m.spec = mem.spec
    BY DEF Same
  <1> DEFINE type == IF m.at \in Customs THEN m.spec.custom[m.at] ELSE "basic"
             copy == [type |-> type, cred |-> m.cred]
  <1>5. CopyType(mem.at) = type
    BY <1>2, <1>4 DEF CopyType, InTurn
  <1>6. CopyOf(mem.at) = copy
    BY <1>4, <1>5 DEF CopyOf
  <1>7. \A n \in Places : mirror'[mem.at][n] = copy
    <2> HIDE DEF copy
    <2>1. Copied(mem.at, 2) = [mirror EXCEPT ![mem.at] = [n \in Places |-> IF n <= 2 THEN copy ELSE @[n]]]
      BY <1>6 DEF Copied
    <2>2. mirror'[mem.at] = [n \in Places |-> IF n <= 2 THEN copy ELSE mirror[mem.at][n]]
      BY <1>1, <1>2, <1>3, <2>1 DEF Things
    <2>3. \A n \in Places : n <= 2
      BY DEF Places
    <2> QED BY <2>2, <2>3
  <1>8. Holds(m.at, type, m.cred)'
    BY <1>2, <1>4, <1>7 DEF Holds
  <1> QED BY <1>2, <1>4, <1>8 DEF Copying

\* A step that goes on with the turn.
LEMMA TurnShapes ==
    ASSUME TypeInv, Shaped, TurnStep
    PROVE  Shaped'
  <1>0. pc \in Turns /\ Labelled'
    BY TurnFrame, TurnLabels
  <1>h. /\ Things /\ mem \in Passes /\ mem # None /\ Aims(pc, mem, repo) /\ InTurn(pc, mem)
        /\ mem.at \in Built \cup Customs /\ mem.at \in Mirrored
        /\ mem.work \subseteq ReposOf(mem.at) /\ ReposOf(mem.at) \subseteq Repos
        /\ pc \in Working /\ mem.at \in mem.todo
        /\ (mem.at \in Customs => mem.at \notin Built /\ mem.at # Nvidia)
        /\ \A c \in Customs \cap (mem.todo \cup mem.keep) : mem.spec.custom[c] # "absent"
    BY <1>0, TurnHeld, ReposApart DEF InTurn, Working, Turns, Shaped, Shape
  <1>1. ASSUME Done(mem.at) \/ Fails(mem.at) PROVE Shaped'
    BY <1>0, <1>1, <1>h, EndShapes
  <1>2. ASSUME NEW stage \in Turns, NEW m, GoTo(stage, m), Same(m, mem), InTurn(stage, m)'
        PROVE  Shaped'
    <2>1. \A c \in Customs \cap (m.todo \cup m.keep) : m.spec.custom[c] # "absent"
      BY <1>2, <1>h DEF Same
    <2>2. Shape(stage, m)'
      BY <1>2, <2>1 DEF Shape, Turns
    <2> QED BY <1>0, <1>2, <2>2, ShapedGoes
  <1> DEFINE Org(m, there) == ~m.tear /\ m.at = Nvidia /\ ~m.spec.mirrored =>
                                there["org"] # None /\ ~there["org"].secret
  <1>3. Org(mem, repo)
    BY <1>h DEF InTurn
  <1>4. CASE WriteMirror
    <2>0. PICK b : GoTo("apply", [mem EXCEPT !.changed = b, !.work = Targets(mem)])
      BY <1>0, <1>4, TargetsOf DEF WriteMirror
    <2>1. pc = "mirror"
      BY <1>4 DEF WriteMirror
    <2> DEFINE n == [mem EXCEPT !.changed = b, !.work = Targets(mem)]
    <2>s. Same(n, mem) /\ n.work = Targets(mem)
      BY <1>h DEF Passes, Same
    <2>t. GoTo("apply", n)
      BY <2>0
    <2> HIDE DEF n
    <2>2. PICK m : GoTo("apply", m) /\ Same(m, mem) /\ m.work = Targets(mem)
      BY <2>t, <2>s
    <2>3. Targets(m)' = m.work /\ Copying(m)' /\ repo' = repo
      BY <1>4, <2>2, WrittenCopies, Alikes DEF WriteMirror, Targets, Carriers
    <2>4. m.work \subseteq ReposOf(m.at)
      BY <1>0, <2>2, TargetsOf DEF Same
    <2>5. InTurn("apply", m)'
      BY <1>h, <1>3, <2>1, <2>2, <2>3, <2>4 DEF InTurn, Same, ReposOf
    <2> QED BY <1>2, <2>2, <2>5 DEF Turns
  <1>5. CASE Unmirror
    <2>1. CASE mem.tear
      BY <1>1, <1>5, <2>1 DEF Unmirror
    <2>2. CASE ~mem.tear
      <3> DEFINE n == [mem EXCEPT !.work = Targets(mem)]
      <3>1. Same(n, mem) /\ n.work = Targets(mem)
        BY <1>h, SameFields
      <3>2. GoTo("apply", n) /\ mirror' = [mirror EXCEPT ![mem.at] = NoCopy] /\ repo' = repo
        BY <1>0, <1>5, <2>2, TargetsOf DEF Unmirror
      <3> HIDE DEF n
      <3>3. PICK m : GoTo("apply", m) /\ Same(m, mem) /\ m.work = Targets(mem)
        BY <3>1, <3>2
      <3>4. mem.at \in Built /\ mem.cred = None
        BY <1>5, <1>h, <2>2 DEF Unmirror, Aims, InTurn
      <3>5. Holds(m.at, "basic", m.cred)'
        BY <1>h, <3>2, <3>3, <3>4 DEF Holds, Same, Things, NoCopy
      <3>6. Copying(m)' /\ m.work = Targets(m) /\ m.work \subseteq ReposOf(m.at)
        BY <1>0, <3>3, <3>4, <3>5, TargetsOf, Alikes DEF Copying, Same
      <3>7. InTurn("apply", m)'
        BY <1>h, <1>3, <2>2, <3>2, <3>3, <3>6 DEF InTurn, Same, Targets, Carriers
      <3> QED BY <1>2, <3>3, <3>7 DEF Turns
    <2> QED BY <2>1, <2>2
  <1>6. CASE Retype
    <2>0. /\ pc = "retype" /\ repo' = repo /\ mem.at \in Customs /\ ~mem.tear
          /\ mem.spec.custom[mem.at] \in {"anonymous", "basic", "ssh"}
          /\ mem.spec.custom[mem.at] = "anonymous" => mem.cred = None
      BY <1>6, <1>h DEF Retype, Aims, InTurn
    <2>1. CASE mem.cred # None
      <3>1. PICK m : GoTo("mirror", m) /\ m = mem
        BY <1>6, <2>1 DEF Retype
      <3>2. InTurn("mirror", m)'
        BY <1>h, <2>0, <3>1 DEF InTurn
      <3> QED BY <1>2, <1>h, <3>1, <3>2 DEF Turns, Same
    <2>2. CASE mem.cred = None /\ mem.spec.custom[mem.at] = "ssh"
      BY <1>1, <1>6, <2>2 DEF Retype, CustomMode
    <2>3. CASE mem.cred = None /\ mem.spec.custom[mem.at] # "ssh"
      <3> DEFINE n == [mem EXCEPT !.work = {mem.at}]
      <3>1. Same(n, mem) /\ n.work = {mem.at}
        BY <1>h, SameFields
      <3>2. GoTo("apply", n)
        BY <1>6, <2>3 DEF Retype, CustomMode
      <3> HIDE DEF n
      <3>3. PICK m : GoTo("apply", m) /\ Same(m, mem) /\ m.work = {mem.at}
        BY <3>1, <3>2
      <3>4. mem.spec.custom[mem.at] = "anonymous" => mirror'[mem.at][1] = None
        BY <1>6, <1>h DEF Retype, Outdated, CustomMode, Things, NoCopy, Places
      <3>5. Copying(m)' /\ Targets(m)' = m.work /\ m.work = ReposOf(m.at)
        BY <1>h, <2>0, <2>3, <3>3, <3>4 DEF Copying, Same, Targets, ReposOf
      <3>6. InTurn("apply", m)'
        BY <1>h, <2>0, <3>3, <3>5 DEF InTurn, Same
      <3> QED BY <1>2, <3>3, <3>6 DEF Turns
    <2> QED BY <2>1, <2>2, <2>3
  <1>7. ASSUME NEW r \in Repos, ApplyRepo(r) PROVE Shaped'
    <2>0. /\ pc = "apply" /\ r \in mem.work /\ mirror' = mirror
          /\ repo' = [repo EXCEPT ![r] = Applied(r, r \in Carriers(mem))]
      BY <1>0, <1>7, TargetsOf DEF ApplyRepo
    <2>1. /\ repo'[r] # None /\ repo'[r].secret = (r \in Carriers(mem))
          /\ r \in Customs => repo'[r].label = "custom"
          /\ \A x \in Repos \ {r} : repo'[x] = repo[x]
      <3> DEFINE secret == r \in Carriers(mem)
      <3>1. secret \in BOOLEAN
        OBVIOUS
      <3> HIDE DEF secret
      <3>2. repo'[r] = Applied(r, secret) /\ Applied(r, secret).secret = secret
        BY <1>h, <2>0 DEF Things, secret, Applied
      <3>3. /\ Applied(r, secret) # None
            /\ r \in Customs => Applied(r, secret).label = "custom"
        BY <1>h, <2>0, <3>1, AppliedTypes DEF TypeInv
      <3> QED BY <1>h, <2>0, <3>2, <3>3 DEF secret, Things
    <2>2. \E stage, m :
            /\ GoTo(stage, m) /\ Same(m, mem)
            /\ \/ stage = "apply" /\ m.work = mem.work \ {r}
               \/ stage = "force" /\ mem.work \subseteq {r} /\ m.work \subseteq Carriers(mem)
      <3> DEFINE w == IF mem.work \ {r} # {} THEN mem.work \ {r}
                      ELSE IF mem.changed THEN Carriers(mem) ELSE {}
                 stage == IF mem.work \ {r} # {} THEN "apply" ELSE "force"
                 n == [mem EXCEPT !.work = w]
      <3>1. GoTo(stage, n)
        BY <1>0, <1>7, TargetsOf DEF ApplyRepo
      <3>2. Same(n, mem) /\ n.work = w
        <4>1. \A v : Same([mem EXCEPT !.work = v], mem) /\ [mem EXCEPT !.work = v].work = v
          BY <1>h, SameFields
        <4> HIDE DEF w
        <4> QED BY <4>1
      <3> HIDE DEF n
      <3> QED BY <3>1, <3>2
    <2>3. PICK stage, m :
            /\ GoTo(stage, m) /\ Same(m, mem)
            /\ \/ stage = "apply" /\ m.work = mem.work \ {r}
               \/ stage = "force" /\ mem.work \subseteq {r} /\ m.work \subseteq Carriers(mem)
      BY <2>2
    <2>4. /\ Targets(m) \subseteq ReposOf(m.at) /\ Carriers(m) \subseteq Targets(m)
          /\ Carriers(m) = Carriers(mem) /\ Targets(m) = Targets(mem)
          /\ Copying(m) /\ m.work \subseteq ReposOf(m.at) /\ m.at = mem.at
          /\ m.at = Nvidia /\ ~m.spec.mirrored => "org" \notin Carriers(m)
      BY <1>0, <1>h, <2>0, <2>3, TargetsOf, Alikes DEF InTurn, Same
    <2>5. \A x \in Targets(m) \ (mem.work \ {r}) : Fits(m, x)'
      <3> TAKE x \in Targets(m) \ (mem.work \ {r})
      <3>1. CASE x = r
        BY <2>1, <2>4, <3>1 DEF Fits, Carriers
      <3>2. CASE x # r
        <4>1. Fits(m, x)
          BY <1>h, <2>0, <2>3, <2>4, <3>2, Alikes DEF InTurn
        <4> QED BY <1>h, <2>1, <2>4, <3>2, <4>1 DEF Fits, Carriers
      <3> QED BY <3>1, <3>2
    <2>6. ~m.tear /\ m.at = Nvidia /\ ~m.spec.mirrored => repo'["org"] # None /\ ~repo'["org"].secret
      BY <1>h, <1>3, <2>1, <2>3, <2>4 DEF Same, Repos, NvRepos
    <2>7. Copying(m)' /\ Targets(m)' = Targets(m)
      BY <2>0, <2>4 DEF Copying, Holds, Targets, Carriers
    <2>8. InTurn(stage, m)'
      BY <1>h, <2>0, <2>3, <2>4, <2>5, <2>6, <2>7 DEF InTurn, Same
    <2> QED BY <1>2, <2>3, <2>8 DEF Turns
  <1>8. ASSUME NEW r \in Repos, ForceUpdate(r) PROVE Shaped'
    <2>1. /\ pc = "force" /\ r \in mem.work /\ mirror' = mirror /\ repo[r] # None
          /\ repo' = [repo EXCEPT ![r] = [repo[r] EXCEPT !.told = mem.cred]]
      BY <1>8, <1>h DEF ForceUpdate, Aims, Things
    <2>2. \A x \in Repos : /\ repo'[x] = repo[x] \/ x = r
                           /\ repo[x] # None => /\ repo'[x] # None /\ repo'[x].label = repo[x].label
                                                /\ repo'[x].secret = repo[x].secret
      <3>0. repo[r] \in RepoObjs /\ mem.cred \in Creds \cup {None}
        BY <1>0, <1>h, <2>1, TurnHeld DEF Things
      <3>1. [repo[r] EXCEPT !.told = mem.cred] \in RepoObjs
        BY <3>0 DEF RepoObjs
      <3> QED BY <1>h, <2>1, <3>1, KindsAssumption DEF Things, RepoObjs
    <2> DEFINE n == [mem EXCEPT !.work = @ \ {r}]
    <2>3. Same(n, mem) /\ n.work = mem.work \ {r}
      BY <1>h, SameFields
    <2>4. GoTo("force", n)
      BY <1>8 DEF ForceUpdate
    <2> HIDE DEF n
    <2>5. PICK m : GoTo("force", m) /\ Same(m, mem) /\ m.work = mem.work \ {r}
      BY <2>3, <2>4
    <2>6. /\ Targets(m) \subseteq ReposOf(m.at) /\ Targets(m) = Targets(mem) /\ Copying(m)
          /\ m.at = mem.at /\ Carriers(m) = Carriers(mem)
      BY <1>0, <1>h, <2>1, <2>5, TargetsOf, Alikes DEF InTurn, Same
    <2>7. \A x \in Targets(m) : Fits(m, x)'
      <3>1. \A x \in Targets(m) : Fits(m, x)
        BY <1>h, <2>1, <2>5, <2>6, Alikes DEF InTurn
      <3> QED BY <1>h, <2>2, <2>6, <3>1 DEF Fits, Carriers
    <2>8. Copying(m)' /\ Targets(m)' = Targets(m)
      BY <2>1, <2>6 DEF Copying, Holds, Targets, Carriers
    <2>9. InTurn("force", m)'
      BY <1>h, <1>3, <2>1, <2>2, <2>5, <2>7, <2>8 DEF InTurn, Same, Repos, NvRepos
    <2> QED BY <1>2, <2>5, <2>9 DEF Turns
  <1>9. ASSUME NEW r \in Repos, DropRepo(r) PROVE Shaped'
    <2>1. /\ pc = "drop" /\ r \in mem.work /\ mem.tear
          /\ repo' = [repo EXCEPT ![r] = None]
      BY <1>9, <1>h DEF DropRepo, InTurn
    <2> DEFINE n == [mem EXCEPT !.work = mem.work \ {r}]
               where == IF mem.work \ {r} = {} THEN "unmirror" ELSE "drop"
    <2>2. Same(n, mem) /\ n.work = mem.work \ {r}
      BY <1>h, SameFields
    <2>3. GoTo(where, n)
      BY <1>9 DEF DropRepo
    <2> HIDE DEF n
    <2>4. PICK stage, m : /\ GoTo(stage, m) /\ Same(m, mem) /\ m.work = mem.work \ {r}
                          /\ stage = IF m.work = {} THEN "unmirror" ELSE "drop"
      BY <2>2, <2>3
    <2>5. \A x \in ReposOf(m.at) \ m.work : repo'[x] = None
      BY <1>h, <2>1, <2>4 DEF InTurn, Same, Things
    <2>6. InTurn(stage, m)'
      BY <1>h, <2>1, <2>4, <2>5 DEF InTurn, Same, ReposOf
    <2> QED BY <1>2, <2>4, <2>6 DEF Turns
  <1>10. CASE Forced \/ MirrorFails \/ DropFails \/ ApplyFails \/ ForceFails \/ RetypeFails
    BY <1>1, <1>10 DEF Forced, MirrorFails, DropFails, ApplyFails, ForceFails, RetypeFails
  <1> QED BY <1>4, <1>5, <1>6, <1>7, <1>8, <1>9, <1>10 DEF TurnStep

\* The start of a pass, Fleet's repository and the catalogs.
LEMMA StartShapes ==
    ASSUME TypeInv, Shaped,
           \/ BeginPass \/ Wire \/ WireFails \/ GitPruned
           \/ \E g \in GitRepos : ApplyGit(g) \/ GitFails(g) \/ PruneGit(g) \/ PruneGitFails(g)
    PROVE  Shaped'
  <1>1. Labelled'
    <2>1. repo' = repo
      BY DEF BeginPass, Wire, WireFails, GitPruned, ApplyGit, GitFails, GivesUp, PruneGit, PruneGitFails,
             objects
    <2> QED BY <2>1 DEF Shaped, Labelled
  <1>2. ASSUME NEW stage \in {"wire", "git"}, pc' = stage, mem'.todo \subseteq GitRepos, mem'.keep = {}
        PROVE  Shaped'
    BY <1>1, <1>2 DEF Shaped, Shape, Working, Turns
  <1>3. CASE BeginPass
    BY <1>2, <1>3 DEF BeginPass
  <1>4. CASE WireFails
    BY <1>1, <1>4, ShapedEnds DEF WireFails
  <1>5. CASE Wire
    <2>0. mem \in Passes /\ mem.todo \subseteq GitRepos /\ mem.keep = {} /\ pc' = "git"
      BY <1>5, Held DEF TypeInv, Wire, Shaped, Shape, Onward
    <2>1. mem' = mem \/ \E new : mem' = [mem EXCEPT !.spec = new]
      <3>1. CASE Onward("git", mem)
        BY <3>1 DEF Onward
      <3>2. CASE ~Onward("git", mem)
        <4>1. \E e \in [Built -> Refs] :
                LET new == [spec EXCEPT !.refs = [r \in Built |->
                              IF r \in Wired(e) THEN e[r] ELSE @[r]]]
                IN  pc' = "git" /\ mem' = [mem EXCEPT !.spec = new]
          BY <1>5, <3>2 DEF Wire
        <4> QED BY <4>1
      <3> QED BY <3>1, <3>2
    <2>2. mem'.todo = mem.todo /\ mem'.keep = mem.keep
      BY <2>0, <2>1 DEF Passes
    <2> QED BY <1>2, <2>0, <2>2
  <1>6. ASSUME pc = "git", \/ GoTo("git", mem) \/ ToRegistries \/ EndPass(TRUE)
                           \/ \E g \in GitRepos : GitDone(g)
        PROVE  Shaped'
    <2>0. mem \in Passes /\ mem # None /\ mem.todo \subseteq GitRepos /\ mem.keep = {}
      BY <1>6, Held DEF TypeInv, Shaped, Shape
    <2>1. CASE GoTo("git", mem)
      BY <1>2, <2>0, <2>1 DEF GoTo
    <2>2. CASE ToRegistries
      <3> DEFINE n == [mem EXCEPT !.todo = Built]
      <3>f. n.todo = Built /\ n.keep = {}
        BY <2>0, ListFields
      <3>g. GoTo("next", n)
        BY <2>2 DEF ToRegistries
      <3> HIDE DEF n
      <3>1. PICK m : GoTo("next", m) /\ m.todo = Built /\ m.keep = {}
        BY <3>f, <3>g
      <3>2. Customs \cap Built = {}
        BY KindsAssumption
      <3> QED BY <1>1, <3>1, <3>2, ShapedGoes DEF Shape, Turns
    <2>3. ASSUME NEW g \in GitRepos, GitDone(g) PROVE Shaped'
      <3>1. pc' = "git" /\ mem' = [mem EXCEPT !.todo = @ \ {g}]
        BY <2>3 DEF GitDone, GoTo
      <3>2. mem'.todo = mem.todo \ {g} /\ mem'.keep = {}
        BY <2>0, <3>1 DEF Passes
      <3> QED BY <1>2, <2>0, <3>1, <3>2
    <2> QED BY <1>1, <1>6, <2>1, <2>2, <2>3, ShapedEnds
  <1>7. CASE GitPruned
    BY <1>6, <1>7 DEF GitPruned
  <1>8. ASSUME NEW g \in GitRepos, ApplyGit(g) \/ GitFails(g) PROVE Shaped'
    BY <1>6, <1>8 DEF ApplyGit, GitFails, GivesUp, GitTurn
  <1>9. ASSUME NEW g \in GitRepos, PruneGit(g) \/ PruneGitFails(g) PROVE Shaped'
    BY <1>6, <1>9 DEF PruneGit, PruneGitFails
  <1> QED BY <1>3, <1>4, <1>5, <1>7, <1>8, <1>9

\* What the beginning of a registry's turn leaves of ClusterRepos.
LEMMA OrgFields ==
    ASSUME TypeInv, Turn(Nvidia), repo' = OrgApplied(Nvidia)
    PROVE  /\ \A x \in Repos \ {"org"} : repo'[x] = repo[x]
           /\ mem.spec.mirrored => repo' = repo
           /\ ~mem.spec.mirrored => repo'["org"] # None /\ ~repo'["org"].secret
  <1>1. Things /\ "org" \in Repos /\ pc # "idle" /\ TypeOK
    BY TypesOfThings DEF TypeInv, Repos, NvRepos, Turn
  <1>2. Applied("org", FALSE) # None /\ ~Applied("org", FALSE).secret
    BY <1>1, AppliedTypes DEF Applied
  <1> QED BY <1>1, <1>2 DEF OrgApplied, Things

\* A registry's turn begins.
LEMMA RegistryShapes ==
    ASSUME TypeInv, Shaped, NEW r \in Built, TearDown(r) \/ SetUp(r) \/ TurnFails(r)
    PROVE  Shaped'
  <1>1. /\ Turn(r) /\ pc = "next" /\ r \in mem.todo /\ mem \in Passes /\ mem # None
        /\ Shape(pc, mem) /\ r \in Mirrored /\ r \notin Customs /\ Labelled /\ pc \in Working
    BY Held, KindsAssumption
       DEF TearDown, SetUp, TurnFails, Turn, Shaped, Mirrored, TypeInv, Working
  <1>2. Labelled'
    <2>1. repo' = repo \/ repo' = OrgApplied(r)
      BY DEF TearDown, SetUp, TurnFails, objects
    <2>2. "org" \notin Customs /\ Customs \subseteq Repos
      BY KindsAssumption DEF NvRepos, Repos
    <2> QED BY <1>1, <2>1, <2>2, TypesOfThings DEF OrgApplied, Labelled, Things, TypeInv
  <1>3. CASE TurnFails(r)
    BY <1>1, <1>2, <1>3, EndShapes DEF TurnFails
  <1>4. \A c \in Customs \cap (mem.todo \cup mem.keep) : mem.spec.custom[c] # "absent"
    BY <1>1 DEF Shape
  <1>5. CASE TearDown(r)
    <2> DEFINE w == IF r = Nvidia THEN NvRepos ELSE {r}
    <2>1. w = ReposOf(r)
      BY DEF ReposOf
    <2> HIDE DEF w
    <2>p. PICK e \in Refs : Onward("drop", Holding(r, Obtained(r, e), TRUE, w))
      BY <1>5 DEF TearDown, w
    <2>2. PICK cred : Onward("drop", Holding(r, cred, TRUE, w))
      BY <2>p
    <2> DEFINE n == Holding(r, cred, TRUE, w)
    <2>3. /\ n.at = r /\ n.tear /\ n.work = ReposOf(r) /\ n.todo = mem.todo
          /\ n.keep = mem.keep /\ n.spec = mem.spec
      BY <1>1, <2>1 DEF Holding, Passes
    <2>4. Onward("drop", n)
      BY <2>2
    <2> HIDE DEF n
    <2>5. PICK m : /\ Onward("drop", m) /\ m.at = r /\ m.tear /\ m.work = ReposOf(r) /\ r \in m.todo
                   /\ \A c \in Customs \cap (m.todo \cup m.keep) : m.spec.custom[c] # "absent"
      BY <1>1, <1>4, <2>3, <2>4
    <2>6. Shape("drop", m)'
      BY <1>1, <2>5 DEF Shape, InTurn
    <2> QED BY <1>2, <2>5, <2>6, ShapedGoes
  <1>6. CASE SetUp(r)
    <2>0. PICK e \in Refs :
            Onward(IF Obtained(r, e) = None THEN "unmirror" ELSE "mirror",
                   Holding(r, Obtained(r, e), FALSE, {}))
      BY <1>6 DEF SetUp
    <2>1. PICK stage, cred : /\ Onward(stage, Holding(r, cred, FALSE, {}))
                             /\ stage = IF cred = None THEN "unmirror" ELSE "mirror"
      BY <2>0
    <2> DEFINE n == Holding(r, cred, FALSE, {})
    <2>2. /\ n.at = r /\ n.tear = FALSE /\ n.work = {} /\ n.todo = mem.todo /\ n.cred = cred
          /\ n.spec = mem.spec /\ n.keep = mem.keep
      BY <1>1 DEF Holding, Passes
    <2>3. Onward(stage, n)
      BY <2>1
    <2> HIDE DEF n
    <2>4. PICK m : /\ Onward(stage, m) /\ m.at = r /\ m.tear = FALSE /\ m.work = {} /\ r \in m.todo
                   /\ m.cred = cred /\ m.spec = mem.spec
                   /\ \A c \in Customs \cap (m.todo \cup m.keep) : m.spec.custom[c] # "absent"
      BY <1>1, <1>4, <2>2, <2>3
    <2>5. r = Nvidia /\ ~m.spec.mirrored => repo'["org"] # None /\ ~repo'["org"].secret
      BY <1>1, <1>6, <2>4, OrgFields DEF SetUp
    <2>6. Shape(stage, m)'
      BY <1>1, <2>1, <2>4, <2>5 DEF Shape, InTurn
    <2> QED BY <1>2, <2>4, <2>6, ShapedGoes
  <1> QED BY <1>3, <1>5, <1>6

\* Custom repositories, what is left of those no longer listed, the status.
LEMMA CustomShapes ==
    ASSUME TypeInv, Keeping, Shaped,
           \/ ToCustoms \/ ToPrune \/ UnmirrorPruned \/ PruneFails \/ Pruned
           \/ Status \/ StatusFails
           \/ \E c \in Customs : SkipCustom(c) \/ StartCustom(c) \/ CustomFails(c) \/ PruneRepo(c)
    PROVE  Shaped'
  <1>0. /\ pc \in {"next", "prune", "unmirrorPruned", "status"} /\ mem \in Passes /\ mem # None
        /\ Things /\ Shape(pc, mem) /\ Labelled
    <2>1. pc \in {"next", "prune", "unmirrorPruned", "status"}
      BY DEF ToCustoms, ToPrune, UnmirrorPruned, PruneFails, Pruned, Status, StatusFails, SkipCustom,
             CustomTurn, StartCustom, CustomFails, PruneRepo
    <2> QED BY <2>1, Held, TypesOfThings DEF TypeInv, Shaped
  <1>1. Labelled'
    <2>1. repo' = repo \/ \E c \in Customs : repo' = [repo EXCEPT ![c] = None]
      BY DEF ToCustoms, ToPrune, UnmirrorPruned, PruneFails, Pruned, Status, StatusFails, SkipCustom,
             StartCustom, CustomFails, PruneRepo, objects
    <2> QED BY <1>0, <2>1 DEF Labelled, Things, Repos
  <1>2. pc # "status" => \A c \in Customs \cap (mem.todo \cup mem.keep) : mem.spec.custom[c] # "absent"
    BY <1>0 DEF Shape, Working
  <1>3. ASSUME NEW m, NEW stage \in {"next", "prune", "unmirrorPruned", "status"},
               GoTo(stage, m), m.spec = mem.spec, m.keep = mem.keep, pc # "status",
               \A c \in m.todo \ mem.todo : m.spec.custom[c] # "absent"
        PROVE  Shaped'
    <2>1. Shape(stage, m)'
      BY <1>2, <1>3 DEF Shape, Turns
    <2> QED BY <1>1, <1>3, <2>1, ShapedGoes
  <1>4. CASE ToCustoms
    <2> DEFINE t == {c \in Customs : CustomMode(c) # "absent"}
               m == [mem EXCEPT !.at = None, !.todo = t]
    <2>1. GoTo("next", m) /\ pc = "next"
      BY <1>4 DEF ToCustoms
    <2>2. m.todo = t /\ m.keep = mem.keep /\ m.spec = mem.spec
      BY <1>0, ListFields
    <2> HIDE DEF m
    <2> QED BY <1>3, <2>1, <2>2 DEF CustomMode
  <1>5. ASSUME NEW c \in Customs, SkipCustom(c) \/ CustomFails(c) PROVE Shaped'
    <2>0. pc = "next" /\ c \in mem.todo /\ c \in Mirrored /\ pc \in Working
      BY <1>5 DEF SkipCustom, CustomFails, CustomTurn, Mirrored, Working
    <2>1. CASE Done(c) \/ Fails(c)
      BY <1>0, <1>1, <2>0, <2>1, EndShapes
    <2>2. CASE ~(Done(c) \/ Fails(c))
      <3> DEFINE m == [mem EXCEPT !.todo = @ \ {c}, !.failed = TRUE]
      <3>1. GoTo("next", m)
        BY <1>5, <2>2 DEF SkipCustom, CustomFails
      <3>2. m.todo = mem.todo \ {c} /\ m.keep = mem.keep /\ m.spec = mem.spec
        BY <1>0, ListFields
      <3> HIDE DEF m
      <3> QED BY <1>3, <2>0, <3>1, <3>2
    <2> QED BY <2>1, <2>2
  <1>6. ASSUME NEW c \in Customs, StartCustom(c) PROVE Shaped'
    <2>0. /\ pc = "next" /\ c \in mem.todo /\ c \notin Built /\ c # Nvidia
          /\ mem.spec.custom[c] \in {"anonymous", "basic", "ssh"}
      <3>1. mem.spec.custom[c] \in Modes
        BY <1>0 DEF Passes, Specs
      <3> QED BY <1>2, <1>6, <3>1, ReposApart DEF StartCustom, CustomTurn, CustomMode, Modes
    <2>1. PICK cred : /\ GoTo("retype", Holding(c, cred, FALSE, {}))
                      /\ mem.spec.custom[c] = "anonymous" => cred = None
      BY <1>6 DEF StartCustom, CustomMode
    <2> DEFINE n == Holding(c, cred, FALSE, {})
    <2>2. /\ n.at = c /\ n.tear = FALSE /\ n.work = {} /\ n.todo = mem.todo /\ n.cred = cred
          /\ n.spec = mem.spec /\ n.keep = mem.keep
      BY <1>0 DEF Holding, Passes
    <2>3. GoTo("retype", n)
      BY <2>1
    <2> HIDE DEF n
    <2>4. PICK m : /\ GoTo("retype", m)
                   /\ m.at = c /\ m.tear = FALSE /\ m.work = {} /\ m.todo = mem.todo
                   /\ m.cred = cred /\ m.spec = mem.spec /\ m.keep = mem.keep
      BY <2>2, <2>3
    <2>5. \A d \in Customs \cap (m.todo \cup m.keep) : m.spec.custom[d] # "absent"
      BY <1>2, <2>0, <2>4
    <2>6. m.at \in m.todo /\ m.at = c /\ m.spec.custom[c] \in {"anonymous", "basic", "ssh"}
          /\ (m.spec.custom[c] = "anonymous" => m.cred = None)
      BY <2>0, <2>1, <2>4
    <2>7. Shape("retype", m)'
      BY <2>0, <2>4, <2>5, <2>6 DEF Shape, InTurn
    <2> QED BY <1>1, <2>4, <2>7, ShapedGoes
  <1>7. CASE ToPrune \/ UnmirrorPruned \/ Pruned
    <2>1. pc # "status" /\ \E stage \in {"prune", "status"} : GoTo(stage, mem)
      BY <1>7 DEF ToPrune, UnmirrorPruned, Pruned
    <2> QED BY <1>3, <2>1
  <1>8. ASSUME NEW c \in Customs, PruneRepo(c) PROVE Shaped'
    <2> DEFINE m == [mem EXCEPT !.at = c]
    <2>1. GoTo("unmirrorPruned", m) /\ pc = "prune"
      BY <1>8 DEF PruneRepo
    <2>2. m.todo = mem.todo /\ m.keep = mem.keep /\ m.spec = mem.spec
      BY <1>0, ListFields
    <2> HIDE DEF m
    <2> QED BY <1>3, <2>1, <2>2
  <1>9. CASE PruneFails
    <2> DEFINE m == [mem EXCEPT !.failed = TRUE]
    <2>1. GoTo("status", m) /\ pc # "status"
      BY <1>9 DEF PruneFails
    <2>2. m.todo = mem.todo /\ m.keep = mem.keep /\ m.spec = mem.spec
      BY <1>0 DEF Passes
    <2> HIDE DEF m
    <2> QED BY <1>3, <2>1, <2>2
  <1>10. CASE Status \/ StatusFails
    <2>1. mem' = None
      BY <1>10 DEF Status, StatusFails, EndPass
    <2> QED BY <1>1, <2>1 DEF Shaped
  <1> QED BY <1>4, <1>5, <1>6, <1>7, <1>8, <1>9, <1>10

\* Saves, edits, other people's repositories, restarts.
LEMMA OutsideShapes ==
    ASSUME TypeInv, Shaped, Save \/ Others \/ Restart \/ UNCHANGED vars
    PROVE  Shaped'
  <1>1. ASSUME UNCHANGED <<pc, mem, mirror>>,
               \A x \in Repos : \/ repo'[x] = repo[x]
                                \/ x \in Customs /\ repo[x] = None /\ repo'[x].label = "foreign"
        PROVE  Shaped'
    <2>1. Labelled' /\ Customs \subseteq Repos
      BY <1>1 DEF Shaped, Labelled, Repos
    <2>2. ASSUME mem # None PROVE Shape(pc, mem)'
      <3>1. /\ Shape(pc, mem) /\ pc \notin {"idle"} /\ mem \in Passes /\ Aims(pc, mem, repo)
            /\ TypeOK
        BY <2>2, Held DEF Shaped, TypeInv, TypeOK
      <3>2. ASSUME pc \in Turns, InTurn(pc, mem) PROVE InTurn(pc, mem)'
        <4>1. mem.at \in Built \cup Customs /\ ReposOf(mem.at) \subseteq Repos
              /\ (pc \in {"drop", "unmirror"} => mem.at \in Built)
          BY <3>1, <3>2, ReposApart DEF Aims, Turns
        <4>2. \A x \in ReposOf(mem.at) : pc \in {"drop", "unmirror"} => repo'[x] = repo[x]
          BY <1>1, <4>1, ReposApart
        <4>3. Targets(mem)' = Targets(mem) /\ Targets(mem) \subseteq Repos
          BY <1>1, <3>2, <4>1, TargetsOf DEF Targets, Carriers
        <4>4. \A x \in Repos : Fits(mem, x) => Fits(mem, x)'
          BY <1>1 DEF Fits, Carriers
        <4>5. Copying(mem)' <=> Copying(mem)
          BY <1>1 DEF Copying, Holds
        <4>6. "org" \in Repos /\ (repo["org"] # None => repo'["org"] = repo["org"])
          BY <1>1 DEF Repos, NvRepos
        <4>7. /\ pc = "apply" => \A x \in Targets(mem)' \ mem'.work : Fits(mem, x)'
              /\ pc = "force" => \A x \in Targets(mem)' : Fits(mem, x)'
          BY <1>1, <3>2, <4>3, <4>4 DEF InTurn
        <4>8. /\ pc = "drop" => mem.tear /\ \A x \in ReposOf(mem.at) \ mem.work : repo'[x] = None
              /\ pc = "unmirror" => IF mem.tear THEN \A x \in ReposOf(mem.at) : repo'[x] = None
                                    ELSE mem.cred = None
          BY <3>2, <4>2 DEF InTurn
        <4>9. ReposOf(mem.at)' = ReposOf(mem.at)
          BY <1>1 DEF ReposOf
        <4> QED BY <1>1, <3>2, <4>5, <4>6, <4>7, <4>8, <4>9 DEF InTurn
      <3> QED BY <1>1, <3>1, <3>2 DEF Shape
    <2> QED BY <1>1, <2>1, <2>2 DEF Shaped
  <1>2. CASE Restart
    <2>1. mem' = None /\ repo' = repo
      BY <1>2 DEF Restart
    <2> QED BY <2>1 DEF Shaped, Labelled
  <1>3. CASE Save
    <2>1. UNCHANGED <<repo, pc, mem, mirror>>
      BY <1>3 DEF Save, SaveBegin, SaveClear, SaveApply, SaveFails, objects
    <2> QED BY <1>1, <2>1
  <1>4. ASSUME NEW c \in Customs, TakeName(c) PROVE Shaped'
    <2> DEFINE o == [label |-> "foreign", secret |-> FALSE, told |-> None]
    <2>1. UNCHANGED <<pc, mem, mirror>> /\ repo[c] = None /\ repo' = [repo EXCEPT ![c] = o]
      BY <1>4 DEF TakeName
    <2>2. \A x \in Repos : \/ repo'[x] = repo[x]
                           \/ x \in Customs /\ repo[x] = None /\ repo'[x].label = "foreign"
      BY <2>1, TypesOfThings DEF TypeInv, Things
    <2> QED BY <1>1, <2>1, <2>2
  <1>5. CASE Others /\ ~\E c \in Customs : TakeName(c)
    <2>1. UNCHANGED <<repo, pc, mem, mirror>>
      BY <1>5 DEF Others, Rotate, RotateKnown, Discover, RotateCA, HandEdit, HelmRemove, objects
    <2> QED BY <1>1, <2>1
  <1>6. CASE UNCHANGED vars
    BY <1>1, <1>6 DEF vars, objects
  <1> QED BY <1>2, <1>3, <1>4, <1>5, <1>6

LEMMA StepShaped ==
    ASSUME TypeInv, Keeping, Shaped, [Next]_vars
    PROVE  Shaped'
  <1>1. CASE Pass
    BY <1>1, StartShapes, RegistryShapes, TurnShapes, CustomShapes DEF Pass, TurnStep
  <1> QED BY <1>1, OutsideShapes DEF Next

-----------------------------------------------------------------------------
(* What a pass has settled.  It stays so, or the pass is to run again.     *)

BuiltSettled(k) ==
    k \in astray \/ IF k = Nvidia THEN NvidiaSettled ELSE RegistrySettled(k)

Settled ==
    /\ \A r \in Registries : r \in astray \/ RegistrySettled(r)
    /\ Nvidia \in astray \/ NvidiaSettled
    /\ FleetSettled /\ \A c \in Customs : CustomSettled(c)

\* A pass is by what is now in Settings and Secrets, and what it is done with is
\* settled, unless it has failed.
Settles(stage, m) ==
    /\ m.spec = spec
    /\ stage = "wire" => m.todo = GitRepos
    /\ stage # "wire" /\ (stage = "git" => Fleet \notin m.todo) => FleetSettled
    /\ stage \in Working => \A k \in Built \ m.todo : BuiltSettled(k)
    /\ stage \in Working /\ Late(stage, m) /\ ~m.failed =>
         \A c \in Customs \ m.todo : spec.custom[c] # "absent" => CustomSettled(c)
    /\ stage \in Turns /\ m.at \notin astray =>
         m.cred = CredOf(m.at) /\ (m.at \in Built => m.tear = Gone(m.at))
    /\ stage = "unmirrorPruned" => spec.custom[m.at] = "absent"
    /\ stage = "status" /\ ~m.failed => Settled

Settling == ~queued => IF mem = None THEN Settled ELSE Settles(pc, mem)

\* Nothing changes that a settled object goes by.
Calm ==
    /\ spec' = spec
    /\ \A k \in Built :
         /\ Read(k, spec.refs[k])' = Read(k, spec.refs[k])
         /\ HasRefs(k, spec.refs[k])' = HasRefs(k, spec.refs[k])
    /\ \A c \in Customs : spec.custom[c] \in {"basic", "ssh"} => source'[c] = source[c]
    /\ \A g \in GitRepos : spec.git[g] = "basic" => source'[g] = source[g]

\* What the controller goes by does not change behind its back.
LEMMA StepCalm ==
    ASSUME TypeInv, [Next]_vars
    PROVE  Calm \/ queued'
  <1> Things BY TypesOfThings DEF TypeInv
  <1>1. ASSUME UNCHANGED <<spec, source, known>> PROVE Calm
    BY <1>1 DEF Calm, Read, Pair, HasRefs, Effective
  <1>2. CASE Pass
    <2>1. UNCHANGED <<spec, source, known>> \/ Wire
      <3>1. CASE BeginPass \/ WireFails \/ GitPruned
        BY <3>1 DEF BeginPass, WireFails, GitPruned, settings, secrets
      <3>2. ASSUME NEW g \in GitRepos, ApplyGit(g) \/ GitFails(g) \/ PruneGit(g) \/ PruneGitFails(g)
            PROVE  UNCHANGED <<spec, source, known>>
        BY <3>2 DEF ApplyGit, GitFails, PruneGit, PruneGitFails, settings, secrets
      <3>3. ASSUME NEW r \in Built, TearDown(r) \/ SetUp(r) \/ TurnFails(r)
            PROVE  UNCHANGED <<spec, source, known>>
        BY <3>3 DEF TearDown, SetUp, TurnFails, LookedUp, settings
      <3>4. ASSUME TurnStep PROVE UNCHANGED <<spec, source, known>>
        BY <3>4 DEF TurnStep, WriteMirror, MirrorFails, Unmirror, DropFails, ApplyFails, ForceFails,
                    Forced, Retype, RetypeFails, ApplyRepo, ForceUpdate, DropRepo, settings, secrets
      <3>5. CASE ToCustoms \/ ToPrune \/ UnmirrorPruned \/ PruneFails \/ Pruned \/ Status \/ StatusFails
        BY <3>5 DEF ToCustoms, ToPrune, UnmirrorPruned, PruneFails, Pruned, Status, StatusFails,
                    settings, secrets
      <3>6. ASSUME NEW c \in Customs, SkipCustom(c) \/ StartCustom(c) \/ CustomFails(c) \/ PruneRepo(c)
            PROVE  UNCHANGED <<spec, source, known>>
        BY <3>6 DEF SkipCustom, StartCustom, CustomFails, PruneRepo, settings, secrets
      <3> QED BY <1>2, <3>1, <3>2, <3>3, <3>4, <3>5, <3>6 DEF Pass, TurnStep
    <2>2. Wire => UNCHANGED <<spec, source, known>> \/ queued'
      <3> SUFFICES ASSUME Wire PROVE UNCHANGED <<spec, source, known>> \/ queued'
        OBVIOUS
      <3>1. UNCHANGED <<source, known>>
        BY DEF Wire
      <3>2. UNCHANGED settings \/ queued' = TRUE
        <4>1. \E e \in [Built -> Refs] : UNCHANGED settings \/ queued' = TRUE
          BY DEF Wire
        <4> QED BY <4>1
      <3> QED BY <3>1, <3>2 DEF settings
    <2> QED BY <1>1, <2>1, <2>2
  <1>3. CASE Save
    <2>1. UNCHANGED <<spec, source, known>> \/ queued'
      BY <1>3 DEF Save, SaveBegin, SaveClear, SaveApply, SaveFails, settings, secrets
    <2> QED BY <1>1, <2>1
  <1>4. ASSUME NEW k \in Keyed, NEW new, Rotate(k, new), ~queued' PROVE Calm
    <2>1. ~Referenced(k) /\ spec' = spec /\ known' = known /\ source' = [source EXCEPT ![k] = new]
      BY <1>4 DEF Rotate, settings
    <2>2. \A l \in Keyed \ {k} : source'[l] = source[l]
      BY <2>1 DEF Things
    <2>3. /\ Built \subseteq Keyed /\ Customs \subseteq Keyed /\ GitRepos \subseteq Keyed
          /\ Customs \cap Built = {} /\ GitRepos \cap (Built \cup Customs) = {}
      BY KindsAssumption DEF Keyed, Mirrored
    <2>4. /\ k \in Built => spec.refs[k] # "explicit"
          /\ k \in Customs => spec.custom[k] \notin {"basic", "ssh"}
          /\ k \in GitRepos => spec.git[k] # "basic"
      BY <2>1, <2>3 DEF Referenced
    <2>5. \A l \in Built : source'[l] = source[l] \/ spec.refs[l] # "explicit"
      BY <2>2, <2>3, <2>4
    <2>6. \A l \in Built : /\ Read(l, spec.refs[l])' = Read(l, spec.refs[l])
                           /\ HasRefs(l, spec.refs[l])' = HasRefs(l, spec.refs[l])
      BY <2>1, <2>5 DEF Read, Pair, HasRefs, Effective
    <2> QED BY <2>1, <2>2, <2>3, <2>4, <2>6 DEF Calm
  <1>5. CASE Others
    <2>1. ASSUME NEW c \in Customs, TakeName(c) PROVE Calm
      BY <1>1, <2>1 DEF TakeName, settings, secrets
    <2> QED BY <1>4, <1>5, <2>1 DEF Others, RotateKnown, Discover, RotateCA, HandEdit, HelmRemove
  <1>6. CASE Restart
    BY <1>6 DEF Restart
  <1>7. CASE UNCHANGED vars
    BY <1>1, <1>7 DEF vars, settings, secrets
  <1> QED BY <1>2, <1>3, <1>5, <1>6, <1>7 DEF Next

\* What is settled stays so while its own objects do.
LEMMA BuiltStays ==
    ASSUME Calm, NEW k \in Built, mirror'[k] = mirror[k], \A x \in ReposOf(k) : repo'[x] = repo[x],
           k \in astray' <=> k \in astray
    PROVE  BuiltSettled(k)' <=> BuiltSettled(k)
  <1>1. \A type, cred : Holds(k, type, cred)' <=> Holds(k, type, cred)
    BY DEF Holds
  <1>2. CASE k # Nvidia
    <2>1. repo'[k] = repo[k]
      BY <1>2 DEF ReposOf
    <2>2. RegistrySettled(k)' <=> RegistrySettled(k)
      BY <1>1, <2>1 DEF RegistrySettled, Calm, Holds
    <2> QED BY <1>2, <2>2 DEF BuiltSettled
  <1>3. CASE k = Nvidia
    <2>1. \A x \in NvRepos : repo'[x] = repo[x]
      BY <1>3 DEF ReposOf
    <2>2. {x \in NvRepos : repo'[x] # None} = {x \in NvRepos : repo[x] # None}
      BY <2>1
    <2>3. {x \in {x \in NvRepos : repo'[x] # None} : repo'[x].secret}
            = {x \in {x \in NvRepos : repo[x] # None} : repo[x].secret}
      BY <2>1
    <2>4. NvidiaSettled' <=> NvidiaSettled
      BY <1>1, <1>3, <2>2, <2>3 DEF NvidiaSettled, Calm, Holds
    <2> QED BY <1>3, <2>4 DEF BuiltSettled
  <1> QED BY <1>2, <1>3

LEMMA CustomStays ==
    ASSUME Calm, Things, NEW c \in Customs, mirror'[c] = mirror[c], repo'[c] = repo[c]
    PROVE  CustomSettled(c)' <=> CustomSettled(c)
  <1>1. spec'.custom[c] = spec.custom[c] /\ spec.custom[c] \in Modes
    BY DEF Calm, Things, Specs
  <1>2. CASE spec.custom[c] \in {"absent", "invalid", "anonymous"}
    BY <1>1, <1>2 DEF CustomSettled, Holds
  <1>3. CASE spec.custom[c] \in {"basic", "ssh"}
    <2>1. source'[c] = source[c]
      BY <1>3 DEF Calm
    <2> QED BY <1>1, <1>3, <2>1 DEF CustomSettled, Holds
  <1> QED BY <1>1, <1>2, <1>3 DEF Modes

LEMMA FleetStays ==
    ASSUME Calm, git'[Fleet] = git[Fleet], mirror'[Fleet] = mirror[Fleet]
    PROVE  FleetSettled' <=> FleetSettled
  BY KindsAssumption DEF Calm, FleetSettled

LEMMA CredStays ==
    ASSUME Calm, Things, NEW k \in Built \cup Customs,
           k \in Customs => spec.custom[k] \in {"anonymous", "basic", "ssh"}
    PROVE  CredOf(k)' = CredOf(k) /\ (k \in Built => Gone(k)' = Gone(k))
  <1>1. CredOf(k)' = CredOf(k)
    <2>1. CASE k \in Built
      BY <2>1 DEF CredOf, Calm
    <2>2. CASE k \notin Built
      BY <2>2 DEF CredOf, Calm
    <2> QED BY <2>1, <2>2
  <1>2. k \in Built => Gone(k)' = Gone(k)
    BY <1>1 DEF Gone, Calm
  <1> QED BY <1>1, <1>2

\* A custom repository whose turn ends well is settled.
LEMMA CustomDone ==
    ASSUME TypeInv, Shaped, Settles(pc, mem), Forced, mem.at \in Customs
    PROVE  CustomSettled(mem.at)
  <1> DEFINE c == mem.at
             mode == spec.custom[c]
  <1>1. pc = "force" /\ pc \in Turns
    BY DEF Forced, Turns
  <1>2. /\ InTurn(pc, mem) /\ mem.spec = spec /\ mem.cred = CredOf(c)
        /\ c \notin Built /\ c # Nvidia
    <2>1. c \notin Built /\ c # Nvidia /\ Things /\ InTurn(pc, mem)
      BY <1>1, TurnHeld, ReposApart
    <2>2. c \notin astray
      BY <2>1 DEF Things
    <2> QED BY <1>1, <2>1, <2>2 DEF Settles
  <1>3. Targets(mem) = {c} /\ Fits(mem, c) /\ Copying(mem)
    BY <1>1, <1>2 DEF InTurn, Targets
  <1>4. mode \in {"anonymous", "basic", "ssh"} /\ mem.cred = IF mode = "anonymous" THEN None ELSE source[c]
    BY <1>2 DEF InTurn, CredOf
  <1>5. c \in Carriers(mem) <=> mem.cred # None
    BY <1>2 DEF Carriers
  <1>6. /\ repo[c] # None /\ repo[c].label = "custom"
        /\ repo[c].secret = (mode # "anonymous" /\ source[c] # None)
    BY <1>3, <1>4, <1>5 DEF Fits
  <1>7. IF repo[c].secret THEN Holds(c, mode, source[c])
        ELSE mode = "anonymous" => mirror[c][1] = None
    BY <1>2, <1>3, <1>4, <1>6 DEF Copying
  <1> QED BY <1>4, <1>6, <1>7 DEF CustomSettled

\* A registry that is set up is settled.
LEMMA BuiltForced ==
    ASSUME TypeInv, Shaped, Settles(pc, mem), Forced, Calm, NEW k \in Built, k = mem.at
    PROVE  BuiltSettled(k)'
  <1> DEFINE cred == Read(k, spec.refs[k])
             refs == HasRefs(k, spec.refs[k])
  <1>a. astray' = astray
    BY DEF Forced, secrets
  <1> SUFFICES ASSUME k \notin astray PROVE BuiltSettled(k)'
    BY <1>a DEF BuiltSettled
  <1>1. pc = "force" /\ pc \in Turns /\ mirror' = mirror
    BY DEF Forced, Turns
  <1>2. /\ InTurn(pc, mem) /\ mem.spec = spec /\ mem.cred = cred /\ Things
        /\ ~Gone(k) /\ k \notin Customs
    BY <1>1, TurnHeld, ReposApart DEF Settles, CredOf, InTurn
  <1>3. Copying(mem) /\ \A x \in Targets(mem) : Fits(mem, x)
    BY <1>1, <1>2 DEF InTurn
  <1>4. Holds(k, "basic", cred)
    BY <1>2, <1>3 DEF Copying
  <1>5. CASE k # Nvidia
    <2>1. cred # None
      BY <1>2, <1>5 DEF Gone, CredOf
    <2>2. repo' = repo /\ repo[k] # None /\ repo[k].secret
      BY <1>2, <1>3, <1>5, <2>1 DEF Targets, Fits, Carriers, Forced
    <2>3. RegistrySettled(k)
      BY <1>4, <2>1, <2>2 DEF RegistrySettled
    <2> QED BY <1>1, <1>2, <1>5, <1>a, <2>2, <2>3, BuiltStays DEF BuiltSettled
  <1>6. CASE k = Nvidia
    <2> DEFINE there == {x \in NvRepos : repo'[x] # None}
    <2>0. "org" \in Repos /\ "gated" \in Repos /\ "public" \in Repos
      BY DEF Repos, NvRepos
    <2>1. CASE spec.mirrored
      <3>1. ~(refs /\ cred = None) /\ repo' = repo /\ Targets(mem) = NvRepos
        BY <1>2, <1>6, <2>1 DEF Gone, CredOf, Forced, Targets
      <3>2. \A x \in NvRepos : repo[x] # None /\ repo[x].secret = (cred # None)
        BY <1>2, <1>3, <1>6, <2>1, <3>1 DEF Fits, Carriers
      <3>3. /\ {x \in NvRepos : repo[x] # None} = NvRepos
            /\ {x \in NvRepos : repo[x].secret} = IF cred = None THEN {} ELSE NvRepos
        BY <3>2
      <3>4. NvidiaSettled
        BY <1>4, <1>6, <2>1, <3>1, <3>3 DEF NvidiaSettled
      <3> QED BY <1>1, <1>2, <1>6, <1>a, <3>1, <3>4, BuiltStays DEF BuiltSettled
    <2>2. CASE ~spec.mirrored
      <3>1. refs /\ repo["org"] # None /\ ~repo["org"].secret
        BY <1>1, <1>2, <1>6, <2>2 DEF Gone, InTurn
      <3>2. CASE cred = None
        <4>1. repo' = [repo EXCEPT !["gated"] = None]
          BY <1>2, <1>6, <2>2, <3>2 DEF Forced
        <4>2. repo["public"] # None /\ ~repo["public"].secret
          BY <1>2, <1>3, <1>6, <2>2, <3>2 DEF Targets, Fits, Carriers
        <4>3. repo'["gated"] = None /\ repo'["org"] = repo["org"] /\ repo'["public"] = repo["public"]
          BY <1>2, <2>0, <4>1 DEF Things
        <4>4. there = {"org", "public"} /\ {x \in there : repo'[x].secret} = {}
          BY <3>1, <4>2, <4>3 DEF NvRepos
        <4>5. Holds(Nvidia, "basic", None)'
          BY <1>1, <1>4, <1>6, <3>2 DEF Holds
        <4>6. NvidiaSettled'
          BY <1>6, <2>2, <3>1, <3>2, <4>4, <4>5 DEF NvidiaSettled, Calm
        <4> QED BY <1>6, <4>6 DEF BuiltSettled
      <3>3. CASE cred # None
        <4>1. repo' = repo /\ Targets(mem) = {"public", "gated"} /\ Carriers(mem) = {"gated"}
          BY <1>2, <1>6, <2>2, <3>3 DEF Forced, Targets, Carriers
        <4>2. /\ repo["public"] # None /\ ~repo["public"].secret
              /\ repo["gated"] # None /\ repo["gated"].secret
          <5>1. Fits(mem, "public") /\ Fits(mem, "gated")
            BY <1>3, <4>1
          <5> QED BY <4>1, <5>1 DEF Fits
        <4>3. /\ {x \in NvRepos : repo[x] # None} = NvRepos
              /\ {x \in NvRepos : repo[x].secret} = {"gated"}
          BY <3>1, <4>2 DEF NvRepos
        <4>4. NvidiaSettled
          BY <1>4, <1>6, <2>2, <3>1, <3>3, <4>3 DEF NvidiaSettled
        <4> QED BY <1>1, <1>2, <1>6, <1>a, <4>1, <4>4, BuiltStays DEF BuiltSettled
      <3> QED BY <3>2, <3>3
    <2> QED BY <2>1, <2>2
  <1> QED BY <1>5, <1>6

\* So is one that is torn down.
LEMMA BuiltTornDown ==
    ASSUME TypeInv, Shaped, Settles(pc, mem), Unmirror, mem.tear, Calm, NEW k, k = mem.at
    PROVE  k \in Built /\ BuiltSettled(k)'
  <1> DEFINE cred == Read(k, spec.refs[k])
             refs == HasRefs(k, spec.refs[k])
  <1>a. astray' = astray
    BY DEF Unmirror, secrets
  <1>b. k \in Built
    BY TurnHeld DEF Aims, Unmirror, Turns
  <1> SUFFICES ASSUME k \notin astray PROVE k \in Built /\ BuiltSettled(k)'
    BY <1>a, <1>b DEF BuiltSettled
  <1>1. pc = "unmirror" /\ pc \in Turns /\ repo' = repo /\ mirror' = [mirror EXCEPT ![k] = NoCopy]
    BY DEF Unmirror, Turns
  <1>2. /\ InTurn(pc, mem) /\ mem.cred = CredOf(k) /\ Things /\ Gone(k) /\ k \in Built /\ k \in Mirrored
    BY <1>1, TurnHeld, ReposApart DEF Settles, Aims
  <1>3. \A x \in ReposOf(k) : repo'[x] = None
    BY <1>1, <1>2 DEF InTurn
  <1>4. cred = None /\ (k = Nvidia /\ ~spec.mirrored => ~refs) /\ (k = Nvidia /\ spec.mirrored => refs)
    <2>1. ~refs => cred = None
      BY DEF HasRefs, Read, Pair
    <2> QED BY <1>2, <2>1 DEF Gone, CredOf
  <1>5. Holds(k, "basic", None)'
    BY <1>1, <1>2 DEF Holds, NoCopy, Things
  <1>6. CASE k # Nvidia
    <2>1. repo'[k] = None
      BY <1>3, <1>6 DEF ReposOf
    <2>2. Read(k, spec.refs[k])' = None
      BY <1>2, <1>4 DEF Calm
    <2>3. RegistrySettled(k)'
      <3>1. \A n \in Places : mirror'[k][n] = None
        BY <1>5 DEF Holds
      <3> QED BY <2>1, <2>2, <3>1 DEF RegistrySettled, Holds
    <2> QED BY <1>2, <1>6, <2>3 DEF BuiltSettled
  <1>7. CASE k = Nvidia
    <2>1. {x \in NvRepos : repo'[x] # None} = {}
      BY <1>3, <1>7 DEF ReposOf
    <2>a. {x \in {x \in NvRepos : repo'[x] # None} : repo'[x].secret} = {}
      BY <2>1
    <2>b. /\ Read(Nvidia, spec.refs[Nvidia])' = None /\ spec' = spec
          /\ HasRefs(Nvidia, spec.refs[Nvidia])' = spec.mirrored
          /\ spec.mirrored \in BOOLEAN
      BY <1>2, <1>4, <1>7 DEF Calm, HasRefs, Things, Specs
    <2>c. Holds(Nvidia, "basic", None)'
      BY <1>5, <1>7
    <2>2. NvidiaSettled'
      BY <2>1, <2>a, <2>b, <2>c DEF NvidiaSettled
    <2> QED BY <1>2, <1>7, <2>2 DEF BuiltSettled
  <1> QED BY <1>2, <1>6, <1>7

LEMMA SettlingGoes ==
    ASSUME Settling, TypeInv, TypeInv', pc # "idle", NEW stage, stage # "idle", NEW m,
           GoTo(stage, m) \/ Onward(stage, m),
           (~queued /\ Settles(pc, mem)) => Settles(stage, m)'
    PROVE  Settling'
  <1>1. mem # None /\ mem' # None
    BY Held DEF TypeInv, TypeOK, GoTo, Onward
  <1>2. queued => queued'
    BY DEF GoTo, Onward
  <1> QED BY <1>1, <1>2 DEF Settling, GoTo, Onward

\* A turn.
LEMMA TurnSettles ==
    ASSUME TypeInv, Keeping, Shaped, Settling, TurnStep
    PROVE  Settling'
  <1> SUFFICES ASSUME ~queued'
               PROVE  Settling'
    BY DEF Settling
  <1>1. /\ pc \in Turns /\ OnlyAt(mem.at) /\ UNCHANGED <<spec, git, astray>>
        /\ \/ Fails(mem.at)
           \/ Done(mem.at) /\ (Forced \/ (Unmirror /\ mem.tear))
           \/ \E stage \in Turns : \E m : GoTo(stage, m) /\ Same(m, mem)
    BY TurnFrame DEF settings, secrets
  <1>2. Calm /\ TypeInv'
    BY StepCalm, StepTypes DEF Next, Pass, TurnStep
  <1>3. /\ Things /\ mem \in Passes /\ mem # None /\ InTurn(pc, mem) /\ mem.at \in Built \cup Customs
        /\ ReposOf(mem.at) \subseteq Repos /\ pc \in Working /\ mem.at \in mem.todo
        /\ pc # "wire" /\ pc # "git" /\ pc # "status" /\ pc # "idle" /\ pc # "unmirrorPruned"
    BY <1>1, TurnHeld DEF InTurn, Working, Turns
  <1>4. ~queued
    BY <1>1 DEF GoTo, Fails, Done, EndPass
  <1>5. Settles(pc, mem)
    BY <1>3, <1>4 DEF Settling
  <1>6. FleetSettled'
    <2>1. Fleet \in Mirrored /\ Fleet # mem.at
      BY <1>3, ReposApart, KindsAssumption DEF Mirrored
    <2> QED BY <1>1, <1>2, <1>3, <1>5, <2>1, FleetStays DEF Settles, OnlyAt
  <1>7. \A k \in Built \ mem.todo : BuiltSettled(k)'
    <2> SUFFICES ASSUME NEW k \in Built, k \notin mem.todo PROVE BuiltSettled(k)'
      OBVIOUS
    <2>1. mirror'[k] = mirror[k] /\ \A x \in ReposOf(k) : repo'[x] = repo[x]
      BY <1>1, <1>3, ReposApart DEF OnlyAt
    <2> QED BY <1>1, <1>2, <1>3, <1>5, <2>1, BuiltStays DEF Settles
  <1>8. Late(pc, mem) /\ ~mem.failed =>
          \A c \in Customs \ mem.todo : spec.custom[c] # "absent" => CustomSettled(c)'
    <2> SUFFICES ASSUME Late(pc, mem), ~mem.failed, NEW c \in Customs, c \notin mem.todo,
                        spec.custom[c] # "absent"
                 PROVE  CustomSettled(c)'
      OBVIOUS
    <2>1. mirror'[c] = mirror[c] /\ repo'[c] = repo[c]
      <3>1. c # mem.at /\ c \in Mirrored /\ ReposOf(c) = {c} /\ ReposOf(c) \cap ReposOf(mem.at) = {}
            /\ c \in Repos
        BY <1>3, ReposApart DEF Repos
      <3> QED BY <1>1, <3>1 DEF OnlyAt
    <2> QED BY <1>2, <1>3, <1>5, <2>1, CustomStays DEF Settles
  <1>9. ASSUME NEW stage \in Turns, NEW m, GoTo(stage, m), Same(m, mem)
        PROVE  Settling'
    <2>1. Late(stage, m) => Late(pc, mem)
      BY <1>1, <1>3, <1>9 DEF Late, Same, Turns
    <2>2. m.at \notin astray => m.cred = CredOf(m.at) /\ (m.at \in Built => m.tear = Gone(m.at))
      BY <1>1, <1>5, <1>9 DEF Settles, Same
    <2>3. CredOf(m.at)' = CredOf(m.at) /\ (m.at \in Built => Gone(m.at)' = Gone(m.at))
      <3>1. m.at \in Customs => spec.custom[m.at] \in {"anonymous", "basic", "ssh"}
        BY <1>3, <1>5, <1>9 DEF InTurn, Settles, Same
      <3>2. m.at \in Built \cup Customs
        BY <1>3, <1>9 DEF Same
      <3> QED BY <1>2, <1>3, <3>1, <3>2, CredStays
    <2>4. \A k \in Built \ m.todo : BuiltSettled(k)'
      BY <1>7, <1>9 DEF Same
    <2>5. Late(stage, m) /\ ~m.failed =>
            \A c \in Customs \ m.todo : spec.custom[c] # "absent" => CustomSettled(c)'
      BY <1>8, <1>9, <2>1 DEF Same
    <2>6. Late(stage, m)' <=> Late(stage, m)
      BY DEF Late
    <2>7. Settles(stage, m)'
      BY <1>1, <1>5, <1>6, <1>9, <2>2, <2>3, <2>4, <2>5, <2>6 DEF Settles, Same, Turns
    <2> QED BY <1>2, <1>3, <1>9, <2>7, SettlingGoes DEF Turns
  <1>10. CASE (Done(mem.at) /\ (Forced \/ (Unmirror /\ mem.tear))) \/ Fails(mem.at)
    <2>1. PICK k : k = mem.at
      OBVIOUS
    <2>2. PICK m : /\ GoTo("next", m) /\ Ending(m, mem, k)
                   /\ m.failed = mem.failed \/ Fails(k)
                   /\ Fails(k) => m.failed /\ k \in Customs
      <3>1. ~EndPass(TRUE)
        BY DEF EndPass
      <3> QED BY <1>3, <1>10, <2>1, <3>1, EndingFields
    <2>3. /\ m.at = k /\ m.spec = spec /\ m.todo = mem.todo \ {k}
          /\ k \in Built \cup Customs /\ k # None /\ (k \in Customs <=> k \notin Built)
      BY <1>3, <1>5, <2>1, <2>2, ReposApart DEF Ending, Settles
    <2>4. ~Fails(k) /\ k \in Customs => CustomSettled(k)'
      <3> SUFFICES ASSUME ~Fails(k), k \in Customs PROVE CustomSettled(k)'
        OBVIOUS
      <3>1. Forced /\ mem.at \in Customs /\ k # Nvidia
        BY <1>3, <1>10, <2>1, ReposApart DEF InTurn
      <3>2. CustomSettled(k)
        BY <1>5, <2>1, <3>1, CustomDone
      <3>3. repo' = repo /\ mirror' = mirror
        BY <2>1, <3>1 DEF Forced
      <3> QED BY <1>2, <1>3, <3>2, <3>3, CustomStays
    <2>5. k \in Built => BuiltSettled(k)'
      BY <1>2, <1>5, <1>10, <2>1, <2>2, <2>3, BuiltForced, BuiltTornDown
    <2>6. \A l \in Built \ m.todo : BuiltSettled(l)'
      BY <1>7, <2>3, <2>5
    <2>7. Late("next", m) => Late(pc, mem) /\ k \in Customs
      BY <2>1, <2>3 DEF Late
    <2>8. Late("next", m) /\ ~m.failed =>
            \A c \in Customs \ m.todo : spec.custom[c] # "absent" => CustomSettled(c)'
      BY <1>8, <2>2, <2>3, <2>4, <2>7
    <2>9. Late("next", m)' <=> Late("next", m)
      BY DEF Late
    <2>10. Settles("next", m)'
      BY <1>1, <1>6, <2>3, <2>6, <2>8, <2>9 DEF Settles, Turns
    <2> QED BY <1>2, <1>3, <2>2, <2>10, SettlingGoes
  <1> QED BY <1>1, <1>9, <1>10

\* The start of a pass, Fleet's repository and the catalogs.
LEMMA StartSettles ==
    ASSUME TypeInv, Keeping, Shaped, Settling,
           \/ BeginPass \/ Wire \/ WireFails \/ GitPruned
           \/ \E g \in GitRepos : ApplyGit(g) \/ GitFails(g) \/ PruneGit(g) \/ PruneGitFails(g)
    PROVE  Settling'
  <1> SUFFICES ASSUME ~queued'
               PROVE  Settling'
    BY DEF Settling
  <1>0. Calm /\ TypeInv' /\ Things /\ Fleet \in GitRepos /\ Fleet \in Mirrored
    BY StepCalm, StepTypes, TypesOfThings, KindsAssumption DEF Next, Pass, TypeInv, Mirrored
  <1>a. astray' = astray
    BY DEF BeginPass, Wire, WireFails, GitPruned, ApplyGit, GitFails, PruneGit, PruneGitFails, secrets
  <1>1. CASE BeginPass
    <2>1. pc' = "wire" /\ mem'.spec = spec' /\ mem'.todo = GitRepos
      BY <1>0, <1>1 DEF BeginPass, Calm
    <2>2. Settles(pc, mem)'
      BY <2>1 DEF Settles, Working, Turns
    <2>3. mem' # None
      BY <1>0, <2>1 DEF TypeInv, TypeOK
    <2> QED BY <2>2, <2>3 DEF Settling
  <1>2. CASE WireFails
    BY <1>2 DEF WireFails, EndPass
  <1>3. CASE Wire
    <2>1. pc = "wire" /\ Onward("git", mem) /\ mem # None
      <3>1. \E e \in [Built -> Refs] : Onward("git", mem) \/ queued' = TRUE
        BY <1>3 DEF Wire
      <3> QED BY <1>3, <3>1, Held DEF Wire, TypeInv
    <2>2. PICK m : m = mem
      OBVIOUS
    <2>3. Settles(pc, mem) => Settles("git", m)'
      BY <1>0, <2>1, <2>2 DEF Settles, Working, Turns, Calm
    <2> QED BY <1>0, <2>1, <2>2, <2>3, SettlingGoes
  <1>4. ASSUME NEW stage \in {"git", "next"}, NEW m, GoTo(stage, m), m.spec = mem.spec, pc = "git",
               stage = "git" => (Settles(pc, mem) /\ Fleet \notin m.todo => FleetSettled'),
               stage = "next" => /\ m.at = None /\ m.todo = Built
                                 /\ (Settles(pc, mem) => FleetSettled')
        PROVE  Settling'
    <2>1. Nvidia \in Built
      BY DEF Built
    <2>2. stage = "next" => ~Late(stage, m)'
      BY <1>4, <2>1, KindsAssumption DEF Late, Keyed, Mirrored
    <2>3. Settles(pc, mem) => Settles(stage, m)'
      BY <1>0, <1>4, <2>2 DEF Settles, Working, Turns, Calm
    <2> QED BY <1>0, <1>4, <2>3, SettlingGoes
  <1>5. ASSUME pc = "git" PROVE mem \in Passes /\ mem.at = None /\ mem # None
    BY <1>5, Held DEF TypeInv, Keeping, Keeps
  <1>6. ASSUME pc = "git", ToRegistries, Settles(pc, mem) => FleetSettled' PROVE Settling'
    <2> DEFINE n == [mem EXCEPT !.todo = Built]
    <2>1. n.todo = Built /\ n.at = None /\ n.spec = mem.spec
      BY <1>5, <1>6, ListFields
    <2>2. GoTo("next", n)
      BY <1>6 DEF ToRegistries
    <2> HIDE DEF n
    <2> QED BY <1>4, <1>6, <2>1, <2>2
  <1>7. ASSUME NEW g \in GitRepos, pc = "git", GitDone(g),
               Settles(pc, mem) /\ (g = Fleet \/ Fleet \notin mem.todo) => FleetSettled'
        PROVE  Settling'
    <2> DEFINE n == [mem EXCEPT !.todo = @ \ {g}]
    <2>1. n.todo = mem.todo \ {g} /\ n.spec = mem.spec
      BY <1>5, <1>7 DEF Passes
    <2>2. GoTo("git", n)
      BY <1>7 DEF GitDone
    <2> HIDE DEF n
    <2>3. Settles(pc, mem) /\ Fleet \notin n.todo => FleetSettled'
      BY <1>7, <2>1
    <2> QED BY <1>4, <1>7, <2>1, <2>2, <2>3
  <1>8. CASE GitPruned
    <2>1. pc = "git" /\ ToRegistries /\ mem.todo = {} /\ git' = git /\ mirror' = mirror
      BY <1>8 DEF GitPruned, objects
    <2>2. Settles(pc, mem) => FleetSettled'
      BY <1>0, <2>1, FleetStays DEF Settles
    <2> QED BY <1>6, <2>1, <2>2
  <1>9. ASSUME NEW g \in GitRepos, PruneGit(g) \/ PruneGitFails(g) PROVE Settling'
    <2>1. /\ pc = "git" /\ mem.todo = {} /\ g # Fleet
          /\ git' \in {git, [git EXCEPT ![g] = FALSE]}
          /\ mirror' \in {mirror, [mirror EXCEPT ![g] = NoCopy]}
          /\ GoTo("git", mem) \/ ToRegistries
      BY <1>9 DEF PruneGit, PruneGitFails, GitUnwanted, Catalogs
    <2>2. git'[Fleet] = git[Fleet] /\ mirror'[Fleet] = mirror[Fleet]
      BY <1>0, <2>1 DEF Things
    <2>3. Settles(pc, mem) => FleetSettled'
      BY <1>0, <2>1, <2>2, FleetStays DEF Settles
    <2> QED BY <1>4, <1>6, <2>1, <2>3
  <1>10. ASSUME NEW g \in GitRepos, mirror' \in {mirror, GitCopied(g)},
                g # Fleet => git'[Fleet] = git[Fleet], pc = "git", g # Fleet, Fleet \notin mem.todo,
                Settles(pc, mem)
         PROVE  FleetSettled'
    <2>1. mirror'[Fleet] = mirror[Fleet]
      BY <1>0, <1>10 DEF GitCopied, Things
    <2> QED BY <1>0, <1>10, <2>1, FleetStays DEF Settles
  <1>11. ASSUME NEW g \in GitRepos, GitFails(g) PROVE Settling'
    <2>1. g # Fleet /\ GitDone(g) /\ Fleet \notin mem.todo /\ pc = "git"
      BY <1>11 DEF GitFails, GivesUp, GitTurn, EndPass
    <2>2. mirror' \in {mirror, GitCopied(g)} /\ git' = git
      BY <1>11 DEF GitFails
    <2> QED BY <1>7, <1>10, <2>1, <2>2
  <1>12. ASSUME NEW g \in GitRepos, ApplyGit(g) PROVE Settling'
    <2>1. /\ GitDone(g) /\ pc = "git" /\ (g = Fleet \/ Fleet \notin mem.todo)
          /\ mirror' \in {mirror, GitCopied(g)}
          /\ \E b : git' = [git EXCEPT ![g] = b] \/ git' = git
      BY <1>12 DEF ApplyGit, GitTurn
    <2>2. g # Fleet => git'[Fleet] = git[Fleet]
      BY <1>0, <2>1 DEF Things
    <2>3. ASSUME g = Fleet, Settles(pc, mem) PROVE FleetSettled'
      <3>0. spec' = spec /\ mem.spec = spec /\ source' = source
        BY <1>0, <1>12, <2>3 DEF Settles, Calm, ApplyGit, secrets
      <3>1. CASE GitMode(g) = "absent"
        <4>1. git' = [git EXCEPT ![g] = FALSE]
          BY <1>12, <2>3, <3>1 DEF ApplyGit, GitUsable
        <4> QED BY <1>0, <2>3, <3>0, <3>1, <4>1 DEF FleetSettled, GitMode, Things
      <3>2. CASE GitUsable(g)
        <4>1. git' = [git EXCEPT ![g] = TRUE] /\ mirror' = GitCopied(g)
          BY <1>12, <3>2 DEF ApplyGit, GitUsable
        <4>2. git'[Fleet] /\ spec.git[Fleet] # "absent"
          BY <1>0, <2>3, <3>0, <3>2, <4>1 DEF GitUsable, GitMode, Things
        <4>3. ASSUME spec.git[Fleet] = "basic" PROVE mirror'[Fleet][2].cred = source[Fleet]
          <5> DEFINE copy == [type |-> "basic", cred |-> source[g]]
          <5>1. mirror' = [mirror EXCEPT ![g][2] = copy]
            BY <2>3, <3>0, <3>2, <4>1, <4>3 DEF GitCopied, GitMode, GitUsable
          <5>2. copy.cred = source[g]
            OBVIOUS
          <5> HIDE DEF copy
          <5>3. mirror'[g][2] = copy
            BY <1>0, <2>3, <5>1 DEF Things, Places
          <5> QED BY <2>3, <5>2, <5>3
        <4> QED BY <3>0, <4>2, <4>3 DEF FleetSettled
      <3> QED BY <1>12, <3>1, <3>2 DEF ApplyGit
    <2> QED BY <1>7, <1>10, <2>1, <2>2, <2>3
  <1> QED BY <1>1, <1>2, <1>3, <1>8, <1>9, <1>11, <1>12

\* A registry's turn begins.
LEMMA RegistrySettles ==
    ASSUME TypeInv, Keeping, Shaped, Settling, NEW r \in Built, TearDown(r) \/ SetUp(r) \/ TurnFails(r)
    PROVE  Settling'
  <1> SUFFICES ASSUME ~queued'
               PROVE  Settling'
    BY DEF Settling
  <1>0. Calm /\ TypeInv' /\ Things
    BY StepCalm, StepTypes, TypesOfThings DEF Next, Pass, TypeInv
  <1>1. /\ Turn(r) /\ pc = "next" /\ r \in mem.todo /\ mem \in Passes /\ mem # None
        /\ Ordered(mem) /\ r \notin Customs /\ Nvidia \notin Customs /\ Nvidia # None
        /\ r # None /\ mirror' = mirror /\ UNCHANGED <<spec, git, source, known>>
    BY Held, KindsAssumption, ReposApart
       DEF TearDown, SetUp, TurnFails, LookedUp, Turn, Keeping, Keeps, Working, TypeInv, settings,
           Built
  <1>2. ~TurnFails(r)
    BY <1>1 DEF TurnFails, Fails, EndPass
  <1>3. \A x \in Repos \ ReposOf(r) : repo'[x] = repo[x]
    <2>1. repo' = repo \/ repo' = OrgApplied(r)
      BY <1>2 DEF TearDown, SetUp
    <2> QED BY <1>0, <2>1 DEF OrgApplied, Things, ReposOf, NvRepos
  <1>4. PICK e \in Refs, stage \in {"drop", "mirror", "unmirror"}, tear \in BOOLEAN : \E work :
          /\ Onward(stage, Holding(r, Obtained(r, e), tear, work))
          /\ LooksUp(r, e) /\ tear = TornDown(r, e, Obtained(r, e))
    <2>1. CASE TearDown(r)
      <3> DEFINE w == IF r = Nvidia THEN NvRepos ELSE {r}
      <3>1. PICK e \in Refs : /\ LooksUp(r, e) /\ TornDown(r, e, Obtained(r, e))
                             /\ Onward("drop", Holding(r, Obtained(r, e), TRUE, w))
        BY <2>1 DEF TearDown
      <3>2. TornDown(r, e, Obtained(r, e)) = TRUE
        BY <3>1 DEF TornDown
      <3> HIDE DEF w
      <3> QED BY <3>1, <3>2
    <2>2. CASE SetUp(r)
      <3>1. PICK e \in Refs : /\ LooksUp(r, e) /\ ~TornDown(r, e, Obtained(r, e))
                             /\ Onward(IF Obtained(r, e) = None THEN "unmirror" ELSE "mirror",
                                       Holding(r, Obtained(r, e), FALSE, {}))
        BY <2>2 DEF SetUp
      <3> DEFINE s == IF Obtained(r, e) = None THEN "unmirror" ELSE "mirror"
      <3>2. TornDown(r, e, Obtained(r, e)) = FALSE
        BY <3>1 DEF TornDown
      <3>3. s \in {"drop", "mirror", "unmirror"} /\ Onward(s, Holding(r, Obtained(r, e), FALSE, {}))
        BY <3>1
      <3> HIDE DEF s
      <3> QED BY <3>1, <3>2, <3>3
    <2> QED BY <1>2, <2>1, <2>2
  <1>b. PICK cred, work :
          /\ Onward(stage, Holding(r, cred, tear, work))
          /\ cred = Obtained(r, e) /\ tear = TornDown(r, e, cred)
    BY <1>4
  <1>c. /\ \A k \in Built : k # r => (k \in astray' <=> k \in astray)
        /\ r \notin astray' => /\ e = Effective(r, mem.spec.refs[r])
                             /\ cred = Read(r, mem.spec.refs[r])
    <2>1. CASE astray' = astray \cup {r}
      BY <2>1
    <2>2. CASE astray' # astray \cup {r}
      <3>1. e = Effective(r, mem.spec.refs[r]) /\ Completed(r, e, TRUE) /\ astray' = astray \ {r}
        BY <1>4, <2>2 DEF LooksUp
      <3>2. Obtained(r, e) = Pair(r, e)
        BY <3>1 DEF Obtained, Completed
      <3> QED BY <1>b, <3>1, <3>2 DEF Read
    <2> QED BY <2>1, <2>2
  <1> DEFINE n == Holding(r, cred, tear, work)
  <1>5. n.at = r /\ n.cred = cred /\ n.tear = tear /\ n.spec = mem.spec /\ n.todo = mem.todo
    BY <1>1 DEF Holding, Passes
  <1>6. Onward(stage, n)
    BY <1>b
  <1> HIDE DEF n
  <1>7. PICK m : /\ Onward(stage, m) /\ m.at = r /\ m.cred = cred /\ m.tear = tear
                 /\ m.spec = mem.spec /\ m.todo = mem.todo
    BY <1>5, <1>6
  <1>8. ASSUME Settles(pc, mem) PROVE Settles(stage, m)'
    <2>1. mem.spec = spec /\ FleetSettled /\ \A k \in Built \ mem.todo : BuiltSettled(k)
      BY <1>1, <1>8 DEF Settles, Working
    <2>2. FleetSettled'
      BY <1>0, <1>1, <2>1, FleetStays
    <2>3. \A k \in Built \ mem.todo : BuiltSettled(k)'
      <3> TAKE k \in Built \ mem.todo
      <3>1. \A x \in ReposOf(k) : repo'[x] = repo[x]
        BY <1>1, <1>3, ReposApart
      <3> QED BY <1>0, <1>1, <1>c, <2>1, <3>1, BuiltStays
    <2>4. ~Late(stage, m)'
      BY <1>1, <1>7 DEF Late
    <2>5. r \notin astray' => m.cred = CredOf(r)
      BY <1>c, <1>7, <2>1 DEF CredOf
    <2>a. r \notin astray' => tear = Gone(r)
      BY <1>b, <1>c, <2>1 DEF TornDown, Gone, CredOf, HasRefs
    <2>6. CredOf(r)' = CredOf(r) /\ Gone(r)' = Gone(r)
      BY <1>0, <1>1, CredStays
    <2>7. /\ m.spec = spec' /\ stage \in Turns /\ stage \notin {"wire", "git", "unmirrorPruned", "status"}
          /\ m.todo = mem.todo
      BY <1>0, <1>7, <2>1 DEF Turns, Calm
    <2>8. (m.at \notin astray => m.cred = CredOf(m.at) /\ (m.at \in Built => m.tear = Gone(m.at)))'
      BY <1>7, <2>5, <2>a, <2>6
    <2> QED BY <2>2, <2>3, <2>4, <2>7, <2>8 DEF Settles
  <1> QED BY <1>0, <1>1, <1>7, <1>8, SettlingGoes

\* Custom repositories, what is left of those no longer listed, the status.
LEMMA CustomSettles ==
    ASSUME TypeInv, Keeping, Shaped, Settling,
           \/ ToCustoms \/ ToPrune \/ UnmirrorPruned \/ PruneFails \/ Pruned
           \/ Status \/ StatusFails
           \/ \E c \in Customs : SkipCustom(c) \/ StartCustom(c) \/ CustomFails(c) \/ PruneRepo(c)
    PROVE  Settling'
  <1> SUFFICES ASSUME ~queued'
               PROVE  Settling'
    BY DEF Settling
  <1>0. Calm /\ TypeInv' /\ Things
    BY StepCalm, StepTypes, TypesOfThings DEF Next, Pass, TypeInv
  <1>1. /\ pc \in {"next", "prune", "unmirrorPruned", "status"} /\ mem \in Passes /\ mem # None
        /\ Aims(pc, mem, repo) /\ Keeps(pc, mem, repo) /\ Shape(pc, mem) /\ Labelled
        /\ pc # "status" => pc \in Working /\ Ordered(mem)
        /\ pc # "wire" /\ pc # "git" /\ pc # "idle"
    <2>1. pc \in {"next", "prune", "unmirrorPruned", "status"}
      BY DEF ToCustoms, ToPrune, UnmirrorPruned, PruneFails, Pruned, Status, StatusFails, SkipCustom,
             CustomTurn, StartCustom, CustomFails, PruneRepo
    <2> QED BY <2>1, Held DEF TypeInv, Keeping, Keeps, Working, Shaped
  <1>2. /\ Customs \cap Built = {} /\ Nvidia \in Built /\ Registries \subseteq Built
        /\ None \notin Customs \cup Built /\ Customs \subseteq Mirrored /\ Built \subseteq Mirrored
        /\ Nvidia \notin Registries /\ Built = Registries \cup {Nvidia}
        /\ Fleet \in Mirrored \ Customs /\ Customs \subseteq Repos
        /\ \A k \in Built : ReposOf(k) \subseteq Repos \ Customs
    BY KindsAssumption, ReposApart DEF Built, Mirrored, Keyed, Repos
  <1>3. /\ \A x \in Repos \ Customs : repo'[x] = repo[x]
        /\ \A k \in Mirrored \ Customs : mirror'[k] = mirror[k]
        /\ git' = git
    <2>1. \/ UNCHANGED <<repo, mirror, git>>
          \/ \E c \in Customs : repo' = [repo EXCEPT ![c] = None] /\ UNCHANGED <<mirror, git>>
          \/ /\ mirror' \in {[mirror EXCEPT ![mem.at] = NoCopy]} \cup HalfDeleted(mem.at)
             /\ mem.at \in Customs /\ UNCHANGED <<repo, git>>
      BY <1>1 DEF ToCustoms, ToPrune, UnmirrorPruned, PruneFails, Pruned, Status, StatusFails, SkipCustom,
                  StartCustom, CustomFails, PruneRepo, objects, Aims
    <2> QED BY <1>0, <2>1 DEF Things, HalfDeleted
  <1>a. astray' = astray
    BY DEF ToCustoms, ToPrune, UnmirrorPruned, PruneFails, Pruned, Status, StatusFails, SkipCustom,
           StartCustom, CustomFails, PruneRepo, secrets
  <1>4. (FleetSettled' <=> FleetSettled) /\ \A k \in Built : BuiltSettled(k)' <=> BuiltSettled(k)
    <2>1. ASSUME NEW k \in Built PROVE BuiltSettled(k)' <=> BuiltSettled(k)
      BY <1>0, <1>2, <1>3, <1>a, BuiltStays
    <2> QED BY <1>0, <1>2, <1>3, <2>1, FleetStays
  <1>5. ASSUME NEW stage \in {"next", "retype", "prune", "unmirrorPruned", "status"}, NEW m,
               GoTo(stage, m), m.spec = mem.spec, pc # "status",
               \A k \in Built : k \notin m.todo => k \notin mem.todo,
               Settles(pc, mem) /\ Late(stage, m) /\ ~m.failed =>
                 \A c \in Customs \ m.todo : spec.custom[c] # "absent" => CustomSettled(c)',
               stage = "unmirrorPruned" => spec.custom[m.at] = "absent",
               stage = "retype" /\ Settles(pc, mem) => m.cred = CredOf(m.at)' /\ m.at \notin Built,
               stage = "status" /\ Settles(pc, mem) /\ ~m.failed => Settled'
        PROVE  Settling'
    <2>1. ASSUME Settles(pc, mem) PROVE Settles(stage, m)'
      <3>1. /\ mem.spec = spec /\ spec' = spec /\ FleetSettled
            /\ \A k \in Built \ mem.todo : BuiltSettled(k)
        BY <1>0, <1>1, <1>5, <2>1 DEF Settles, Calm
      <3>2. \A k \in Built \ m.todo : BuiltSettled(k)'
        BY <1>4, <1>5, <3>1
      <3>3. Late(stage, m)' <=> Late(stage, m)
        BY DEF Late
      <3> QED BY <1>4, <1>5, <2>1, <3>1, <3>2, <3>3 DEF Settles, Turns
    <2> QED BY <1>0, <1>1, <1>5, <2>1, SettlingGoes
  <1>6. ASSUME NEW c \in Customs, repo'[c] = repo[c], mirror'[c] = mirror[c]
        PROVE  CustomSettled(c)' <=> CustomSettled(c)
    BY <1>0, <1>6, CustomStays
  <1>7. CASE ToCustoms
    <2> DEFINE t == {c \in Customs : CustomMode(c) # "absent"}
               m == [mem EXCEPT !.at = None, !.todo = t]
    <2>1. GoTo("next", m) /\ pc = "next" /\ mem.todo = {}
      BY <1>7 DEF ToCustoms
    <2>2. m.todo = t /\ m.spec = mem.spec
      BY <1>1, ListFields
    <2> HIDE DEF m
    <2>3. Settles(pc, mem) => \A c \in Customs \ m.todo : spec.custom[c] = "absent"
      BY <2>2 DEF CustomMode, Settles
    <2> QED BY <1>5, <2>1, <2>2, <2>3
  <1>8. ASSUME NEW c \in Customs, SkipCustom(c) \/ CustomFails(c) PROVE Settling'
    <2>0. pc = "next" /\ c \in mem.todo /\ c \in Mirrored /\ UNCHANGED <<repo, mirror>>
      BY <1>2, <1>8 DEF SkipCustom, CustomFails, CustomTurn, objects
    <2>1. PICK m : /\ GoTo("next", m) /\ m.spec = mem.spec /\ m.todo = mem.todo \ {c} /\ m.at = mem.at
                   /\ m.failed \/ (CustomMode(c) = "invalid" /\ m.failed = mem.failed)
      <3>1. CASE CustomFails(c) \/ (CustomMode(c) = "invalid" /\ Done(c))
        <4>1. \E m : /\ GoTo("next", m) /\ Ending(m, mem, c)
                     /\ m.failed = mem.failed \/ Fails(c)
                     /\ Fails(c) => m.failed
          BY <1>1, <3>1, EndingFields DEF CustomFails
        <4> QED BY <3>1, <4>1 DEF Ending, CustomFails
      <3>2. CASE ~(CustomFails(c) \/ (CustomMode(c) = "invalid" /\ Done(c)))
        <4> DEFINE m == [mem EXCEPT !.todo = @ \ {c}, !.failed = TRUE]
        <4>1. GoTo("next", m)
          BY <1>8, <3>2 DEF SkipCustom
        <4>2. m.todo = mem.todo \ {c} /\ m.spec = mem.spec /\ m.at = mem.at /\ m.failed
          BY <1>1 DEF Passes
        <4> HIDE DEF m
        <4> QED BY <4>1, <4>2
      <3> QED BY <3>1, <3>2
    <2>2. Late("next", m) => Late(pc, mem)
      BY <1>2, <2>0, <2>1 DEF Late
    <2>3. Settles(pc, mem) /\ CustomMode(c) = "invalid" => CustomSettled(c)
      BY DEF Settles, CustomMode, CustomSettled
    <2>4. Settles(pc, mem) /\ Late("next", m) /\ ~m.failed =>
            \A d \in Customs \ m.todo : spec.custom[d] # "absent" => CustomSettled(d)'
      <3> SUFFICES ASSUME Settles(pc, mem), Late("next", m), ~m.failed,
                          NEW d \in Customs, d \notin m.todo, spec.custom[d] # "absent"
                   PROVE  CustomSettled(d)
        BY <1>6, <2>0
      <3> QED BY <1>1, <2>0, <2>1, <2>2, <2>3 DEF Settles
    <2> QED BY <1>2, <1>5, <2>0, <2>1, <2>4
  <1>9. ASSUME NEW c \in Customs, StartCustom(c) PROVE Settling'
    <2>0. pc = "next" /\ c \in mem.todo /\ UNCHANGED <<repo, mirror>>
      BY <1>9 DEF StartCustom, CustomTurn, objects
    <2>1. PICK cred : /\ GoTo("retype", Holding(c, cred, FALSE, {}))
                      /\ cred = IF CustomMode(c) = "anonymous" THEN None ELSE source[c]
      BY <1>9 DEF StartCustom
    <2> DEFINE n == Holding(c, cred, FALSE, {})
    <2>2. n.at = c /\ n.todo = mem.todo /\ n.cred = cred /\ n.spec = mem.spec /\ n.failed = mem.failed
      BY <1>1 DEF Holding, Passes
    <2>3. GoTo("retype", n)
      BY <2>1
    <2> HIDE DEF n
    <2>4. PICK m : /\ GoTo("retype", m) /\ m.at = c /\ m.todo = mem.todo /\ m.cred = cred
                   /\ m.spec = mem.spec /\ m.failed = mem.failed
      BY <2>2, <2>3
    <2>5. Late(pc, mem)
      BY <1>1, <1>2, <2>0 DEF Ordered, Late
    <2>6. Settles(pc, mem) /\ ~m.failed =>
            \A d \in Customs \ m.todo : spec.custom[d] # "absent" => CustomSettled(d)'
      BY <1>1, <1>6, <2>0, <2>4, <2>5 DEF Settles
    <2>7. Settles(pc, mem) => m.cred = CredOf(m.at)' /\ m.at \notin Built
      <3> SUFFICES ASSUME Settles(pc, mem) PROVE m.cred = CredOf(c)'
        BY <1>2, <2>4
      <3>1. mem.spec = spec /\ spec' = spec /\ source' = source
        BY <1>0, <1>9 DEF Settles, Calm, StartCustom, secrets
      <3> QED BY <1>2, <2>1, <2>4, <3>1 DEF CredOf, CustomMode
    <2> QED BY <1>5, <2>0, <2>4, <2>6, <2>7
  <1>10. CASE ToPrune \/ Pruned
    <2>0. /\ UNCHANGED <<repo, mirror>> /\ pc \in {"next", "prune"} /\ mem.todo = {}
          /\ \/ ToPrune /\ GoTo("prune", mem)
             \/ Pruned /\ GoTo("status", mem)
      BY <1>1, <1>10 DEF ToPrune, Pruned, objects, Keeps, Working
    <2>1. Late(pc, mem)
      BY <1>1, <1>2, <1>10 DEF ToPrune, Pruned, Ordered, Late
    <2>2. Settles(pc, mem) /\ ~mem.failed =>
            \A d \in Customs : spec.custom[d] # "absent" => CustomSettled(d)'
      BY <1>1, <1>6, <2>0, <2>1 DEF Settles
    <2>3. Pruned /\ Settles(pc, mem) /\ ~mem.failed => Settled'
      <3> SUFFICES ASSUME Pruned, Settles(pc, mem), ~mem.failed PROVE Settled'
        OBVIOUS
      <3>1. FleetSettled' /\ \A k \in Built : BuiltSettled(k)'
        BY <1>1, <1>4, <2>0 DEF Settles
      <3>2. /\ Nvidia \in astray' \/ NvidiaSettled'
            /\ \A r \in Registries : r \in astray' \/ RegistrySettled(r)'
        BY <1>2, <3>1 DEF BuiltSettled
      <3>3. ASSUME NEW d \in Customs, spec.custom[d] = "absent" PROVE CustomSettled(d)'
        <4>1. d \notin mem.keep
          BY <1>1, <2>0, <3>3 DEF Shape, Settles
        <4>2. repo[d] = None \/ repo[d].label = "foreign"
          BY <1>1, <4>1, <3>3 DEF Pruned, Unwanted, Labelled
        <4>3. CustomSettled(d)
          BY <3>3, <4>2 DEF CustomSettled
        <4> QED BY <1>6, <2>0, <4>3
      <3> QED BY <2>2, <3>1, <3>2, <3>3 DEF Settled
    <2>4. PICK m : m = mem
      OBVIOUS
    <2> QED BY <1>1, <1>5, <2>0, <2>2, <2>3, <2>4
  <1>11. ASSUME NEW c \in Customs, PruneRepo(c) PROVE Settling'
    <2> DEFINE n == [mem EXCEPT !.at = c]
    <2>1. /\ pc = "prune" /\ repo' = [repo EXCEPT ![c] = None] /\ repo[c] # None
          /\ mirror' = mirror /\ GoTo("unmirrorPruned", n)
      BY <1>11 DEF PruneRepo, Unwanted
    <2>2. n.todo = mem.todo /\ n.at = c /\ n.spec = mem.spec /\ n.failed = mem.failed
      BY <1>1 DEF Passes
    <2> HIDE DEF n
    <2>3. PICK m : /\ GoTo("unmirrorPruned", m) /\ m.todo = mem.todo /\ m.at = c
                   /\ m.spec = mem.spec /\ m.failed = mem.failed
      BY <2>1, <2>2
    <2>4. mem.spec.custom[c] = "absent"
      <3>1. KeepsWanted
        BY <1>11, CustomKeeps
      <3> QED BY <1>0, <1>2, <2>1, <3>1 DEF KeepsWanted, Things
    <2>5. \A d \in Customs \ {c} : repo'[d] = repo[d]
      BY <1>0, <2>1 DEF Things
    <2>6. Late(pc, mem)
      BY <2>1 DEF Late
    <2>7. ASSUME Settles(pc, mem) PROVE Settling'
      <3>1. spec.custom[m.at] = "absent"
        BY <2>3, <2>4, <2>7 DEF Settles
      <3>2. ~m.failed => \A d \in Customs \ m.todo : spec.custom[d] # "absent" => CustomSettled(d)'
        BY <1>1, <1>6, <2>1, <2>3, <2>5, <2>6, <2>7, <3>1 DEF Settles
      <3> QED BY <1>5, <2>1, <2>3, <3>1, <3>2
    <2>8. ~queued
      BY <2>1 DEF GoTo
    <2> QED BY <1>1, <2>7, <2>8 DEF Settling
  <1>12. CASE UnmirrorPruned
    <2>1. /\ pc = "unmirrorPruned" /\ GoTo("prune", mem) /\ repo' = repo
          /\ mirror' = [mirror EXCEPT ![mem.at] = NoCopy]
      BY <1>12 DEF UnmirrorPruned
    <2>2. Late(pc, mem)
      BY <2>1 DEF Late
    <2>3. Settles(pc, mem) /\ ~mem.failed =>
            \A d \in Customs \ mem.todo : spec.custom[d] # "absent" => CustomSettled(d)'
      <3> SUFFICES ASSUME Settles(pc, mem), ~mem.failed, NEW d \in Customs, d \notin mem.todo,
                          spec.custom[d] # "absent"
                   PROVE  CustomSettled(d)'
        OBVIOUS
      <3>1. d # mem.at /\ CustomSettled(d)
        BY <1>1, <2>1, <2>2 DEF Settles
      <3>2. mirror'[d] = mirror[d]
        BY <1>0, <1>2, <2>1, <3>1 DEF Things
      <3> QED BY <1>6, <2>1, <3>1, <3>2
    <2>4. PICK m : m = mem
      OBVIOUS
    <2> QED BY <1>5, <2>1, <2>3, <2>4
  <1>13. CASE PruneFails
    <2> DEFINE m == [mem EXCEPT !.failed = TRUE]
    <2>1. GoTo("status", m) /\ pc # "status"
      BY <1>13 DEF PruneFails
    <2>2. m.todo = mem.todo /\ m.spec = mem.spec /\ m.failed
      BY <1>1 DEF Passes
    <2> HIDE DEF m
    <2> QED BY <1>5, <2>1, <2>2
  <1>14. CASE StatusFails
    BY <1>14 DEF StatusFails, EndPass
  <1>15. CASE Status
    <2>1. pc = "status" /\ mem' = None /\ ~mem.failed /\ ~queued /\ UNCHANGED <<repo, mirror>>
      BY <1>15 DEF Status, EndPass
    <2>2. Settled
      BY <1>1, <2>1 DEF Settling, Settles
    <2>3. \A c \in Customs : CustomSettled(c)'
      BY <1>6, <2>1, <2>2 DEF Settled
    <2>4. /\ FleetSettled' /\ (Nvidia \in astray' \/ NvidiaSettled')
          /\ \A r \in Registries : r \in astray' \/ RegistrySettled(r)'
      BY <1>2, <1>4, <2>2 DEF Settled, BuiltSettled
    <2>5. Settled'
      BY <2>3, <2>4 DEF Settled
    <2> QED BY <2>1, <2>5 DEF Settling
  <1> QED BY <1>7, <1>8, <1>9, <1>10, <1>11, <1>12, <1>13, <1>14, <1>15

\* Saves, edits, other people's repositories, restarts.
LEMMA OutsideSettles ==
    ASSUME TypeInv, Shaped, Settling, Save \/ Others \/ Restart \/ UNCHANGED vars
    PROVE  Settling'
  <1> SUFFICES ASSUME ~queued'
               PROVE  Settling'
    BY DEF Settling
  <1>0. Calm /\ Things
    BY StepCalm, TypesOfThings DEF Next, TypeInv
  <1>1. ~Restart
    BY DEF Restart
  <1>a. astray' = astray
    BY <1>1 DEF Save, SaveBegin, SaveClear, SaveApply, SaveFails, vars, secrets, Others, Rotate,
                RotateKnown, Discover, RotateCA, HandEdit, TakeName, HelmRemove
  <1>2. /\ UNCHANGED <<pc, mem, mirror, git>> /\ ~queued
        /\ \A x \in Repos : \/ repo'[x] = repo[x]
                            \/ x \in Customs /\ repo[x] = None /\ repo'[x].label = "foreign"
    <2>1. CASE Save \/ UNCHANGED vars
      BY <2>1 DEF Save, SaveBegin, SaveClear, SaveApply, SaveFails, objects, vars
    <2>2. ASSUME NEW c \in Customs, TakeName(c)
          PROVE  \A x \in Repos : \/ repo'[x] = repo[x]
                                  \/ x \in Customs /\ repo[x] = None /\ repo'[x].label = "foreign"
      <3> DEFINE o == [label |-> "foreign", secret |-> FALSE, told |-> None]
      <3>1. repo[c] = None /\ repo' = [repo EXCEPT ![c] = o] /\ o.label = "foreign"
        BY <2>2 DEF TakeName
      <3> HIDE DEF o
      <3> QED BY <1>0, <3>1 DEF Things
    <2>3. CASE Others
      <3>1. UNCHANGED <<pc, mem, mirror, git>> /\ ~queued /\ (repo' = repo \/ \E c \in Customs : TakeName(c))
        <4>1. ASSUME NEW c \in Customs, TakeName(c) PROVE UNCHANGED <<pc, mem, mirror, git>> /\ ~queued
          BY <4>1 DEF TakeName
        <4>2. ASSUME NEW k, NEW new, Rotate(k, new)
              PROVE  UNCHANGED <<pc, mem, mirror, git, repo>> /\ ~queued
          BY <4>2 DEF Rotate, objects
        <4> QED BY <2>3, <4>1, <4>2 DEF Others, RotateKnown, Discover, RotateCA, HandEdit, HelmRemove
      <3> QED BY <2>2, <3>1
    <2> QED BY <1>1, <2>1, <2>3
  <1>3. FleetSettled' <=> FleetSettled
    BY <1>0, <1>2, FleetStays
  <1>4. ASSUME NEW k \in Built PROVE BuiltSettled(k)' <=> BuiltSettled(k)
    <2>1. \A x \in ReposOf(k) : repo'[x] = repo[x]
      BY <1>2, ReposApart
    <2> QED BY <1>0, <1>2, <1>a, <2>1, BuiltStays
  <1>5. ASSUME NEW c \in Customs, CustomSettled(c) PROVE CustomSettled(c)'
    <2>0. c \in Repos
      BY DEF Repos
    <2>1. CASE repo'[c] = repo[c]
      BY <1>0, <1>2, <1>5, <2>1, CustomStays
    <2>2. CASE repo'[c] # repo[c]
      <3>1. repo[c] = None /\ repo'[c].label = "foreign" /\ spec' = spec
        BY <1>0, <1>2, <2>0, <2>2 DEF Calm
      <3>2. spec.custom[c] \in {"invalid", "absent"}
        BY <1>5, <3>1 DEF CustomSettled
      <3> QED BY <3>1, <3>2 DEF CustomSettled
    <2> QED BY <2>1, <2>2
  <1>6. Settled => Settled'
    <2>1. Nvidia \in Built /\ Registries \subseteq Built /\ Nvidia \notin Registries
      BY KindsAssumption DEF Built
    <2>2. \A r \in Registries : r # Nvidia
      BY <2>1
    <2>3. /\ Nvidia \in astray' \/ NvidiaSettled' <=> Nvidia \in astray \/ NvidiaSettled
          /\ \A r \in Registries :
               r \in astray' \/ RegistrySettled(r)' <=> r \in astray \/ RegistrySettled(r)
      BY <1>4, <2>1, <2>2 DEF BuiltSettled
    <2> QED BY <1>3, <1>5, <2>3 DEF Settled
  <1>7. ASSUME mem # None, Settles(pc, mem) PROVE Settles(pc, mem)'
    <2>1. pc \in Turns => /\ mem.at \in Built \cup Customs
                          /\ mem.at \in Customs => spec.custom[mem.at] \in {"anonymous", "basic", "ssh"}
      BY <1>7, TurnHeld DEF InTurn, Settles
    <2>2. ASSUME NEW k, k = mem.at, pc \in Turns
          PROVE  CredOf(k)' = CredOf(k) /\ (k \in Built => Gone(k)' = Gone(k))
      BY <1>0, <2>1, <2>2, CredStays
    <2>3. PICK m : m = mem
      OBVIOUS
    <2>4. pc \in Turns =>
            (m.at \notin astray => m.cred = CredOf(m.at) /\ (m.at \in Built => m.tear = Gone(m.at)))'
      BY <1>7, <1>a, <2>2, <2>3 DEF Settles
    <2>5. Late(pc, m)' <=> Late(pc, mem)
      BY <1>2, <2>3 DEF Late
    <2>6. spec' = spec /\ pc' = pc
      BY <1>0, <1>2 DEF Calm
    <2>7. /\ pc \in Working => \A k \in Built \ m.todo : BuiltSettled(k)'
          /\ pc \in Working /\ Late(pc, mem) /\ ~m.failed =>
               \A c \in Customs \ m.todo : spec.custom[c] # "absent" => CustomSettled(c)'
          /\ pc = "status" /\ ~m.failed => Settled'
          /\ pc # "wire" /\ (pc = "git" => Fleet \notin m.todo) => FleetSettled'
      BY <1>3, <1>4, <1>5, <1>6, <1>7, <2>3 DEF Settles
    <2>8. Settles(pc, m)'
      BY <1>7, <2>3, <2>4, <2>5, <2>6, <2>7 DEF Settles
    <2> QED BY <1>2, <2>3, <2>8
  <1> QED BY <1>2, <1>6, <1>7 DEF Settling

LEMMA StepSettling ==
    ASSUME TypeInv, Keeping, Shaped, Settling, [Next]_vars
    PROVE  Settling'
  <1>1. CASE Pass
    BY <1>1, StartSettles, RegistrySettles, TurnSettles, CustomSettles DEF Pass, TurnStep
  <1> QED BY <1>1, OutsideSettles DEF Next

LEMMA SpecSettling == Spec => [](TypeInv /\ Keeping /\ Shaped /\ Settling)
  <1>1. Init => Keeping /\ Shaped /\ Settling
    BY DEF Init, Keeping, Shaped, Labelled, Settling, Repos
  <1>2. TypeInv /\ Keeping /\ Shaped /\ Settling /\ [Next]_vars => Keeping' /\ Shaped' /\ Settling'
    BY StepKeeping, StepShaped, StepSettling
  <1> QED BY <1>1, <1>2, SpecTypes, PTL DEF Spec

\* No sequence of saves, rotations, failures and restarts leaves the cluster at
\* rest with registries, Fleet's repository or custom repositories other than
\* Settings and its Secrets call for: whatever a pass missed has queued it
\* again (Reconcile, and the watches of its Secrets).  The only exception is a
\* registry whose own last look-up of credentials failed, of which EffectiveRefs
\* tells nobody.
THEOREM RestMeansSettled == Spec => []RestIsSettled
  <1>1. TypeInv /\ Settling => RestIsSettled
    BY DEF Settling, Settled, RestIsSettled, AtRest, TypeInv, TypeOK
  <1> QED BY <1>1, SpecSettling, PTL

-----------------------------------------------------------------------------
(* Without a fault nothing is left over, and Rancher has read what it is   *)
(* to use.                                                                 *)

\* The type of a copy.
TypeFor(m, k) == IF k \in Customs /\ m.spec.custom[k] = "ssh" THEN "ssh" ELSE "basic"

\* The forced update is still to come.
Excused(stage, m, x, k) ==
    /\ stage = "apply" \/ (stage = "force" /\ x \in m.work)
    /\ m.at = k /\ m.changed

\* So is the ClusterRepo of these copies, or their deletion after it.
Orphaned(stage, m, c) == stage \in {"apply", "unmirrorPruned"} /\ m.at = c

\* Both places have the same copy, of a type that a write may overwrite, which
\* Rancher has read and which belongs to a ClusterRepo.
CleanOf(k, stage, m) ==
    /\ mirror[k][1] = mirror[k][2]
    /\ k \in Built \/ (stage = "mirror" /\ m.at = k) =>
         \A n \in Places : mirror[k][n] # None =>
             mirror[k][n].type = IF k \in Built THEN "basic" ELSE TypeFor(m, k)
    /\ \A x \in ReposOf(k) : Told(x, k) \/ Excused(stage, m, x, k)
    /\ k \in Customs /\ mirror[k] # NoCopy =>
         (repo[k] # None /\ repo[k].label = "custom") \/ Orphaned(stage, m, k)

Clean == \A k \in Built \cup Customs : CleanOf(k, pc, mem)

\* The catalogs and the client, while nothing has queued another pass.
Served ==
    ~queued =>
       IF mem = None THEN client = source[Token] /\ \A g \in Catalogs : CatalogSettled(g)
       ELSE /\ pc = "git" =>
                 \A g \in Catalogs \ mem.todo : spec.git[g] # "absent" => CatalogSettled(g)
            /\ pc \in Working \cup {"status"} => \A g \in Catalogs : CatalogSettled(g)

Faultless == faults = 0 => Clean /\ Served

\* A step that ends without a fault has none before it.
LEMMA NoFault ==
    ASSUME TypeInv, faults' = 0
    PROVE  /\ \A kind : ~Fault(kind)
           /\ [Next]_vars => faults = 0
  <1>1. faults \in Nat
    BY DEF TypeInv, TypeOK
  <1>2. \A kind : ~Fault(kind)
    BY <1>1 DEF Fault
  <1>3. [Next]_vars => faults' = faults \/ \E kind : Fault(kind)
    <2>1. ASSUME Pass, \A kind : ~Fault(kind) PROVE faults' = faults
      <3>1. CASE BeginPass \/ Wire \/ WireFails \/ GitPruned
        <4>1. CASE Wire
          <5>1. \E e \in [Built -> Refs] : FoundRefs(e)
            BY <4>1 DEF Wire
          <5> QED BY <2>1, <5>1 DEF FoundRefs
        <4> QED BY <2>1, <3>1, <4>1 DEF BeginPass, WireFails, GitPruned, bounds
      <3>2. ASSUME NEW g \in GitRepos, ApplyGit(g) \/ GitFails(g) \/ PruneGit(g) \/ PruneGitFails(g)
            PROVE  faults' = faults
        BY <2>1, <3>2 DEF ApplyGit, GitFails, PruneGit, PruneGitFails, bounds
      <3>3. ASSUME NEW r \in Built, TearDown(r) \/ SetUp(r) \/ TurnFails(r) PROVE faults' = faults
        <4>1. CASE TearDown(r) \/ SetUp(r)
          <5>1. \E e \in Refs : LooksUp(r, e)
            BY <4>1 DEF TearDown, SetUp
          <5> QED BY <2>1, <5>1 DEF LooksUp
        <4> QED BY <2>1, <3>3, <4>1 DEF TurnFails
      <3>4. ASSUME TurnStep PROVE faults' = faults
        BY <2>1, <3>4 DEF TurnStep, WriteMirror, MirrorFails, Unmirror, DropFails, ApplyFails, ForceFails,
                    Forced, Retype, RetypeFails, ApplyRepo, ForceUpdate, DropRepo, bounds
      <3>5. CASE ToCustoms \/ ToPrune \/ UnmirrorPruned \/ PruneFails \/ Pruned \/ Status \/ StatusFails
        BY <2>1, <3>5 DEF ToCustoms, ToPrune, UnmirrorPruned, PruneFails, Pruned, Status, StatusFails,
                    bounds
      <3>6. ASSUME NEW c \in Customs, SkipCustom(c) \/ StartCustom(c) \/ CustomFails(c) \/ PruneRepo(c)
            PROVE  faults' = faults
        BY <2>1, <3>6 DEF SkipCustom, StartCustom, CustomFails, PruneRepo, bounds
      <3> QED BY <2>1, <3>1, <3>2, <3>3, <3>4, <3>5, <3>6 DEF Pass, TurnStep
    <2>2. ASSUME Save \/ Others \/ Restart \/ UNCHANGED vars, \A kind : ~Fault(kind)
          PROVE  faults' = faults
      BY <2>2 DEF Save, SaveBegin, SaveClear, SaveApply, SaveFails, Others, Rotate, RotateKnown, Discover,
                  RotateCA, HandEdit, TakeName, HelmRemove, Restart, vars, bounds
    <2> QED BY <2>1, <2>2 DEF Next
  <1> QED BY <1>2, <1>3

LEMMA CleanGoes ==
    ASSUME NEW stage, NEW m, pc' = stage, mem' = m, \A k \in Built \cup Customs : CleanOf(k, stage, m)'
    PROVE  Clean'
  BY DEF Clean

\* A repository that nothing is done to.
LEMMA CleanStays ==
    ASSUME NEW k \in Built \cup Customs, CleanOf(k, pc, mem),
           mirror'[k] = mirror[k], \A x \in ReposOf(k) : repo'[x] = repo[x],
           pc \notin {"apply", "force", "unmirrorPruned"} \/ mem.at # k,
           NEW stage, NEW m, stage # "mirror" \/ m.at # k \/ k \in Built
    PROVE  CleanOf(k, stage, m)'
  <1>1. \A x \in ReposOf(k) : Told(x, k)'
    BY DEF CleanOf, Told, Excused
  <1>2. k \in Customs => ReposOf(k) = {k}
    BY ReposApart
  <1> QED BY <1>1, <1>2 DEF CleanOf, Orphaned

\* Rancher has read the copies, once the forced updates are all that is left.
LEMMA Silent ==
    ASSUME NEW m, InTurn("force", m)', m.at \in Built \cup Customs, NEW x \in ReposOf(m.at),
           x \notin Carriers(m)
    PROVE  Told(x, m.at)'
  <1>1. CASE x \in Targets(m)
    <2>1. Fits(m, x)' /\ Carriers(m)' = Carriers(m)
      BY <1>1 DEF InTurn, Targets, Carriers
    <2> QED BY <2>1 DEF Fits, Told
  <1>2. CASE x \notin Targets(m)
    <2>1. m.at = Nvidia /\ ~m.spec.mirrored /\ (x = "org" \/ (x = "gated" /\ m.cred = None))
      BY <1>2 DEF Targets, ReposOf, NvRepos, Carriers
    <2>2. CASE x = "org"
      BY <2>1, <2>2 DEF InTurn, Told
    <2>3. CASE m.cred = None
      <3>1. Holds(m.at, "basic", None)'
        BY <2>1, <2>3 DEF InTurn, Copying, Built
      <3> QED BY <3>1 DEF Holds, Told, Places
    <2> QED BY <2>1, <2>2, <2>3
  <1> QED BY <1>1, <1>2

\* What a turn does to its own copies.
LEMMA CopiesClean ==
    ASSUME TypeInv, Shaped, faults' = 0, NEW k, k = mem.at, pc \in Turns, CleanOf(k, pc, mem),
           NEW stage, NEW m, pc' = stage, mem' = m,
           WriteMirror \/ MirrorFails \/ Unmirror \/ Retype
    PROVE  CleanOf(k, stage, m)'
  <1>1. /\ Things /\ mem \in Passes /\ InTurn(pc, mem) /\ k \in Built \cup Customs
        /\ k \in Mirrored /\ (k \in Customs <=> k \notin Built) /\ Aims(pc, mem, repo)
    BY TurnHeld, ReposApart
  <1>2. pc \notin {"apply", "force", "unmirrorPruned"} /\ repo' = repo
    BY DEF WriteMirror, MirrorFails, Unmirror, Retype
  <1>3. \A x \in ReposOf(k) : Told(x, k)
    BY <1>2 DEF CleanOf, Excused
  <1>4. CopyType(k) = TypeFor(mem, k) /\ (k \in Built => CopyType(k) = "basic")
    BY <1>1 DEF CopyType, TypeFor
  <1>5. ASSUME mirror'[k] = NoCopy PROVE CleanOf(k, stage, m)'
    BY <1>5 DEF CleanOf, NoCopy, Places, Told
  <1>6. CASE MirrorFails
    <2>1. pc = "mirror" => \A n \in Places : ~Blocked(k, n)
      BY <1>1, <1>4 DEF CleanOf, Blocked
    <2>2. \A upTo \in 0 .. 1 : upTo + 1 \in Places
      BY DEF Places
    <2>3. mirror' = mirror /\ Fails(mem.at)
      BY <1>6, <2>1, <2>2, NoFault DEF MirrorFails
    <2>4. stage # "mirror"
      BY <2>3 DEF Fails, GoTo, EndPass
    <2> QED BY <1>1, <1>2, <2>3, <2>4, CleanStays
  <1>7. CASE Unmirror
    BY <1>1, <1>5, <1>7 DEF Unmirror, Things
  <1>8. CASE WriteMirror
    <2> DEFINE copy == CopyOf(k)
    <2>1. copy = [type |-> TypeFor(mem, k), cred |-> mem.cred]
      BY <1>4 DEF CopyOf
    <2>2. /\ stage = "apply" /\ mirror' = Copied(k, 2)
          /\ m = [mem EXCEPT !.changed = mirror[mem.at][1] # CopyOf(mem.at), !.work = ToApply(mem.at)]
      BY <1>8 DEF WriteMirror, GoTo
    <2>3. m.at = k /\ (m.changed <=> mirror[k][1] # copy)
      BY <1>1, <2>2 DEF Passes
    <2> HIDE DEF copy
    <2>4. \A n \in Places : mirror'[k][n] = copy
      <3>1. Copied(k, 2) = [mirror EXCEPT ![k] = [n \in Places |-> IF n <= 2 THEN copy ELSE @[n]]]
        BY DEF Copied, copy
      <3>2. mirror'[k] = [n \in Places |-> IF n <= 2 THEN copy ELSE mirror[k][n]]
        BY <1>1, <2>2, <3>1 DEF Things
      <3> QED BY <3>2 DEF Places
    <2>5. \A x \in ReposOf(k) : Told(x, k)' \/ Excused(stage, m, x, k)'
      <3>1. CASE mirror[k][1] # copy
        BY <2>2, <2>3, <3>1 DEF Excused
      <3>2. CASE mirror[k][1] = copy
        <4>1. mirror'[k][1] = mirror[k][1]
          BY <2>4, <3>2 DEF Places
        <4> QED BY <1>2, <1>3, <4>1 DEF Told
      <3> QED BY <3>1, <3>2
    <2>6. mirror'[k][1] = mirror'[k][2]
      BY <2>4 DEF Places
    <2>7. k \in Built => \A n \in Places : mirror'[k][n].type = "basic"
      BY <1>4, <2>1, <2>4
    <2> QED BY <2>2, <2>3, <2>5, <2>6, <2>7 DEF CleanOf, Orphaned
  <1>9. CASE Retype
    <2>1. pc = "retype" /\ k \in Customs /\ k \notin Built
      BY <1>1, <1>9 DEF Retype, Aims
    <2>2. CASE Outdated(k)
      BY <1>1, <1>5, <1>9, <2>2 DEF Retype, Things
    <2>3. CASE ~Outdated(k)
      <3>1. mirror' = mirror
        BY <1>9, <2>3 DEF Retype
      <3>2. stage = "mirror" => m = mem
        BY <1>9, <2>1 DEF Retype, GoTo, Fails
      <3>3. stage = "mirror" =>
              \A n \in Places : mirror[k][n] # None => mirror[k][n].type = TypeFor(m, k)
        <4>1. mirror[k][1] # None => mirror[k][1].type = TypeFor(mem, k)
          BY <1>4, <2>3 DEF Outdated
        <4> QED BY <3>2, <4>1 DEF CleanOf, Places
      <3>4. \A x \in ReposOf(k) : Told(x, k)'
        BY <1>2, <1>3, <3>1 DEF Told
      <3>5. k \in Customs /\ mirror[k] # NoCopy => repo[k] # None /\ repo[k].label = "custom"
        BY <2>1 DEF CleanOf, Orphaned
      <3>6. mirror[k][1] = mirror[k][2]
        BY DEF CleanOf
      <3>7. TypeFor(m, k)' = TypeFor(m, k)
        BY DEF TypeFor
      <3> QED BY <1>2, <2>1, <3>1, <3>3, <3>4, <3>5, <3>6, <3>7 DEF CleanOf
    <2> QED BY <2>2, <2>3
  <1> QED BY <1>6, <1>7, <1>8, <1>9

\* What it does to its own ClusterRepos.
LEMMA ReposClean ==
    ASSUME TypeInv, Shaped, Shaped', NEW k, k = mem.at, pc \in Turns, CleanOf(k, pc, mem),
           NEW stage, NEW m, pc' = stage, mem' = m,
           Forced \/ \E r \in Repos : ApplyRepo(r) \/ ForceUpdate(r) \/ DropRepo(r)
    PROVE  CleanOf(k, stage, m)'
  <1>1. /\ Things /\ mem \in Passes /\ mem # None /\ InTurn(pc, mem) /\ k \in Built \cup Customs
        /\ k \in Mirrored /\ (k \in Customs <=> k \notin Built) /\ Aims(pc, mem, repo)
        /\ ReposOf(k) \subseteq Repos /\ mem.work \subseteq ReposOf(k) /\ TypeOK
        /\ (k \in Customs => ReposOf(k) = {k}) /\ (k \in Built => ReposOf(k) \cap Customs = {})
    BY TurnHeld, ReposApart DEF TypeInv
  <1>2. mirror' = mirror /\ mirror[k][1] = mirror[k][2] /\ stage # "mirror"
    BY DEF Forced, ApplyRepo, ForceUpdate, DropRepo, CleanOf, GoTo, Done
  <1>3. ASSUME \A x \in ReposOf(k) : Told(x, k)' \/ Excused(stage, m, x, k)',
               k \in Customs /\ mirror[k] # NoCopy =>
                 (repo'[k] # None /\ repo'[k].label = "custom") \/ Orphaned(stage, m, k)'
        PROVE  CleanOf(k, stage, m)'
    BY <1>1, <1>2, <1>3 DEF CleanOf
  <1>4. ASSUME NEW r \in Repos, DropRepo(r) PROVE CleanOf(k, stage, m)'
    <2>1. /\ pc = "drop" /\ k \in Built /\ repo' = [repo EXCEPT ![r] = None]
      BY <1>1, <1>4 DEF DropRepo, Aims
    <2>2. \A x \in ReposOf(k) : Told(x, k)'
      BY <1>1, <1>2, <2>1 DEF Things, Told, CleanOf, Excused
    <2> QED BY <1>1, <1>3, <2>1, <2>2
  <1>5. CASE Forced
    <2>1. /\ pc = "force" /\ mem.work = {}
          /\ repo' = repo \/ (k = Nvidia /\ repo' = [repo EXCEPT !["gated"] = None])
      BY <1>5 DEF Forced
    <2>2. \A x \in ReposOf(k) : Told(x, k)'
      BY <1>1, <1>2, <2>1 DEF Things, Told, CleanOf, Excused
    <2>3. k \in Customs => repo' = repo /\ (mirror[k] # NoCopy => repo[k] # None /\ repo[k].label = "custom")
      BY <1>1, <2>1, ReposApart DEF CleanOf, Orphaned
    <2> QED BY <1>3, <2>2, <2>3
  <1>6. ASSUME stage = "force" PROVE InTurn("force", m)' /\ m # None
    <2>1. TypeInv'
      BY StepTypes DEF Next, Pass, TypeInv
    <2> QED BY <1>6, <2>1 DEF Shaped, Shape, Turns, TypeInv, TypeOK
  <1>7. ASSUME NEW r \in Repos, ForceUpdate(r) PROVE CleanOf(k, stage, m)'
    <2>1. /\ pc = "force" /\ r \in mem.work /\ stage = "force" /\ m = [mem EXCEPT !.work = @ \ {r}]
          /\ repo' = [repo EXCEPT ![r] = [repo[r] EXCEPT !.told = mem.cred]]
          /\ repo[r] # None
      BY <1>1, <1>7 DEF ForceUpdate, GoTo, Things, Aims
    <2>2. /\ m.at = k /\ m.work = mem.work \ {r} /\ m.changed = mem.changed /\ m.cred = mem.cred
          /\ m.spec = mem.spec
      BY <1>1, <2>1 DEF Passes
    <2>3. \A x \in ReposOf(k) \ {r} : Told(x, k)' \/ Excused(stage, m, x, k)'
      BY <1>1, <1>2, <2>1, <2>2 DEF CleanOf, Told, Excused, Things
    <2>4. Told(r, k)'
      <3>1. CASE r \notin Carriers(m)
        BY <1>1, <1>6, <2>1, <2>2, <3>1, Silent
      <3>2. CASE r \in Carriers(m)
        <4>1. mem.cred # None /\ Copying(mem)
          BY <1>1, <2>1, <2>2, <3>2 DEF Carriers, InTurn
        <4>2. mirror[k][1].cred = mem.cred
          BY <4>1 DEF Copying, Holds, Places
        <4>3. repo'[r].told = mem.cred
          <5>1. repo[r] \in RepoObjs
            BY <1>1, <2>1 DEF Things
          <5> QED BY <1>1, <2>1, <5>1 DEF Things, RepoObjs
        <4> QED BY <1>2, <4>2, <4>3 DEF Told
      <3> QED BY <3>1, <3>2
    <2>5. k \in Customs => repo'[k] # None /\ repo'[k].label = "custom"
      <3>0. \A x \in Targets(m)' : Fits(m, x)'
        BY <1>6, <2>1 DEF InTurn
      <3>1. k \in Customs => Targets(m)' = {k}
        BY <1>1, <2>2, ReposApart DEF Targets
      <3> QED BY <3>0, <3>1 DEF Fits
    <2> QED BY <1>3, <2>3, <2>4, <2>5
  <1>8. ASSUME NEW r \in Repos, ApplyRepo(r) PROVE CleanOf(k, stage, m)'
    <2> DEFINE w == IF mem.work \ {r} # {} THEN mem.work \ {r}
                    ELSE IF mem.changed THEN Carriers(mem) ELSE {}
    <2>1. /\ pc = "apply" /\ r \in mem.work
          /\ repo' = [repo EXCEPT ![r] = Applied(r, r \in Carriers(mem))]
          /\ stage = IF mem.work \ {r} # {} THEN "apply" ELSE "force"
          /\ m = [mem EXCEPT !.work = w]
      BY <1>8, TargetsOf DEF ApplyRepo, GoTo
    <2> HIDE DEF w
    <2>2. /\ m.at = k /\ m.work = w /\ m.changed = mem.changed /\ m.cred = mem.cred
          /\ m.spec = mem.spec
      BY <1>1, <2>1 DEF Passes
    <2>3. /\ stage = "apply" \/ (stage = "force" /\ (mem.changed => m.work = Carriers(mem)))
          /\ Carriers(m) = Carriers(mem)
      BY <2>1, <2>2 DEF w, Carriers
    <2>4. \A x \in ReposOf(k) : Told(x, k)' \/ Excused(stage, m, x, k)'
      <3> SUFFICES ASSUME NEW x \in ReposOf(k) PROVE Told(x, k)' \/ Excused(stage, m, x, k)'
        OBVIOUS
      <3>1. CASE mem.changed /\ (stage = "apply" \/ x \in Carriers(mem))
        BY <2>2, <2>3, <3>1 DEF Excused
      <3>2. CASE mem.changed /\ stage = "force" /\ x \notin Carriers(mem)
        BY <1>1, <1>6, <2>2, <2>3, <3>2, Silent
      <3>3. CASE ~mem.changed
        <4>1. Told(x, k)
          BY <3>3 DEF CleanOf, Excused
        <4>2. CASE x # r
          BY <1>1, <1>2, <2>1, <4>1, <4>2 DEF Told, Things
        <4>3. CASE x = r /\ r \notin Carriers(mem)
          <5>1. ~repo'[r].secret
            BY <1>1, <2>1, <4>3 DEF Applied, Things
          <5> QED BY <4>3, <5>1 DEF Told
        <4>4. CASE x = r /\ r \in Carriers(mem)
          <5>1. repo'[r] = Applied(r, TRUE)
            BY <1>1, <2>1, <4>4 DEF Things
          <5>2. repo'[r].told = IF repo[r] # None /\ repo[r].secret THEN repo[r].told ELSE mem.cred
            BY <5>1 DEF Applied
          <5>3. mem.cred # None /\ Copying(mem)
            BY <1>1, <2>1, <4>4 DEF Carriers, InTurn
          <5>4. mirror[k][1].cred = mem.cred
            BY <5>3 DEF Copying, Holds, Places
          <5> QED BY <1>2, <4>1, <4>4, <5>2, <5>4 DEF Told
        <4> QED BY <4>2, <4>3, <4>4
      <3> QED BY <2>3, <3>1, <3>2, <3>3
    <2>5. k \in Customs => (repo'[k] # None /\ repo'[k].label = "custom") \/ Orphaned(stage, m, k)'
      <3>1. CASE stage = "apply"
        BY <2>2, <3>1 DEF Orphaned
      <3>2. CASE stage = "force"
        <4>1. k \in Customs => Fits(m, k)'
          BY <1>1, <1>6, <2>2, <3>2, ReposApart DEF InTurn, Targets
        <4> QED BY <4>1 DEF Fits
      <3> QED BY <2>3, <3>1, <3>2
    <2> QED BY <1>3, <2>4, <2>5
  <1> QED BY <1>4, <1>5, <1>7, <1>8

\* A turn.
LEMMA TurnClean ==
    ASSUME TypeInv, Shaped, Clean, TurnStep, faults' = 0
    PROVE  Clean'
  <1>1. pc \in Turns /\ OnlyAt(mem.at)
    BY TurnFrame
  <1>2. /\ mem \in Passes /\ mem.at \in Built \cup Customs /\ ReposOf(mem.at) \subseteq Repos
        /\ mem.at # None
    BY <1>1, TurnHeld, ReposApart
  <1>3. PICK k : k = mem.at
    OBVIOUS
  <1>4. PICK stage, m : pc' = stage /\ mem' = m
    OBVIOUS
  <1>5. stage = "mirror" => m.at = k
    BY <1>2, <1>3, <1>4, TurnFrame, EndingFields DEF Same, GoTo, EndPass, Ending
  <1>6. \A l \in (Built \cup Customs) \ {k} : CleanOf(l, stage, m)'
    <2> TAKE l \in (Built \cup Customs) \ {k}
    <2>1. mirror'[l] = mirror[l] /\ \A x \in ReposOf(l) : repo'[x] = repo[x]
      BY <1>1, <1>2, <1>3, ReposApart DEF OnlyAt
    <2>2. CleanOf(l, pc, mem)
      BY DEF Clean
    <2> QED BY <1>3, <1>5, <2>1, <2>2, CleanStays
  <1>7. CleanOf(k, pc, mem)
    BY <1>2, <1>3 DEF Clean
  <1>8. ~(DropFails \/ ApplyFails \/ ForceFails \/ RetypeFails)
    BY NoFault DEF DropFails, ApplyFails, ForceFails, RetypeFails
  <1>9. CleanOf(k, stage, m)'
    BY <1>1, <1>3, <1>4, <1>7, <1>8, CopiesClean, ReposClean, TurnShapes DEF TurnStep
  <1> QED BY <1>4, <1>6, <1>9, CleanGoes

\* Steps that touch neither copies nor ClusterRepos of registries and custom
\* repositories.
LEMMA IdleClean ==
    ASSUME Clean, UNCHANGED repo, \A k \in Built \cup Customs : mirror'[k] = mirror[k],
           pc \notin {"apply", "force", "unmirrorPruned"}, pc' # "mirror"
    PROVE  Clean'
  <1>1. PICK stage, m : pc' = stage /\ mem' = m
    OBVIOUS
  <1>2. \A k \in Built \cup Customs : CleanOf(k, stage, m)'
    BY <1>1, CleanStays DEF Clean
  <1> QED BY <1>1, <1>2, CleanGoes

\* The start of a pass, Fleet's repository and the catalogs.
LEMMA StartClean ==
    ASSUME TypeInv, Clean,
           \/ BeginPass \/ Wire \/ WireFails \/ GitPruned
           \/ \E g \in GitRepos : ApplyGit(g) \/ GitFails(g) \/ PruneGit(g) \/ PruneGitFails(g)
    PROVE  Clean'
  <1> Things BY TypesOfThings DEF TypeInv
  <1>1. repo' = repo /\ pc \in {"idle", "wire", "git"} /\ pc' # "mirror"
    BY DEF BeginPass, Wire, WireFails, GitPruned, ApplyGit, GitFails, GivesUp, PruneGit, PruneGitFails,
           objects, GitTurn, GoTo, Onward, EndPass, GitDone, ToRegistries
  <1>2. \/ mirror' = mirror
        \/ \E g \in GitRepos : mirror' \in {GitCopied(g), [mirror EXCEPT ![g] = NoCopy]}
    BY DEF BeginPass, Wire, WireFails, GitPruned, ApplyGit, GitFails, PruneGit, PruneGitFails, objects
  <1>3. \A k \in Built \cup Customs : k \notin GitRepos /\ k \in Mirrored
    BY ReposApart
  <1>4. \A k \in Built \cup Customs : mirror'[k] = mirror[k]
    BY <1>2, <1>3 DEF GitCopied, Things
  <1> QED BY <1>1, <1>4, IdleClean

\* A registry's turn begins.
LEMMA RegistryClean ==
    ASSUME TypeInv, Clean, faults' = 0, NEW r \in Built, TearDown(r) \/ SetUp(r) \/ TurnFails(r)
    PROVE  Clean'
  <1> Things BY TypesOfThings DEF TypeInv
  <1>1. ~TurnFails(r)
    BY NoFault DEF TurnFails
  <1>2. mirror' = mirror /\ pc = "next" /\ mem \in Passes /\ r \in Mirrored /\ Turn(r)
    BY <1>1, Held DEF TearDown, SetUp, LookedUp, Turn, TypeInv, Mirrored
  <1>3. CASE TearDown(r)
    <2>1. repo' = repo /\ pc' = "drop"
      <3>1. \E e \in Refs : Onward("drop", Holding(r, Obtained(r, e), TRUE,
                                                   IF r = Nvidia THEN NvRepos ELSE {r}))
        BY <1>3 DEF TearDown
      <3> QED BY <1>3, <3>1 DEF TearDown, Onward
    <2> QED BY <1>2, <2>1, IdleClean
  <1>4. CASE SetUp(r)
    <2>1. PICK stage, m : pc' = stage /\ mem' = m
      OBVIOUS
    <2>2. m.at = r
      <3>1. PICK e \in Refs : mem' = Holding(r, Obtained(r, e), FALSE, {})
        BY <1>4 DEF SetUp, Onward
      <3>2. PICK cred : mem' = Holding(r, cred, FALSE, {})
        BY <3>1
      <3> QED BY <1>2, <2>1, <3>2 DEF Holding, Passes
    <2>3. \A x \in Repos : repo'[x] = repo[x] \/ (r = Nvidia /\ x = "org" /\ ~repo'[x].secret)
      BY <1>2, <1>4, OrgFields DEF SetUp, OrgApplied
    <2>4. \A k \in (Built \cup Customs) \ {r} : CleanOf(k, stage, m)'
      <3> TAKE k \in (Built \cup Customs) \ {r}
      <3>1. \A x \in ReposOf(k) : repo'[x] = repo[x]
        <4>1. ReposOf(k) \subseteq Repos /\ ReposOf(k) \cap ReposOf(r) = {}
          BY ReposApart
        <4>2. r = Nvidia => "org" \in ReposOf(r)
          BY DEF ReposOf, NvRepos
        <4> QED BY <2>3, <4>1, <4>2
      <3> QED BY <1>2, <2>2, <3>1, CleanStays DEF Clean
    <2>5. CleanOf(r, stage, m)'
      <3>1. CleanOf(r, pc, mem) /\ ReposOf(r) \subseteq Repos /\ r \notin Customs
        BY ReposApart DEF Clean
      <3>2. \A x \in ReposOf(r) : Told(x, r)'
        BY <1>2, <2>3, <3>1 DEF CleanOf, Told, Excused
      <3> QED BY <1>2, <3>1, <3>2 DEF CleanOf
    <2> QED BY <2>1, <2>4, <2>5, CleanGoes
  <1> QED BY <1>1, <1>3, <1>4

\* Custom repositories, what is left of those no longer listed, the status.
LEMMA CustomClean ==
    ASSUME TypeInv, Clean, faults' = 0,
           \/ ToCustoms \/ ToPrune \/ UnmirrorPruned \/ PruneFails \/ Pruned
           \/ Status \/ StatusFails
           \/ \E c \in Customs : SkipCustom(c) \/ StartCustom(c) \/ CustomFails(c) \/ PruneRepo(c)
    PROVE  Clean'
  <1> Things BY TypesOfThings DEF TypeInv
  <1>1. ~PruneFails /\ ~StatusFails /\ \A c \in Customs : ~CustomFails(c)
    BY NoFault DEF PruneFails, StatusFails, CustomFails
  <1>2. CASE ToCustoms \/ ToPrune \/ Pruned \/ Status \/ \E c \in Customs : SkipCustom(c) \/ StartCustom(c)
    <2>1. /\ UNCHANGED <<repo, mirror>> /\ pc' # "mirror"
          /\ pc \notin {"apply", "force", "unmirrorPruned"}
      BY <1>2 DEF ToCustoms, ToPrune, Pruned, Status, SkipCustom, StartCustom, CustomTurn, Done, objects,
                  GoTo, EndPass
    <2> QED BY <2>1, IdleClean
  <1>3. PICK stage, m : pc' = stage /\ mem' = m
    OBVIOUS
  <1>4. ASSUME NEW c \in Customs, PruneRepo(c) PROVE Clean'
    <2>1. /\ repo' = [repo EXCEPT ![c] = None] /\ mirror' = mirror /\ pc = "prune"
          /\ stage = "unmirrorPruned" /\ m = [mem EXCEPT !.at = c]
      BY <1>3, <1>4 DEF PruneRepo, GoTo
    <2>2. m.at = c /\ c \in Repos /\ ReposOf(c) = {c} /\ c \notin Built
      BY <2>1, Held, ReposApart DEF TypeInv, Passes, Repos
    <2>3. \A k \in (Built \cup Customs) \ {c} : CleanOf(k, stage, m)'
      <3> TAKE k \in (Built \cup Customs) \ {c}
      <3>1. c \notin ReposOf(k) /\ ReposOf(k) \subseteq Repos
        BY <2>2, ReposApart
      <3>2. \A x \in ReposOf(k) : repo'[x] = repo[x]
        BY <2>1, <3>1 DEF Things
      <3> QED BY <2>1, <3>2, CleanStays DEF Clean
    <2>4. CleanOf(c, stage, m)'
      <3>1. CleanOf(c, pc, mem)
        BY DEF Clean
      <3>2. Told(c, c)'
        BY <2>1, <2>2 DEF Told, Things
      <3> QED BY <2>1, <2>2, <3>1, <3>2 DEF CleanOf, Orphaned
    <2> QED BY <1>3, <2>3, <2>4, CleanGoes
  <1>5. CASE UnmirrorPruned
    <2>0. PICK c : c = mem.at
      OBVIOUS
    <2>1. /\ repo' = repo /\ mirror' = [mirror EXCEPT ![c] = NoCopy] /\ pc = "unmirrorPruned"
          /\ stage = "prune" /\ c \in Customs /\ c \in Mirrored
      BY <1>3, <1>5, <2>0, Held DEF UnmirrorPruned, GoTo, TypeInv, Aims, Mirrored
    <2>2. \A k \in (Built \cup Customs) \ {c} : CleanOf(k, stage, m)'
      <3> TAKE k \in (Built \cup Customs) \ {c}
      <3>1. mirror'[k] = mirror[k]
        BY <2>1, ReposApart DEF Things
      <3> QED BY <2>0, <2>1, <3>1, CleanStays DEF Clean
    <2>3. mirror'[c] = NoCopy
      BY <2>1 DEF Things
    <2>4. CleanOf(c, stage, m)'
      BY <2>3 DEF CleanOf, NoCopy, Places, Told
    <2> QED BY <1>3, <2>2, <2>4, CleanGoes
  <1> QED BY <1>1, <1>2, <1>4, <1>5

\* Saves, edits, other people's repositories, restarts.
LEMMA OutsideClean ==
    ASSUME TypeInv, Clean, faults' = 0, Save \/ Others \/ Restart \/ UNCHANGED vars
    PROVE  Clean'
  <1> Things BY TypesOfThings DEF TypeInv
  <1>1. ~Restart
    BY NoFault DEF Restart
  <1>2. UNCHANGED <<pc, mem, mirror>> /\ (repo' = repo \/ \E c \in Customs : TakeName(c))
    <2>1. ASSUME NEW c \in Customs, TakeName(c) PROVE UNCHANGED <<pc, mem, mirror>>
      BY <2>1 DEF TakeName
    <2>2. CASE Save \/ UNCHANGED vars
      BY <2>2 DEF Save, SaveBegin, SaveClear, SaveApply, SaveFails, objects, vars
    <2> QED BY <1>1, <2>1, <2>2 DEF Others, Rotate, RotateKnown, Discover, RotateCA, HandEdit, HelmRemove, objects
  <1>3. \A x \in Repos : \/ repo'[x] = repo[x]
                         \/ x \in Customs /\ repo[x] = None /\ ~repo'[x].secret
    <2>1. ASSUME NEW c \in Customs, TakeName(c)
          PROVE  \A x \in Repos : \/ repo'[x] = repo[x]
                                  \/ x \in Customs /\ repo[x] = None /\ ~repo'[x].secret
      <3> DEFINE o == [label |-> "foreign", secret |-> FALSE, told |-> None]
      <3>1. repo[c] = None /\ repo' = [repo EXCEPT ![c] = o] /\ ~o.secret
        BY <2>1 DEF TakeName
      <3> HIDE DEF o
      <3> QED BY <3>1 DEF Things
    <2> QED BY <1>2, <2>1
  <1>4. ASSUME NEW k \in Built \cup Customs PROVE CleanOf(k, pc, mem)'
    <2>1. CleanOf(k, pc, mem) /\ ReposOf(k) \subseteq Repos /\ (k \in Customs => k \in Repos)
      BY ReposApart DEF Clean, Repos
    <2>2. PICK m : m = mem
      OBVIOUS
    <2>3. \A x \in ReposOf(k) : Told(x, k)' \/ Excused(pc, m, x, k)
      BY <1>2, <1>3, <2>1, <2>2 DEF CleanOf, Told
    <2>4. k \in Customs /\ mirror[k] # NoCopy =>
            (repo'[k] # None /\ repo'[k].label = "custom") \/ Orphaned(pc, m, k)
      BY <1>3, <2>1, <2>2 DEF CleanOf
    <2>5. CleanOf(k, pc, m)'
      <3>1. pc' = pc /\ mirror' = mirror /\ CleanOf(k, pc, m)
        BY <1>2, <2>1, <2>2
      <3>2. TypeFor(m, k)' = TypeFor(m, k) /\ Orphaned(pc, m, k)' = Orphaned(pc, m, k)
            /\ \A x : Excused(pc, m, x, k)' = Excused(pc, m, x, k)
        BY <3>1 DEF TypeFor, Orphaned, Excused
      <3> QED BY <2>3, <2>4, <3>1, <3>2 DEF CleanOf
    <2> QED BY <1>2, <2>2, <2>5
  <1> QED BY <1>4 DEF Clean

LEMMA StepClean ==
    ASSUME TypeInv, Shaped, Clean, faults' = 0, [Next]_vars
    PROVE  Clean'
  <1>1. CASE Pass
    BY <1>1, StartClean, RegistryClean, TurnClean, CustomClean DEF Pass, TurnStep
  <1> QED BY <1>1, OutsideClean DEF Next

\* What is settled of a catalog stays so while its own objects do.
LEMMA CatalogStays ==
    ASSUME Calm, NEW g \in GitRepos, git'[g] = git[g], mirror'[g] = mirror[g], broken' = broken
    PROVE  CatalogSettled(g)' <=> CatalogSettled(g)
  BY DEF Calm, CatalogSettled

\* A pass that is past the catalogs.
LEMMA LaterServes ==
    ASSUME TypeInv, TypeInv', Calm, Served, UNCHANGED git, \A g \in Catalogs : mirror'[g] = mirror[g],
           pc \in Working \cup {"status"}, pc' \in Working \cup {"status"}, queued => queued',
           broken' = broken
    PROVE  Served'
  <1>1. mem # None /\ mem' # None /\ pc' # "git"
    BY DEF TypeInv, TypeOK, Working
  <1>2. \A g \in Catalogs : CatalogSettled(g)' <=> CatalogSettled(g)
    BY CatalogStays DEF Catalogs
  <1> QED BY <1>1, <1>2 DEF Served

LEMMA LateServed ==
    ASSUME TypeInv, Keeping, Shaped, Served, ~queued',
           \/ TurnStep
           \/ \E r \in Built : TearDown(r) \/ SetUp(r) \/ TurnFails(r)
           \/ ToCustoms \/ ToPrune \/ UnmirrorPruned \/ PruneFails \/ Pruned
           \/ \E c \in Customs : SkipCustom(c) \/ StartCustom(c) \/ CustomFails(c) \/ PruneRepo(c)
    PROVE  Served'
  <1>0. Calm /\ TypeInv' /\ Things
    BY StepCalm, StepTypes, TypesOfThings DEF Next, Pass, TypeInv, TurnStep
  <1>1. \A g \in Catalogs : g \in Mirrored /\ \A k \in Built \cup Customs : g # k
    BY ReposApart DEF Catalogs, Mirrored
  <1>2. CASE TurnStep
    <2>1. /\ pc \in Turns /\ OnlyAt(mem.at) /\ git' = git /\ mem.at \in Built \cup Customs
          /\ mem \in Passes
      BY <1>2, TurnFrame, TurnHeld
    <2>2. pc' \in Turns \cup {"next"} /\ queued' = queued /\ broken' = broken
      BY <1>2, <2>1, TurnFrame, EndingFields DEF GoTo, EndPass, secrets
    <2> QED BY <1>0, <1>1, <2>1, <2>2, LaterServes DEF OnlyAt, Turns, Working
  <1>3. ASSUME NEW r \in Built, TearDown(r) \/ SetUp(r) \/ TurnFails(r) PROVE Served'
    <2>1. ~TurnFails(r)
      BY <1>3, ReposApart DEF TurnFails, Fails, EndPass
    <2>2. /\ pc = "next" /\ pc' \in Turns /\ (queued => queued') /\ UNCHANGED <<mirror, git, broken>>
      <3>1. \E stage \in Turns : \E m : Onward(stage, m)
        <4>1. CASE TearDown(r)
          <5>1. PICK e \in Refs : Onward("drop", Holding(r, Obtained(r, e), TRUE,
                                                         IF r = Nvidia THEN NvRepos ELSE {r}))
            BY <4>1 DEF TearDown
          <5> QED BY <5>1 DEF Turns
        <4>2. CASE SetUp(r)
          <5>1. PICK e \in Refs : Onward(IF Obtained(r, e) = None THEN "unmirror" ELSE "mirror",
                                         Holding(r, Obtained(r, e), FALSE, {}))
            BY <4>2 DEF SetUp
          <5>2. \E stage \in {"unmirror", "mirror"} : \E m : Onward(stage, m)
            BY <5>1
          <5> QED BY <5>2 DEF Turns
        <4> QED BY <1>3, <2>1, <4>1, <4>2
      <3> QED BY <1>3, <2>1, <3>1 DEF TearDown, SetUp, LookedUp, Turn, Onward
    <2> QED BY <1>0, <2>2, LaterServes DEF Turns, Working
  <1>4. CASE \/ ToCustoms \/ ToPrune \/ UnmirrorPruned \/ PruneFails \/ Pruned
             \/ \E c \in Customs : SkipCustom(c) \/ StartCustom(c) \/ CustomFails(c) \/ PruneRepo(c)
    <2>1. /\ pc \in {"next", "prune", "unmirrorPruned"} /\ git' = git
          /\ pc' \in {"next", "retype", "prune", "unmirrorPruned", "status"} /\ queued' = queued
          /\ mirror' = mirror \/ /\ pc = "unmirrorPruned"
                                 /\ mirror' \in {[mirror EXCEPT ![mem.at] = NoCopy]} \cup HalfDeleted(mem.at)
          /\ broken' = broken
      BY <1>4 DEF ToCustoms, ToPrune, UnmirrorPruned, PruneFails, Pruned, SkipCustom, StartCustom,
                  CustomFails, PruneRepo, CustomTurn, Done, Fails, GoTo, EndPass, objects, secrets
    <2>2. pc = "unmirrorPruned" => mem.at \in Customs
      BY Held DEF TypeInv, Aims
    <2>3. \A g \in Catalogs : mirror'[g] = mirror[g]
      BY <1>0, <1>1, <2>1, <2>2 DEF HalfDeleted, Things
    <2> QED BY <1>0, <2>1, <2>3, LaterServes DEF Working
  <1> QED BY <1>2, <1>3, <1>4

\* The start of a pass, Fleet's repository and the catalogs.
LEMMA StartServed ==
    ASSUME TypeInv, Keeping, Settling, Served, faults' = 0, ~queued',
           \/ BeginPass \/ Wire \/ WireFails \/ GitPruned
           \/ \E g \in GitRepos : ApplyGit(g) \/ GitFails(g) \/ PruneGit(g) \/ PruneGitFails(g)
    PROVE  Served'
  <1>0. Calm /\ TypeInv' /\ Things
    BY StepCalm, StepTypes, TypesOfThings DEF Next, Pass, TypeInv
  <1>1. CASE BeginPass
    BY <1>0, <1>1 DEF BeginPass, Served, Working, TypeInv, TypeOK
  <1>2. CASE WireFails
    BY <1>2 DEF WireFails, EndPass
  <1>3. CASE Wire
    <2>1. pc = "wire" /\ pc' = "git" /\ mem' = mem /\ ~queued /\ mem # None
      <3>1. \E e \in [Built -> Refs] : Onward("git", mem) \/ queued' = TRUE
        BY <1>3 DEF Wire
      <3> QED BY <1>3, <3>1, Held DEF Wire, Onward, TypeInv
    <2>2. mem.todo = GitRepos
      BY <2>1 DEF Settling, Settles
    <2> QED BY <1>0, <2>1, <2>2 DEF Served, Catalogs, Working
  <1>4. CASE GitPruned \/ \E g \in GitRepos : ApplyGit(g) \/ GitFails(g) \/ PruneGit(g) \/ PruneGitFails(g)
    <2>1. pc = "git" /\ mem # None /\ mem \in Passes
      <3>1. pc = "git"
        BY <1>4 DEF GitPruned, ApplyGit, GitFails, PruneGit, PruneGitFails, GitTurn
      <3> QED BY <3>1, Held DEF TypeInv
    <2>2. ~queued /\ broken' = broken
      <3>1. ~queued
        BY <1>4 DEF GitPruned, ApplyGit, GitFails, PruneGit, PruneGitFails, GoTo, ToRegistries, GitDone,
                    GivesUp, EndPass
      <3>2. broken' = broken
        BY <1>4 DEF GitPruned, ApplyGit, GitFails, PruneGit, PruneGitFails, secrets
      <3> QED BY <3>1, <3>2
    <2>3. mem.spec = spec /\ \A g \in Catalogs \ mem.todo : spec.git[g] # "absent" => CatalogSettled(g)
      BY <2>1, <2>2 DEF Settling, Settles, Served
    <2>4. ASSUME NEW g \in Catalogs, git'[g] = git[g], mirror'[g] = mirror[g]
          PROVE  CatalogSettled(g)' <=> CatalogSettled(g)
      BY <1>0, <2>2, <2>4, CatalogStays DEF Catalogs
    <2>5. CASE GitPruned
      <3>1. UNCHANGED <<git, mirror>> /\ mem.todo = {} /\ GitUnwanted = {} /\ pc' = "next"
        BY <2>5 DEF GitPruned, ToRegistries, GoTo, objects
      <3>2. \A g \in Catalogs : CatalogSettled(g)
        BY <2>3, <3>1 DEF GitUnwanted, GitMode, CatalogSettled
      <3>3. \A g \in Catalogs : CatalogSettled(g)'
        BY <2>4, <3>1, <3>2
      <3> QED BY <1>0, <3>1, <3>3 DEF Served, TypeInv, TypeOK
    <2>6. ASSUME NEW g \in GitRepos, PruneGit(g) PROVE Served'
      <3>1. /\ g \in Catalogs /\ spec.git[g] = "absent" /\ pc' = "git" /\ mem' = mem
            /\ git' = [git EXCEPT ![g] = FALSE] /\ mirror' = [mirror EXCEPT ![g] = NoCopy]
        BY <2>3, <2>6 DEF PruneGit, GitUnwanted, GitMode, GoTo
      <3>2. \A h \in Catalogs \ {g} : git'[h] = git[h] /\ mirror'[h] = mirror[h]
        BY <1>0, <3>1 DEF Things, Catalogs, Mirrored
      <3> QED BY <1>0, <2>1, <2>3, <2>4, <3>1, <3>2 DEF Served, Working, Calm
    <2>7. \A g : ~PruneGitFails(g)
      BY NoFault DEF PruneGitFails
    <2>8. ASSUME NEW g \in GitRepos, GitDone(g),
                 \A h \in Catalogs \ {g} : git'[h] = git[h] /\ mirror'[h] = mirror[h],
                 g \in Catalogs /\ spec.git[g] # "absent" => CatalogSettled(g)'
          PROVE  Served'
      <3>1. pc' = "git" /\ mem'.todo = mem.todo \ {g} /\ mem' # None
        BY <1>0, <2>1, <2>8 DEF GitDone, GoTo, Passes, TypeInv, TypeOK
      <3>2. \A h \in Catalogs \ mem'.todo : spec.git[h] # "absent" => CatalogSettled(h)'
        <4> SUFFICES ASSUME NEW h \in Catalogs, h \notin mem'.todo, spec.git[h] # "absent"
                     PROVE  CatalogSettled(h)'
          OBVIOUS
        <4>1. CASE h = g
          BY <2>8, <4>1
        <4>2. CASE h # g
          BY <2>3, <2>4, <2>8, <3>1, <4>2
        <4> QED BY <4>1, <4>2
      <3> QED BY <1>0, <3>1, <3>2 DEF Served, Working, Calm
    <2>9. ASSUME NEW g \in GitRepos, GitFails(g) PROVE Served'
      <3>1. /\ ~GitUsable(g) /\ GitDone(g) /\ GitMode(g) # "absent"
            /\ mirror' = GitCopied(g) /\ UNCHANGED <<git, secrets>>
        BY <2>9, NoFault DEF GitFails, GivesUp, EndPass
      <3>2. CatalogSettled(g)'
        <4>1. spec' = spec /\ UNCHANGED <<source, broken>> /\ mem.spec = spec
          BY <1>0, <2>3, <3>1 DEF secrets, Calm
        <4>2. /\ spec.git[g] # "absent"
              /\ g \notin broken => /\ spec.git[g] # "anonymous"
                                    /\ ~(spec.git[g] = "basic" /\ source[g] # None)
          BY <3>1, <4>1 DEF GitUsable, GitMode
        <4> QED BY <4>1, <4>2 DEF CatalogSettled
      <3>3. \A h \in Catalogs \ {g} : git'[h] = git[h] /\ mirror'[h] = mirror[h]
        BY <1>0, <3>1 DEF Things, Catalogs, Mirrored, GitCopied
      <3> QED BY <2>8, <3>1, <3>2, <3>3
    <2>10. ASSUME NEW g \in GitRepos, ApplyGit(g) PROVE Served'
      <3>1. GitDone(g) /\ source' = source /\ spec' = spec
        BY <1>0, <2>10 DEF ApplyGit, Calm, secrets
      <3>2. mirror' \in {mirror, GitCopied(g)} /\ \E b : git' = [git EXCEPT ![g] = b] \/ git' = git
        BY <2>10 DEF ApplyGit
      <3>3. \A h \in Catalogs \ {g} : git'[h] = git[h] /\ mirror'[h] = mirror[h]
        BY <1>0, <3>2 DEF Things, Catalogs, Mirrored, GitCopied
      <3>4. ASSUME spec.git[g] # "absent" PROVE CatalogSettled(g)'
        <4>1. GitUsable(g) /\ mirror' = GitCopied(g) /\ git' = [git EXCEPT ![g] = TRUE]
          BY <2>3, <2>10, <3>4 DEF ApplyGit, GitMode
        <4>2. git'[g]
          BY <1>0, <4>1 DEF Things
        <4>3. CASE spec.git[g] = "basic"
          <5> DEFINE copy == [type |-> "basic", cred |-> source[g]]
          <5>1. mirror' = [mirror EXCEPT ![g][2] = copy]
            BY <2>3, <4>1, <4>3 DEF GitCopied, GitMode, GitUsable
          <5>2. copy.cred = source[g]
            OBVIOUS
          <5> HIDE DEF copy
          <5>3. mirror'[g][2] = copy
            BY <1>0, <5>1 DEF Things, Places, Mirrored
          <5>4. mirror'[g][2].cred = source[g]
            BY <5>2, <5>3
          <5> QED BY <3>1, <4>2, <4>3, <5>4 DEF CatalogSettled
        <4>4. CASE spec.git[g] = "anonymous"
          BY <3>1, <4>2, <4>4 DEF CatalogSettled
        <4> QED BY <2>3, <4>1, <4>3, <4>4 DEF GitUsable, GitMode
      <3> QED BY <2>8, <3>1, <3>3, <3>4
    <2> QED BY <1>4, <2>5, <2>6, <2>7, <2>9, <2>10
  <1> QED BY <1>1, <1>2, <1>3, <1>4

LEMMA StatusServed ==
    ASSUME TypeInv, Served, faults' = 0, ~queued', Status \/ StatusFails
    PROVE  Served'
  <1>1. Calm
    BY StepCalm DEF Next, Pass
  <1>2. ~StatusFails
    BY NoFault DEF StatusFails
  <1>3. client' = source[Token] /\ pc = "status" /\ UNCHANGED <<mirror, git, secrets>>
    BY <1>2, NoFault DEF Status
  <1>4. ~queued /\ mem' = None
    BY <1>2 DEF Status, EndPass
  <1>5. mem # None
    BY <1>3 DEF TypeInv, TypeOK
  <1>6. \A g \in Catalogs : CatalogSettled(g)
    BY <1>3, <1>4, <1>5 DEF Served
  <1>7. \A g \in Catalogs : CatalogSettled(g)'
    BY <1>1, <1>3, <1>6, CatalogStays DEF Catalogs, secrets
  <1> QED BY <1>3, <1>4, <1>7 DEF Served, secrets

\* A token that is rotated queues a pass.
LEMMA OutsideServed ==
    ASSUME TypeInv, Served, faults' = 0, ~queued', Save \/ Others \/ Restart \/ UNCHANGED vars
    PROVE  Served'
  <1> Things BY TypesOfThings DEF TypeInv
  <1>1. Calm
    BY StepCalm DEF Next
  <1>2. ~Restart
    BY NoFault DEF Restart
  <1>3. UNCHANGED <<pc, mem, mirror, git, client>> /\ ~queued
    <2>1. ASSUME Save \/ UNCHANGED vars PROVE UNCHANGED <<pc, mem, mirror, git, client>> /\ ~queued
      BY <2>1 DEF Save, SaveBegin, SaveClear, SaveApply, SaveFails, objects, vars
    <2>2. ASSUME NEW k \in Keyed, NEW new, Rotate(k, new)
          PROVE  UNCHANGED <<pc, mem, mirror, git, client>> /\ ~queued
      BY <2>2 DEF Rotate, objects
    <2>3. ASSUME NEW c \in Customs, TakeName(c)
          PROVE  UNCHANGED <<pc, mem, mirror, git, client>> /\ ~queued
      BY <2>3 DEF TakeName
    <2>4. Others => \/ \E k \in Keyed, new \in Creds \cup {None} : Rotate(k, new)
                    \/ \E c \in Customs : TakeName(c)
      BY DEF Others, RotateKnown, Discover, RotateCA, HandEdit, HelmRemove
    <2> QED BY <1>2, <2>1, <2>2, <2>3, <2>4
  <1>4. source'[Token] = source[Token]
    <2>1. ASSUME NEW k \in Keyed, NEW new, Rotate(k, new) PROVE k # Token
      <3>1. ~Referenced(k)
        BY <2>1 DEF Rotate
      <3>2. Token \notin Built /\ Token \notin Customs /\ Token \notin GitRepos
        BY KindsAssumption DEF Mirrored
      <3> QED BY <3>1, <3>2 DEF Referenced
    <2>2. ASSUME NEW k \in Keyed, NEW new, Rotate(k, new) PROVE source'[Token] = source[Token]
      BY <2>1, <2>2 DEF Rotate, Things, Keyed
    <2>3. source' = source \/ \E k \in Keyed, new \in Creds \cup {None} : Rotate(k, new)
      BY <1>2 DEF Save, SaveBegin, SaveClear, SaveApply, SaveFails, Others, RotateKnown, Discover,
                  RotateCA, HandEdit, TakeName, HelmRemove, secrets, vars
    <2> QED BY <2>2, <2>3
  <1>a. broken' = broken
    BY <1>2 DEF Save, SaveBegin, SaveClear, SaveApply, SaveFails, Others, Rotate, RotateKnown, Discover,
                RotateCA, HandEdit, TakeName, HelmRemove, secrets, vars
  <1>5. \A g \in Catalogs : CatalogSettled(g)' <=> CatalogSettled(g)
    BY <1>1, <1>3, <1>a, CatalogStays DEF Catalogs
  <1>6. \A g \in Catalogs : spec'.git[g] = spec.git[g]
    BY <1>1 DEF Calm
  <1> QED BY <1>3, <1>4, <1>5, <1>6 DEF Served

LEMMA StepServed ==
    ASSUME TypeInv, Keeping, Shaped, Settling, Served, faults' = 0, [Next]_vars
    PROVE  Served'
  <1> SUFFICES ASSUME ~queued' PROVE Served'
    BY DEF Served
  <1>1. CASE Pass
    BY <1>1, StartServed, LateServed, StatusServed DEF Pass, TurnStep
  <1> QED BY <1>1, OutsideServed DEF Next

LEMMA SpecFaultless == Spec => []Faultless
  <1>1. ASSUME Init PROVE Faultless
    <2>1. \A k \in Built \cup Customs : k \in Mirrored /\ ReposOf(k) \subseteq Repos
      BY ReposApart
    <2>2. \A k \in Built \cup Customs : mirror[k] = NoCopy /\ \A x \in ReposOf(k) : repo[x] = None
      BY <1>1, <2>1 DEF Init
    <2>3. NoCopy[1] = None /\ NoCopy[2] = None
      BY DEF NoCopy, Places
    <2>4. \A k \in Built \cup Customs : CleanOf(k, pc, mem)
      BY <2>2, <2>3 DEF CleanOf, Told, Places
    <2>5. Served
      BY <1>1 DEF Init, Served
    <2> QED BY <2>4, <2>5 DEF Clean, Faultless
  <1>2. TypeInv /\ Keeping /\ Shaped /\ Settling /\ Faultless /\ [Next]_vars => Faultless'
    BY NoFault, StepClean, StepServed DEF Faultless
  <1> QED BY <1>1, <1>2, SpecSettling, PTL DEF Spec

\* As long as no call has failed and nothing was restarted, the cluster at rest
\* has no credentials of a custom repository that is gone or anonymous, every
\* catalog that can be is applied or pruned (reconcileBlueprintCatalogs), the
\* Rancher client uses the token that is in its Secret
\* (reconcileRancherCatalogClient), and Rancher has read the credentials each
\* ClusterRepo is to use: a pass that finds their copy changed forces the
\* update.
THEOREM FaultlessMeansClean == Spec => []FaultlessRestIsClean
  <1>1. ASSUME TypeInv, Settling, Faultless PROVE FaultlessRestIsClean
    <2> SUFFICES ASSUME AtRest, faults = 0 PROVE FaultlessRestIsClean
      BY DEF FaultlessRestIsClean
    <2> Things BY <1>1, TypesOfThings DEF TypeInv
    <2>1. mem = None /\ ~queued /\ pc = "idle" /\ Settled
      BY <1>1 DEF AtRest, TypeInv, TypeOK, Settling
    <2>2. client = source[Token] /\ \A g \in Catalogs : CatalogSettled(g)
      BY <1>1, <2>1 DEF Faultless, Served
    <2>3. \A k \in Built \cup Customs : CleanOf(k, pc, mem)
      BY <1>1 DEF Faultless, Clean
    <2>4. \A k \in Built \cup Customs : \A x \in ReposOf(k) : Told(x, k)
      BY <2>1, <2>3 DEF CleanOf, Excused
    <2>5. ASSUME NEW c \in Customs, spec.custom[c] \in {"absent", "anonymous"}
          PROVE  mirror[c] = NoCopy
      <3>1. CustomSettled(c) /\ CleanOf(c, pc, mem) /\ c \in Mirrored
        BY <2>1, <2>3, ReposApart DEF Settled
      <3>2. CASE spec.custom[c] = "absent"
        BY <2>1, <3>1, <3>2 DEF CustomSettled, CleanOf, Orphaned
      <3>3. CASE spec.custom[c] = "anonymous"
        <4>1. mirror[c][1] = None
          BY <3>1, <3>3 DEF CustomSettled
        <4>2. mirror[c][1] = mirror[c][2]
          BY <3>1 DEF CleanOf
        <4>3. \A n \in Places : mirror[c][n] = None
          BY <4>1, <4>2 DEF Places
        <4> QED BY <3>1, <4>3 DEF Things, NoCopy
      <3> QED BY <2>5, <3>2, <3>3
    <2>6. /\ \A r \in Registries : ReposOf(r) = {r} /\ r \in Built
          /\ Nvidia \in Built /\ ReposOf(Nvidia) = NvRepos
          /\ \A c \in Customs : ReposOf(c) = {c}
      BY ReposApart, KindsAssumption DEF ReposOf, Built
    <2> QED BY <2>2, <2>4, <2>5, <2>6 DEF FaultlessRestIsClean
  <1> QED BY <1>1, SpecSettling, SpecFaultless, PTL
=============================================================================
