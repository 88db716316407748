---------------------------- MODULE SettingsRepos ----------------------------
(***************************************************************************)
(* The Settings object, the HTTP handler that saves it and the controller  *)
(* that turns it into chart repositories: a ClusterRepo per registry or    *)
(* custom repository, Fleet GitRepos, and copies of the credentials in the *)
(* namespaces where Rancher and Fleet read them.  Credentials rotate and   *)
(* users save while a pass works on the copy it read; a call may fail and  *)
(* the process may stop between any two.                                   *)
(***************************************************************************)
EXTENDS Integers, FiniteSets

CONSTANTS
    Registries,  \* registries with one repository
    Nvidia,      \* the registry with several
    Customs,     \* names an administrator may give a repository
    GitRepos,    \* blueprint catalogs and the Fleet repository
    Fleet,       \* the latter, one of GitRepos
    Token,       \* the Rancher API token
    Creds,       \* contents of a credential
    None,
    HelmOwned,   \* registries and catalogs set by the chart's values
    Requests,    \* what users save
    Stored,      \* the specs Settings may start with
    Failing,     \* the kinds of call that may fail
    MaxEdits,    \* bound: saves, kubectl edits, rotations, foreign repositories
    MaxFaults,   \* bound: failed calls and restarts
    MaxEvents    \* bound: all of these together

Built    == Registries \cup {Nvidia}
Catalogs == GitRepos \ {Fleet}
Mirrored == Built \cup Customs \cup GitRepos  \* whose credentials are copied
Keyed    == Mirrored \cup {Token}
Owned    == Built \cup GitRepos
NvRepos  == {"org", "public", "gated"}
Repos    == Registries \cup NvRepos \cup Customs  \* ClusterRepos
Places   == 1 .. 2      \* cattle-system, then the Fleet workspaces
Refs     == {"none", "explicit", "known"}
Modes    == {"absent", "anonymous", "basic", "ssh", "invalid"}
Copies   == [type : {"basic", "ssh"}, cred : Creds]
RepoObjs == [label : {"managed", "team", "custom", "foreign"},
             secret : BOOLEAN, told : Creds \cup {None}]
Specs    == [refs : [Built -> Refs], mirrored : BOOLEAN,
             custom : [Customs -> Modes], git : [GitRepos -> Modes]]
Managers == {"api", "helm", "controller"}
Saves    == [spec : Specs, clear : SUBSET Built]
Passes   == [spec : Specs, todo : SUBSET Mirrored, at : Mirrored \cup {None},
             cred : Creds \cup {None}, tear : BOOLEAN, changed : BOOLEAN,
             work : SUBSET Repos, keep : SUBSET Customs, failed : BOOLEAN]

ASSUME KindsAssumption ==
    /\ Nvidia \notin Registries /\ Fleet \in GitRepos
    /\ Registries \cap NvRepos = {} /\ Customs \cap (Built \cup NvRepos) = {}
    /\ GitRepos \cap (Built \cup Customs) = {}
    /\ None \notin Keyed \cup Creds \cup Copies \cup RepoObjs \cup Saves \cup Passes
    /\ Token \notin Mirrored /\ HelmOwned \subseteq Built \cup Catalogs
    /\ Requests \subseteq Specs /\ Stored \subseteq Specs
ASSUME LimitsAssumption == {MaxEdits, MaxFaults, MaxEvents} \subseteq Nat

VARIABLES
    spec,        \* Settings
    owners,      \* the field managers of each registry's refs and GitRepo
    save,        \* the request being saved
    source,      \* the Secrets that refs name, one per user of credentials
    known,       \* the well-known Secret of each registry
    userless,    \* that of NVIDIA has a token and no user yet
    broken,      \* whose CA Secret is missing or malformed; a custom
                 \* repository's fails the write of its ClusterRepo
    astray,      \* history: registries whose last look-up failed unnoticed
    mirror,      \* the copies of each credential
    repo,        \* the ClusterRepos, and what Rancher last read
    git,         \* which GitRepos exist
    client,      \* the Rancher client in memory, by its token
    pc, mem,     \* the pass: where it is, and what it holds
    queued,      \* the controller is to run again
    edits, faults

settings == <<spec, owners>>
secrets  == <<source, known, userless, broken, astray>>
objects  == <<mirror, repo, git, client>>
bounds   == <<edits, faults>>
vars     == <<settings, save, secrets, objects, pc, mem, queued, bounds>>

Stages == {"idle", "wire", "git", "next", "retype", "mirror", "apply", "force",
           "drop", "unmirror", "prune", "unmirrorPruned", "status"}

TypeOK ==
    /\ spec \in Specs /\ owners \in [Owned -> SUBSET Managers]
    /\ save \in Saves \cup {None}
    /\ source \in [Keyed -> Creds \cup {None}]
    /\ known \in [Built -> Creds \cup {None}]
    /\ userless \in BOOLEAN /\ broken \subseteq Owned /\ astray \subseteq Built
    /\ mirror \in [Mirrored -> [Places -> Copies \cup {None}]]
    /\ repo \in [Repos -> RepoObjs \cup {None}]
    /\ git \in [GitRepos -> BOOLEAN] /\ client \in Creds \cup {None}
    /\ pc \in Stages /\ mem \in Passes \cup {None} /\ queued \in BOOLEAN
    /\ edits \in Nat /\ faults \in Nat
    /\ (mem = None) = (pc = "idle")

\* The value of an owned field, and what stands for its absence.
Value(s, o) == IF o \in Built THEN s.refs[o] ELSE s.git[o]
Unset(o)    == IF o \in Built THEN "none" ELSE "absent"

NoCopy == [n \in Places |-> None]

Init ==
    /\ spec \in Stored
    /\ owners = [o \in Owned |-> IF Value(spec, o) = Unset(o) THEN {}
                                 ELSE IF o \in HelmOwned THEN {"helm"} ELSE {"api"}]
    /\ save = None
    /\ source \in [Keyed -> Creds] /\ known = [r \in Built |-> None]
    /\ userless = FALSE /\ broken = {} /\ astray = {}
    /\ mirror = [k \in Mirrored |-> NoCopy] /\ repo = [r \in Repos |-> None]
    /\ git = [g \in GitRepos |-> FALSE] /\ client = None
    /\ pc = "idle" /\ mem = None /\ queued = TRUE
    /\ edits = 0 /\ faults = 0

-----------------------------------------------------------------------------
(* Credentials.                                                            *)

\* EffectiveRefs: explicit refs win while they resolve, then the well-known
\* Secret, then refs that lead nowhere.
Effective(r, ref) ==
    IF ref = "explicit" /\ source[r] # None THEN "explicit"
    ELSE IF known[r] # None THEN "known" ELSE ref

\* ReadPair, with a missing Secret read as no credentials.
Pair(r, e) ==
    CASE e = "explicit" -> source[r]
      [] e = "known"    -> known[r]
      [] OTHER          -> None

Read(r, ref) == Pair(r, Effective(r, ref))

HasRefs(r, ref) == Effective(r, ref) # "none"

\* EffectiveRefs returns no error: where a read fails it takes the well-known
\* Secret, and where that one cannot be read or completed the refs as they are.
Strays(r, ref) == {ref} \cup (IF known[r] # None THEN {"known"} ELSE {})

\* normalizeNvidiaSecret completes the Secret that is discovered; the refs as
\* they are, after a failure, were not.
Completed(r, e, discovered) ==
    userless' = (userless /\ ~(r = Nvidia /\ e = "known" /\ discovered))

\* The copy a user of credentials is to have.
CopyType(k) == IF k \in Customs /\ mem.spec.custom[k] = "ssh" THEN "ssh" ELSE "basic"
CopyOf(k) == [type |-> CopyType(k), cred |-> mem.cred]

\* A Secret's type is immutable.
Blocked(k, n) == mirror[k][n] # None /\ mirror[k][n].type # CopyType(k)

-----------------------------------------------------------------------------
(* How a pass goes on and ends.                                            *)

Fault(kind) ==
    /\ kind \in Failing /\ faults < MaxFaults /\ edits + faults < MaxEvents
    /\ faults' = faults + 1

Edit == edits < MaxEdits /\ edits + faults < MaxEvents /\ edits' = edits + 1

GoTo(stage, m) == pc' = stage /\ mem' = m /\ UNCHANGED queued

\* A pass that returns an error is queued again.
EndPass(error) ==
    /\ pc' = "idle" /\ mem' = None /\ queued' = (queued \/ error)

\* Fault: a repository that failed for the moment is not kept.
FailsUnkept(k) ==
    IF k \in Customs
    THEN GoTo("next", [mem EXCEPT !.todo = @ \ {k}, !.failed = TRUE])
    ELSE EndPass(TRUE)

\* A registry's failure ends the pass, a custom repository's does not: what
\* it has already is kept.
Fails(k) ==
    IF k \in Customs
    THEN GoTo("next", [mem EXCEPT !.todo = @ \ {k}, !.keep = @ \cup {k},
                                  !.failed = TRUE])
    ELSE EndPass(TRUE)

Done(k) ==
    GoTo("next", [mem EXCEPT !.todo = @ \ {k},
                             !.keep = @ \cup ({k} \cap Customs)])

BeginPass ==
    /\ pc = "idle" /\ queued
    /\ pc' = "wire" /\ queued' = FALSE
    /\ mem' = [spec |-> spec, todo |-> GitRepos, at |-> None, cred |-> None,
               tear |-> FALSE, changed |-> FALSE, work |-> {}, keep |-> {},
               failed |-> FALSE]
    /\ UNCHANGED <<settings, save, secrets, objects, bounds>>

\* Writing the well-known Secret queues the controller, which watches it.
Onward(stage, m) ==
    pc' = stage /\ mem' = m /\ queued' = (queued \/ userless' # userless)

Wanted == [r \in Built |-> Effective(r, mem.spec.refs[r])]

\* The refs found for each registry, some of them by a look-up that failed.
FoundRefs(e) ==
    \/ e = Wanted /\ UNCHANGED faults /\ Completed(Nvidia, e[Nvidia], TRUE)
    \/ /\ Fault("lookup") /\ e # Wanted /\ \A r \in Built : e[r] \in Strays(r, mem.spec.refs[r])
       /\ Completed(Nvidia, e[Nvidia], e[Nvidia] # mem.spec.refs[Nvidia])

Wired(e) == {r \in Built : e[r] # mem.spec.refs[r]}

\* ensureWellKnownSecretRefs: a merge patch of the refs that differ, whose
\* response replaces the pass's copy.
Wire ==
    /\ pc = "wire"
    /\ \E e \in [Built -> Refs] :
         /\ FoundRefs(e)
         /\ LET new == [spec EXCEPT !.refs = [r \in Built |->
                          IF r \in Wired(e) THEN e[r] ELSE @[r]]]
            IN  IF Wired(e) = {} THEN Onward("git", mem) /\ UNCHANGED settings
                ELSE /\ spec' = new
                     /\ owners' = [o \in Owned |->
                          IF Value(new, o) # Value(spec, o) THEN {"controller"} ELSE owners[o]]
                     /\ pc' = "git" /\ mem' = [mem EXCEPT !.spec = new]
                     /\ queued' = TRUE
    /\ UNCHANGED <<save, source, known, broken, astray, objects, edits>>

WireFails ==
    /\ pc = "wire" /\ Wired(Wanted) # {} /\ Fault("apply") /\ EndPass(TRUE)
    /\ Completed(Nvidia, Wanted[Nvidia], TRUE)
    /\ UNCHANGED <<settings, save, source, known, broken, astray, objects, edits>>

-----------------------------------------------------------------------------
(* Fleet's repository, then the blueprint catalogs; a catalog's failure is *)
(* logged and that is all.                                                 *)

GitTurn(g) == pc = "git" /\ g \in mem.todo /\ (g = Fleet \/ Fleet \notin mem.todo)

GitMode(g) == mem.spec.git[g]

GitUsable(g) ==
    /\ GitMode(g) = "anonymous" \/ (GitMode(g) = "basic" /\ source[g] # None)
    /\ g \notin broken

GitCopied(g) ==
    IF GitMode(g) = "basic" /\ source[g] # None
    THEN [mirror EXCEPT ![g][2] = [type |-> "basic", cred |-> source[g]]]
    ELSE mirror

GitDone(g) == GoTo("git", [mem EXCEPT !.todo = @ \ {g}])

ApplyGit(g) ==
    /\ GitTurn(g)
    /\ \/ /\ GitUsable(g)
          /\ mirror' = GitCopied(g) /\ git' = [git EXCEPT ![g] = TRUE]
       \/ /\ GitMode(g) = "absent" /\ UNCHANGED mirror
          /\ git' = IF g = Fleet THEN [git EXCEPT ![g] = FALSE] ELSE git
    /\ GitDone(g)
    /\ UNCHANGED <<settings, save, secrets, repo, client, bounds>>

\* Fault: a catalog's failure ends the pass as well.
EndsThePass(g) == EndPass(TRUE)

GivesUp(g) == IF g = Fleet THEN EndPass(TRUE) ELSE GitDone(g)

\* The CA is read after the copy of the credentials is written.
GitFails(g) ==
    /\ GitTurn(g)
    /\ \/ GitMode(g) # "absent" /\ ~GitUsable(g) /\ mirror' = GitCopied(g) /\ UNCHANGED faults
       \/ GitUsable(g) /\ Fault("apply") /\ mirror' \in {mirror, GitCopied(g)}
       \/ g = Fleet /\ GitMode(g) = "absent" /\ Fault("delete") /\ UNCHANGED mirror
    /\ GivesUp(g)
    /\ UNCHANGED <<settings, save, secrets, repo, git, client, edits>>

GitUnwanted == {g \in Catalogs : git[g] /\ GitMode(g) = "absent"}

ToRegistries == GoTo("next", [mem EXCEPT !.todo = Built])

PruneGit(g) ==
    /\ pc = "git" /\ mem.todo = {} /\ g \in GitUnwanted
    /\ git' = [git EXCEPT ![g] = FALSE] /\ mirror' = [mirror EXCEPT ![g] = NoCopy]
    /\ GoTo("git", mem)
    /\ UNCHANGED <<settings, save, secrets, repo, client, bounds>>

PruneGitFails(g) ==
    /\ pc = "git" /\ mem.todo = {} /\ g \in GitUnwanted /\ Fault("delete")
    /\ git' \in {git, [git EXCEPT ![g] = FALSE]}
    /\ ToRegistries
    /\ UNCHANGED <<settings, save, secrets, mirror, repo, client, edits>>

GitPruned ==
    /\ pc = "git" /\ mem.todo = {} /\ GitUnwanted = {}
    /\ ToRegistries
    /\ UNCHANGED <<settings, save, secrets, objects, bounds>>

-----------------------------------------------------------------------------
(* A registry or a custom repository: its credentials' copies, then its    *)
(* ClusterRepos, then the forced update.                                   *)

\* The ClusterRepos that carry the credentials, given what the pass read.
Authenticated(k) ==
    IF mem.cred = None THEN {}
    ELSE IF k # Nvidia THEN {k}
    ELSE IF mem.spec.mirrored THEN NvRepos ELSE {"gated"}

ToApply(k) ==
    IF k # Nvidia THEN {k}
    ELSE IF mem.spec.mirrored THEN NvRepos ELSE {"public"} \cup Authenticated(k)

LabelOf(r) ==
    CASE r \in Customs             -> "custom"
      [] r \in {"public", "gated"} -> "team"
      [] OTHER                     -> "managed"

\* Rancher reads the credentials when a repository starts to carry them.
Applied(r, secret) ==
    [label  |-> LabelOf(r), secret |-> secret,
     told   |-> IF ~secret THEN None
                ELSE IF repo[r] # None /\ repo[r].secret THEN repo[r].told
                ELSE mem.cred]

\* Registries first, NVIDIA last.
Turn(r) ==
    /\ pc = "next" /\ r \in mem.todo \cap Built
    /\ r = Nvidia => mem.todo \cap Registries = {}

\* A registry without credentials goes; NVIDIA's mirror may be anonymous, and
\* its public repositories need no more than the refs.
TornDown(r, e, cred) ==
    IF r # Nvidia THEN cred = None
    ELSE IF mem.spec.mirrored THEN e # "none" /\ cred = None
    ELSE e = "none"

Holding(k, cred, tear, work) ==
    [mem EXCEPT !.at = k, !.cred = cred, !.tear = tear, !.work = work,
                !.changed = FALSE]

\* A Secret without a user does not resolve.
Obtained(r, e) == IF r = Nvidia /\ e = "known" /\ userless' THEN None ELSE Pair(r, e)

\* The refs a look-up gives: one that fails is not noticed.
LooksUp(r, e) ==
    LET ref   == mem.spec.refs[r]
        right == Effective(r, ref)
    IN  \/ /\ e = right /\ UNCHANGED faults
           /\ Completed(r, e, TRUE) /\ astray' = astray \ {r}
        \/ /\ Fault("lookup") /\ e \in Strays(r, ref) /\ Completed(r, e, e # ref)
           /\ e # right \/ Obtained(r, e) # Pair(r, e)
           /\ astray' = astray \cup {r}

LookedUp == UNCHANGED <<settings, save, source, known, broken, mirror, git, client, edits>>

TearDown(r) ==
    /\ Turn(r)
    /\ \E e \in Refs :
         /\ LooksUp(r, e) /\ TornDown(r, e, Obtained(r, e))
         /\ Onward("drop", Holding(r, Obtained(r, e), TRUE, IF r = Nvidia THEN NvRepos ELSE {r}))
    /\ LookedUp /\ UNCHANGED repo

\* In connected mode the organisation's repositories come before the Secret.
OrgApplied(r) ==
    IF r = Nvidia /\ ~mem.spec.mirrored
    THEN [repo EXCEPT !["org"] = Applied("org", FALSE)] ELSE repo

SetUp(r) ==
    /\ Turn(r)
    /\ \E e \in Refs :
         LET cred == Obtained(r, e)
         IN  /\ LooksUp(r, e) /\ ~TornDown(r, e, cred)
             /\ Onward(IF cred = None THEN "unmirror" ELSE "mirror", Holding(r, cred, FALSE, {}))
    /\ repo' = OrgApplied(r)
    /\ LookedUp

\* The credentials that the refs found lead to are read once more, and this
\* failure ends the pass.
TurnFails(r) ==
    /\ Turn(r) /\ HasRefs(r, mem.spec.refs[r]) /\ Fault("read") /\ Fails(r)
    /\ Completed(r, Effective(r, mem.spec.refs[r]), TRUE) /\ UNCHANGED astray
    /\ repo' \in {repo, OrgApplied(r)}
    /\ LookedUp

\* Each place in turn; a failure leaves the copies written so far.
Copied(k, upTo) ==
    [mirror EXCEPT ![k] = [n \in Places |-> IF n <= upTo THEN CopyOf(k) ELSE @[n]]]

\* Fault: the copies are compared once they are overwritten.
WriteMirrorFirst ==
    /\ pc = "mirror" /\ mem.at \notin broken /\ \A n \in Places : ~Blocked(mem.at, n)
    /\ mirror' = Copied(mem.at, 2)
    /\ GoTo("apply", [mem EXCEPT !.changed = mirror'[mem.at][1] # CopyOf(mem.at),
                                 !.work = ToApply(mem.at)])
    /\ UNCHANGED <<settings, save, secrets, repo, git, client, bounds>>

\* Whether the credentials changed is told by cattle-system's copy, before it
\* is overwritten, and remembered by this pass alone.
WriteMirror ==
    /\ pc = "mirror" /\ mem.at \notin broken /\ \A n \in Places : ~Blocked(mem.at, n)
    /\ mirror' = Copied(mem.at, 2)
    /\ GoTo("apply", [mem EXCEPT !.changed = mirror[mem.at][1] # CopyOf(mem.at),
                                 !.work = ToApply(mem.at)])
    /\ UNCHANGED <<settings, save, secrets, repo, git, client, bounds>>

\* readRegistryCABundle comes before the copies.
MirrorFails ==
    /\ pc = "mirror" /\ Fails(mem.at)
    /\ \/ mem.at \in broken /\ UNCHANGED <<mirror, faults>>
       \/ /\ mem.at \notin broken
          /\ \E upTo \in 0 .. 1 :
               /\ \A n \in 1 .. upTo : ~Blocked(mem.at, n)
               /\ \/ Blocked(mem.at, upTo + 1) /\ UNCHANGED faults
                  \/ ~Blocked(mem.at, upTo + 1) /\ Fault("mirror")
               /\ mirror' = Copied(mem.at, upTo)
    /\ UNCHANGED <<settings, save, secrets, repo, git, client, edits>>

\* The organisation's repositories come first.
ApplyRepo(r) ==
    /\ pc = "apply" /\ r \in mem.work /\ (r = "org" \/ "org" \notin mem.work)
    /\ repo' = [repo EXCEPT ![r] = Applied(r, r \in Authenticated(mem.at))]
    /\ LET left == mem.work \ {r}
       IN  IF left # {} THEN GoTo("apply", [mem EXCEPT !.work = left])
           ELSE GoTo("force", [mem EXCEPT !.work =
                     IF mem.changed THEN Authenticated(mem.at) ELSE {}])
    /\ UNCHANGED <<settings, save, secrets, mirror, git, client, bounds>>

ApplyFails ==
    /\ pc = "apply" /\ Fault("apply") /\ Fails(mem.at)
    /\ UNCHANGED <<settings, save, secrets, objects, edits>>

ForceUpdate(r) ==
    /\ pc = "force" /\ r \in mem.work
    /\ repo' = [repo EXCEPT ![r].told = mem.cred]
    /\ GoTo("force", [mem EXCEPT !.work = @ \ {r}])
    /\ UNCHANGED <<settings, save, secrets, mirror, git, client, bounds>>

ForceFails ==
    /\ pc = "force" /\ mem.work # {} /\ Fault("force") /\ Fails(mem.at)
    /\ UNCHANGED <<settings, save, secrets, objects, edits>>

\* pruneTeamRepos, for a gated repository whose credentials are gone.
Forced ==
    /\ pc = "force" /\ mem.work = {}
    /\ repo' = IF mem.at = Nvidia /\ ~mem.spec.mirrored /\ mem.cred = None
               THEN [repo EXCEPT !["gated"] = None] ELSE repo
    /\ Done(mem.at)
    /\ UNCHANGED <<settings, save, secrets, mirror, git, client, bounds>>

DropRepo(r) ==
    /\ pc = "drop" /\ r \in mem.work /\ (r # "org" \/ mem.work = {"org"})
    /\ repo' = [repo EXCEPT ![r] = None]
    /\ LET left == mem.work \ {r}
       IN  GoTo(IF left = {} THEN "unmirror" ELSE "drop", [mem EXCEPT !.work = left])
    /\ UNCHANGED <<settings, save, secrets, mirror, git, client, bounds>>

\* deleteAuthSecret: at the end of a tear-down, or because access is anonymous.
Unmirror ==
    /\ pc = "unmirror"
    /\ mirror' = [mirror EXCEPT ![mem.at] = NoCopy]
    /\ IF mem.tear THEN Done(mem.at)
       ELSE GoTo("apply", [mem EXCEPT !.work = ToApply(mem.at)])
    /\ UNCHANGED <<settings, save, secrets, repo, git, client, bounds>>

\* It goes on after a failure and reports the first.
HalfDeleted(k) ==
    {[mirror EXCEPT ![k] = [n \in Places |-> IF n \in left THEN @[n] ELSE None]] :
        left \in (SUBSET {n \in Places : mirror[k][n] # None}) \ {{}}}

DropFails ==
    /\ pc \in {"drop", "unmirror"} /\ Fault("delete") /\ Fails(mem.at)
    /\ IF pc = "drop" THEN UNCHANGED mirror ELSE mirror' \in HalfDeleted(mem.at)
    /\ UNCHANGED <<settings, save, secrets, repo, git, client, edits>>

-----------------------------------------------------------------------------
(* Custom repositories, then what is left of those no longer listed.       *)

CustomMode(c) == mem.spec.custom[c]

CustomTurn(c) == pc = "next" /\ c \in mem.todo \cap Customs

Taken(c) == repo[c] # None /\ repo[c].label # "custom"

ToCustoms ==
    /\ pc = "next" /\ mem.todo = {} /\ mem.at = Nvidia
    /\ GoTo("next", [mem EXCEPT !.at = None,
                                !.todo = {c \in Customs : CustomMode(c) # "absent"}])
    /\ UNCHANGED <<settings, save, secrets, objects, bounds>>

\* One edited into an invalid state is kept, one whose name is taken is not.
SkipCustom(c) ==
    /\ CustomTurn(c)
    /\ \/ CustomMode(c) = "invalid" /\ Done(c)
       \/ /\ CustomMode(c) # "invalid" /\ Taken(c)
          /\ GoTo("next", [mem EXCEPT !.todo = @ \ {c}, !.failed = TRUE])
    /\ UNCHANGED <<settings, save, secrets, objects, bounds>>

StartCustom(c) ==
    /\ CustomTurn(c) /\ CustomMode(c) # "invalid" /\ ~Taken(c)
    /\ GoTo("retype", Holding(c, IF CustomMode(c) = "anonymous" THEN None ELSE source[c],
                              FALSE, {}))
    /\ UNCHANGED <<settings, save, secrets, objects, bounds>>

CustomFails(c) ==
    /\ CustomTurn(c) /\ CustomMode(c) # "invalid" /\ Fault("read") /\ Fails(c)
    /\ UNCHANGED <<settings, save, secrets, objects, edits>>

\* currentAuthSecretType: cattle-system's copy decides for every place.
Outdated(c) ==
    /\ mirror[c][1] # None
    /\ CustomMode(c) = "anonymous" \/ mirror[c][1].type # CopyType(c)

Retype ==
    /\ pc = "retype"
    /\ LET c == mem.at IN
         /\ mirror' = IF Outdated(c) THEN [mirror EXCEPT ![c] = NoCopy] ELSE mirror
         /\ IF mem.cred # None THEN GoTo("mirror", mem)
            ELSE IF CustomMode(c) = "ssh" THEN Fails(c)
            ELSE GoTo("apply", [mem EXCEPT !.work = {c}])
    /\ UNCHANGED <<settings, save, secrets, repo, git, client, bounds>>

RetypeFails ==
    /\ pc = "retype" /\ Outdated(mem.at) /\ Fault("delete") /\ Fails(mem.at)
    /\ mirror' \in HalfDeleted(mem.at)
    /\ UNCHANGED <<settings, save, secrets, repo, git, client, edits>>

Unwanted == {c \in Customs : repo[c] # None /\ repo[c].label = "custom" /\ c \notin mem.keep}

ToPrune ==
    /\ pc = "next" /\ mem.todo = {} /\ mem.at # Nvidia
    /\ GoTo("prune", mem)
    /\ UNCHANGED <<settings, save, secrets, objects, bounds>>

PruneRepo(c) ==
    /\ pc = "prune" /\ c \in Unwanted
    /\ repo' = [repo EXCEPT ![c] = None]
    /\ GoTo("unmirrorPruned", [mem EXCEPT !.at = c])
    /\ UNCHANGED <<settings, save, secrets, mirror, git, client, bounds>>

UnmirrorPruned ==
    /\ pc = "unmirrorPruned"
    /\ mirror' = [mirror EXCEPT ![mem.at] = NoCopy]
    /\ GoTo("prune", mem)
    /\ UNCHANGED <<settings, save, secrets, repo, git, client, bounds>>

\* The rest is left to the next pass, which looks for repositories only.
PruneFails ==
    /\ pc \in {"prune", "unmirrorPruned"}
    /\ Fault("delete") /\ GoTo("status", [mem EXCEPT !.failed = TRUE])
    /\ \/ pc = "prune" /\ Unwanted # {} /\ UNCHANGED mirror
       \/ pc = "unmirrorPruned" /\ mirror' \in HalfDeleted(mem.at)
    /\ UNCHANGED <<settings, save, secrets, repo, git, client, edits>>

\* reconcileRancherCatalogClient
Pruned ==
    /\ pc = "prune" /\ Unwanted = {}
    /\ GoTo("status", mem)
    /\ UNCHANGED <<settings, save, secrets, objects, bounds>>

\* The client is rebuilt, or given up when its token cannot be read; then the
\* status, stamped to the second: when that second is a new one, the write
\* queues the controller once more.
Status ==
    /\ pc = "status"
    /\ \/ client' = source[Token] /\ UNCHANGED faults
       \/ client' = None /\ Fault("read")
    /\ \E stamped \in BOOLEAN : EndPass(mem.failed \/ stamped)
    /\ UNCHANGED <<settings, save, secrets, mirror, repo, git, edits>>

StatusFails ==
    /\ pc = "status" /\ Fault("status") /\ EndPass(TRUE) /\ client' = source[Token]
    /\ UNCHANGED <<settings, save, secrets, mirror, repo, git, edits>>

-----------------------------------------------------------------------------
(* Saving: what is omitted is cleared first, then the rest is applied.     *)

Declared == {o \in Owned : "helm" \in owners[o]}

\* Fault: what Helm declared is applied with the rest.
EverythingIn(req) == req

\* filterHelmManagedCatalogs
Undeclared(req) ==
    [req EXCEPT !.git = [g \in GitRepos |->
        IF g \in Declared THEN "absent" ELSE req.git[g]]]

Acceptable(req) ==
    /\ \A c \in Customs : req.custom[c] # "invalid"
    /\ \A c \in Customs : req.custom[c] # "absent" => ~Taken(c)
    /\ \A g \in Declared \cap Catalogs : req.git[g] \in {"absent", spec.git[g]}

\* Fault: nothing is cleared, and the apply leaves what others own.
NothingOmitted(req) == {}

\* omittedSecretRefs
Omitted(req) == {r \in Built : req.refs[r] = "none" /\ spec.refs[r] # "none"}

SaveBegin(req) ==
    /\ save = None /\ Edit /\ Acceptable(req)
    /\ save' = [spec |-> Undeclared(req), clear |-> Omitted(req)]
    /\ UNCHANGED <<settings, secrets, objects, pc, mem, queued, faults>>

SaveClear ==
    /\ save # None /\ save.clear # {}
    /\ spec' = [spec EXCEPT !.refs = [r \in Built |->
                  IF r \in save.clear THEN "none" ELSE @[r]]]
    /\ owners' = [o \in Owned |-> IF o \in save.clear THEN {} ELSE owners[o]]
    /\ save' = [save EXCEPT !.clear = {}]
    /\ queued' = TRUE
    /\ UNCHANGED <<secrets, objects, pc, mem, bounds>>

\* A server-side apply takes what it lists, and removes what it omits only if
\* no other manager owns it.
Asked(o) == Value(save.spec, o) # Unset(o)
Left(o)  == IF owners[o] \ {"api"} = {} THEN Unset(o) ELSE Value(spec, o)
After(o) == IF Asked(o) THEN Value(save.spec, o) ELSE Left(o)

SaveApply ==
    /\ save # None /\ save.clear = {}
    /\ spec' = [save.spec EXCEPT !.refs = [r \in Built |-> After(r)],
                                 !.git = [g \in GitRepos |-> After(g)]]
    /\ owners' = [o \in Owned |->
         IF ~Asked(o) THEN owners[o] \ {"api"}
         ELSE IF After(o) = Value(spec, o) THEN owners[o] \cup {"api"}
         ELSE {"api"}]
    /\ save' = None /\ queued' = TRUE
    /\ UNCHANGED <<secrets, objects, pc, mem, bounds>>

SaveFails ==
    /\ save # None /\ Fault("save") /\ save' = None
    /\ UNCHANGED <<settings, secrets, objects, pc, mem, queued, edits>>

-----------------------------------------------------------------------------
(* Everyone else.                                                          *)

\* Fault: the Secrets of custom repositories are not watched.
ReferencedByBuilt(k) ==
    CASE k \in Built    -> spec.refs[k] = "explicit"
      [] k \in Customs  -> FALSE
      [] k \in GitRepos -> spec.git[k] = "basic"
      [] OTHER          -> TRUE

\* isReferencedSettingsSecret
Referenced(k) ==
    CASE k \in Built    -> spec.refs[k] = "explicit"
      [] k \in Customs  -> spec.custom[k] \in {"basic", "ssh"}
      [] k \in GitRepos -> spec.git[k] = "basic"
      [] OTHER          -> TRUE

Rotate(k, new) ==
    /\ Edit /\ new # source[k]
    /\ source' = [source EXCEPT ![k] = new]
    /\ queued' = (queued \/ Referenced(k))
    /\ UNCHANGED <<settings, save, known, userless, broken, astray, objects, pc, mem, faults>>

\* NVIDIA's may be written with a token alone.
RotateKnown(r, new) ==
    /\ Edit /\ new # known[r]
    /\ known' = [known EXCEPT ![r] = new] /\ queued' = TRUE
    /\ IF r = Nvidia THEN userless' \in {FALSE, new # None} ELSE UNCHANGED userless
    /\ UNCHANGED <<settings, save, source, broken, astray, objects, pc, mem, faults>>

\* The handlers of credentials and the workloads' passes look up as well.
Discover ==
    /\ userless /\ Effective(Nvidia, spec.refs[Nvidia]) = "known"
    /\ userless' = FALSE /\ queued' = TRUE
    /\ UNCHANGED <<settings, save, source, known, broken, astray, objects, pc, mem, bounds>>

\* A CA Secret that Settings refer to is lost, malformed or mended.
RotateCA(o) ==
    /\ Edit
    /\ o \in GitRepos => spec.git[o] # "absent"
    /\ broken' = IF o \in broken THEN broken \ {o} ELSE broken \cup {o}
    /\ queued' = TRUE
    /\ UNCHANGED <<settings, save, source, known, userless, astray, objects, pc, mem, faults>>

\* kubectl edit, past the handler's validation.
HandEdit(c) ==
    /\ Edit
    /\ spec.custom[c] \notin {"absent", "invalid"}
    /\ spec' = [spec EXCEPT !.custom[c] = "invalid"] /\ queued' = TRUE
    /\ UNCHANGED <<owners, save, secrets, objects, pc, mem, faults>>

TakeName(c) ==
    /\ Edit /\ repo[c] = None
    /\ repo' = [repo EXCEPT ![c] = [label |-> "foreign", secret |-> FALSE, told |-> None]]
    /\ UNCHANGED <<settings, save, secrets, mirror, git, client, pc, mem, queued, faults>>

\* helm upgrade without the value.
HelmRemove(o) ==
    /\ Edit /\ o \in Declared
    /\ owners' = [owners EXCEPT ![o] = @ \ {"helm"}]
    /\ spec' = IF owners'[o] # {} THEN spec
               ELSE IF o \in Built THEN [spec EXCEPT !.refs[o] = "none"]
               ELSE [spec EXCEPT !.git[o] = "absent"]
    /\ queued' = TRUE
    /\ UNCHANGED <<save, secrets, objects, pc, mem, faults>>

Restart ==
    /\ Fault("restart")
    /\ pc' = "idle" /\ mem' = None /\ save' = None /\ client' = None /\ queued' = TRUE
    /\ UNCHANGED <<settings, secrets, mirror, repo, git, edits>>

-----------------------------------------------------------------------------
Pass ==
    \/ BeginPass \/ Wire \/ WireFails
    \/ \E g \in GitRepos : ApplyGit(g) \/ GitFails(g) \/ PruneGit(g) \/ PruneGitFails(g)
    \/ GitPruned
    \/ \E r \in Built : TearDown(r) \/ SetUp(r) \/ TurnFails(r)
    \/ WriteMirror \/ MirrorFails \/ ApplyFails \/ ForceFails \/ Forced
    \/ \E r \in Repos : ApplyRepo(r) \/ ForceUpdate(r) \/ DropRepo(r)
    \/ Unmirror \/ DropFails
    \/ ToCustoms \/ ToPrune
    \/ \E c \in Customs : SkipCustom(c) \/ StartCustom(c) \/ CustomFails(c) \/ PruneRepo(c)
    \/ Retype \/ RetypeFails \/ UnmirrorPruned \/ PruneFails
    \/ Pruned \/ Status \/ StatusFails

Save == SaveClear \/ SaveApply \/ SaveFails \/ \E req \in Requests : SaveBegin(req)

Others ==
    \/ \E k \in Keyed, new \in Creds \cup {None} : Rotate(k, new)
    \/ \E r \in Built, new \in Creds \cup {None} : RotateKnown(r, new)
    \/ Discover
    \/ \E c \in Customs : HandEdit(c) \/ TakeName(c)
    \/ \E o \in Owned : HelmRemove(o) \/ RotateCA(o)

Next == Pass \/ Save \/ Others \/ Restart

Spec == Init /\ [][Next]_vars

\* The work queue hands a queued object to the worker, and the worker goes on.
Fairness == WF_vars(Pass)

-----------------------------------------------------------------------------
(* Properties.                                                             *)

AtRest == pc = "idle" /\ ~queued

\* A copy of the credentials in each place, or none.
Holds(k, type, cred) ==
    \A n \in Places :
        mirror[k][n] = IF cred = None THEN None ELSE [type |-> type, cred |-> cred]

RegistrySettled(r) ==
    LET cred == Read(r, spec.refs[r])
    IN  /\ Holds(r, "basic", cred)
        /\ (repo[r] # None) = (cred # None)
        /\ repo[r] # None => repo[r].secret

\* The two modes of NVIDIA's repositories.
NvidiaSettled ==
    LET refs == HasRefs(Nvidia, spec.refs[Nvidia])
        cred == Read(Nvidia, spec.refs[Nvidia])
        there == {x \in NvRepos : repo[x] # None}
    IN  /\ Holds(Nvidia, "basic", cred)
        /\ there = IF spec.mirrored THEN IF refs /\ cred = None THEN {} ELSE NvRepos
                   ELSE IF ~refs THEN {} ELSE IF cred = None THEN {"org", "public"}
                   ELSE NvRepos
        /\ {x \in there : repo[x].secret} =
               IF cred = None THEN {} ELSE IF spec.mirrored THEN NvRepos ELSE {"gated"}

\* A repository with credentials reads the present ones; an anonymous one
\* leaves none where Rancher would find them.
CustomSettled(c) ==
    CASE spec.custom[c] = "invalid" -> TRUE
      [] spec.custom[c] = "absent"  -> repo[c] = None \/ repo[c].label = "foreign"
      [] OTHER ->
           /\ repo[c] # None /\ repo[c].label = "custom"
           /\ repo[c].secret = (spec.custom[c] # "anonymous" /\ source[c] # None)
           /\ IF repo[c].secret THEN Holds(c, spec.custom[c], source[c])
              ELSE spec.custom[c] = "anonymous" => mirror[c][1] = None

FleetSettled ==
    /\ git[Fleet] = (spec.git[Fleet] # "absent")
    /\ spec.git[Fleet] = "basic" => mirror[Fleet][2].cred = source[Fleet]

CatalogSettled(g) ==
    IF spec.git[g] = "absent" THEN ~git[g]
    ELSE g \notin broken =>
           /\ spec.git[g] = "anonymous" => git[g]
           /\ spec.git[g] = "basic" /\ source[g] # None =>
                git[g] /\ mirror[g][2].cred = source[g]

\* No sequence of saves, rotations, failures and restarts leaves the cluster
\* at rest with another state than Settings and its Secrets call for: whatever
\* a pass missed has queued it again.  Only a look-up of credentials that failed
\* leaves its own registry behind, until the next one (EffectiveRefs).
RestIsSettled ==
    AtRest => /\ \A r \in Registries : r \in astray \/ RegistrySettled(r)
              /\ Nvidia \in astray \/ NvidiaSettled
              /\ FleetSettled /\ \A c \in Customs : CustomSettled(c)

\* Settings that end every pass with an error before it is done: Fleet's Secret
\* or CA is missing or malformed, or the CA of a registry with credentials.
FailForGood ==
    \/ spec.git[Fleet] = "basic" /\ source[Fleet] = None
    \/ spec.git[Fleet] # "absent" /\ Fleet \in broken
    \/ \E r \in Built : r \in broken /\ Read(r, spec.refs[r]) # None

\* In the end registries and Fleet's repository are as they should be and no old
\* token is in use: no custom repository or catalog that fails for good keeps a
\* pass from them ("must not block registry mirrors, the Fleet repo, or the
\* Rancher catalog client"), only the errors that the code means to end passes.
RegistriesSettle ==
    <>[](\/ FailForGood
         \/ /\ FleetSettled /\ client \in {None, source[Token]}
            /\ Nvidia \in astray \/ NvidiaSettled
            /\ \A r \in Registries : r \in astray \/ RegistrySettled(r))

\* Rancher has read the copy that a repository is to use.
Told(x, k) ==
    repo[x] # None /\ repo[x].secret /\ mirror[k][1] # None =>
        repo[x].told = mirror[k][1].cred

\* What a failure may leave behind for good, and a run without one may not:
\* copies of a custom repository that is gone or anonymous, a catalog that is
\* not applied, a lost client, credentials Rancher has not read.
FaultlessRestIsClean ==
    AtRest /\ faults = 0 =>
        /\ \A c \in Customs :
             spec.custom[c] \in {"absent", "anonymous"} => mirror[c] = NoCopy
        /\ \A g \in Catalogs : CatalogSettled(g)
        /\ client = source[Token]
        /\ \A r \in Registries : Told(r, r)
        /\ \A x \in NvRepos : Told(x, Nvidia)
        /\ \A c \in Customs : Told(c, c)

\* A custom repository that Settings lists, well-formed or not, is never
\* deleted by a pass that could not provision it.
WantedIsKept ==
    [][\A c \in Customs :
         repo[c] # None /\ repo'[c] = None => mem.spec.custom[c] = "absent"]_vars

\* Saving without a registry's explicit credentials removes them, whoever owns
\* the fields.
OmittedRefIsGone ==
    [][\A r \in Built :
         save # None /\ save' = None /\ faults' = faults
         /\ save.spec.refs[r] = "none" => spec'.refs[r] # "explicit"]_vars

\* A catalog that the chart declared goes when the chart drops it: no save
\* made a second owner of it.
RemovedByHelmIsGone ==
    [][\A g \in Catalogs :
         g \in Declared /\ "helm" \notin owners'[g] => spec'.git[g] = "absent"]_vars
=============================================================================
