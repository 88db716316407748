------------------------ MODULE WorkloadBundlesProofs ------------------------
(***************************************************************************)
(* Theorems about WorkloadBundles for every set of components and every    *)
(* choice of scenes: type correctness; a deletion leaves nothing behind;   *)
(* only what someone deleted goes; a clean-up takes away nothing that is   *)
(* wanted; and a controller at rest has rendered what is asked for, and    *)
(* published it.                                                           *)
(***************************************************************************)
EXTENDS WorkloadBundles, TLAPS

-----------------------------------------------------------------------------
(* Types, and what a pass has left to do at each stage.                    *)

TypeInv ==
    /\ TypeOK
    /\ pc \in {"render", "stamp", "teardown"} => mem.todo \subseteq Components
    /\ pc = "cleanup" => mem.todo \subseteq Keys

\* The case looked at is one of SceneKind.
LEMMA SceneTypes ==
    ASSUME TypeOK
    PROVE  /\ scene.start \in Specs /\ scene.kind \in [Components -> {"chart", "git"}]
           /\ None \notin Components
  BY ScenesAssumption DEF TypeOK, SceneKind

\* The types hold at the start.
LEMMA InitTypes == Init => TypeInv
  <1> SUFFICES ASSUME Init PROVE TypeInv OBVIOUS
  <1>1. scene.start \in Specs
    BY ScenesAssumption DEF Init, SceneKind
  <1>2. w \in Stored
    BY <1>1 DEF Init, Stored, Specs, Strategy
  <1>3. file \in [Components -> Digests \cup {None}]
    BY <1>1 DEF Init, Digest, Digests, Specs
  <1>4. Wants(scene.start) \subseteq Keys
    BY <1>1 DEF Wants, Keys, Specs
  <1> QED
    BY <1>2, <1>3, <1>4, ScenesAssumption DEF Init, TypeInv, TypeOK, Stages, Keys

\* What a render writes, and what a pass goes on with, have their types.
LEMMA Renders ==
    ASSUME TypeOK, pc # "idle", NEW c \in Components
    PROVE  /\ Digest(mem.w.spec) \in Digests /\ mem.w \in Stored
           /\ \A spaces : Patched(c, spaces, mem.w.spec) \in [Keys -> Revs \cup {None}]
           /\ \A spaces : PatchedBundles(c, spaces, mem.w.spec) \in [Keys -> Digests \cup {None}]
  <1>1. mem \in Passes /\ mem.w \in Stored /\ mem.w.spec \in Specs
    BY DEF TypeOK, Passes, Stored
  <1>2. Digest(mem.w.spec) \in Digests /\ mem.w.spec.rev \in Revs
    BY <1>1 DEF Digest, Digests, Specs
  <1> QED
    BY <1>1, <1>2 DEF Patched, PatchedBundles, TypeOK

\* What a pass holds after it went on to another stage.
LEMMA Goes ==
    ASSUME NEW stage, NEW x \in Stored, NEW todo \in SUBSET (Components \cup Keys),
           NEW c \in Components \cup {None}, Continue(stage, x, todo, c)
    PROVE  /\ pc' = stage /\ mem' \in Passes /\ mem' # None
           /\ mem'.w = x /\ mem'.todo = todo /\ mem'.c = c
  BY NoneAssumption DEF Continue, Passes

\* What a pass under way holds.
LEMMA Held ==
    ASSUME TypeOK, pc # "idle"
    PROVE  /\ mem \in Passes /\ mem # None /\ mem.w \in Stored
           /\ mem.todo \subseteq Components \cup Keys
           /\ mem.c \in Components \cup {None}
           /\ \A c : Todo(c) \subseteq mem.todo
  BY NoneAssumption DEF TypeOK, Passes, Todo

\* Every change of the AIWorkload leaves a well-formed one.
LEMMA Updates ==
    ASSUME NEW x \in Stored
    PROVE  /\ [x EXCEPT !.final = TRUE] \in Stored
           /\ [x EXCEPT !.final = FALSE] \in Stored
           /\ [x EXCEPT !.named = TRUE] \in Stored
           /\ [x EXCEPT !.final = FALSE, !.life = "gone"] \in Stored
           /\ \A c : \A d \in Digests : [x EXCEPT !.stamp[c] = d] \in Stored
           /\ \A r \in Revs : [x EXCEPT !.synced = r, !.spec.rev = r] \in Stored
           /\ \A s \in Specs : [x EXCEPT !.spec = s] \in Stored
           /\ Removed(x) \in Stored
  BY DEF Stored, Specs, Removed

\* Every step keeps the types.
LEMMA StepTypes ==
    ASSUME TypeInv, [Next]_vars
    PROVE  TypeInv'
  <1> USE DEF TypeInv, TypeOK, Stages
  <1> USE ScenesAssumption, NoneAssumption
  <1>1. CASE Begin
    <2>1. seen.spec.on \subseteq Components /\ Names \subseteq Components
      BY SceneTypes DEF Names, Stored, Specs
    <2>2. \/ UNCHANGED <<pc, mem>>
          \/ \E stage \in Stages \ {"idle", "cleanup"}, todo \in SUBSET Components :
               Continue(stage, seen, todo, None)
      BY <1>1, <2>1 DEF Begin, Stored
    <2>3. \/ UNCHANGED <<pc, mem>>
          \/ /\ mem' \in Passes /\ mem' # None /\ pc' \in Stages \ {"idle", "cleanup"}
             /\ mem'.todo \subseteq Components
      BY <2>2, Goes
    <2> QED
      BY <1>1, <2>3 DEF Begin, fleet, past, bounds
  <1>2. CASE AddFinalizer
    BY <1>2 DEF AddFinalizer, Update, Current, EndPass, Queue, Stored, Passes, fleet, past, bounds
  <1>3. CASE PopulateNames
    BY <1>3 DEF PopulateNames, Update, Current, EndPass, Queue, Stored, Passes, fleet, past, bounds
  <1>4. CASE Conflicts
    BY <1>4 DEF Conflicts, Conflict, Errs, EndPass, Queue, fleet, past, bounds
  <1>5. CASE Fails
    BY <1>5 DEF Fails, Fault, Errs, EndPass, Queue, fleet, past, bounds
  <1>6. CASE RenderComponent
    <2>1. PICK c \in mem.todo : /\ WriteTo(c, mem.w.spec.spaces) /\ Rendered(c)
                                /\ Queue(Noticed(fleet' # fleet))
      BY <1>6 DEF RenderComponent
    <2>2. c \in Components /\ pc' = "render" /\ queued' \in BOOLEAN
      BY <1>6, <2>1 DEF RenderComponent, Rendered, Continue, Queue, Noticed
    <2>3. mem' \in Passes /\ mem' # None /\ mem'.todo \subseteq Components
      BY <1>6, <2>1, Held, Goes DEF RenderComponent, Rendered
    <2>4. /\ helmOp' \in [Keys -> Revs \cup {None}]
          /\ bundle' \in [Keys -> Digests \cup {None}]
      BY <1>6, <2>1, <2>2, Renders DEF WriteTo, RenderComponent
    <2> QED
      BY <1>6, <2>1, <2>2, <2>3, <2>4 DEF RenderComponent, WriteTo, past, bounds
  <1>7. CASE RenderFails
    <2>1. PICK c \in mem.todo : WriteTo(c, First(mem.w.spec.spaces))
      BY <1>7 DEF RenderFails
    <2>2. c \in Components BY <1>7 DEF RenderFails
    <2> QED
      BY <1>7, <2>1, <2>2, Renders DEF RenderFails, WriteTo, Errs, EndPass, Fault, Queue, past, bounds
  <1>8. CASE Push
    <2>1. PICK c \in mem.todo :
             IF Published(c)
             THEN Rendered(c) /\ UNCHANGED <<file, faults>>
             ELSE Write(c) /\ Continue("stamp", mem.w, mem.todo, c)
      BY <1>8 DEF Push
    <2>2. c \in Components BY <1>8 DEF Push
    <2>3. file' \in [Components -> Digests \cup {None}] /\ UNCHANGED faults
      BY <1>8, <2>1, <2>2, Renders DEF Push, Write, WriteFile
    <2>4. CASE Published(c)
      <3>1. mem' \in Passes /\ mem' # None /\ mem'.todo \subseteq Components /\ pc' = "render"
        BY <1>8, <2>1, <2>4, Held, Goes DEF Push, Rendered
      <3> QED
        BY <1>8, <2>3, <3>1 DEF Push, fleet, past, bounds
    <2>5. CASE ~Published(c)
      <3>1. /\ mem' \in Passes /\ mem' # None /\ pc' = "stamp"
            /\ mem'.todo \subseteq Components
        BY <1>8, <2>1, <2>2, <2>5, Held, Goes DEF Push
      <3> QED
        BY <1>8, <2>3, <3>1 DEF Push, fleet, past, bounds
    <2> QED BY <2>4, <2>5
  <1>9. CASE Stamp
    <2> DEFINE new == [mem.w EXCEPT !.stamp[mem.c] = Digest(mem.w.spec)]
    <2>1. new \in Stored
      <3>1. Digest(mem.w.spec) \in Digests
        BY <1>9, Held DEF Stamp, Digest, Digests, Stored, Specs
      <3> QED BY <1>9, <3>1, Held, Updates DEF Stamp
    <2>2. w' = new /\ Continue("render", new, Todo(mem.c), None)
      BY <1>9 DEF Stamp, Update
    <2>3. mem' \in Passes /\ mem' # None /\ mem'.todo \subseteq Components /\ pc' = "render"
      BY <1>9, <2>1, <2>2, Held, Goes DEF Stamp
    <2> HIDE DEF new
    <2> QED
      BY <1>9, <2>1, <2>2, <2>3 DEF Stamp, fleet, past, bounds
  <1>10. CASE ListStale
    BY <1>10, Held, Goes DEF ListStale, fleet, past, bounds
  <1>11. CASE Discard
    <2>1. PICK k \in mem.todo :
            /\ IF Strategy = "GitOps"
               THEN /\ file' = [file EXCEPT ![k[1]] = None]
                    /\ cleaned' = cleaned \cup {k[1]}
                    /\ UNCHANGED <<queued, fleet>>
               ELSE /\ helmOp' = Deleted(helmOp, StaleAt(k))
                    /\ bundle' = Deleted(bundle, StaleAt(k))
                    /\ Queue(Noticed(TRUE))
                    /\ UNCHANGED <<file, cleaned>>
            /\ Continue("cleanup", mem.w, Todo(k), None)
      BY <1>11 DEF Discard
    <2>2. k \in Keys /\ k[1] \in Components
      BY <1>11 DEF Discard, Keys
    <2>3. mem' \in Passes /\ mem' # None /\ mem'.todo \subseteq Keys /\ pc' = "cleanup"
      BY <1>11, <2>1, Held, Goes DEF Discard
    <2> QED
      BY <1>11, <2>1, <2>2, <2>3 DEF Discard, Deleted, Queue, Noticed, fleet, past, bounds
  <1>12. CASE DiscardFails
    BY <1>12 DEF DiscardFails, Errs, EndPass, Fault, Queue, Deleted, fleet, past, bounds
  <1>13. CASE Finish \/ Mirror
    BY <1>13 DEF Finish, Mirror, EndPass, Queue, fleet, past, bounds
  <1>14. CASE SyncSpec
    <2>1. Mirrored \in Revs
      BY <1>14 DEF SyncSpec, Mirrored, Found
    <2>2. [mem.w EXCEPT !.synced = Mirrored, !.spec.rev = Mirrored] \in Stored
      BY <1>14, <2>1, Held, Updates DEF SyncSpec
    <2>3. w' \in Stored
      BY <1>14, <2>2 DEF SyncSpec, Update, Conflict
    <2> QED
      BY <1>14, <2>3 DEF SyncSpec, Update, Conflict, Errs, EndPass, Queue, fleet, past, bounds
  <1>15. CASE GivesUp
    <2> DEFINE new == [mem.w EXCEPT !.final = FALSE]
    <2>1. new \in Stored
      BY <1>15, Held, Updates DEF GivesUp
    <2>2. \/ /\ w' = new /\ Continue("remove", new, {}, None)
             /\ UNCHANGED <<scene, seen, queued, file, fleet, release, past, bounds>>
          \/ Conflict
      BY <1>15 DEF GivesUp, Update
    <2>3. Continue("remove", new, {}, None) => mem' \in Passes /\ mem' # None /\ pc' = "remove"
      BY <2>1, Goes
    <2> HIDE DEF new
    <2> QED
      BY <1>15, <2>1, <2>2, <2>3 DEF Conflict, Errs, EndPass, Queue, fleet, past, bounds
  <1>16. CASE Remove
    BY <1>16, Updates DEF Remove, EndPass, Queue, fleet, past, bounds
  <1>17. CASE TearDown
    <2>1. PICK c \in mem.todo :
            /\ helmOp' = Deleted(helmOp, {c} \X Spaces)
            /\ bundle' = Deleted(bundle, {c} \X Spaces)
            /\ Continue("teardown", mem.w, Todo(c), None)
            /\ Queue(Noticed(fleet' # fleet))
      BY <1>17 DEF TearDown
    <2>2. mem' \in Passes /\ mem' # None /\ mem'.todo \subseteq Components /\ pc' = "teardown"
      BY <1>17, <2>1, Held, Goes DEF TearDown
    <2>3. /\ helmOp' \in [Keys -> Revs \cup {None}]
          /\ bundle' \in [Keys -> Digests \cup {None}] /\ queued' \in BOOLEAN
      BY <2>1 DEF Deleted, Queue, Noticed
    <2> QED
      BY <1>17, <2>2, <2>3 DEF TearDown, past, bounds
  <1>18. CASE TearDownFails
    BY <1>18 DEF TearDownFails, Keeps, Errs, EndPass, Fault, Queue, Deleted, past, bounds
  <1>19. CASE DeleteFile
    <2>1. PICK c \in mem.todo :
            /\ Continue("teardown", mem.w, Todo(c), None)
            /\ \/ /\ file' = [file EXCEPT ![c] = None]
                  /\ UNCHANGED <<excused, faults>>
               \/ Fault /\ excused' = excused \cup {"git"} /\ UNCHANGED file
      BY <1>19 DEF DeleteFile
    <2>2. mem' \in Passes /\ mem' # None /\ mem'.todo \subseteq Components /\ pc' = "teardown"
      BY <1>19, <2>1, Held, Goes DEF DeleteFile
    <2>3. file' \in [Components -> Digests \cup {None}] /\ excused' \subseteq excused \cup {"git"}
          /\ faults' \in Nat
      BY <1>19, <2>1 DEF DeleteFile, Fault
    <2>4. UNCHANGED <<scene, w, seen, queued, helmOp, bundle, release, cleaned, steady, edits>>
      BY <1>19 DEF DeleteFile, fleet
    <2> QED
      BY <2>2, <2>3, <2>4
  <1>20. CASE AwaitRelease
    BY <1>20 DEF AwaitRelease, EndPass, Queue, fleet, past, bounds
  <1>21. CASE RemoveFinalizer
    <2>1. w' \in Stored
      BY <1>21, Held, Updates DEF RemoveFinalizer, Update, Conflict
    <2>2. /\ pc' = "idle" /\ mem' = None /\ queued' \in BOOLEAN
          /\ UNCHANGED <<scene, seen, file, helmOp, bundle, release, cleaned, steady, excused,
                         edits, faults>>
      BY <1>21 DEF RemoveFinalizer, Conflict, Errs, EndPass, Queue, fleet, past, bounds
    <2> QED
      BY <2>1, <2>2
  <1>22. CASE Observe \/ Uninstalling \/ Uninstalled \/ UninstallFails \/ UninstallByUser
    <2>1. CASE Observe
      BY <2>1 DEF Observe, Quiet, fleet, past, bounds
    <2>2. CASE Uninstalling \/ Uninstalled
      BY <2>2 DEF Uninstalling, Uninstalled, Quiet, fleet, past, bounds
    <2>3. CASE UninstallFails
      BY <2>3 DEF UninstallFails, Quiet, Fault, fleet, past
    <2>4. CASE UninstallByUser
      BY <2>4 DEF UninstallByUser, Quiet, fleet, past, bounds
    <2> QED BY <1>22, <2>1, <2>2, <2>3, <2>4
  <1>23. CASE Generate
    BY <1>23 DEF Generate, Generated, Digests, Quiet, Queue, Noticed, past, bounds
  <1>24. CASE Collect
    BY <1>24 DEF Collect, Quiet, Queue, Noticed, past, bounds
  <1>25. CASE ApplyFile
    BY <1>25 DEF ApplyFile, FromFile, Digests, Quiet, Queue, Noticed, past, bounds
  <1>26. CASE Change
    <2>1. PICK spec \in Edited(w.spec) :
            /\ spec.on # {} /\ spec.spaces # {}
            /\ w' = [w EXCEPT !.spec = spec] /\ steady' = steady \cap Wants(spec)
      BY <1>26 DEF Change
    <2>2. w.spec \in Specs
      BY DEF Stored
    <2>3. spec \in Specs
      <3>1. [w.spec EXCEPT !.rev = 1 - @] \in Specs
        BY <2>2 DEF Specs, Revs
      <3>2. \A c \in Components : Toggle(w.spec.on, c) \in SUBSET Components
        BY <2>2 DEF Specs, Toggle
      <3>3. \A s \in Spaces : Toggle(w.spec.spaces, s) \in SUBSET Spaces
        BY <2>2 DEF Specs, Toggle
      <3> HIDE DEF Toggle
      <3>4. \A on \in SUBSET Components : [w.spec EXCEPT !.on = on] \in Specs
        BY <2>2 DEF Specs
      <3>5. \A spaces \in SUBSET Spaces : LET x == [w.spec EXCEPT !.spaces = spaces] IN
              x.spaces # {} => x \in Specs
        BY <2>2 DEF Specs
      <3> QED BY <2>1, <3>1, <3>2, <3>3, <3>4, <3>5 DEF Edited
    <2>4. w' \in Stored /\ steady' \subseteq Keys
      BY <2>1, <2>3, Updates
    <2> QED
      BY <1>26, <2>4 DEF Change, Quiet, Edit, fleet
  <1>27. CASE Delete
    <2>1. w' \in Stored
      BY <1>27, Updates DEF Delete
    <2>2. excused' \subseteq excused \cup {"asked", "early"}
      BY <1>27 DEF Delete
    <2> QED
      BY <1>27, <2>1, <2>2 DEF Delete, Quiet, Edit, fleet
  <1>28. CASE Publish
    <2>1. PICK c \in Components : file[c] # None /\ file' = [file EXCEPT ![c].rev = 1 - @]
      BY <1>28 DEF Publish
    <2>2. [file[c] EXCEPT !.rev = 1 - @] \in Digests
      BY <2>1 DEF Digests, Revs
    <2>3. file' \in [Components -> Digests \cup {None}]
      BY <2>1, <2>2
    <2> QED
      BY <1>28, <2>3 DEF Publish, Quiet, Edit, fleet, past
  <1>29. CASE Withdraw
    BY <1>29 DEF Withdraw, Quiet, Edit, fleet, past, bounds
  <1>30. CASE Lose
    BY <1>30 DEF Lose, Deleted, Quiet, Fault, Queue, Noticed, past, bounds
  <1>31. CASE UNCHANGED vars
    BY <1>31 DEF vars, fleet, past, bounds
  <1> QED
    BY <1>1, <1>2, <1>3, <1>4, <1>5, <1>6, <1>7, <1>8, <1>9, <1>10, <1>11, <1>12,
       <1>13, <1>14, <1>15, <1>16, <1>17, <1>18, <1>19, <1>20, <1>21, <1>22, <1>23,
       <1>24, <1>25, <1>26, <1>27, <1>28, <1>29, <1>30, <1>31
       DEF Next, Pass, Disturb, Outside

\* The state of the workload, of the pass, of Fleet, git and Rancher stays well
\* formed.
THEOREM BundlesTypeCorrect == Spec => []TypeOK
<1>1. TypeInv /\ [Next]_vars => TypeInv'
  BY StepTypes
<1>2. TypeInv => TypeOK
  BY DEF TypeInv
<1> QED
  BY InitTypes, <1>1, <1>2, PTL DEF Spec

-----------------------------------------------------------------------------
(* Copies of the AIWorkload: the informer's and the pass's.                *)

\* x is what the AIWorkload was at some time.
Older(x) ==
    /\ x.life # "live" => w.life # "live" /\ x.named = w.named
    /\ x.named => w.named
    /\ x.synced # None => w.synced # None
    /\ Strategy = "App" => x.named
    /\ steady \subseteq Wants(x.spec)

Lags ==
    /\ Older(w) /\ Older(seen)
    /\ pc # "idle" => /\ Older(mem.w)
                      /\ mem.w.life # "live" => seen.life # "live"
                      /\ (pc = "teardown") = (mem.w.life # "live")
    /\ pc \in {"names", "render", "stamp", "cleanup"} => Blueprint
    /\ pc \in {"render", "stamp", "cleanup"} => mem.w.named
    /\ pc \in {"mirror", "remove"} => Strategy = "App"
    /\ pc = "cleanup" => mem.todo \cap steady = {}

\* At the start all copies agree.
LEMMA InitLags == Init => Lags
  <1> SUFFICES ASSUME Init PROVE Lags OBVIOUS
  <1>1. w.life = "live" /\ w.synced = None /\ w.spec = scene.start /\ w.named = (Strategy = "App")
    BY DEF Init, Strategy
  <1> QED
    BY <1>1 DEF Init, Lags, Older

\* What an Update may change of the AIWorkload, so that older copies stay older.
Follows(x, y) ==
    /\ x.life # "live" => y.life # "live" /\ y.named = x.named
    /\ x.named => y.named
    /\ x.synced # None => y.synced # None
    /\ Wants(x.spec) = Wants(y.spec)

\* No Update of a pass, nor the API server's Delete, takes back what older
\* copies already have.
LEMMA Updated ==
    ASSUME NEW x \in Stored
    PROVE  /\ Follows(x, [x EXCEPT !.final = TRUE])
           /\ Follows(x, [x EXCEPT !.final = FALSE])
           /\ x.life = "live" => Follows(x, [x EXCEPT !.named = TRUE])
           /\ Follows(x, [x EXCEPT !.final = FALSE, !.life = "gone"])
           /\ \A d, c : LET y == [x EXCEPT !.stamp[c] = d] IN
                Follows(x, y) /\ y.life = x.life /\ y.named = x.named
           /\ \A r \in Revs : Follows(x, [x EXCEPT !.synced = r, !.spec.rev = r])
           /\ Follows(x, Removed(x))
           /\ [x EXCEPT !.final = FALSE].life = x.life
  BY NoneAssumption DEF Stored, Specs, Follows, Removed, Wants

\* So the copies stay older after it.
LEMMA Followed ==
    ASSUME TypeInv, Lags, Follows(w, w'), UNCHANGED <<scene, seen, steady>>
    PROVE  /\ Older(w)' /\ Older(seen)'
           /\ pc # "idle" /\ mem'.w = mem.w => Older(mem.w)'
           /\ pc # "idle" /\ mem.w = w /\ mem'.w = w' => Older(mem.w)'
  BY DEF Lags, Older, Strategy, Follows

\* Every step keeps them older, and leaves the clean-up nothing to remove that
\* was wanted all the time.
LEMMA StepLags ==
    ASSUME TypeInv, Lags, [Next]_vars
    PROVE  Lags'
  <1> USE DEF Lags, Older, Strategy, Wants
  <1> TypeOK BY DEF TypeInv
  <1>1. CASE Begin
    BY <1>1 DEF Begin, Continue, Blueprint, past, Strategy
  <1>2. CASE AddFinalizer
    <2>1. Follows(w, w') /\ pc' = "idle" /\ UNCHANGED <<scene, seen, steady>>
      BY <1>2, Held, Updated DEF AddFinalizer, Update, Current, EndPass, past
    <2> QED BY <2>1, Followed
  <1>3. CASE PopulateNames
    <2>1. Follows(w, w') /\ pc' = "idle" /\ UNCHANGED <<scene, seen, steady>>
      BY <1>3, Held, Updated DEF PopulateNames, Update, Current, EndPass, past
    <2> QED BY <2>1, Followed
  <1>4. CASE \/ Conflicts \/ Fails \/ RenderFails \/ DiscardFails \/ Finish \/ Mirror
             \/ TearDownFails \/ AwaitRelease
    <2>1. pc' = "idle" /\ UNCHANGED <<scene, w, seen, steady>>
      BY <1>4 DEF Conflicts, Conflict, Fails, RenderFails, DiscardFails, Finish, Mirror,
        TearDownFails, AwaitRelease, Errs, EndPass, Keeps, WriteTo, past
    <2> QED BY <2>1
  <1>5. CASE RenderComponent \/ Push \/ ListStale \/ Discard \/ TearDown \/ DeleteFile
    <2> DEFINE Goal ==
          /\ UNCHANGED <<scene, w, seen, steady>> /\ pc # "idle" /\ pc' # "idle" /\ mem'.w = mem.w
          /\ (pc' = "teardown") = (pc = "teardown")
          /\ (pc \in {"render", "stamp", "cleanup"}) = (pc' \in {"render", "stamp", "cleanup"})
          /\ pc' \notin {"names", "mirror", "remove"}
          /\ pc' = "cleanup" => mem'.todo \cap steady' = {}
    <2>1. RenderComponent => Goal
      BY Held DEF RenderComponent, WriteTo, Rendered, Continue, past
    <2>2. Push => Goal
      BY Held DEF Push, Rendered, Continue, past
    <2>3. ListStale => Goal
      BY Held DEF ListStale, Continue, past
    <2>4. Discard => Goal
      BY Held DEF Discard, Continue, Todo, past
    <2>5. TearDown => Goal
      BY Held DEF TearDown, Continue, past
    <2>6. DeleteFile => Goal
      BY Held DEF DeleteFile, Continue
    <2>7. Goal
      BY <1>5, <2>1, <2>2, <2>3, <2>4, <2>5, <2>6
    <2> QED BY <2>7 DEF Blueprint
  <1>6. CASE Stamp
    <2>1. /\ Follows(w, w') /\ mem.w = w /\ mem'.w = w' /\ w'.life = w.life /\ w'.named = w.named
          /\ pc' = "render" /\ UNCHANGED <<scene, seen, steady>>
      BY <1>6, Held, Updated DEF Stamp, Update, Current, Continue, past
    <2>2. pc = "stamp" /\ Older(w)' /\ Older(seen)' /\ Older(mem.w)'
      BY <1>6, <2>1, Followed DEF Stamp
    <2> HIDE DEF Older
    <2> QED BY <2>1, <2>2 DEF Blueprint
  <1>7. CASE SyncSpec \/ (GivesUp /\ pc' = "idle") \/ Remove \/ RemoveFinalizer
    <2>1. (SyncSpec \/ GivesUp \/ RemoveFinalizer) /\ Conflict =>
            Follows(w, w') /\ pc' = "idle" /\ UNCHANGED <<scene, seen, steady>>
      BY DEF Conflict, Errs, EndPass, past, Follows
    <2>2. SyncSpec /\ ~Conflict => Follows(w, w') /\ pc' = "idle" /\ UNCHANGED <<scene, seen, steady>>
      <3>1. SyncSpec => Mirrored \in Revs
        BY DEF SyncSpec, Mirrored, Found, TypeOK
      <3> QED
        BY <3>1, Held, Updated DEF SyncSpec, Update, Current, EndPass, past
    <2>3. GivesUp /\ ~Conflict => pc' = "remove"
      BY DEF GivesUp, Continue
    <2>4. Remove => Follows(w, w') /\ pc' = "idle" /\ UNCHANGED <<scene, seen, steady>>
      BY Updated DEF Remove, EndPass, past, TypeOK
    <2>5. RemoveFinalizer /\ ~Conflict => Follows(w, w') /\ pc' = "idle" /\ UNCHANGED <<scene, seen, steady>>
      BY Held, Updated DEF RemoveFinalizer, Update, Current, EndPass, past
    <2>6. Follows(w, w') /\ pc' = "idle" /\ UNCHANGED <<scene, seen, steady>>
      BY <1>7, <2>1, <2>2, <2>3, <2>4, <2>5
    <2> QED BY <2>6, Followed
  <1>8. CASE GivesUp /\ pc' # "idle"
    <2>1. ~Conflict
      BY <1>8 DEF Conflict, Errs, EndPass
    <2> DEFINE new == [mem.w EXCEPT !.final = FALSE]
    <2>4. mem.w = w /\ w' = new /\ Continue("remove", new, {}, None) /\ pc = "mirror"
      BY <1>8, <2>1 DEF GivesUp, Update, Current
    <2>5. Follows(w, new) /\ new.life = w.life
      BY <2>4, Updated DEF TypeOK
    <2> HIDE DEF new
    <2>2. /\ Follows(w, w') /\ mem.w = w /\ mem'.w = w' /\ w'.life = w.life
          /\ pc = "mirror" /\ pc' = "remove" /\ UNCHANGED <<scene, seen, steady>>
      BY <1>8, <2>1, <2>4, <2>5 DEF GivesUp, Conflict, Continue, past
    <2>3. Older(w)' /\ Older(seen)' /\ Older(mem.w)'
      BY <2>2, Followed
    <2> HIDE DEF Older
    <2> QED BY <2>2, <2>3
  <1>11. CASE Observe
    BY <1>11 DEF Observe, Quiet, past, Blueprint
  <1>12. CASE Change
    BY <1>12 DEF Change, Quiet, Stored, TypeOK, Blueprint
  <1>13. CASE Delete
    BY <1>13 DEF Delete, Removed, Quiet, Stored, TypeOK, Blueprint
  <1>14. CASE \/ Generate \/ ApplyFile \/ Uninstalling \/ Uninstalled \/ Collect
              \/ UninstallFails \/ UninstallByUser \/ Publish \/ Withdraw \/ Lose \/ UNCHANGED vars
    <2>1. UNCHANGED <<scene, w, seen, steady, pc, mem>>
      BY <1>14 DEF Generate, ApplyFile, Uninstalling, Uninstalled, Collect, UninstallFails,
        UninstallByUser, Publish, Withdraw, Lose, vars, Quiet, past
    <2> QED BY <2>1 DEF Blueprint
  <1> HIDE DEF Lags, Older, Strategy, Wants
  <1>15. CASE SyncSpec \/ GivesUp \/ Remove \/ RemoveFinalizer
    <2>1. CASE GivesUp BY <2>1, <1>7, <1>8
    <2>2. CASE SyncSpec BY <2>2, <1>7
    <2>3. CASE Remove BY <2>3, <1>7
    <2>4. CASE RemoveFinalizer BY <2>4, <1>7
    <2> QED BY <1>15, <2>1, <2>2, <2>3, <2>4
  <1> QED
    BY <1>1, <1>2, <1>3, <1>4, <1>5, <1>6, <1>11, <1>12, <1>13, <1>14, <1>15
       DEF Next, Pass, Disturb, Outside

-----------------------------------------------------------------------------
(* What a deletion has taken down.                                         *)

Torn(c) ==
    /\ Strategy = "FleetBundle" =>
         \A s \in Spaces : helmOp[<<c, s>>] = None /\ bundle[<<c, s>>] = None
    /\ InGit => "git" \in excused \/ file[c] = None

Gone == w.life = "gone" /\ "asked" \in excused

Teardown ==
    /\ ~w.named => \A c \in Components : Torn(c)
    /\ Strategy = "App" => \A c \in Components \ Names : file[c] = None
    /\ pc = "teardown" => \A c \in Components \ mem.todo : Torn(c)
    /\ "asked" \in excused => w.life # "live"
    /\ pc = "remove" => ~w.final /\ "asked" \notin excused
    /\ Gone => /\ seen.life # "live" /\ pc \in {"idle", "teardown"}
               /\ \A c \in Components : Torn(c)
               /\ Strategy = "Helm" => release = "none"

\* Nothing is deleted at the start.
LEMMA InitTeardown == Init => Teardown
  <1> SUFFICES ASSUME Init PROVE Teardown OBVIOUS
  <1>1. /\ w.life = "live" /\ w.named = (Strategy = "App") /\ excused = {}
        /\ pc = "idle" /\ file = [c \in Components |-> IF Strategy = "App" /\ c \in scene.start.on
                                    THEN Digest(scene.start) ELSE None]
        /\ helmOp = [k \in Keys |-> None] /\ bundle = [k \in Keys |-> None]
    BY DEF Init
  <1>2. Strategy # "App" => \A c \in Components : Torn(c)
    BY <1>1 DEF Torn, Keys
  <1>3. Strategy = "App" => \A c \in Components \ Names : file[c] = None
    BY <1>1 DEF Names
  <1> QED
    BY <1>1, <1>2, <1>3 DEF Teardown, Gone

\* The strengthening implies the property.
LEMMA GoneMeansTornDown ==
    ASSUME TypeOK, Teardown
    PROVE  GoneIsTornDown
  <1> SUFFICES ASSUME w.life = "gone", "asked" \in excused
               PROVE  CASE Strategy = "FleetBundle" ->
                             \A k \in Keys : helmOp[k] = None /\ bundle[k] = None
                        [] Strategy = "Helm" -> release = "none"
                        [] OTHER -> "git" \in excused \/ \A c \in Components : file[c] = None
    BY DEF GoneIsTornDown
  <1>1. \A c \in Components : Torn(c)
    BY DEF Teardown, Gone
  <1>2. Strategy = "FleetBundle" => \A k \in Keys : helmOp[k] = None /\ bundle[k] = None
    BY <1>1 DEF Torn, Keys
  <1>3. Strategy = "Helm" => release = "none"
    BY DEF Teardown, Gone
  <1>4. Strategy \in {"FleetBundle", "GitOps", "App", "Helm"}
    BY ScenesAssumption DEF TypeOK, SceneKind, Strategy
  <1>5. Strategy \notin {"FleetBundle", "Helm"} =>
          "git" \in excused \/ \A c \in Components : file[c] = None
    BY <1>1, <1>4 DEF Torn, InGit
  <1> QED BY <1>2, <1>3, <1>5

\* Torn down stays torn down as long as nothing is written.
LEMMA TornStays ==
    ASSUME UNCHANGED scene, excused \subseteq excused', NEW c \in Components,
           \A s \in Spaces : /\ helmOp'[<<c, s>>] \in {helmOp[<<c, s>>], None}
                             /\ bundle'[<<c, s>>] \in {bundle[<<c, s>>], None},
           file'[c] \in {file[c], None}
    PROVE  Torn(c) => Torn(c)'
  BY DEF Torn, Strategy, InGit

\* A step that writes nothing and does not end a deletion.
LEMMA TeardownKept ==
    ASSUME TypeInv, Lags, Teardown, UNCHANGED <<scene, release>>,
           excused \subseteq excused', "asked" \in excused' => "asked" \in excused,
           \A c \in Components : Torn(c) => Torn(c)',
           \A c \in Components : file'[c] \in {file[c], None},
           w.named => w'.named,
           w.life # "live" => w'.life # "live",
           "asked" \in excused /\ w'.life = "gone" => w.life = "gone",
           seen.life # "live" => seen'.life # "live",
           pc' = "teardown" => pc = "teardown" /\ mem' = mem,
           pc' # "idle" => pc # "idle",
           Gone => pc' \in {"idle", "teardown"},
           pc' = "remove" => ~w'.final /\ "asked" \notin excused
    PROVE  Teardown'
  BY DEF Teardown, Gone, Names, Strategy

\* Every step keeps what is torn down so: a pass that writes holds a copy of a
\* workload with its names filled that nobody had deleted.
LEMMA StepTeardown ==
    ASSUME TypeInv, Lags, Teardown, [Next]_vars
    PROVE  Teardown'
  <1> TypeOK BY DEF TypeInv
  <1>0. ASSUME UNCHANGED scene, UNCHANGED <<helmOp, bundle, file>>, excused \subseteq excused'
        PROVE  \A c \in Components : Torn(c) => Torn(c)'
    BY <1>0 DEF Torn, Strategy, InGit
  <1>1. CASE Begin
    <2>1. /\ UNCHANGED <<scene, w, seen, helmOp, bundle, file, release, excused>>
          /\ pc = "idle" /\ pc' # "remove" /\ (pc' = "remove" => FALSE)
      BY <1>1 DEF Begin, Continue, fleet, past
    <2>2. \A c \in Components : Torn(c) => Torn(c)'
      BY <2>1, <1>0
    <2>3. pc' = "teardown" => \A c \in Components \ mem'.todo : Torn(c)
      <3> SUFFICES ASSUME pc' = "teardown" PROVE \A c \in Components \ mem'.todo : Torn(c)
        OBVIOUS
      <3>1. seen.life = "deleting" /\ mem'.todo = IF seen.named THEN Names ELSE {}
        BY <1>1 DEF Begin, Continue
      <3>2. CASE ~seen.named
        BY <3>1, <3>2 DEF Lags, Older, Teardown
      <3>3. CASE seen.named /\ Strategy # "App"
        BY <3>1, <3>3 DEF Names
      <3>4. CASE seen.named /\ Strategy = "App"
        BY <3>1, <3>4 DEF Teardown, Torn
      <3> QED BY <3>2, <3>3, <3>4
    <2>4. Gone => pc' \in {"idle", "teardown"}
      BY <1>1 DEF Begin, Continue, Teardown, TypeOK, Stored
    <2> QED
      BY <2>1, <2>2, <2>3, <2>4 DEF Teardown, Gone, Names, Strategy
  <1>2. CASE AddFinalizer \/ PopulateNames \/ Stamp \/ SyncSpec
    <2>1. CASE Conflict
      <3>1. /\ UNCHANGED <<scene, seen, w, file, helmOp, bundle, release, excused>>
            /\ pc' = "idle" /\ pc # "idle"
        BY <1>2, <2>1 DEF Conflict, Errs, EndPass, fleet, past, AddFinalizer, PopulateNames,
           Stamp, SyncSpec
      <3> QED BY <3>1, <1>0, TeardownKept
    <2>2. CASE ~Conflict
      <3>1. /\ mem.w = w /\ mem.w.life = "live" /\ "asked" \notin excused
            /\ pc' \in {"idle", "render"} /\ pc # "idle"
            /\ UNCHANGED <<scene, seen, file, helmOp, bundle, release, excused>>
        BY <1>2, <2>2 DEF AddFinalizer, PopulateNames, Stamp, SyncSpec, Update, Current,
           EndPass, Continue, fleet, past, Lags, Teardown
      <3>2. Follows(w, w')
        <4>1. SyncSpec => Mirrored \in Revs
          BY DEF SyncSpec, Mirrored, Found, TypeOK
        <4>2. w \in Stored BY DEF TypeOK
        <4>3. AddFinalizer => Follows(w, w')
          BY <3>1, <4>2, Updated DEF AddFinalizer, Update, Stored
        <4>4. PopulateNames => Follows(w, w')
          BY <3>1, <4>2, Updated DEF PopulateNames, Update, Stored
        <4>5. Stamp => Follows(w, w')
          <5>1. Stamp => w' = [w EXCEPT !.stamp[mem.c] = Digest(w.spec)]
            BY <3>1 DEF Stamp, Update
          <5>2. Follows(w, [w EXCEPT !.stamp[mem.c] = Digest(w.spec)])
            BY <4>2, Updated
          <5> QED BY <5>1, <5>2
        <4>6. SyncSpec => Follows(w, w')
          <5>1. SyncSpec => w' = [w EXCEPT !.synced = Mirrored, !.spec.rev = Mirrored]
            BY <2>2, <3>1 DEF SyncSpec, Update
          <5>2. Mirrored \in Revs =>
                  Follows(w, [w EXCEPT !.synced = Mirrored, !.spec.rev = Mirrored])
            BY <4>2, Updated
          <5> QED BY <4>1, <5>1, <5>2
        <4> QED BY <1>2, <4>3, <4>4, <4>5, <4>6
      <3> QED BY <3>1, <3>2, <1>0, TeardownKept DEF Follows, Gone
    <2> QED BY <2>1, <2>2
  <1>3. CASE Conflicts \/ Fails \/ Finish \/ Mirror \/ (GivesUp /\ Conflict)
             \/ (RemoveFinalizer /\ Conflict)
    <2>1. /\ UNCHANGED <<scene, seen, w, file, helmOp, bundle, release, excused>>
          /\ pc' = "idle" /\ pc # "idle"
      BY <1>3 DEF Conflicts, Conflict, Fails, Finish, Mirror, GivesUp, RemoveFinalizer,
         Errs, EndPass, fleet, past
    <2> QED BY <2>1, <1>0, TeardownKept
  <1>4. CASE RenderComponent \/ RenderFails \/ Push \/ ListStale \/ Discard \/ DiscardFails
    <2>1. /\ pc \in {"render", "cleanup"} /\ pc' \in {"idle", "render", "stamp", "cleanup"}
          /\ UNCHANGED <<scene, seen, w, release, excused>>
      BY <1>4 DEF RenderComponent, WriteTo, Rendered, RenderFails, Push, ListStale, Discard,
         DiscardFails, Continue, Errs, EndPass, past
    <2>2. w.named /\ ~Gone /\ Strategy # "App"
      BY <2>1 DEF Lags, Older, Teardown, Blueprint
    <2> QED
      BY <2>1, <2>2 DEF Teardown, Gone, Strategy
  <1>5. CASE GivesUp /\ ~Conflict
    <2> DEFINE new == [mem.w EXCEPT !.final = FALSE]
    <2>1. /\ mem.w = w /\ pc = "mirror" /\ mem.w.life = "live" /\ w' = new /\ pc' = "remove"
          /\ UNCHANGED <<scene, seen, file, helmOp, bundle, release, excused>>
      BY <1>5 DEF GivesUp, Update, Current, Continue, Lags, fleet, past
    <2>2. w \in Stored BY DEF TypeOK
    <2>3. Follows(w, new) /\ ~new.final /\ new.life = w.life
      BY <2>1, <2>2, Updated DEF Stored
    <2>4. "asked" \notin excused
      BY <2>1 DEF Teardown
    <2> HIDE DEF new
    <2> QED
      BY <2>1, <2>3, <2>4, <1>0, TeardownKept DEF Follows, Gone
  <1>6. CASE Remove
    <2>1. /\ pc = "remove" /\ "asked" \notin excused /\ w' = Removed(w) /\ pc' = "idle"
          /\ UNCHANGED <<scene, seen, file, helmOp, bundle, release, excused>>
      BY <1>6 DEF Remove, EndPass, fleet, past, Teardown
    <2>2. Follows(w, Removed(w))
      BY Updated DEF TypeOK
    <2> QED
      BY <2>1, <2>2, <1>0, TeardownKept DEF Follows, Gone
  <1>7. CASE TearDown
    <2>1. PICK c \in mem.todo :
            /\ helmOp' = Deleted(helmOp, {c} \X Spaces)
            /\ bundle' = Deleted(bundle, {c} \X Spaces)
            /\ Continue("teardown", mem.w, Todo(c), None)
      BY <1>7 DEF TearDown
    <2>2. /\ pc = "teardown" /\ pc' = "teardown" /\ mem'.todo = mem.todo \ {c}
          /\ Strategy = "FleetBundle"
          /\ UNCHANGED <<scene, w, seen, file, release, excused>>
      BY <1>7, <2>1 DEF TearDown, Continue, Todo, past
    <2>3. \A d \in Components : Torn(d) => Torn(d)'
      BY <2>1, <2>2 DEF Torn, Deleted, Strategy, InGit, Keys
    <2>4. c \in Components => Torn(c)'
      BY <2>1, <2>2 DEF Torn, Deleted, Strategy, InGit, Keys
    <2> QED
      BY <2>2, <2>3, <2>4 DEF Teardown, Gone, Names, Strategy
  <1>8. CASE TearDownFails
    <2>1. /\ pc = "teardown" /\ pc' = "idle"
          /\ UNCHANGED <<scene, w, seen, file, release, excused>>
      BY <1>8 DEF TearDownFails, Keeps, Errs, EndPass, past
    <2>2. \A d \in Components : Torn(d) => Torn(d)'
      BY <1>8, <2>1 DEF TearDownFails, Torn, Deleted, Strategy, InGit, Keys
    <2> QED BY <2>1, <2>2, TeardownKept
  <1>9. CASE DeleteFile
    <2>1. PICK c \in mem.todo :
            /\ Continue("teardown", mem.w, Todo(c), None)
            /\ \/ file' = [file EXCEPT ![c] = None] /\ excused' = excused
               \/ excused' = excused \cup {"git"} /\ file' = file
      BY <1>9 DEF DeleteFile
    <2>2. /\ pc = "teardown" /\ pc' = "teardown" /\ mem'.todo = mem.todo \ {c} /\ InGit
          /\ UNCHANGED <<scene, w, seen, helmOp, bundle, release>>
          /\ "asked" \in excused' => "asked" \in excused
      BY <1>9, <2>1 DEF DeleteFile, Continue, Todo, fleet
    <2>3. \A d \in Components : (Torn(d) => Torn(d)') /\ file'[d] \in {file[d], None}
      BY <2>1, <2>2 DEF Torn, Strategy, InGit, TypeOK
    <2>4. c \in Components => Torn(c)'
      BY <2>1, <2>2 DEF Torn, Strategy, InGit, TypeOK
    <2> QED
      BY <2>2, <2>3, <2>4 DEF Teardown, Gone, Names, Strategy
  <1>10. CASE AwaitRelease
    <2>1. /\ pc = "teardown" /\ pc' = "idle" /\ release # "none" /\ Strategy = "Helm"
          /\ UNCHANGED <<scene, w, seen, file, helmOp, bundle, excused>>
      BY <1>10 DEF AwaitRelease, Remains, EndPass, fleet, past
    <2> QED
      BY <2>1, <1>0 DEF Teardown, Gone, Names, Strategy
  <1>11. CASE RemoveFinalizer /\ ~Conflict
    <2>1. /\ pc = "teardown" /\ pc' = "idle" /\ mem.todo = {}
          /\ Strategy = "Helm" => release = "none"
          /\ mem.w = w /\ w' = [mem.w EXCEPT !.final = FALSE, !.life = "gone"]
          /\ UNCHANGED <<scene, seen, file, helmOp, bundle, release, excused>>
      BY <1>11 DEF RemoveFinalizer, Remains, Update, Current, EndPass, fleet, past
    <2>2. Follows(w, w') /\ w'.life # "live"
      BY <2>1, Updated DEF TypeOK, Stored
    <2>3. seen.life # "live" /\ \A c \in Components : Torn(c)'
      BY <2>1, <1>0 DEF Lags, Teardown
    <2> QED
      BY <2>1, <2>2, <2>3 DEF Teardown, Gone, Names, Strategy, Follows
  <1>12. CASE Observe
    <2>1. UNCHANGED <<scene, w, pc, mem, file, helmOp, bundle, release, excused>> /\ seen' = w
      BY <1>12 DEF Observe, Quiet, fleet, past
    <2> QED
      BY <2>1, <1>0, TeardownKept DEF Lags, Older, Teardown, Gone
  <1>13. CASE Generate \/ Collect \/ Lose \/ ApplyFile
    <2>1. UNCHANGED <<scene, w, seen, pc, mem, file, release, excused>>
      BY <1>13 DEF Generate, Collect, Lose, ApplyFile, Quiet, past
    <2>2. \A d \in Components : Torn(d) => Torn(d)'
      <3>1. CASE Generate
        BY <2>1, <3>1 DEF Generate, Torn, Strategy, InGit, TypeOK, Keys
      <3>2. CASE Collect
        BY <2>1, <3>2 DEF Collect, Torn, Strategy, InGit, TypeOK, Keys
      <3>3. CASE Lose
        BY <2>1, <3>3 DEF Lose, Deleted, Torn, Strategy, InGit, Keys
      <3>4. CASE ApplyFile
        BY <2>1, <3>4 DEF ApplyFile, Torn, Strategy, InGit
      <3> QED BY <1>13, <3>1, <3>2, <3>3, <3>4
    <2> QED
      BY <2>1, <2>2, TeardownKept DEF Teardown, Gone
  <1>14. CASE Uninstalling \/ Uninstalled \/ UninstallFails \/ UninstallByUser \/ UNCHANGED vars
    <2>1. /\ UNCHANGED <<scene, w, seen, pc, mem, file, helmOp, bundle, excused>>
          /\ release = "none" => release' = "none"
      BY <1>14 DEF Uninstalling, Uninstalled, UninstallFails, UninstallByUser, vars, Quiet,
         fleet, past
    <2> QED
      BY <2>1, <1>0 DEF Teardown, Gone, Names, Strategy
  <1>15. CASE Change
    <2>1. /\ w.life = "live" /\ \E x : w' = [w EXCEPT !.spec = x]
          /\ UNCHANGED <<scene, seen, pc, mem, file, helmOp, bundle, release, excused>>
      BY <1>15 DEF Change, Quiet, fleet
    <2>2. w'.life = w.life /\ w'.named = w.named /\ w'.final = w.final
      BY <2>1 DEF TypeOK, Stored
    <2> QED
      BY <2>1, <2>2, <1>0, TeardownKept DEF Teardown, Gone
  <1>16. CASE Delete
    <2>1. /\ w.life = "live" /\ w' = Removed(w)
          /\ excused' = excused \cup {IF w.final THEN "asked" ELSE "early"}
          /\ UNCHANGED <<scene, seen, pc, mem, file, helmOp, bundle, release>>
      BY <1>16 DEF Delete, Quiet, fleet
    <2>2. /\ w'.named = w.named /\ w'.final = w.final
          /\ w'.life = IF w.final THEN "deleting" ELSE "gone"
      BY <2>1 DEF TypeOK, Stored, Removed
    <2>3. \A c \in Components : Torn(c) => Torn(c)'
      BY <2>1, <1>0
    <2> QED
      BY <2>1, <2>2, <2>3 DEF Teardown, Gone, Names, Strategy
  <1>17. CASE Publish
    <2>1. PICK c \in Components : file[c] # None /\ file' = [file EXCEPT ![c].rev = 1 - @]
      BY <1>17 DEF Publish
    <2>2. /\ w.life = "live" /\ Strategy = "App"
          /\ UNCHANGED <<scene, w, seen, pc, mem, helmOp, bundle, release, excused>>
      BY <1>17 DEF Publish, Quiet, fleet, past
    <2>3. w.named /\ ~Gone /\ pc # "teardown"
      BY <2>2 DEF Lags, Older, Gone
    <2>4. \A d \in Components \ Names : file'[d] = None
      BY <2>1, <2>2 DEF Teardown, TypeOK
    <2> QED
      BY <2>2, <2>3, <2>4 DEF Teardown, Gone, Names, Strategy
  <1>18. CASE Withdraw
    <2>1. /\ \E c \in Components : file' = [file EXCEPT ![c] = None]
          /\ excused' = excused \cup {"withdrawn"}
          /\ UNCHANGED <<scene, w, seen, pc, mem, helmOp, bundle, release>>
      BY <1>18 DEF Withdraw, Quiet, fleet
    <2>2. \A d \in Components : (Torn(d) => Torn(d)') /\ file'[d] \in {file[d], None}
      BY <2>1 DEF Torn, Strategy, InGit, TypeOK
    <2> QED
      BY <2>1, <2>2, TeardownKept DEF Teardown, Gone
  <1> QED
    BY <1>1, <1>2, <1>3, <1>4, <1>5, <1>6, <1>7, <1>8, <1>9, <1>10, <1>11, <1>12, <1>13,
       <1>14, <1>15, <1>16, <1>17, <1>18 DEF Next, Pass, Disturb, Outside

IndInv == TypeInv /\ Lags /\ Teardown

\* The three invariants together are inductive.
LEMMA SpecInd == Spec => []IndInv
  <1>1. Init => IndInv
    BY InitTypes, InitLags, InitTeardown DEF IndInv
  <1>2. IndInv /\ [Next]_vars => IndInv'
    BY StepTypes, StepLags, StepTeardown DEF IndInv
  <1> QED BY <1>1, <1>2, PTL DEF Spec

\* A deletion that the finalizer held up leaves nothing behind (handleDeletion).
THEOREM DeletionLeavesNothing == Spec => []GoneIsTornDown
  <1>1. IndInv => GoneIsTornDown
    BY GoneMeansTornDown DEF IndInv, TypeInv
  <1> QED BY <1>1, SpecInd, PTL

-----------------------------------------------------------------------------
(* Why a workload goes.                                                    *)

Excused == {"asked", "early", "withdrawn"} \cap excused # {}

\* An App's HelmOps are those of its file, and once one has been mirrored one
\* is there, as long as nobody deleted the workload or withdrew the file.
Wanting ==
    /\ w.life # "live" => Excused
    /\ pc = "remove" => Excused
    /\ Strategy = "App" /\ ~Excused =>
         /\ \A k \in Keys : helmOp[k] # None => FromFile(k[1], k[2])
         /\ w.synced # None => Found # {}

\* At the start no HelmOp has been seen.
LEMMA InitWanting == Init => Wanting
  BY DEF Init, Wanting, Keys

\* A step that changes neither files nor HelmOps.
LEMMA WantingKept ==
    ASSUME Wanting, UNCHANGED <<scene, file, helmOp>>, excused \subseteq excused',
           w'.life # "live" => Excused \/ Excused' \/ w.life # "live",
           pc' = "remove" => pc = "remove" \/ Excused \/ Excused',
           Strategy = "App" /\ w'.synced # None /\ ~Excused => w.synced # None \/ Found # {}
    PROVE  Wanting'
  <1>1. Excused => Excused'
    BY DEF Excused
  <1> QED BY <1>1 DEF Wanting, Strategy, FromFile, Found

\* Every step keeps it: a pass gives up only on an App whose HelmOp was there
\* and is not.
LEMMA StepWanting ==
    ASSUME IndInv, Wanting, [Next]_vars
    PROVE  Wanting'
  <1> TypeOK /\ Lags BY DEF IndInv, TypeInv
  <1>1. CASE \/ Begin \/ Conflicts \/ Fails \/ Push \/ ListStale \/ Finish \/ Mirror \/ AwaitRelease
             \/ Generate \/ Collect \/ Observe \/ Uninstalling \/ Uninstalled \/ UninstallFails
             \/ UninstallByUser \/ UNCHANGED vars
    <2>1. UNCHANGED <<scene, w, helmOp, excused>> /\ (pc' = "remove" => pc = "remove")
      BY <1>1 DEF Begin, Conflicts, Conflict, Fails, Push, Rendered, ListStale, Finish, Mirror,
         AwaitRelease, Generate, Collect, Observe, Uninstalling, Uninstalled, UninstallFails,
         UninstallByUser, Continue, Errs, EndPass, Quiet, vars, fleet, past
    <2>2. Strategy = "App" => UNCHANGED file
      <3>1. Push => Strategy = "GitOps"
        BY DEF Push
      <3> QED
        BY <1>1, <3>1 DEF Begin, Conflicts, Conflict, Fails, ListStale, Finish, Mirror,
           AwaitRelease, Generate, Collect, Observe, Uninstalling, Uninstalled, UninstallFails,
           UninstallByUser, vars
    <2> QED BY <2>1, <2>2 DEF Wanting, Excused, Strategy, FromFile, Found
  <1>2. CASE (SyncSpec \/ GivesUp \/ RemoveFinalizer) /\ Conflict
    <2>1. UNCHANGED <<scene, w, file, helmOp, excused>> /\ pc' = "idle"
      BY <1>2 DEF Conflict, Errs, EndPass, fleet, past
    <2> QED BY <2>1, WantingKept
  <1>3. CASE AddFinalizer \/ PopulateNames \/ Stamp
    <2>1. /\ mem.w = w /\ pc # "idle" /\ pc' # "remove" /\ w \in Stored
          /\ UNCHANGED <<scene, file, helmOp, excused>>
      BY <1>3 DEF AddFinalizer, PopulateNames, Stamp, Update, Current, EndPass, Continue,
         fleet, past, TypeOK
    <2>2. AddFinalizer => w'.life = w.life /\ w'.synced = w.synced
      BY <2>1 DEF AddFinalizer, Update, Stored
    <2>3. PopulateNames => w'.life = w.life /\ w'.synced = w.synced
      BY <2>1 DEF PopulateNames, Update, Stored
    <2>4. Stamp => w'.life = w.life /\ w'.synced = w.synced
      BY <2>1 DEF Stamp, Update, Stored
    <2> QED BY <1>3, <2>1, <2>2, <2>3, <2>4, WantingKept
  <1>4. CASE SyncSpec /\ ~Conflict
    <2>1. /\ mem.w = w /\ Found # {} /\ pc' # "remove" /\ w \in Stored
          /\ w' = [w EXCEPT !.synced = Mirrored, !.spec.rev = Mirrored]
          /\ UNCHANGED <<scene, file, helmOp, excused>>
      BY <1>4 DEF SyncSpec, Update, Current, EndPass, fleet, past, TypeOK
    <2>2. w'.life = w.life
      BY <2>1 DEF Stored
    <2> QED BY <2>1, <2>2, WantingKept
  \* There is no HelmOp, and there has been one.
  <1>5. CASE GivesUp /\ ~Conflict
    <2>1. /\ mem.w = w /\ pc = "mirror" /\ Found = {} /\ w.synced # None /\ w \in Stored
          /\ w' = [w EXCEPT !.final = FALSE]
          /\ UNCHANGED <<scene, file, helmOp, excused>>
      BY <1>5 DEF GivesUp, Withdrawn, Absent, Update, Current, fleet, past, TypeOK
    <2>2. Strategy = "App"
      BY <2>1 DEF Lags
    <2>3. Excused
      BY <2>1, <2>2 DEF Wanting
    <2> QED BY <2>1, <2>3 DEF Wanting, Excused
  <1>6. CASE Remove
    <2>1. Excused /\ UNCHANGED excused
      BY <1>6 DEF Remove, Wanting, past
    <2> QED BY <2>1 DEF Wanting, Excused
  <1>7. CASE DeleteFile \/ (RemoveFinalizer /\ ~Conflict)
    <2>1. pc = "teardown" /\ excused \subseteq excused'
      BY <1>7 DEF DeleteFile, RemoveFinalizer, past
    <2>2. w.life # "live"
      BY <2>1 DEF Lags, Older
    <2>3. Excused'
      BY <2>1, <2>2 DEF Wanting, Excused
    <2> QED BY <2>3 DEF Wanting
  <1>8. CASE \/ RenderComponent \/ RenderFails \/ Discard \/ DiscardFails \/ TearDown
             \/ TearDownFails \/ Lose
    <2>1. UNCHANGED <<scene, w, excused>> /\ (pc' = "remove" => pc = "remove")
      BY <1>8 DEF RenderComponent, RenderFails, WriteTo, Rendered, Discard, DiscardFails, TearDown,
         TearDownFails, Keeps, Lose, Continue, Errs, EndPass, Quiet, fleet, past
    <2>2. Strategy # "App"
      <3>1. Discard => Blueprint
        BY DEF Discard, Lags
      <3>2. ~Discard => Strategy = "FleetBundle"
        BY <1>8 DEF RenderComponent, RenderFails, DiscardFails, TearDown, TearDownFails, Lose
      <3> QED BY <3>1, <3>2 DEF Blueprint
    <2> QED BY <2>1, <2>2 DEF Wanting, Excused, Strategy
  <1>9. CASE Change
    <2>1. UNCHANGED <<scene, excused, pc>> /\ Strategy # "App" /\ w'.life = w.life
      BY <1>9 DEF Change, Blueprint, Quiet, TypeOK, Stored
    <2> QED BY <2>1 DEF Wanting, Excused, Strategy
  <1>10. CASE Delete \/ Withdraw
    <2>1. Excused'
      BY <1>10 DEF Delete, Withdraw, Excused
    <2> QED BY <2>1 DEF Wanting
  <1>11. CASE Publish
    <2>1. PICK c \in Components : file[c] # None /\ file' = [file EXCEPT ![c].rev = 1 - @]
      BY <1>11 DEF Publish
    <2>2. UNCHANGED <<scene, w, helmOp, excused, pc>>
      BY <1>11 DEF Publish, Quiet, fleet, past
    <2>3. file[c] \in Digests /\ [file[c] EXCEPT !.rev = 1 - @] \in Digests
      BY <2>1 DEF Digests, Revs, TypeOK
    <2>4. \A d \in Components, s \in Spaces : FromFile(d, s) => FromFile(d, s)'
      BY <2>1, <2>3, NoneAssumption DEF FromFile, Digests, TypeOK
    <2> QED BY <2>2, <2>4 DEF Wanting, Excused, Strategy, Found, Keys
  <1>12. CASE ApplyFile
    <2>1. UNCHANGED <<scene, w, file, excused, pc>>
      BY <1>12 DEF ApplyFile, Quiet, past
    <2>2. PICK c \in Components :
            \/ UNCHANGED helmOp
            \/ helmOp' = [k \in Keys |-> IF k[1] # c THEN helmOp[k]
                            ELSE IF FromFile(c, k[2]) THEN file[c].rev ELSE None]
      BY <1>12 DEF ApplyFile
    <2>3. CASE UNCHANGED helmOp
      BY <2>1, <2>3, WantingKept
    <2>4. CASE helmOp' = [k \in Keys |-> IF k[1] # c THEN helmOp[k]
                            ELSE IF FromFile(c, k[2]) THEN file[c].rev ELSE None]
      <3>1. \A s : FromFile(c, s) => file[c].rev # None
        BY NoneAssumption DEF FromFile, TypeOK, Digests
      <3> SUFFICES ASSUME Strategy = "App", ~Excused
                   PROVE  /\ \A k \in Keys : helmOp'[k] # None => FromFile(k[1], k[2])
                          /\ w.synced # None => Found' # {}
        BY <2>1 DEF Wanting, Excused, Strategy, FromFile
      <3>2. \A k \in Keys : helmOp'[k] # None => FromFile(k[1], k[2])
        BY <2>4 DEF Wanting
      <3>3. \A k \in Keys : helmOp[k] # None => helmOp'[k] # None
        BY <2>4, <3>1 DEF Wanting
      <3>4. w.synced # None => Found' # {}
        BY <3>3 DEF Wanting, Found
      <3> QED BY <3>2, <3>4
    <2> QED BY <2>2, <2>3, <2>4
  <1>13. CASE SyncSpec \/ GivesUp \/ RemoveFinalizer
    <2>1. CASE Conflict BY <1>2, <1>13, <2>1
    <2>2. CASE ~Conflict BY <1>4, <1>5, <1>7, <1>13, <2>2
    <2> QED BY <2>1, <2>2
  <1> QED
    BY <1>1, <1>3, <1>6, <1>7, <1>8, <1>9, <1>10, <1>11, <1>12, <1>13
       DEF Next, Pass, Disturb, Outside

\* A workload is only gone when someone deleted it or withdrew its file, and
\* never because Fleet had yet to make a HelmOp of it (reconcileGitOpsStatus).
THEOREM NothingGoesByItself == Spec => []OnlyDeletedIsGone
  <1>1. Init => Wanting
    BY InitWanting
  <1>2. IndInv /\ Wanting /\ [Next]_vars => Wanting'
    BY StepWanting
  <1>3. Wanting => OnlyDeletedIsGone
    BY DEF Wanting, Excused, OnlyDeletedIsGone
  <1> QED BY <1>1, <1>2, <1>3, SpecInd, PTL DEF Spec

-----------------------------------------------------------------------------
(* What a clean-up may take.                                               *)

\* A step without a fault removes no HelmOp wanted all the time.
LEMMA StepKeeps ==
    ASSUME IndInv, [Next]_vars, w'.life = "live", Strategy = "FleetBundle",
           UNCHANGED faults, NEW k \in steady', helmOp[k] # None
    PROVE  helmOp'[k] # None
  <1> TypeOK /\ Lags BY DEF IndInv, TypeInv
  <1>1. ~Fault
    BY DEF Fault, TypeOK
  <1>2. CASE RenderComponent
    <2>1. PICK c \in mem.todo : WriteTo(c, mem.w.spec.spaces)
      BY <1>2 DEF RenderComponent
    <2>2. UNCHANGED helmOp \/ helmOp' = Patched(c, mem.w.spec.spaces, mem.w.spec)
      BY <2>1 DEF WriteTo
    <2>3. mem.w.spec.rev \in Revs /\ k \in Keys
      BY <1>2, Held DEF RenderComponent, WriteTo, past, Stored, Specs, TypeOK
    <2> QED BY <2>2, <2>3, NoneAssumption DEF Patched
  <1>3. CASE Discard
    <2>1. /\ pc = "cleanup" /\ UNCHANGED steady
          /\ \E j \in mem.todo : helmOp' = Deleted(helmOp, {j})
      BY <1>3 DEF Discard, StaleAt, Strategy
    <2>2. k \notin mem.todo /\ k \in Keys
      BY <2>1 DEF Lags, TypeOK
    <2> QED BY <2>1, <2>2 DEF Deleted
  <1>4. CASE TearDown
    <2>1. pc = "teardown" /\ UNCHANGED w
      BY <1>4 DEF TearDown
    <2> QED BY <2>1 DEF Lags, Older
  <1>5. CASE ApplyFile
    BY <1>5 DEF ApplyFile, InGit, Strategy
  <1>6. CASE RenderFails \/ DiscardFails \/ TearDownFails \/ Lose \/ Fails \/ UninstallFails
    BY <1>1, <1>6 DEF RenderFails, DiscardFails, TearDownFails, Lose, Fails, UninstallFails
  <1>7. CASE ~(\/ RenderComponent \/ Discard \/ TearDown \/ ApplyFile \/ RenderFails \/ DiscardFails
               \/ TearDownFails \/ Lose \/ Fails \/ UninstallFails)
    <2>1. UNCHANGED helmOp
      BY <1>7 DEF Next, Pass, Disturb, Outside, vars, fleet, Begin, AddFinalizer, PopulateNames,
         Conflicts, Conflict, Push, Stamp, ListStale, Finish, Mirror, SyncSpec, GivesUp, Remove,
         DeleteFile, AwaitRelease, RemoveFinalizer, Generate, Collect, Observe, Uninstalling,
         Uninstalled, UninstallByUser, Change, Delete, Publish, Withdraw
    <2> QED BY <2>1
  <1> QED BY <1>2, <1>3, <1>4, <1>5, <1>6, <1>7

\* What is deployed and wanted ever since stays, whatever a clean-up removes
\* elsewhere (cleanupStaleHelmOps).
THEOREM CleanUpKeeps == Spec => KeptWhileSteady
  <1>1. IndInv /\ [Next]_vars =>
          [w'.life = "live" /\ Strategy = "FleetBundle" /\ faults' = faults =>
             \A k \in steady' : helmOp[k] # None => helmOp'[k] # None]_vars
    BY StepKeeps
  <1> QED BY <1>1, SpecInd, PTL DEF Spec, KeptWhileSteady

-----------------------------------------------------------------------------
(* What a pass has rendered when nothing has queued another one.           *)

\* A copy that a pass renders.
Working(x) == x.life = "live" /\ x.final /\ x.named

\* The components in on are deployed as x wants them.
Written(x, on) ==
    \A c \in on, s \in x.spec.spaces :
      IF Git(c) THEN bundle[<<c, s>>] = Digest(x.spec)
      ELSE helmOp[<<c, s>>] = x.spec.rev

\* What is there is wanted, or waits for the clean-up.
NoneLeft(x, todo) ==
    \A k \in Keys : ~Git(k[1]) /\ helmOp[k] # None => k \in Wants(x.spec) \cup todo

\* No Bundle without its HelmOp.
NoOrphan == \A k \in Keys : ~Git(k[1]) /\ helmOp[k] = None => bundle[k] = None

\* As long as nothing queued the workload again, the pass works on what the
\* informer has, and what it wrote is still there.
Rendering ==
    Strategy = "FleetBundle" =>
      /\ pc # "stamp"
      /\ pc # "idle" /\ ~queued => seen = mem.w
      /\ pc \in {"render", "cleanup"} => Working(mem.w)
      /\ pc = "render" /\ ~queued => Written(mem.w, mem.w.spec.on \ mem.todo)
      /\ pc = "cleanup" /\ ~queued =>
           Written(mem.w, mem.w.spec.on) /\ NoneLeft(mem.w, mem.todo)
      /\ pc = "idle" /\ ~queued /\ Working(seen) =>
           Written(seen, seen.spec.on) /\ NoneLeft(seen, {})
      /\ faults = 0 => NoOrphan

LEMMA InitRendering == Init => Rendering
  BY DEF Init, Rendering, NoOrphan

\* What is written to Fleet for a component is what its copy wants.
LEMMA WritesIt ==
    ASSUME TypeOK, pc # "idle", NEW c \in Components, WriteTo(c, mem.w.spec.spaces)
    PROVE  /\ \A s \in mem.w.spec.spaces :
                IF Git(c) THEN bundle'[<<c, s>>] = Digest(mem.w.spec)
                ELSE helmOp'[<<c, s>>] = mem.w.spec.rev
           /\ NoOrphan => NoOrphan'
  <1>1. mem.w.spec.spaces \subseteq Spaces /\ mem.w.spec.rev # None
    BY Held, NoneAssumption DEF Stored, Specs
  <1>2. \A s \in mem.w.spec.spaces :
          <<c, s>> \in Keys /\ <<c, s>>[1] = c /\ <<c, s>>[2] = s
    BY <1>1 DEF Keys
  <1>3. CASE Git(c)
    <2>1. \A s \in mem.w.spec.spaces : bundle'[<<c, s>>] = Digest(mem.w.spec)
      BY <1>2, <1>3 DEF WriteTo, UpToDate, PatchedBundles
    <2>2. \A k \in Keys : ~Git(k[1]) => helmOp'[k] = helmOp[k] /\ bundle'[k] = bundle[k]
      BY <1>3 DEF WriteTo, PatchedBundles
    <2> QED BY <1>3, <2>1, <2>2 DEF NoOrphan, Git, WriteTo
  <1>4. CASE ~Git(c)
    <2>1. \A s \in mem.w.spec.spaces : helmOp'[<<c, s>>] = mem.w.spec.rev
      BY <1>2, <1>4 DEF WriteTo, Patched
    <2>2. /\ bundle' = bundle
          /\ \A k \in Keys : helmOp'[k] = None => helmOp[k] = None
      BY <1>1, <1>4 DEF WriteTo, Patched
    <2> QED BY <1>4, <2>1, <2>2 DEF NoOrphan, Git, WriteTo
  <1> QED BY <1>3, <1>4

\* A step after which the workload is queued.
LEMMA QueuedRendering ==
    ASSUME Rendering, UNCHANGED scene,
           Strategy = "FleetBundle" =>
             /\ queued' /\ (pc' = "idle" \/ UNCHANGED <<pc, mem>>)
             /\ faults' = 0 => faults = 0 /\ (NoOrphan => NoOrphan')
    PROVE  Rendering'
  BY DEF Rendering, Strategy

\* A step that leaves Fleet and the informer's copy as they are.
LEMMA StillRendering ==
    ASSUME Rendering, UNCHANGED <<scene, seen, queued, pc, mem, fleet>>,
           faults' = 0 => faults = 0
    PROVE  Rendering'
  BY DEF Rendering, Strategy, Working, Written, NoneLeft, NoOrphan, Wants, Git, fleet

\* Fleet, or an administrator, changes what is deployed: the names the copy
\* has make the controller watch it.
LEMMA NoticedRendering ==
    ASSUME TypeOK, Rendering, UNCHANGED <<scene, seen, pc, mem>>, Queue(Noticed(TRUE)),
           Strategy = "FleetBundle" /\ faults' = 0 =>
             faults = 0 /\ (NoOrphan => NoOrphan')
    PROVE  Rendering'
  <1>1. queued' = (queued \/ (seen.named /\ seen.life # "gone"))
    BY DEF Queue, Noticed
  <1>2. CASE queued'
    BY <1>2, QueuedRendering
  <1>3. CASE ~queued'
    <2>1. ~queued /\ ~Working(seen)
      BY <1>1, <1>3 DEF Working
    <2>2. Strategy = "FleetBundle" => pc \notin {"render", "cleanup"}
      BY <2>1 DEF Rendering
    <2> QED BY <2>1, <2>2 DEF Rendering, Strategy, Working
  <1> QED BY <1>2, <1>3

\* A pass goes on, and what it writes is there or has queued the workload.
LEMMA PassRendering ==
    ASSUME IndInv, Rendering, Strategy = "FleetBundle",
           \/ RenderComponent \/ ListStale \/ Discard \/ Finish \/ TearDown
           \/ RemoveFinalizer
    PROVE  Rendering'
  <1>0. TypeInv /\ TypeOK /\ Lags
    BY DEF IndInv, TypeInv
  <1>1. CASE RenderComponent
    <2>1. PICK c \in mem.todo : /\ WriteTo(c, mem.w.spec.spaces) /\ Rendered(c)
                                /\ Queue(Noticed(fleet' # fleet))
      BY <1>1 DEF RenderComponent
    <2>2. /\ pc = "render" /\ c \in Components /\ pc' = "render"
          /\ mem'.w = mem.w /\ mem'.todo = mem.todo \ {c}
          /\ UNCHANGED <<scene, seen, faults>>
      BY <1>0, <1>1, <2>1 DEF RenderComponent, WriteTo, TypeInv, Rendered, Continue, Todo
    <2>3. /\ \A s \in mem.w.spec.spaces :
               IF Git(c) THEN bundle'[<<c, s>>] = Digest(mem.w.spec)
               ELSE helmOp'[<<c, s>>] = mem.w.spec.rev
          /\ NoOrphan => NoOrphan'
      BY <1>0, <2>1, <2>2, WritesIt
    <2>4. ASSUME ~queued'
          PROVE  ~queued /\ seen = mem.w /\ Written(mem.w, mem.w.spec.on \ mem.todo)'
      <3>1. ~queued /\ ~Noticed(fleet' # fleet)
        BY <2>1, <2>4 DEF Queue
      <3>2. seen = mem.w /\ Working(mem.w)
        BY <2>2, <3>1 DEF Rendering
      <3>3. fleet' = fleet
        BY <3>1, <3>2 DEF Noticed, Working
      <3>4. Written(mem.w, mem.w.spec.on \ mem.todo)
        BY <2>2, <3>1 DEF Rendering
      <3>5. \A d \in mem.w.spec.on \ (mem.todo \ {c}) :
              d = c \/ d \in mem.w.spec.on \ mem.todo
        OBVIOUS
      <3>6. helmOp' = helmOp /\ bundle' = bundle
        BY <3>3 DEF fleet
      <3>7. ASSUME NEW d \in mem.w.spec.on \ (mem.todo \ {c}), NEW s \in mem.w.spec.spaces
            PROVE  IF Git(d) THEN bundle'[<<d, s>>] = Digest(mem.w.spec)
                   ELSE helmOp'[<<d, s>>] = mem.w.spec.rev
        <4>1. CASE d = c
          BY <2>3, <4>1
        <4>2. CASE d \in mem.w.spec.on \ mem.todo
          BY <3>4, <3>6, <4>2 DEF Written
        <4> QED BY <3>5, <4>1, <4>2
      <3>8. Written(mem.w, mem.w.spec.on \ mem.todo)' <=>
              \A d \in mem.w.spec.on \ (mem.todo \ {c}), s \in mem.w.spec.spaces :
                 IF Git(d) THEN bundle'[<<d, s>>] = Digest(mem.w.spec)
                 ELSE helmOp'[<<d, s>>] = mem.w.spec.rev
        BY <2>2 DEF Written, Git
      <3>9. Written(mem.w, mem.w.spec.on \ mem.todo)'
        BY <3>7, <3>8, Zenon
      <3> QED BY <3>1, <3>2, <3>9
    <2> QED BY <2>2, <2>3, <2>4 DEF Rendering, Working, Strategy
  <1>2. CASE ListStale
    <2>1. /\ pc = "render" /\ mem.todo = {} /\ pc' = "cleanup" /\ mem'.w = mem.w
          /\ mem'.todo = {k \in Keys : helmOp[k] # None /\ k \notin Wants(mem.w.spec)}
          /\ UNCHANGED <<scene, seen, queued, helmOp, bundle, faults>>
      BY <1>2 DEF ListStale, Continue, fleet, bounds
    <2>2. NoneLeft(mem.w, mem.todo)'
      BY <2>1 DEF NoneLeft, Wants, Git
    <2>3. ASSUME ~queued PROVE Written(mem.w, mem.w.spec.on)'
      <3>1. Written(mem.w, mem.w.spec.on \ mem.todo)
        BY <2>1, <2>3 DEF Rendering
      <3>2. mem.w.spec.on \ mem.todo = mem.w.spec.on
        BY <2>1
      <3>3. Written(mem.w, mem.w.spec.on)
        BY <3>1, <3>2
      <3> QED BY <2>1, <3>3 DEF Written, Git
    <2> QED BY <2>1, <2>2, <2>3 DEF Rendering, Working, Strategy, NoOrphan, Git
  <1>3. CASE Discard
    <2>1. PICK k \in mem.todo :
            /\ helmOp' = Deleted(helmOp, StaleAt(k))
            /\ bundle' = Deleted(bundle, StaleAt(k))
            /\ Queue(Noticed(TRUE)) /\ Continue("cleanup", mem.w, Todo(k), None)
      BY <1>3 DEF Discard, Strategy
    <2>2. /\ pc = "cleanup" /\ pc' = "cleanup" /\ mem'.w = mem.w
          /\ UNCHANGED <<scene, seen, faults>>
      BY <1>3, <2>1 DEF Discard, Continue, bounds
    <2>3. queued'
      BY <2>1, <2>2 DEF Queue, Noticed, Rendering, Working
    <2>4. NoOrphan => NoOrphan'
      BY <2>1, <2>2 DEF NoOrphan, Deleted, Git
    <2> QED BY <2>2, <2>3, <2>4 DEF Rendering, Working, Strategy
  <1>4. CASE Finish
    <2>1. /\ pc = "cleanup" /\ mem.todo = {} /\ pc' = "idle" /\ queued' = queued
          /\ UNCHANGED <<scene, seen, helmOp, bundle, faults>>
      BY <1>0, <1>4 DEF Finish, EndPass, Queue, fleet, bounds, TypeOK
    <2>2. ~queued => Written(seen, seen.spec.on) /\ NoneLeft(seen, {})
      BY <2>1 DEF Rendering
    <2> QED BY <2>1, <2>2 DEF Rendering, Strategy, Written, NoneLeft, NoOrphan, Wants, Git
  <1>5. CASE TearDown
    <2>1. PICK c \in mem.todo :
            /\ helmOp' = Deleted(helmOp, {c} \X Spaces)
            /\ bundle' = Deleted(bundle, {c} \X Spaces)
            /\ Continue("teardown", mem.w, Todo(c), None)
            /\ Queue(Noticed(fleet' # fleet))
      BY <1>5 DEF TearDown
    <2>2. /\ pc = "teardown" /\ pc' = "teardown" /\ mem'.w = mem.w
          /\ UNCHANGED <<scene, seen, faults>> /\ (~queued' => ~queued)
      BY <1>5, <2>1 DEF TearDown, Continue, bounds, Queue
    <2>3. NoOrphan => NoOrphan'
      BY <2>1, <2>2 DEF NoOrphan, Deleted, Git
    <2> QED BY <2>2, <2>3 DEF Rendering, Strategy
  <1>6. CASE RemoveFinalizer
    <2>1. /\ pc = "teardown" /\ pc' = "idle"
          /\ UNCHANGED <<scene, seen, helmOp, bundle, faults>>
          /\ queued' \/ queued' = queued
      BY <1>0, <1>6 DEF RemoveFinalizer, Conflict, Errs, EndPass, Queue, fleet, bounds, TypeOK
    <2>2. ~queued => ~Working(seen)
      BY <1>0, <2>1 DEF Rendering, Lags, Working
    <2> QED BY <2>1, <2>2 DEF Rendering, Strategy, NoOrphan, Working, Git
  <1> QED BY <1>1, <1>2, <1>3, <1>4, <1>5, <1>6

LEMMA StepRendering ==
    ASSUME IndInv, Rendering, [Next]_vars
    PROVE  Rendering'
  <1>0. TypeInv /\ TypeOK /\ Lags /\ UNCHANGED scene
    BY DEF IndInv, TypeInv, Next, Pass, Disturb, Outside, vars, Begin, AddFinalizer,
       PopulateNames, Conflicts, Conflict, Fails, RenderComponent, RenderFails, WriteTo,
       Push, Stamp, ListStale, Discard, DiscardFails, Finish, Mirror, SyncSpec, GivesUp,
       Remove, TearDown, TearDownFails, DeleteFile, AwaitRelease, RemoveFinalizer,
       Observe, Generate, Collect, ApplyFile, Uninstalling, Uninstalled, UninstallFails,
       UninstallByUser, Change, Delete, Publish, Withdraw, Lose
  <1>1. CASE Strategy # "FleetBundle"
    BY <1>0, <1>1 DEF Rendering, Strategy
  <1>f. faults \in Nat /\ (Fault => faults' # 0)
    BY <1>0 DEF TypeOK, Fault
  <1>2. CASE Begin /\ Strategy = "FleetBundle"
    <2>1. /\ pc = "idle" /\ queued' = FALSE
          /\ UNCHANGED <<scene, seen, helmOp, bundle, faults>>
          /\ \/ pc' = "idle" /\ ~Working(seen)
             \/ /\ mem'.w = seen /\ pc' \notin {"idle", "stamp", "cleanup"}
                /\ pc' = "render" => Working(seen) /\ mem'.todo = seen.spec.on
      BY <1>0, <1>2
      DEF Begin, Continue, Blueprint, Working, fleet, bounds, TypeOK, Stored
    <2>2. pc' = "render" => Written(mem.w, mem.w.spec.on \ mem.todo)'
      BY <2>1 DEF Written
    <2> QED BY <2>1, <2>2 DEF Rendering, Working, Strategy, NoOrphan, Git
  <1>3. CASE \/ AddFinalizer \/ PopulateNames \/ Conflicts \/ Observe \/ Uninstalling
             \/ Uninstalled \/ UninstallByUser \/ AwaitRelease
    <2>1. /\ queued' /\ (pc' = "idle" \/ UNCHANGED <<pc, mem>>)
          /\ UNCHANGED <<helmOp, bundle, faults>>
      BY <1>3 DEF AddFinalizer, PopulateNames, Conflicts, Conflict, Observe, Uninstalling,
         Uninstalled, UninstallByUser, AwaitRelease, Errs, EndPass, Queue, Quiet, fleet,
         bounds
    <2> QED BY <1>0, <2>1, QueuedRendering DEF NoOrphan, Git
  <1>4. CASE Disturb
    <2>1. queued' /\ pc' = "idle" /\ faults' # 0
      BY <1>4, <1>f DEF Disturb, Fails, RenderFails, DiscardFails, TearDownFails, Errs,
         Keeps, EndPass, Queue
    <2> QED BY <1>0, <2>1, QueuedRendering
  <1>5. CASE Change \/ Delete \/ UninstallFails \/ UNCHANGED vars
    <2>1. /\ UNCHANGED <<scene, seen, queued, pc, mem, fleet>>
          /\ faults' = 0 => faults = 0
      BY <1>5, <1>f DEF Change, Delete, UninstallFails, vars, Quiet, bounds
    <2> QED BY <2>1, StillRendering
  <1>6. CASE Strategy = "FleetBundle" /\
             (\/ Push \/ Stamp \/ Mirror \/ SyncSpec \/ GivesUp \/ Remove \/ DeleteFile
              \/ ApplyFile \/ Publish \/ Withdraw)
    BY <1>0, <1>6 DEF Push, Stamp, Mirror, SyncSpec, GivesUp, Remove, DeleteFile,
       ApplyFile, Publish, Withdraw, InGit, Lags, Rendering
  <1>7. CASE Generate \/ Collect
    <2>1. /\ UNCHANGED <<scene, seen, pc, mem, helmOp, faults>> /\ Queue(Noticed(TRUE))
      BY <1>7 DEF Generate, Collect, Quiet, bounds
    <2>2. NoOrphan => NoOrphan'
      <3>1. \A k \in Keys : ~Git(k[1]) /\ helmOp[k] = None => bundle'[k] \in {bundle[k], None}
        BY <1>0, <1>7 DEF Generate, Collect, TypeOK
      <3> QED BY <2>1, <3>1 DEF NoOrphan, Git
    <2> QED BY <1>0, <2>1, <2>2, NoticedRendering
  <1>8. CASE Lose
    <2>1. /\ UNCHANGED <<scene, seen, pc, mem>> /\ Queue(Noticed(TRUE))
          /\ faults' # 0
      BY <1>8, <1>f DEF Lose, Quiet
    <2> QED BY <1>0, <2>1, NoticedRendering
  <1> QED
    BY <1>1, <1>2, <1>3, <1>4, <1>5, <1>6, <1>7, <1>8, PassRendering
       DEF Next, Pass, Disturb, Outside

\* The strengthening implies the property.
LEMMA RenderingMeansRendered ==
    ASSUME TypeOK, Rendering
    PROVE  RestIsRendered
  <1> SUFFICES ASSUME AtRest, Ready, Strategy = "FleetBundle", NEW k \in Keys
               PROVE  IF Git(k[1]) THEN ~Stale(k) => bundle[k] = Digest(w.spec)
                      ELSE /\ helmOp[k] = IF Stale(k) THEN None ELSE w.spec.rev
                           /\ Stale(k) /\ faults = 0 => bundle[k] = None
    BY DEF RestIsRendered
  <1>1. Written(w, w.spec.on) /\ NoneLeft(w, {}) /\ (faults = 0 => NoOrphan)
    BY DEF Rendering, AtRest, Ready, Working
  <1>2. k = <<k[1], k[2]>>
    BY DEF Keys
  <1>3. ~Stale(k) => k[1] \in w.spec.on /\ k[2] \in w.spec.spaces
    BY DEF Stale, Wants
  <1>4. ~Stale(k) => IF Git(k[1]) THEN bundle[k] = Digest(w.spec)
                     ELSE helmOp[k] = w.spec.rev
    BY <1>1, <1>2, <1>3 DEF Written
  <1>5. ~Git(k[1]) /\ Stale(k) => helmOp[k] = None
    BY <1>1 DEF NoneLeft, Stale
  <1> QED BY <1>1, <1>4, <1>5 DEF NoOrphan

\* A controller at rest has left Fleet with just what the specification asks
\* for: whatever changed meanwhile queued the workload again
\* (ensureBlueprintHelmOp, ensureBlueprintGitChartBundle, cleanupStaleHelmOps).
THEOREM RestMeansRendered == Spec => []RestIsRendered
  <1>1. IndInv /\ Rendering /\ [Next]_vars => Rendering'
    BY StepRendering
  <1>2. IndInv /\ Rendering => RestIsRendered
    BY RenderingMeansRendered DEF IndInv, TypeInv
  <1> QED BY InitRendering, <1>1, <1>2, SpecInd, PTL DEF Spec
-----------------------------------------------------------------------------
(* What is published in git when nothing has queued another pass.  An       *)
(* annotation says what a pass has pushed, and is trusted by later ones: it *)
(* must not agree with a copy that an older pass could still overwrite.     *)

\* Of a Blueprint in git, one edit is looked at: it may come at any time.
OneEdit == \A s \in Scenes : s.strategy = "GitOps" => s.edits <= 1

\* x asks for the content that the AIWorkload asks for.
Agrees(x) == Digest(x.spec) = Digest(w.spec)

\* The annotation names what x asks for.
Stamped(x, on) == \A c \in on : w.stamp[c] = Digest(x.spec)

\* Before the edit there is one content.
OneContent ==
    /\ seen.spec = w.spec /\ (pc # "idle" => mem.w.spec = w.spec)
    /\ \A c \in Components : w.stamp[c] \in {None, Digest(w.spec)}

\* What an annotation of today's content stands for: the file has it, and no
\* pass of an older copy is under way or to come.
Trusted(c) ==
    /\ Agrees(seen) /\ (pc # "idle" => Agrees(mem.w))
    /\ w.life = "live" => file[c] = Digest(w.spec) \/ c \in cleaned

\* An annotation that a copy trusts still is the one stored.
Kept(x) == \A c \in Components : x.stamp[c] = Digest(x.spec) => w.stamp[c] = Digest(x.spec)

Publishing ==
    Strategy = "GitOps" =>
      /\ edits = 0 => OneContent
      /\ pc # "idle" /\ Agrees(mem.w) => Agrees(seen)
      /\ \A c \in Components : w.stamp[c] = Digest(w.spec) => Trusted(c)
      /\ Kept(seen) /\ (pc # "idle" => Kept(mem.w))
      /\ pc = "stamp" => mem.c \in Components /\ file[mem.c] = Digest(mem.w.spec)
      /\ pc \in {"render", "stamp"} => Stamped(mem.w, mem.w.spec.on \ mem.todo)
      /\ pc = "cleanup" => Stamped(mem.w, mem.w.spec.on)
      /\ pc # "idle" /\ ~queued =>
           /\ seen.spec = mem.w.spec
           /\ Working(seen) => pc \in {"render", "stamp", "cleanup"}
      /\ pc = "idle" /\ ~queued /\ Working(seen) => Stamped(seen, seen.spec.on)

LEMMA InitPublishing == Init => Publishing
  <1> SUFFICES ASSUME Init PROVE Publishing OBVIOUS
  <1>1. w \in Stored /\ seen = w /\ queued = TRUE /\ pc = "idle" /\ \A c \in Components : w.stamp[c] = None
    BY InitTypes DEF Init, TypeInv, TypeOK
  <1>2. \A x \in Stored : Digest(x.spec) # None
    BY NoneAssumption DEF Stored, Specs, Digest, Digests
  <1> QED BY <1>1, <1>2 DEF Publishing, OneContent, Kept

\* A step that changes no content and no annotation, and no file of a live
\* workload that no clean-up removed: the pass goes on as it was, or ends and
\* another follows.
LEMMA PublishingKept ==
    ASSUME Publishing, UNCHANGED <<scene, seen>>,
           Strategy = "GitOps" =>
             /\ w'.spec = w.spec /\ w'.stamp = w.stamp /\ (w'.life = "live" => w.life = "live")
             /\ edits' = 0 => edits = 0
             /\ cleaned \subseteq cleaned'
             /\ w'.life = "live" => \A c \in Components : file'[c] = file[c] \/ c \in cleaned'
             /\ \/ pc' = "idle" /\ queued'
                \/ UNCHANGED <<pc, mem, file>> /\ (~queued' => ~queued)
    PROVE  Publishing'
  <1> SUFFICES ASSUME Strategy = "GitOps" PROVE Publishing'
    BY DEF Publishing, Strategy
  <1>1. \A x : Agrees(x)' = (Digest(x.spec) = Digest(w.spec))
    BY DEF Agrees
  <1>2. \A c \in Components : Trusted(c) => Trusted(c)'
    BY <1>1 DEF Trusted, Agrees
  <1>3. OneContent => OneContent'
    BY DEF OneContent
  <1>4. Kept(seen)' /\ (pc' # "idle" => Kept(mem.w)')
    BY DEF Publishing, Kept
  <1>5. CASE pc' = "idle" /\ queued'
    BY <1>2, <1>3, <1>4, <1>5 DEF Publishing
  <1>6. CASE UNCHANGED <<pc, mem, file>> /\ (~queued' => ~queued)
    BY <1>1, <1>2, <1>3, <1>4, <1>6 DEF Publishing, Agrees, Stamped, Working
  <1> QED BY <1>5, <1>6
\* A pass begins with the informer's copy.
LEMMA BeginPublishes ==
    ASSUME IndInv, Publishing, Strategy = "GitOps", Begin
    PROVE  Publishing'
  <1>1. /\ pc = "idle" /\ UNCHANGED <<scene, seen, w, file, cleaned, edits>>
        /\ \/ pc' = "idle" /\ ~Working(seen)
           \/ /\ pc' \notin {"idle", "stamp", "cleanup"} /\ mem'.w = seen
              /\ pc' = "render" => mem'.todo = seen.spec.on
              /\ Working(seen) => pc' = "render"
    BY DEF IndInv, TypeInv, TypeOK, Begin, Continue, Blueprint, Working, past, bounds, Stored
  <1>2. Kept(seen)' /\ Strategy' = Strategy
    BY <1>1 DEF Publishing, Kept, Strategy
  <1>3. \A c \in Components : Trusted(c) => Trusted(c)'
    BY <1>1 DEF Trusted, Agrees
  <1>4. pc' = "render" => Stamped(mem.w, mem.w.spec.on \ mem.todo)'
    BY <1>1 DEF Stamped
  <1>5. OneContent => OneContent'
    BY <1>1 DEF OneContent
  <1>6. pc' # "idle" => Kept(mem.w)'
    BY <1>1, <1>2 DEF Kept
  <1> QED BY <1>1, <1>2, <1>3, <1>4, <1>5, <1>6 DEF Publishing, Working, Agrees

\* A file is pushed, or its annotation trusted.
LEMMA PushPublishes ==
    ASSUME IndInv, Publishing, Strategy = "GitOps", Push
    PROVE  Publishing'
  <1>0. TypeOK
    BY DEF IndInv, TypeInv
  <1>1. PICK c \in mem.todo :
          IF Published(c) THEN Rendered(c) /\ UNCHANGED <<file, faults>>
          ELSE Write(c) /\ Continue("stamp", mem.w, mem.todo, c)
    BY DEF Push
  <1>2. /\ pc = "render" /\ c \in Components /\ pc' \in {"render", "stamp"} /\ mem'.w = mem.w
        /\ UNCHANGED <<scene, seen, w, queued, cleaned, edits>> /\ Strategy' = Strategy
    BY <1>1 DEF Push, Rendered, Write, Continue, past, IndInv, TypeInv, Strategy
  <1>3. Kept(seen)' /\ Kept(mem.w)'
    BY <1>2 DEF Publishing, Kept
  <1>4. OneContent => OneContent'
    BY <1>2 DEF OneContent
  <1>5. CASE Published(c)
    <2>1. mem'.todo = mem.todo \ {c} /\ pc' = "render" /\ file' = file
      BY <1>1, <1>5 DEF Rendered, Continue, Todo
    <2>2. w.stamp[c] = Digest(mem.w.spec)
      BY <1>2, <1>5 DEF Published, Publishing, Kept
    <2>3. Stamped(mem.w, mem.w.spec.on \ mem.todo)'
      BY <1>2, <2>1, <2>2 DEF Publishing, Stamped
    <2>4. \A x \in Components : Trusted(x) => Trusted(x)'
      BY <1>2, <2>1 DEF Trusted, Agrees
    <2> QED BY <1>2, <1>3, <1>4, <2>1, <2>3, <2>4 DEF Publishing, Working, Agrees
  <1>6. CASE ~Published(c)
    <2>1. /\ mem'.todo = mem.todo /\ mem'.c = c /\ pc' = "stamp"
          /\ file' = [file EXCEPT ![c] = Digest(mem.w.spec)]
      BY <1>1, <1>6 DEF Write, WriteFile, Continue
    <2>2. file'[c] = Digest(mem.w.spec) /\ \A x \in Components \ {c} : file'[x] = file[x]
      BY <1>0, <1>2, <2>1 DEF TypeOK
    <2>3. Stamped(mem.w, mem.w.spec.on \ mem.todo)'
      BY <1>2, <2>1 DEF Publishing, Stamped
    <2>4. \A x \in Components : Trusted(x) => Trusted(x)'
      BY <1>2, <2>1, <2>2 DEF Trusted, Agrees
    <2> QED BY <1>2, <1>3, <1>4, <2>1, <2>2, <2>3, <2>4 DEF Publishing, Working, Agrees
  <1> QED BY <1>5, <1>6

\* The annotation is written, of the very document the pass has read.
LEMMA StampPublishes ==
    ASSUME IndInv, Publishing, Strategy = "GitOps", Stamp
    PROVE  Publishing'
  <1>0. TypeOK
    BY DEF IndInv, TypeInv
  <1>1. /\ pc = "stamp" /\ mem.w = w /\ mem.c \in Components /\ file[mem.c] = Digest(w.spec)
    BY DEF Stamp, Update, Current, Publishing
  <1>2. PICK c \in Components : c = mem.c
    BY <1>1
  <1>3. PICK new : new = [w EXCEPT !.stamp[c] = Digest(w.spec)]
    OBVIOUS
  <1>4. /\ w' = new /\ pc' = "render" /\ mem'.w = new /\ mem'.todo = mem.todo \ {c}
        /\ UNCHANGED <<scene, seen, queued, file, cleaned, edits>> /\ Strategy' = Strategy
    BY <1>1, <1>2, <1>3 DEF Stamp, Update, Current, Continue, Todo, past, bounds, Strategy
  <1>5. /\ new.spec = w.spec /\ new.life = w.life
        /\ new.stamp[c] = Digest(w.spec) /\ \A x \in Components \ {c} : new.stamp[x] = w.stamp[x]
    BY <1>0, <1>3 DEF TypeOK, Stored
  <1>6. Agrees(seen) /\ Agrees(mem.w)
    BY <1>1 DEF Publishing, Agrees
  <1>7. Agrees(seen)' /\ Agrees(mem.w)'
    BY <1>4, <1>5, <1>6 DEF Agrees
  <1>8. OneContent => OneContent'
    BY <1>1, <1>4, <1>5 DEF OneContent
  <1>9. Kept(seen)' /\ Kept(mem.w)'
    BY <1>1, <1>4, <1>5, <1>6 DEF Publishing, Kept, Agrees
  <1>10. ASSUME NEW x \in Components, w'.stamp[x] = Digest(w'.spec) PROVE Trusted(x)'
    <2>1. CASE x = c
      BY <1>1, <1>2, <1>4, <1>5, <1>7, <2>1 DEF Trusted
    <2>2. CASE x # c
      BY <1>4, <1>5, <1>7, <1>10, <2>2 DEF Publishing, Trusted
    <2> QED BY <2>1, <2>2
  <1>11. Stamped(mem.w, mem.w.spec.on \ mem.todo)'
    <2>1. Stamped(w, w.spec.on \ mem.todo) /\ w.spec.on \subseteq Components
      BY <1>0, <1>1 DEF Publishing, TypeOK, Stored, Specs
    <2> QED BY <1>4, <1>5, <2>1 DEF Stamped
  <1>12. ~queued => seen.spec = mem'.w.spec
    BY <1>1, <1>4, <1>5 DEF Publishing
  <1> QED BY <1>4, <1>7, <1>8, <1>9, <1>10, <1>11, <1>12 DEF Publishing

\* The clean-up, and the end of a pass.
LEMMA CleanUpPublishes ==
    ASSUME IndInv, Publishing, Strategy = "GitOps", ListStale \/ Discard \/ Finish
    PROVE  Publishing'
  <1>0. TypeOK
    BY DEF IndInv, TypeInv
  <1>1. /\ UNCHANGED <<scene, seen, w, edits>> /\ queued' = queued /\ Strategy' = Strategy
        /\ pc \in {"render", "cleanup"}
        /\ \/ pc' = "cleanup" /\ mem'.w = mem.w
           \/ pc' = "idle" /\ pc = "cleanup"
        /\ pc = "render" => mem.todo = {}
    BY <1>0 DEF ListStale, Discard, Finish, EndPass, Queue, Continue, bounds, Strategy, TypeOK
  <1>2. /\ cleaned \subseteq cleaned'
        /\ \A c \in Components : file'[c] = file[c] \/ c \in cleaned'
    <2>1. CASE ListStale \/ Finish
      BY <2>1 DEF ListStale, Finish, past
    <2>2. CASE Discard
      <3>1. PICK k \in mem.todo : file' = [file EXCEPT ![k[1]] = None] /\ cleaned' = cleaned \cup {k[1]}
        BY <2>2 DEF Discard
      <3> QED BY <1>0, <3>1 DEF TypeOK
    <2> QED BY <2>1, <2>2
  <1>3. Kept(seen)' /\ (pc' # "idle" => Kept(mem.w)')
    BY <1>1 DEF Publishing, Kept
  <1>4. OneContent => OneContent'
    BY <1>1 DEF OneContent
  <1>5. \A c \in Components : Trusted(c) => Trusted(c)'
    BY <1>1, <1>2 DEF Trusted, Agrees
  <1>6. Stamped(mem.w, mem.w.spec.on)
    <2>1. pc = "render" => mem.w.spec.on \ mem.todo = mem.w.spec.on
      BY <1>1
    <2> QED BY <1>1, <2>1 DEF Publishing
  <1>7. pc' = "cleanup" => Stamped(mem.w, mem.w.spec.on)'
    BY <1>1, <1>6 DEF Stamped
  <1>8. pc' = "idle" /\ ~queued => Stamped(seen, seen.spec.on)'
    BY <1>1, <1>6 DEF Stamped, Publishing
  <1> QED BY <1>1, <1>3, <1>4, <1>5, <1>7, <1>8 DEF Publishing, Working, Agrees
\* The informer catches up.
LEMMA ObservePublishes ==
    ASSUME Publishing, Strategy = "GitOps", Observe
    PROVE  Publishing'
  <1>1. /\ seen' = w /\ queued' /\ UNCHANGED <<scene, w, file, cleaned, edits, pc, mem>>
        /\ Strategy' = Strategy
    BY DEF Observe, Quiet, past, bounds, Strategy
  <1>2. Agrees(seen)' /\ Kept(seen)'
    BY <1>1 DEF Agrees, Kept
  <1>3. pc # "idle" => Kept(mem.w)'
    BY <1>1 DEF Publishing, Kept
  <1>4. \A c \in Components : Trusted(c) => Trusted(c)'
    BY <1>1 DEF Trusted, Agrees
  <1>5. OneContent => OneContent'
    BY <1>1 DEF OneContent
  <1> QED BY <1>1, <1>2, <1>3, <1>4, <1>5 DEF Publishing, Stamped

\* The edit: an annotation of before that agrees with the new content also
\* agreed with the old one, which everything still has.
LEMMA ChangePublishes ==
    ASSUME IndInv, Publishing, OneEdit, Strategy = "GitOps", Change
    PROVE  Publishing'
  <1>0. TypeOK /\ scene \in Scenes
    BY DEF IndInv, TypeInv, TypeOK
  <1>1. scene.edits \in Nat /\ scene.edits <= 1
    BY <1>0, ScenesAssumption DEF OneEdit, Strategy, SceneKind
  <1>2. edits = 0 /\ edits' # 0
    BY <1>0, <1>1 DEF Change, Edit, TypeOK
  <1>3. PICK spec \in Edited(w.spec) : w' = [w EXCEPT !.spec = spec]
    BY DEF Change
  <1>4. /\ w'.stamp = w.stamp /\ w'.spec = spec /\ w'.life = w.life
        /\ UNCHANGED <<scene, seen, queued, file, cleaned, pc, mem>> /\ Strategy' = Strategy
    BY <1>0, <1>3 DEF Change, Quiet, Strategy, TypeOK, Stored
  <1>5. OneContent
    BY <1>2 DEF Publishing
  <1>6. ASSUME NEW c \in Components, w'.stamp[c] = Digest(w'.spec) PROVE Trusted(c)'
    <2>1. w' \in Stored
      BY StepTypes DEF IndInv, TypeInv, TypeOK, Next
    <2>2. Digest(w'.spec) # None
      BY <2>1, NoneAssumption DEF Stored, Specs, Digest, Digests
    <2>3. w.stamp[c] = Digest(w.spec) /\ Digest(w'.spec) = Digest(w.spec)
      BY <1>4, <1>5, <1>6, <2>2 DEF OneContent
    <2>4. Trusted(c)
      BY <2>3 DEF Publishing
    <2> QED BY <1>4, <2>3, <2>4 DEF Trusted, Agrees
  <1>7. Kept(seen)' /\ (pc # "idle" => Kept(mem.w)')
    BY <1>4 DEF Publishing, Kept
  <1>8. pc # "idle" => mem.w.spec = seen.spec
    BY <1>5 DEF OneContent
  <1>9. (pc # "idle" /\ Agrees(mem.w) => Agrees(seen))'
    BY <1>4, <1>8 DEF Agrees
  <1> QED BY <1>2, <1>4, <1>6, <1>7, <1>9 DEF Publishing, Stamped, Working

\* Every step keeps it.
LEMMA StepPublishing ==
    ASSUME IndInv, Publishing, OneEdit, [Next]_vars
    PROVE  Publishing'
  <1>0. TypeInv /\ TypeOK /\ Lags /\ UNCHANGED scene
    BY DEF IndInv, TypeInv, Next, Pass, Disturb, Outside, vars, Begin, AddFinalizer,
       PopulateNames, Conflicts, Conflict, Fails, RenderComponent, RenderFails, WriteTo,
       Push, Stamp, ListStale, Discard, DiscardFails, Finish, Mirror, SyncSpec, GivesUp,
       Remove, TearDown, TearDownFails, DeleteFile, AwaitRelease, RemoveFinalizer,
       Observe, Generate, Collect, ApplyFile, Uninstalling, Uninstalled, UninstallFails,
       UninstallByUser, Change, Delete, Publish, Withdraw, Lose
  <1>1. CASE Strategy # "GitOps"
    BY <1>0, <1>1 DEF Publishing, Strategy
  <1>2. CASE (AddFinalizer \/ PopulateNames \/ Conflicts \/ Fails) /\ Strategy = "GitOps"
    <2>1. /\ pc' = "idle" /\ queued' /\ UNCHANGED <<seen, file, cleaned, edits>>
          /\ \/ w' = w \/ w' = [w EXCEPT !.final = TRUE] \/ w' = [w EXCEPT !.named = TRUE]
      BY <1>2 DEF AddFinalizer, PopulateNames, Conflicts, Conflict, Fails, Update, Current, Errs, EndPass,
                  Queue, past, bounds
    <2>2. w'.spec = w.spec /\ w'.stamp = w.stamp /\ w'.life = w.life
      BY <1>0, <2>1 DEF TypeOK, Stored
    <2> QED BY <1>0, <2>1, <2>2, PublishingKept
  <1>3. CASE (\/ Generate \/ Collect \/ ApplyFile \/ Uninstalling \/ Uninstalled \/ UninstallFails
              \/ UninstallByUser \/ UNCHANGED vars) /\ Strategy = "GitOps"
    <2>1. /\ UNCHANGED <<seen, w, file, cleaned, edits, pc, mem>>
      BY <1>3 DEF Generate, Collect, ApplyFile, Uninstalling, Uninstalled, UninstallFails,
                  UninstallByUser, vars, Quiet, past, bounds
    <2>2. queued' = TRUE \/ queued' = queued \/ \E again : queued' = (queued \/ again)
      BY <1>3 DEF Generate, Collect, ApplyFile, Uninstalling, Uninstalled, UninstallFails,
                  UninstallByUser, vars, Queue
    <2>3. ~queued' => ~queued
      BY <2>2, Zenon
    <2> QED BY <1>0, <2>1, <2>3, PublishingKept
  <1>4. CASE Delete /\ Strategy = "GitOps"
    <2>1. /\ UNCHANGED <<seen, file, cleaned, queued, pc, mem>> /\ w' = Removed(w) /\ edits' # 0
          /\ w.life = "live"
      BY <1>0, <1>4 DEF Delete, Edit, Quiet, TypeOK
    <2>2. w'.spec = w.spec /\ w'.stamp = w.stamp
      BY <1>0, <2>1 DEF TypeOK, Stored, Removed
    <2> QED BY <1>0, <2>1, <2>2, PublishingKept
  <1>5. CASE DeleteFile /\ Strategy = "GitOps"
    <2>1. /\ pc = "teardown" /\ pc' = "teardown" /\ mem'.w = mem.w
          /\ UNCHANGED <<seen, w, queued, cleaned, edits>> /\ w.life # "live" /\ Strategy' = Strategy
      BY <1>0, <1>5 DEF DeleteFile, Continue, Lags, Older, Strategy
    <2>2. Kept(seen)' /\ Kept(mem.w)'
      BY <1>5, <2>1 DEF Publishing, Kept
    <2>3. OneContent => OneContent'
      BY <2>1 DEF OneContent
    <2>4. \A c \in Components : Trusted(c) => Trusted(c)'
      BY <2>1 DEF Trusted, Agrees
    <2> QED BY <1>5, <2>1, <2>2, <2>3, <2>4 DEF Publishing, Agrees, Working
  <1>6. CASE RemoveFinalizer /\ Strategy = "GitOps"
    <2>1. /\ pc = "teardown" /\ pc' = "idle" /\ UNCHANGED <<seen, file, cleaned, edits>>
          /\ \/ w' = w \/ w' = [w EXCEPT !.final = FALSE, !.life = "gone"]
      BY <1>6 DEF RemoveFinalizer, Conflict, Update, Current, Errs, EndPass, past, bounds
    <2>2. w'.spec = w.spec /\ w'.stamp = w.stamp /\ (w'.life = "live" => w.life = "live")
      BY <1>0, <2>1 DEF TypeOK, Stored
    <2>3. ~Working(seen)
      BY <1>0, <2>1 DEF Lags, Working
    <2>4. Strategy' = Strategy /\ Kept(seen)'
      BY <1>0, <1>6, <2>1, <2>2 DEF Strategy, Publishing, Kept
    <2>5. \A c \in Components : Trusted(c) => Trusted(c)'
      BY <2>1, <2>2 DEF Trusted, Agrees
    <2>6. OneContent => OneContent'
      BY <2>1, <2>2 DEF OneContent
    <2> QED BY <1>6, <2>1, <2>2, <2>3, <2>4, <2>5, <2>6 DEF Publishing, Working
  <1>7. CASE Strategy = "GitOps" /\
             (\/ RenderComponent \/ RenderFails \/ DiscardFails \/ Mirror \/ SyncSpec \/ GivesUp \/ Remove
              \/ TearDown \/ TearDownFails \/ AwaitRelease \/ Publish \/ Withdraw \/ Lose)
    BY <1>0, <1>7 DEF RenderComponent, RenderFails, DiscardFails, Mirror, SyncSpec, GivesUp, Remove,
       TearDown, TearDownFails, AwaitRelease, Publish, Withdraw, Lose, Lags
  <1> QED
    BY <1>1, <1>2, <1>3, <1>4, <1>5, <1>6, <1>7, BeginPublishes, PushPublishes, StampPublishes,
       CleanUpPublishes, ObservePublishes, ChangePublishes
       DEF Next, Pass, Disturb, Outside

\* A controller at rest has left the repository with the content the specification
\* asks for, as far as no clean-up removed a file, although a pass looks at an
\* annotation and not at the repository (publishBlueprintGitFile): of one edit,
\* whenever it comes, and with any failures.  An edit taken back can deceive it.
THEOREM RestMeansPublished ==
    ASSUME OneEdit
    PROVE  Spec => []RestIsPublished
  <1>1. IndInv /\ Publishing /\ [Next]_vars => Publishing'
    BY StepPublishing
  <1>2. ASSUME IndInv, Publishing PROVE RestIsPublished
    <2> SUFFICES ASSUME AtRest, Ready, Strategy = "GitOps", NEW c \in w.spec.on \ cleaned
                 PROVE  file[c] = Digest(w.spec)
      BY DEF RestIsPublished
    <2>1. seen = w /\ w.life = "live" /\ c \in Components
      BY <1>2 DEF AtRest, IndInv, TypeInv, TypeOK, Stored, Specs
    <2>2. w.stamp[c] = Digest(w.spec)
      BY <1>2, <2>1 DEF Publishing, AtRest, Ready, Working, Stamped
    <2> QED BY <1>2, <2>1, <2>2 DEF Publishing, Trusted
  <1> QED BY InitPublishing, <1>1, <1>2, SpecInd, PTL DEF Spec
=============================================================================
