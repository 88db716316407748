--------------------------- MODULE ReleaseContract ---------------------------
(***************************************************************************)
(* What the Helm client promises of a release, seen from its record: one   *)
(* writer at a time; the content in force changes by a whole write or not  *)
(* at all; and a release that a killed process left in mid-write is never  *)
(* written again, only removed or replaced from outside.                   *)
(***************************************************************************)

CONSTANTS Contents, None

VARIABLES
    content,   \* in force, None when nothing is
    writer,    \* who is at the release
    target     \* what a write, even a broken one, is about

contract == <<content, writer, target>>

Init == content = None /\ writer = "free" /\ target = None

\* A write begins only on a release nobody has left half written.
Begin ==
    /\ writer = "free" /\ writer' = "writing"
    /\ target' \in Contents /\ UNCHANGED content

\* It fails, and what was in force still is.
Abort ==
    /\ writer = "writing" /\ writer' = "free"
    /\ target' = None /\ UNCHANGED content

\* The old content is out of force: the write can no longer be abandoned.
Retire ==
    /\ writer = "writing" /\ writer' = "switching"
    /\ content' = None /\ UNCHANGED target

Commit ==
    /\ writer = "switching" /\ writer' = "free"
    /\ content' = target /\ target' = None

\* The process is killed.
Break ==
    /\ writer \in {"writing", "switching"} /\ writer' = "broken"
    /\ UNCHANGED <<content, target>>

\* Removal, which may be cut short too.
StartRemoval ==
    /\ writer \in {"free", "broken"} /\ writer' = "removing"
    /\ target' = None /\ content' \in {content, None}

EndRemoval ==
    /\ writer = "removing" /\ writer' = "free"
    /\ content' \in {content, None} /\ UNCHANGED target

\* Somebody else puts another release in its place.
Replace ==
    /\ writer \in {"free", "broken"} /\ writer' = "free"
    /\ content' \in Contents /\ target' = None

Next ==
    \/ Begin \/ Abort \/ Retire \/ Commit \/ Break
    \/ StartRemoval \/ EndRemoval \/ Replace

Spec == Init /\ [][Next]_contract
=============================================================================
