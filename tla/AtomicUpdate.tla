---------------------------- MODULE AtomicUpdate ----------------------------
(***************************************************************************)
(* What apply_patch_inplace promises its callers: the file holds the old   *)
(* content until the call takes effect, in one step, together with its     *)
(* successful return; a call that fails, throws or dies has changed        *)
(* nothing.  There is no temporary, no backup and no half-written file.    *)
(* Where a failure to write can go unnoticed, the new content may be one   *)
(* of Spoilt in place of the patched one.                                  *)
(***************************************************************************)
CONSTANTS Process, Target, Data, Patch, Outcome, Rejected, Spoilt

VARIABLES
    content,   \* content[f] : the bytes of file f
    job        \* job[p] : the in-place call of process p and its answer

vars == <<content, job>>

Answer == {"none", "running", "Ok", "failed"}
Job    == [file : Target, patch : Patch, answer : Answer]

Running(p) == job[p].answer = "running"

Answers(p, a) ==
    job' = [job EXCEPT ![p] =
              [file |-> job[p].file, patch |-> job[p].patch, answer |-> a]]

Begin(p, f, pt) ==
    /\ ~Running(p)
    /\ \A q \in Process : Running(q) => job[q].file # f
    /\ job' = [job EXCEPT ![p] = [file |-> f, patch |-> pt, answer |-> "running"]]
    /\ UNCHANGED content

Commit(p) ==
    LET f   == job[p].file
        new == Outcome[job[p].patch][content[f]]
    IN /\ Running(p)
       /\ new # Rejected
       /\ \E c \in {new} \union Spoilt : content' = [content EXCEPT ![f] = c]
       /\ Answers(p, "Ok")

Abort(p) ==
    /\ Running(p)
    /\ Answers(p, "failed")
    /\ UNCHANGED content

\* The process does something else with the library.
Leave(p) ==
    /\ ~Running(p)
    /\ \E j \in Job : j.answer = "none" /\ job' = [job EXCEPT ![p] = j]
    /\ UNCHANGED content

Init ==
    /\ content \in [Target -> Data]
    /\ job \in [Process -> {j \in Job : j.answer = "none"}]

Next ==
    \E p \in Process :
        \/ \E f \in Target, pt \in Patch : Begin(p, f, pt)
        \/ Commit(p) \/ Abort(p) \/ Leave(p)

Spec == Init /\ [][Next]_vars
=============================================================================
