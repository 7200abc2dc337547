---------------------------- MODULE OverlayView ----------------------------
(***************************************************************************)
(* What the overlay promises a user, with no word about shadow files,       *)
(* records or threads: two directories over the same paths, the real one    *)
(* and the one that processes see.  A change goes to the view alone, a      *)
(* commit writes the real directory until it is the view and changes the    *)
(* view at no time, a discard makes the view the real directory at once.    *)
(***************************************************************************)
CONSTANTS Paths, Contents, NoFile, Torn

VARIABLES
    real,      \* the real directory
    view,      \* the directory that processes see
    committing \* a commit is under way

vars == <<real, view, committing>>

Init ==
    /\ real \in [Paths -> Contents \union {NoFile}]
    /\ view = real
    /\ committing = FALSE

Put(p) ==
    /\ ~committing
    /\ \E c \in Contents : view' = [view EXCEPT ![p] = c]
    /\ UNCHANGED <<real, committing>>

Delete(p) ==
    /\ ~committing
    /\ view' = [view EXCEPT ![p] = NoFile]
    /\ UNCHANGED <<real, committing>>

\* The file moves to a free path.  At its old path nothing is left, or the file
\* of the path that an earlier rename brought there.
Rename(p, q) ==
    /\ ~committing
    /\ view[q] = NoFile
    /\ \E r \in Paths \ {q} : \E left \in {NoFile, real[r]} :
          view' = [view EXCEPT ![q] = view[p], ![p] = left]
    /\ UNCHANGED <<real, committing>>

StartCommit ==
    /\ ~committing
    /\ committing' = TRUE
    /\ UNCHANGED <<real, view>>

\* A commit brings the real file of p to the view, in more than one step.
Apply(p) ==
    /\ committing
    /\ \E f \in {view[p], Torn, NoFile} : real' = [real EXCEPT ![p] = f]
    /\ UNCHANGED <<view, committing>>

FinishCommit ==
    /\ committing
    /\ real = view
    /\ committing' = FALSE
    /\ UNCHANGED <<real, view>>

\* A commit that fails leaves the view; a file it was writing is taken away.
FailCommit ==
    /\ committing
    /\ committing' = FALSE
    /\ \E p \in Paths : real' \in {real, [real EXCEPT ![p] = NoFile]}
    /\ UNCHANGED view

Discard ==
    /\ ~committing
    /\ view' = real
    /\ UNCHANGED <<real, committing>>

Next ==
    \/ \E p \in Paths : Put(p) \/ Delete(p)
    \/ \E p, q \in Paths : Rename(p, q)
    \/ \E p \in Paths : Apply(p)
    \/ StartCommit \/ FinishCommit \/ FailCommit \/ Discard

Spec == Init /\ [][Next]_vars
=============================================================================
