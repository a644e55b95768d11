--------------------------- MODULE ParallelDepends ---------------------------
(***************************************************************************)
(* How Message::depends (src/message.rs) finds its answer: a depth-first   *)
(* search whose branches run in parallel (rayon's par_iter) and share a    *)
(* set of visited messages behind an RwLock.                               *)
(*                                                                         *)
(* For a message in a justification a branch first reads the visited set   *)
(* (the filter) and gives up if it finds the message there; later it takes *)
(* the write lock to insert the message, and descends into it.  Two        *)
(* branches can pass the filter before either inserts.  And a branch that  *)
(* gives up answers false although the branch that came first may still be *)
(* at work on that message.                                                *)
(*                                                                         *)
(* The answers of the branches are or-ed all the way up, so it does not    *)
(* matter which branch works for which: the model counts, for each         *)
(* message, the branches about to filter it and those about to enter it.   *)
(* The other operands of a true answer may be cancelled by rayon.          *)
(***************************************************************************)
EXTENDS Messages, Integers

VARIABLES
    root, target,   \* the call root.depends(target)
    visited,        \* the shared set
    filtering,      \* filtering[m]: branches about to look m up in visited
    entering,       \* entering[m]: branches past the filter, about to insert m
    found,          \* some branch saw the target in a justification
    result          \* what depends returned, or "running"

vars == <<root, target, visited, filtering, entering, found, result>>

None == [m \in Message |-> 0]

\* One branch for each message of m's justification.
Spawned(f, m) ==
    [n \in Message |-> f[n] + (IF n \in justification[m] THEN 1 ELSE 0)]

Less(f, m) == [f EXCEPT ![m] = @ - 1]

-----------------------------------------------------------------------------

\* The call: justification.contains(rhs), else the iteration over the parts.
Init ==
    /\ root \in Message
    /\ target \in Message
    /\ visited = {}
    /\ found = (target \in justification[root])
    /\ filtering = IF target \in justification[root] THEN None ELSE Spawned(None, root)
    /\ entering = None
    /\ result = "running"

\* Mutant: the message is inserted while it is looked up, and then found there.
FilterMarks(m) ==
    /\ filtering[m] > 0
    /\ filtering' = Less(filtering, m)
    /\ visited' = visited \cup {m}
    /\ entering' = IF m \in visited' THEN entering ELSE [entering EXCEPT ![m] = @ + 1]
    /\ UNCHANGED <<root, target, found, result>>

\* The filter: a read of the visited set.
Filter(m) ==
    /\ filtering[m] > 0
    /\ filtering' = Less(filtering, m)
    /\ entering' = IF m \in visited THEN entering ELSE [entering EXCEPT ![m] = @ + 1]
    /\ UNCHANGED <<root, target, visited, found, result>>

\* Mutant: a branch that passed the filter waits for the message to be new.
EnterIfNew(m) ==
    /\ entering[m] > 0
    /\ m \notin visited
    /\ entering' = Less(entering, m)
    /\ visited' = visited \cup {m}
    /\ found' = (found \/ target \in justification[m])
    /\ filtering' = IF target \in justification[m] THEN filtering
                    ELSE Spawned(filtering, m)
    /\ UNCHANGED <<root, target, result>>

\* Any: insert m, then recurse into it.
Enter(m) ==
    /\ entering[m] > 0
    /\ entering' = Less(entering, m)
    /\ visited' = visited \cup {m}
    /\ found' = (found \/ target \in justification[m])
    /\ filtering' = IF target \in justification[m] THEN filtering
                    ELSE Spawned(filtering, m)
    /\ UNCHANGED <<root, target, result>>

\* Mutant: a branch that has started is dropped in place of one that has not.
CancelStarted(m) ==
    /\ found
    /\ filtering[m] > 0
    /\ entering' = Less(entering, m)
    /\ UNCHANGED <<root, target, visited, filtering, found, result>>

\* A true answer elsewhere: rayon drops a branch that has not started.
Cancel(m) ==
    /\ found
    /\ filtering[m] > 0
    /\ filtering' = Less(filtering, m)
    /\ UNCHANGED <<root, target, visited, entering, found, result>>

\* Mutant: the call returns when no branch is about to filter.
ReturnEarly ==
    /\ result = "running"
    /\ filtering = None
    /\ result' = IF found THEN "depends" ELSE "independent"
    /\ UNCHANGED <<root, target, visited, filtering, entering, found>>

\* All branches have answered.
Return ==
    /\ result = "running"
    /\ filtering = None /\ entering = None
    /\ result' = IF found THEN "depends" ELSE "independent"
    /\ UNCHANGED <<root, target, visited, filtering, entering, found>>

Next ==
    \/ \E m \in Message : Filter(m)
    \/ \E m \in Message : Enter(m)
    \/ \E m \in Message : Cancel(m)
    \/ Return

Spec == Init /\ [][Next]_vars

\* The thread pool keeps working while there is work.
FairSpec == Spec /\ WF_vars(Next)

-----------------------------------------------------------------------------
(* Properties *)

TypeOK ==
    /\ root \in Message /\ target \in Message
    /\ visited \subseteq Message
    /\ filtering \in [Message -> Nat]
    /\ entering \in [Message -> Nat]
    /\ found \in BOOLEAN
    /\ result \in {"running", "depends", "independent"}

\* Some branch has m before it, or has had it.
Covered(m) == m \in visited \/ filtering[m] > 0 \/ entering[m] > 0

\* Until the target is found, nothing under the root is dropped: what the
\* search has entered has its justification covered, by whichever branch.
Explored ==
    ~found => \A m \in visited \cup {root} :
                /\ target \notin justification[m]
                /\ \A n \in justification[m] : Covered(n)

\* `depends` answers whether the target is in the past of the root, however its
\* branches interleave, race for a message or give up on one.
Correct ==
    /\ result = "depends" => Depends(root, target)
    /\ result = "independent" => ~Depends(root, target)

\* The call returns.
Returns == <>(result # "running")
=============================================================================
