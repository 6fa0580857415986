------------------------------ MODULE MCPipes ------------------------------
(***************************************************************************)
(* Pipes for a few tasks, descriptors, slots and nodes.                    *)
(***************************************************************************)
EXTENDS Pipes

CONSTANTS init, p1, p2, cr, cw, n1, n2, n3

\* A fork that fails for want of a stack is not explored, since of what
\* follows the properties say nothing;
MCStackFound == ~stackless

\* or to the end of its undo loop, as long as the pipes are empty and the
\* other tasks neither block nor fork.
MCUndoAlone(p) ==
    /\ call[p].op = "undo"
    /\ loop.op # "bump"
    /\ \A q \in Proc \ {p} : call[q] = InUser
    /\ \A s \in Slot : used[s] = 0
MCUndoToEnd == ~stackless \/ \E p \in Proc : MCUndoAlone(p)

\* Tasks other than init, and nodes but the console's, are interchangeable.
MCSymmetry == Permutations({p1, p2}) \cup Permutations({n1, n2})

=============================================================================
