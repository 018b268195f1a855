---------------------------- MODULE PatchReplay -----------------------------
(***************************************************************************)
(* The loop of applyPatchesToStore as a machine: it takes the patches of a *)
(* batch one by one, in order, and changes the store in place.  Two things *)
(* the rest of the project relies on are stated about it: the one-step     *)
(* definition of a batch (ApplyPatches) is what the loop computes, and     *)
(* running a whole batch a second time changes nothing.                    *)
(***************************************************************************)
EXTENDS PatchAlgebra

CONSTANTS
    Base,           \* the stores the loop may start from
    MaxBatch,       \* bound on the length of a batch
    FreshRecord     \* what this applier makes for an unknown subject

ASSUME BasesAreStores == Base \subseteq [Subject -> Record \cup {Absent}]
ASSUME FreshIsRecord == FreshRecord \in {BrowserFresh, ServerFresh}
ASSUME BatchBounded == MaxBatch \in Nat

VARIABLES
    base,           \* the store before the batch
    applied,        \* the patches applied so far
    store           \* the store now

vars == <<base, applied, store>>

TypeOK ==
    /\ base \in [Subject -> Record \cup {Absent}]
    /\ applied \in Seq(Patch)
    /\ store \in [Subject -> Record \cup {Absent}]

Init ==
    /\ base \in Base
    /\ applied = <<>>
    /\ store = base

Apply(p) ==
    /\ Len(applied) < MaxBatch
    /\ applied' = Append(applied, p)
    /\ store' = [store EXCEPT ![p.on] = ApplyOne(p, @, FreshRecord)]
    /\ UNCHANGED base

Next == \E p \in Patch : Apply(p)

Spec == Init /\ [][Next]_vars

-----------------------------------------------------------------------------

\* The loop over a batch computes ApplyPatches: per cell, the last patch after
\* the last drop decides.  (applyPatchesToStore, all three copies.)
LoopComputesBatch == store = ApplyPatches(applied, base, FreshRecord)

\* Applying a batch again, from its first patch, to the store it produced
\* leaves that store alone: what a materializer restart does to an entry it
\* had written but not acknowledged.  (materializer.ts, processRows.)
RedeliveryHarmless == ApplyPatches(applied, store, FreshRecord) = store
=============================================================================
