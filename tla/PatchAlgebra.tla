---------------------------- MODULE PatchAlgebra ----------------------------
(***************************************************************************)
(* The patch language every part of the program speaks, and what applying  *)
(* a batch of patches does to a record.  The same algorithm is written     *)
(* three times in the repository: in the browser engine                    *)
(* (localNgEngine.ts, applyPatchesToStore), in the server's JavaScript     *)
(* (patchApply.ts, used by the materializer) and in the accept script      *)
(* (redis/applyBatch.lua).                                                 *)
(*                                                                         *)
(* A record is its identity (the @id, @graph and @type properties, which   *)
(* the code writes and accepts together), its scalar properties and its    *)
(* set-valued properties.  Paths, encodings and the values themselves are  *)
(* members of small sets.                                                  *)
(***************************************************************************)
EXTENDS Naturals, Sequences, FiniteSetsExt

CONSTANTS
    Subject,        \* record keys: the first path segment of a patch
    Scalar,         \* single-valued properties
    SetField,       \* set-valued properties
    Value,          \* values of a scalar property
    Member,         \* members of a set-valued property
    Missing,        \* a scalar property the record does not have
    Absent          \* a subject that has no record

ASSUME PropertyKindsDisjoint == Scalar \cap SetField = {}
ASSUME MissingIsNoValue == Missing \notin Value

Field == Scalar \cup SetField

(***************************************************************************)
(* An applier that meets a property patch for a subject it has no record   *)
(* of starts a fresh one.  The browser derives @graph and @id from the     *)
(* key, so its fresh record is "full"; both server appliers write the      *)
(* whole key as @id and "" as @graph, an identity called "bare" here.      *)
(***************************************************************************)
Record == [identity : {"bare", "full"},
           scalar   : [Scalar -> Value \cup {Missing}],
           members  : [SetField -> SUBSET Member]]

ASSUME AbsentIsNoRecord == Absent \notin Record

Fresh(identity) == [identity |-> identity,
                    scalar   |-> [f \in Scalar |-> Missing],
                    members  |-> [f \in SetField |-> {}]]

BrowserFresh == Fresh("full")
ServerFresh  == Fresh("bare")

-----------------------------------------------------------------------------
(* The patches a client sends. *)

Create(s)        == [op |-> "create", on |-> s]     \* add /s
Drop(s)          == [op |-> "drop", on |-> s]       \* remove /s
Identify(s)      == [op |-> "identify", on |-> s]   \* add /s/@id, @graph, @type
Assign(s, f, v)  == [op |-> "assign", on |-> s, prop |-> f, value |-> v]
Erase(s, f)      == [op |-> "erase", on |-> s, prop |-> f]
Hold(s, f)       == [op |-> "hold", on |-> s, prop |-> f]  \* add /s/f value {}
Insert(s, f, M)  == [op |-> "insert", on |-> s, prop |-> f, value |-> M]
Discard(s, f, M) == [op |-> "discard", on |-> s, prop |-> f, value |-> M]

RootPatch     == [op : {"create", "drop", "identify"}, on : Subject]
AssignPatch   == [op : {"assign"}, on : Subject, prop : Scalar, value : Value]
ErasePatch    == [op : {"erase"}, on : Subject, prop : Field]
HoldPatch     == [op : {"hold"}, on : Subject, prop : SetField]
MemberPatch   == [op : {"insert", "discard"}, on : Subject, prop : SetField,
                  value : SUBSET Member]
Patch == RootPatch \cup AssignPatch \cup ErasePatch \cup HoldPatch
           \cup MemberPatch

IsSetPatch(p) == p.op \in {"insert", "discard"}

-----------------------------------------------------------------------------
(* One patch applied to the record r of its own subject. *)

ScalarsWith(p, old) ==
    IF p.op = "assign" THEN [old EXCEPT ![p.prop] = p.value]
    ELSE IF p.op = "erase" /\ p.prop \in Scalar
    THEN [old EXCEPT ![p.prop] = Missing] ELSE old

MembersWith(p, old) ==
    IF p.op = "insert" THEN [old EXCEPT ![p.prop] = @ \cup p.value]
    ELSE IF p.op = "discard" THEN [old EXCEPT ![p.prop] = @ \ p.value]
    ELSE IF p.op = "erase" /\ p.prop \in SetField
    THEN [old EXCEPT ![p.prop] = {}] ELSE old

ApplyOne(p, r, fresh) ==
    LET base == IF r = Absent THEN fresh ELSE r
    IN  IF p.op = "drop" THEN Absent
        ELSE [identity |-> IF p.op = "identify" THEN "full" ELSE base.identity,
              scalar   |-> ScalarsWith(p, base.scalar),
              members  |-> MembersWith(p, base.members)]

-----------------------------------------------------------------------------
(***************************************************************************)
(* The same, for a whole batch at once: every cell of the record takes its *)
(* value from the last patch that bears on it after the last drop.  b is a *)
(* sequence, or a sequence restricted to some of its positions.            *)
(***************************************************************************)

LastDrop(b, s) ==
    Max({0} \cup {i \in DOMAIN b : b[i].op = "drop" /\ b[i].on = s})

\* Mutant of Surviving: a drop does not undo the patches before it.
SurvivingDrops(b, s) == {i \in DOMAIN b : b[i].on = s /\ b[i].op # "drop"}

\* The patches on s that survive the batch's own drops.
Surviving(b, s) == {i \in DOMAIN b : b[i].on = s /\ i > LastDrop(b, s)}

ScalarWrites(b, s, f) ==
    {i \in Surviving(b, s) : b[i].op \in {"assign", "erase"} /\ b[i].prop = f}

MemberWrites(b, s, f, m) ==
    {i \in Surviving(b, s) :
        \/ b[i].op = "erase" /\ b[i].prop = f
        \/ IsSetPatch(b[i]) /\ b[i].prop = f /\ m \in b[i].value}

ScalarAfter(b, s, f, old) ==
    LET W == ScalarWrites(b, s, f)
    IN  IF W = {} THEN old
        ELSE IF b[Max(W)].op = "assign" THEN b[Max(W)].value ELSE Missing

\* Mutant of MemberAfter: adding a member that is there takes it out.
MemberFlipped(b, s, f, m, old) ==
    LET W == MemberWrites(b, s, f, m)
    IN  IF W = {} THEN old ELSE (b[Max(W)].op = "insert") # old

MemberAfter(b, s, f, m, old) ==
    LET W == MemberWrites(b, s, f, m)
    IN  IF W = {} THEN old ELSE b[Max(W)].op = "insert"

RecordAfter(b, s, base) ==
    [identity |-> IF \E i \in Surviving(b, s) : b[i].op = "identify"
                  THEN "full" ELSE base.identity,
     scalar   |-> [f \in Scalar |-> ScalarAfter(b, s, f, base.scalar[f])],
     members  |-> [f \in SetField |->
                     {m \in Member :
                        MemberAfter(b, s, f, m, m \in base.members[f])}]]

\* What the batch b makes of the record r of subject s.
After(b, s, r, fresh) ==
    IF Surviving(b, s) = {}
    THEN IF LastDrop(b, s) = 0 THEN r ELSE Absent
    ELSE RecordAfter(b, s, IF r = Absent \/ LastDrop(b, s) > 0
                           THEN fresh ELSE r)

\* The records of a store after a batch: subjects it does not name keep theirs.
ApplyPatches(b, store, fresh) ==
    [s \in Subject |-> After(b, s, store[s], fresh)]

Touched(b) == {b[i].on : i \in DOMAIN b}
-----------------------------------------------------------------------------
(* What accepted patches do to the stamps remembered for deleted subjects. *)

RootWrites(acc, s) ==
    {i \in DOMAIN acc : acc[i].op \in {"create", "drop"} /\ acc[i].on = s}

\* Mutant of Tombstones: an accepted patch lifts the tombstone even when it is
\* itself a drop.
TombstonesLifted(acc, hlc, old) ==
    [s \in Subject |->
        IF RootWrites(acc, s) # {} /\ old[s] = 0
        THEN IF acc[Max(RootWrites(acc, s))].op = "drop" THEN hlc ELSE 0
        ELSE IF s \in Touched(acc) THEN 0 ELSE old[s]]

\* A drop buries the subject, whatever follows it except a create; any other
\* accepted patch on the subject lifts its tombstone.  0 is no tombstone.
Tombstones(acc, hlc, old) ==
    [s \in Subject |->
        IF RootWrites(acc, s) # {}
        THEN IF acc[Max(RootWrites(acc, s))].op = "drop" THEN hlc ELSE 0
        ELSE IF s \in Touched(acc) THEN 0 ELSE old[s]]
=============================================================================
