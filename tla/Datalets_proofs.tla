--------------------------- MODULE Datalets_proofs ---------------------------
(***************************************************************************)
(* The registry of a browser never loses an entry its user has not given   *)
(* up, one datalet is resident at a time, and what the user makes survives *)
(* the switches, for any number of vaults, items, gestures and faults.     *)
(***************************************************************************)
EXTENDS Datalets, Integers, SequenceTheorems, WellFoundedInduction, TLAPS

-----------------------------------------------------------------------------
(* The first of a set of positions, and sequences that grow by one element. *)

\* A set of naturals that is not empty has a least element.
LEMMA LeastNat ==
    ASSUME NEW T, T \subseteq Nat, T # {}
    PROVE  \E x \in T : \A y \in T : x <= y
<1> DEFINE Less == {ss \in Nat \X Nat : ss[1] < ss[2]}
<1>1. OpToRel(<, Nat) = Less
    BY Zenon DEF OpToRel
<1>2. IsWellFoundedOn(Less, Nat)
    BY <1>1, NatLessThanWellFounded, Zenon
<1>3. \E x \in T : \A y \in T : ~ (<<y, x>> \in Less)
  <2> HIDE DEF Less
  <2> QED
      BY <1>2, WFMin
<1>4. ASSUME NEW x \in Nat, NEW y \in Nat, ~ (<<y, x>> \in Less)
      PROVE  x <= y
  <2>1. y < x => <<y, x>> \in Less
      OBVIOUS
  <2> QED
      BY <2>1, <1>4
<1> QED
  <2> HIDE DEF Less
  <2> QED
      BY <1>3, <1>4

\* And Min is the least.
LEMMA MinIsFirst ==
    ASSUME NEW T, T \subseteq Nat, T # {}
    PROVE  Min(T) \in T /\ \A y \in T : Min(T) <= y
<1>1. \E x \in T : \A y \in T : x <= y
    BY LeastNat
<1> QED
    BY <1>1 DEF Min

\* A sequence of elements of S that grows by one of them.
LEMMA AppendGrows ==
    ASSUME NEW S, NEW s \in Seq(S), NEW x \in S
    PROVE  /\ Append(s, x) \in Seq(S)
           /\ Range(Append(s, x)) = Range(s) \cup {x}
<1>1. /\ Append(s, x) \in Seq(S) /\ Len(s) \in Nat
      /\ DOMAIN s = 1 .. Len(s) /\ DOMAIN Append(s, x) = 1 .. Len(s) + 1
    OBVIOUS
<1>2. \A i \in 1 .. Len(s) : Append(s, x)[i] = s[i]
    OBVIOUS
<1>3. Append(s, x)[Len(s) + 1] = x
    OBVIOUS
<1> QED
    BY <1>1, <1>2, <1>3 DEF Range

-----------------------------------------------------------------------------
(* The entries of a registry. *)

\* A registry that lists the datalet it says is active.
Sound(reg) ==
    /\ reg \in [active : Id, entries : Seq(Entry)]
    /\ \E i \in DOMAIN reg.entries : reg.entries[i].id = reg.active

\* Entries that their ids tell apart.
Apart(entries) ==
    \A i, j \in DOMAIN entries : entries[i].id = entries[j].id => i = j

\* The k-th entry is the first one with its id.
IsFirst(entries, k) ==
    /\ k \in DOMAIN entries
    /\ \A i \in DOMAIN entries : entries[i].id = entries[k].id => k <= i

LEMMA EntriesDomain ==
    ASSUME NEW s \in Seq(Entry)
    PROVE  /\ Len(s) \in Nat /\ DOMAIN s = 1 .. Len(s) /\ DOMAIN s \subseteq Nat
           /\ \A i \in DOMAIN s : s[i] \in Entry /\ s[i] \in Range(s)
           /\ \A e \in Range(s) : e \in Entry /\ \E i \in DOMAIN s : s[i] = e
    BY DEF Range

\* The active entry is the first with its id.
LEMMA ActiveIsFirst ==
    ASSUME NEW reg, Sound(reg)
    PROVE  \E k \in DOMAIN reg.entries :
              /\ IsFirst(reg.entries, k)
              /\ reg.entries[k].id = reg.active
              /\ ActiveEntry(reg) = reg.entries[k]
<1> DEFINE I == {i \in 1 .. Len(reg.entries) : reg.entries[i].id = reg.active}
<1>1. Len(reg.entries) \in Nat /\ DOMAIN reg.entries = 1 .. Len(reg.entries)
    BY EntriesDomain DEF Sound
<1>2. I \subseteq Nat /\ I # {}
    BY <1>1 DEF Sound
<1>3. Min(I) \in I /\ \A y \in I : Min(I) <= y
    BY <1>2, MinIsFirst
<1>4. ActiveEntry(reg) = reg.entries[Min(I)]
    BY <1>2 DEF SelectInSeq, ActiveEntry
<1> QED
    BY <1>1, <1>3, <1>4 DEF IsFirst

LEMMA ActiveIsListed ==
    ASSUME NEW reg, Sound(reg)
    PROVE  /\ ActiveEntry(reg) \in Range(reg.entries)
           /\ ActiveEntry(reg) \in Entry
           /\ ActiveEntry(reg).id = reg.active
           /\ Apart(reg.entries) =>
                \A e \in Range(reg.entries) : e.id = reg.active => e = ActiveEntry(reg)
<1>1. PICK k \in DOMAIN reg.entries :
              /\ reg.entries[k].id = reg.active
              /\ ActiveEntry(reg) = reg.entries[k]
    BY ActiveIsFirst
<1>2. reg.entries \in Seq(Entry)
    BY DEF Sound
<1>3. ASSUME Apart(reg.entries), NEW e \in Range(reg.entries), e.id = reg.active
      PROVE  e = ActiveEntry(reg)
  <2>1. PICK i \in DOMAIN reg.entries : reg.entries[i] = e
      BY <1>2, EntriesDomain
  <2> QED
      BY <1>1, <1>3, <2>1 DEF Apart
<1> QED
    BY <1>1, <1>2, <1>3, EntriesDomain

\* The first entry with an id is the only such position.
LEMMA FirstIsActive ==
    ASSUME NEW reg, Sound(reg), NEW k, IsFirst(reg.entries, k),
           reg.entries[k].id = reg.active
    PROVE  ActiveEntry(reg) = reg.entries[k]
<1>1. PICK j \in DOMAIN reg.entries :
              /\ IsFirst(reg.entries, j)
              /\ reg.entries[j].id = reg.active
              /\ ActiveEntry(reg) = reg.entries[j]
    BY ActiveIsFirst
<1>2. j \in Nat /\ k \in Nat /\ j <= k /\ k <= j
    BY <1>1, EntriesDomain DEF IsFirst, Sound
<1>3. j = k
    BY <1>2
<1> QED
    BY <1>1, <1>3

\* Entries changed in place, their ids kept: what is active stays where it is.
LEMMA InPlace ==
    ASSUME NEW reg, Sound(reg), NEW reg2,
           reg2 = [reg EXCEPT !.entries = reg2.entries],
           reg2.entries = [i \in DOMAIN reg.entries |-> reg2.entries[i]],
           \A i \in DOMAIN reg.entries :
              reg2.entries[i] \in Entry /\ reg2.entries[i].id = reg.entries[i].id
    PROVE  /\ Sound(reg2) /\ reg2.active = reg.active
           /\ Apart(reg.entries) => Apart(reg2.entries)
           /\ DOMAIN reg2.entries = DOMAIN reg.entries
           /\ \E k \in DOMAIN reg.entries :
                /\ reg.entries[k].id = reg.active
                /\ ActiveEntry(reg) = reg.entries[k]
                /\ ActiveEntry(reg2) = reg2.entries[k]
<1> DEFINE es == reg.entries
           fs == reg2.entries
<1>1. es \in Seq(Entry) /\ reg.active \in Id
      /\ Len(es) \in Nat /\ DOMAIN es = 1 .. Len(es)
    BY EntriesDomain DEF Sound
<1>2. DOMAIN fs = DOMAIN es /\ fs \in Seq(Entry)
  <2> DEFINE gs == [i \in DOMAIN es |-> fs[i]]
  <2>1. DOMAIN gs = DOMAIN es /\ \A i \in DOMAIN es : gs[i] \in Entry
      OBVIOUS
  <2>2. gs = fs
      OBVIOUS
  <2> HIDE DEF gs
  <2>3. DOMAIN fs = DOMAIN es /\ \A i \in DOMAIN es : fs[i] \in Entry
      BY <2>1, <2>2
  <2>4. fs = [i \in 1 .. Len(es) |-> fs[i]]
      BY <1>1
  <2>5. PICK len \in Nat : len = Len(es)
      BY <1>1
  <2>6. fs \in [1 .. len -> Entry]
      BY <1>1, <2>3, <2>4, <2>5
  <2> QED
      BY <2>3, <2>5, <2>6, SeqDef
<1>3. reg2 \in [active : Id, entries : Seq(Entry)] /\ reg2.active = reg.active
    BY <1>1, <1>2 DEF Sound
<1>4. PICK k \in DOMAIN es :
        IsFirst(es, k) /\ es[k].id = reg.active /\ ActiveEntry(reg) = es[k]
    BY ActiveIsFirst
<1>5. fs[k].id = reg.active /\ k \in DOMAIN fs
    BY <1>2, <1>4
<1>6. Sound(reg2)
    BY <1>3, <1>5 DEF Sound
<1>7. IsFirst(fs, k)
    BY <1>2, <1>4 DEF IsFirst
<1>8. ActiveEntry(reg2) = fs[k]
    BY <1>3, <1>5, <1>6, <1>7, FirstIsActive
<1>9. ASSUME Apart(es)
      PROVE  Apart(fs)
  <2>1. \A i \in DOMAIN fs : i \in DOMAIN es /\ fs[i].id = es[i].id
      BY <1>2
  <2> QED
      BY <1>9, <2>1 DEF Apart
<1> QED
    BY <1>2, <1>3, <1>4, <1>6, <1>8, <1>9

\* One more at the end.
LEMMA OneMore ==
    ASSUME NEW reg, Sound(reg), NEW x \in Entry, NEW reg2,
           reg2 = [reg EXCEPT !.entries = Append(reg.entries, x)]
    PROVE  /\ Sound(reg2) /\ reg2.active = reg.active
           /\ ActiveEntry(reg2) = ActiveEntry(reg)
           /\ Range(reg2.entries) = Range(reg.entries) \cup {x}
           /\ Apart(reg.entries) /\ (\A e \in Range(reg.entries) : e.id # x.id)
                => Apart(reg2.entries)
<1> DEFINE es == reg.entries
           fs == Append(es, x)
<1>1. es \in Seq(Entry) /\ reg.active \in Id
      /\ Len(es) \in Nat /\ DOMAIN es = 1 .. Len(es)
    BY EntriesDomain DEF Sound
<1>2. fs \in Seq(Entry) /\ Range(fs) = Range(es) \cup {x}
    BY <1>1, AppendGrows
<1>3. /\ DOMAIN fs = 1 .. Len(es) + 1 /\ fs[Len(es) + 1] = x
      /\ \A i \in DOMAIN es : fs[i] = es[i]
    BY <1>1
<1>4. /\ reg2 \in [active : Id, entries : Seq(Entry)]
      /\ reg2.active = reg.active /\ reg2.entries = fs
    BY <1>1, <1>2 DEF Sound
<1>5. PICK k \in DOMAIN es :
        IsFirst(es, k) /\ es[k].id = reg.active /\ ActiveEntry(reg) = es[k]
    BY ActiveIsFirst
<1> HIDE DEF fs
<1>6. fs[k] = es[k] /\ k \in DOMAIN fs
    BY <1>1, <1>3, <1>5
<1>7. Sound(reg2)
    BY <1>4, <1>5, <1>6 DEF Sound
<1>8. IsFirst(fs, k)
  <2>1. ASSUME NEW i \in DOMAIN fs, fs[i].id = fs[k].id
        PROVE  k <= i
    <3>1. CASE i = Len(es) + 1
        BY <1>1, <1>5, <3>1
    <3>2. CASE i \in DOMAIN es
        BY <1>3, <1>5, <1>6, <2>1, <3>2 DEF IsFirst
    <3> QED
        BY <1>1, <1>3, <2>1, <3>1, <3>2
  <2> QED
      BY <1>6, <2>1 DEF IsFirst
<1>9. ActiveEntry(reg2) = es[k]
    BY <1>4, <1>5, <1>6, <1>7, <1>8, FirstIsActive
<1>10. ASSUME Apart(es), \A e \in Range(es) : e.id # x.id
       PROVE  Apart(fs)
  <2>1. \A i \in DOMAIN es : es[i].id # x.id
      BY <1>1, <1>10, EntriesDomain
  <2> QED
      BY <1>1, <1>3, <1>10, <2>1 DEF Apart
<1> QED
    BY <1>2, <1>4, <1>5, <1>7, <1>9, <1>10

-----------------------------------------------------------------------------
(* What each change of the registry makes of its entries. *)

LEMMA PairedRegistry ==
    ASSUME NEW reg, Sound(reg), NEW v \in Vault \cup {NoVault}, NEW t \in Token,
           NEW reg2, reg2 = Paired(reg, v, t)
    PROVE  /\ Sound(reg2) /\ reg2.active = reg.active
           /\ Apart(reg.entries) => Apart(reg2.entries)
           /\ ActiveEntry(reg2).vault = v /\ ActiveEntry(reg2).token = t
           /\ ActiveEntry(reg2).archived = ActiveEntry(reg).archived
           /\ \A f \in Range(reg2.entries) : \E e \in Range(reg.entries) :
                 e.id = f.id /\ e.archived = f.archived /\ f.vault \in {v, e.vault}
           /\ \A e \in Range(reg.entries) :
                 e.id # reg.active => e \in Range(reg2.entries)
<1> DEFINE es == reg.entries
           fs == [i \in DOMAIN es |->
                    IF es[i].id = reg.active
                    THEN [es[i] EXCEPT !.vault = v, !.token = t] ELSE es[i]]
<1>1. reg2 = [reg EXCEPT !.entries = fs]
    BY DEF Paired, Updated
<1>2. es \in Seq(Entry) /\ reg \in [active : Id, entries : Seq(Entry)]
    BY DEF Sound
<1>3. \A i \in DOMAIN es : es[i] \in Entry
    BY <1>2, EntriesDomain
<1>4. reg2.entries = fs
    BY <1>1, <1>2
<1>5. ASSUME NEW i \in DOMAIN es
      PROVE  /\ fs[i] \in Entry /\ fs[i].id = es[i].id
             /\ fs[i].archived = es[i].archived /\ fs[i].vault \in {v, es[i].vault}
             /\ es[i].id = reg.active => fs[i].vault = v /\ fs[i].token = t
             /\ es[i].id # reg.active => fs[i] = es[i]
  <2>1. PICK e \in Entry : e = es[i]
      BY <1>3
  <2> QED
      BY <2>1 DEF Entry
<1>6. fs = [i \in DOMAIN es |-> fs[i]] /\ DOMAIN fs = DOMAIN es
    OBVIOUS
<1>7. reg2 = [reg EXCEPT !.entries = reg2.entries]
    BY <1>1, <1>4
<1> HIDE DEF fs
<1>8. /\ Sound(reg2) /\ reg2.active = reg.active
      /\ Apart(es) => Apart(fs)
      /\ \E k \in DOMAIN es :
            es[k].id = reg.active /\ ActiveEntry(reg) = es[k] /\ ActiveEntry(reg2) = fs[k]
  <2>1. reg2.entries = [i \in DOMAIN reg.entries |-> reg2.entries[i]]
      BY <1>4, <1>6
  <2>2. \A i \in DOMAIN reg.entries :
           reg2.entries[i] \in Entry /\ reg2.entries[i].id = reg.entries[i].id
      BY <1>4, <1>5
  <2>3. /\ Sound(reg2) /\ reg2.active = reg.active
        /\ Apart(reg.entries) => Apart(reg2.entries)
        /\ \E k \in DOMAIN reg.entries :
             /\ reg.entries[k].id = reg.active
             /\ ActiveEntry(reg) = reg.entries[k]
             /\ ActiveEntry(reg2) = reg2.entries[k]
      BY <1>7, <2>1, <2>2, InPlace
  <2> QED
      BY <1>4, <2>3
<1>9. /\ ActiveEntry(reg2).vault = v /\ ActiveEntry(reg2).token = t
      /\ ActiveEntry(reg2).archived = ActiveEntry(reg).archived
    BY <1>5, <1>8
<1>10. \A f \in Range(fs) : \E e \in Range(es) :
          e.id = f.id /\ e.archived = f.archived /\ f.vault \in {v, e.vault}
    BY <1>5, <1>6 DEF Range
<1>11. \A e \in Range(es) : e.id # reg.active => e \in Range(fs)
    BY <1>5, <1>6 DEF Range
<1> QED
    BY <1>4, <1>8, <1>9, <1>10, <1>11

LEMMA ArchivedRegistry ==
    ASSUME NEW reg, Sound(reg), NEW id \in Id, NEW put \in BOOLEAN,
           NEW reg2, reg2 = Archived(reg, id, put)
    PROVE  /\ Sound(reg2) /\ reg2.active = reg.active
           /\ Apart(reg.entries) => Apart(reg2.entries)
           /\ ActiveEntry(reg2).vault = ActiveEntry(reg).vault
           /\ ActiveEntry(reg2).token = ActiveEntry(reg).token
           /\ \A f \in Range(reg2.entries) : \E e \in Range(reg.entries) :
                 /\ e.id = f.id /\ e.vault = f.vault /\ e.token = f.token
                 /\ f.archived => e.archived \/ (put /\ e.id # reg.active)
                 /\ f.archived /\ f.id = id => put
           /\ \A e \in Range(reg.entries) : \E f \in Range(reg2.entries) :
                 f.id = e.id /\ f.vault = e.vault /\ f.token = e.token
<1> DEFINE es == reg.entries
           fs == [i \in DOMAIN es |->
                    IF es[i].id = id THEN [es[i] EXCEPT !.archived = put] ELSE es[i]]
<1>2. es \in Seq(Entry) /\ reg \in [active : Id, entries : Seq(Entry)]
    BY DEF Sound
<1>3. \A i \in DOMAIN es : es[i] \in Entry
    BY <1>2, EntriesDomain
<1>0. CASE put /\ id = reg.active
    BY <1>0, <1>2 DEF Archived
<1>e. CASE ~ (put /\ id = reg.active)
  <2>1. reg2 = [reg EXCEPT !.entries = fs]
      BY <1>e DEF Archived, Updated
  <2>4. reg2.entries = fs
      BY <2>1, <1>2
  <2>5. ASSUME NEW i \in DOMAIN es
        PROVE  /\ fs[i] \in Entry /\ fs[i].id = es[i].id
               /\ fs[i].vault = es[i].vault /\ fs[i].token = es[i].token
               /\ fs[i].archived => es[i].archived \/ (put /\ es[i].id # reg.active)
               /\ fs[i].archived /\ fs[i].id = id => put
    <3>1. PICK e \in Entry : e = es[i]
        BY <1>3
    <3> QED
        BY <1>e, <3>1 DEF Entry
  <2>6. fs = [i \in DOMAIN es |-> fs[i]] /\ DOMAIN fs = DOMAIN es
      OBVIOUS
  <2>7. reg2 = [reg EXCEPT !.entries = reg2.entries]
      BY <2>1, <2>4
  <2> HIDE DEF fs
  <2>8. /\ Sound(reg2) /\ reg2.active = reg.active
        /\ Apart(es) => Apart(fs)
        /\ \E k \in DOMAIN es :
              es[k].id = reg.active /\ ActiveEntry(reg) = es[k] /\ ActiveEntry(reg2) = fs[k]
    <3>1. reg2.entries = [i \in DOMAIN reg.entries |-> reg2.entries[i]]
        BY <2>4, <2>6
    <3>2. \A i \in DOMAIN reg.entries :
             reg2.entries[i] \in Entry /\ reg2.entries[i].id = reg.entries[i].id
        BY <2>4, <2>5
    <3>3. /\ Sound(reg2) /\ reg2.active = reg.active
          /\ Apart(reg.entries) => Apart(reg2.entries)
          /\ \E k \in DOMAIN reg.entries :
               /\ reg.entries[k].id = reg.active
               /\ ActiveEntry(reg) = reg.entries[k]
               /\ ActiveEntry(reg2) = reg2.entries[k]
        BY <2>7, <3>1, <3>2, InPlace
    <3> QED
        BY <2>4, <3>3
  <2>9. /\ ActiveEntry(reg2).vault = ActiveEntry(reg).vault
        /\ ActiveEntry(reg2).token = ActiveEntry(reg).token
      BY <2>5, <2>8
  <2>10. \A f \in Range(fs) : \E e \in Range(es) :
            /\ e.id = f.id /\ e.vault = f.vault /\ e.token = f.token
            /\ f.archived => e.archived \/ (put /\ e.id # reg.active)
            /\ f.archived /\ f.id = id => put
      BY <2>5, <2>6 DEF Range
  <2>11. \A e \in Range(es) : \E f \in Range(fs) :
            f.id = e.id /\ f.vault = e.vault /\ f.token = e.token
      BY <2>5, <2>6 DEF Range
  <2> QED
      BY <2>4, <2>8, <2>9, <2>10, <2>11
<1> QED
    BY <1>0, <1>e

LEMMA UnusedIds ==
    ASSUME Unused # {}
    PROVE  NewId \in Uuid /\ \A i \in DOMAIN registry.entries : registry.entries[i].id # NewId
<1>1. NewId \in Unused
    BY DEF NewId
<1> QED
    BY <1>1 DEF Unused

\* The entry of a vault that was left.
AsideEntry(id, v, t) == [PairedEntry(id, v, t) EXCEPT !.archived = TRUE]

LEMMA LocalEntryType ==
    ASSUME NEW id \in Id
    PROVE  /\ LocalEntry(id) \in Entry /\ LocalEntry(id).id = id
           /\ LocalEntry(id).vault = NoVault /\ ~LocalEntry(id).archived
<1>1. 0 \in Token
    BY DataletBounds DEF Token
<1>2. LocalEntry(id) \in Entry
    BY <1>1 DEF LocalEntry, Entry
<1> QED
    BY <1>2 DEF LocalEntry

LEMMA PairedEntryType ==
    ASSUME NEW id, NEW v, NEW t, NEW e,
           id \in Id, v \in Vault \cup {NoVault}, t \in Token,
           e = PairedEntry(id, v, t) \/ e = AsideEntry(id, v, t)
    PROVE  /\ e \in Entry /\ e.id = id /\ e.vault = v /\ e.token = t
           /\ e = PairedEntry(id, v, t) => ~e.archived
<1>1. PICK l \in Entry : l = LocalEntry(id) /\ l.id = id /\ ~l.archived
    BY LocalEntryType
<1>2. PICK f : f = [l EXCEPT !.vault = v]
    OBVIOUS
<1>3. f \in Entry /\ f.id = id /\ f.vault = v /\ ~f.archived
    BY <1>1, <1>2 DEF Entry
<1>4. PICK g : g = [f EXCEPT !.token = t]
    OBVIOUS
<1>5. g \in Entry /\ g.id = id /\ g.vault = v /\ g.token = t /\ ~g.archived
    BY <1>3, <1>4 DEF Entry
<1>6. PairedEntry(id, v, t) = g
    BY <1>1, <1>2, <1>4 DEF PairedEntry
<1>7. PICK h : h = [g EXCEPT !.archived = TRUE]
    OBVIOUS
<1>8. h \in Entry /\ h.id = id /\ h.vault = v /\ h.token = t
    BY <1>5, <1>7 DEF Entry
<1>9. AsideEntry(id, v, t) = h
    BY <1>6, <1>7 DEF AsideEntry
<1> QED
    BY <1>5, <1>6, <1>8, <1>9

LEMMA UnpairedRegistry ==
    ASSUME NEW reg, Sound(reg), reg = registry, Unused # {},
           NEW reg2, reg2 = Unpaired(reg)
    PROVE  /\ Sound(reg2) /\ reg2.active = reg.active
           /\ Apart(reg.entries) => Apart(reg2.entries)
           /\ ActiveEntry(reg2).vault = NoVault
           /\ \A f \in Range(reg2.entries) :
                 \/ f.id # reg.active /\ \E e \in Range(reg.entries) : f.vault = e.vault
                 \/ f.id = reg.active /\ f.vault = NoVault /\ ~f.archived
           /\ \A e \in Range(reg.entries) :
                 e.id # reg.active => e \in Range(reg2.entries)
           /\ \E f \in Range(reg2.entries) :
                 f.vault = ActiveEntry(reg).vault /\ f.token = ActiveEntry(reg).token
<1> DEFINE es == reg.entries
           fs == [i \in DOMAIN es |->
                    IF es[i].id = reg.active THEN LocalEntry(es[i].id) ELSE es[i]]
           a == ActiveEntry(reg)
<1>0. PICK reg1 : reg1 = [reg EXCEPT !.entries = fs]
    OBVIOUS
<1>1. PICK x : x = AsideEntry(NewId, a.vault, a.token)
    OBVIOUS
<1>2. es \in Seq(Entry) /\ reg \in [active : Id, entries : Seq(Entry)]
    BY DEF Sound
<1>3. \A i \in DOMAIN es : es[i] \in Entry
    BY <1>2, EntriesDomain
<1>4. reg1.entries = fs /\ reg2 = [reg1 EXCEPT !.entries = Append(reg1.entries, x)]
    BY <1>0, <1>1, <1>2 DEF Unpaired, Updated, AsideEntry
<1>5. ASSUME NEW i \in DOMAIN es
      PROVE  /\ fs[i] \in Entry /\ fs[i].id = es[i].id
             /\ es[i].id = reg.active => fs[i].vault = NoVault /\ ~fs[i].archived
             /\ es[i].id # reg.active => fs[i] = es[i]
  <2>1. PICK e \in Entry : e = es[i]
      BY <1>3
  <2>2. e.id \in Id /\ 0 \in Token
      BY DataletBounds DEF Entry, Token
  <2> QED
      BY <2>1, <2>2, LocalEntryType
<1>6. fs = [i \in DOMAIN es |-> fs[i]] /\ DOMAIN fs = DOMAIN es
    OBVIOUS
<1>7. reg1 = [reg EXCEPT !.entries = reg1.entries]
    BY <1>0, <1>4
<1>8. /\ a \in Entry /\ a.id = reg.active /\ a \in Range(es)
    BY ActiveIsListed
<1>9. x.id = NewId /\ x.vault = a.vault /\ x.token = a.token /\ x \in Entry
  <2>1. PICK id \in Id : id = NewId
      BY UnusedIds DEF Id
  <2>2. PICK v \in Vault \cup {NoVault} : v = a.vault
      BY <1>8 DEF Entry
  <2>3. PICK t \in Token : t = a.token
      BY <1>8 DEF Entry
  <2>4. x = AsideEntry(id, v, t)
      BY <1>1, <2>1, <2>2, <2>3
  <2> QED
      BY <2>1, <2>2, <2>3, <2>4, PairedEntryType
<1>10. \A i \in DOMAIN es : es[i].id # NewId
    BY UnusedIds
<1> HIDE DEF fs
<1>11. /\ Sound(reg1) /\ reg1.active = reg.active
       /\ Apart(es) => Apart(fs)
       /\ \E k \in DOMAIN es : es[k].id = reg.active /\ ActiveEntry(reg1) = fs[k]
  <2>1. reg1.entries = [i \in DOMAIN reg.entries |-> reg1.entries[i]]
      BY <1>4, <1>6
  <2>2. \A i \in DOMAIN reg.entries :
            reg1.entries[i] \in Entry /\ reg1.entries[i].id = reg.entries[i].id
      BY <1>4, <1>5
  <2> QED
    <3>1. /\ Sound(reg1) /\ reg1.active = reg.active
          /\ Apart(reg.entries) => Apart(reg1.entries)
          /\ \E k \in DOMAIN reg.entries :
                /\ reg.entries[k].id = reg.active
                /\ ActiveEntry(reg1) = reg1.entries[k]
          BY <1>7, <2>1, <2>2, InPlace
    <3> QED
          BY <1>4, <3>1
<1>12. /\ Sound(reg2) /\ reg2.active = reg1.active
       /\ ActiveEntry(reg2) = ActiveEntry(reg1)
       /\ Range(reg2.entries) = Range(fs) \cup {x}
       /\ Apart(fs) /\ (\A e \in Range(fs) : e.id # x.id) => Apart(reg2.entries)
    BY <1>4, <1>9, <1>11, OneMore
<1>13. \A e \in Range(fs) : e.id # x.id
    BY <1>5, <1>6, <1>9, <1>10 DEF Range
<1>14. NewId # reg.active
  <2>1. PICK k \in DOMAIN es : es[k].id = reg.active
      BY DEF Sound
  <2> QED
      BY <1>10, <2>1
<1>15. ActiveEntry(reg2).vault = NoVault
    BY <1>5, <1>11, <1>12
<1>16. ASSUME NEW f \in Range(fs)
       PROVE  \/ f.id # reg.active /\ \E e \in Range(es) : f.vault = e.vault
              \/ f.id = reg.active /\ f.vault = NoVault /\ ~f.archived
  <2>1. PICK i \in DOMAIN es : fs[i] = f
      BY <1>6 DEF Range
  <2>2. es[i] \in Range(es)
      BY DEF Range
  <2> QED
      BY <1>5, <2>1, <2>2
<1>17. \A e \in Range(es) : e.id # reg.active => e \in Range(fs)
    BY <1>5, <1>6 DEF Range
<1> QED
    BY <1>8, <1>9, <1>11, <1>12, <1>13, <1>14, <1>15, <1>16, <1>17

LEMMA AddedRegistry ==
    ASSUME NEW reg, Sound(reg), reg = registry, NEW v \in Vault, NEW t \in Token,
           NEW reg2, reg2 = Added(v, t)
    PROVE  /\ Sound(reg2) /\ reg2.active = reg.active
           /\ ActiveEntry(reg2) = ActiveEntry(reg)
           /\ Range(reg.entries) \subseteq Range(reg2.entries)
           /\ \A f \in Range(reg2.entries) :
                 \/ f \in Range(reg.entries)
                 \/ f.id = v /\ f.vault = v /\ ~f.archived
           /\ \E f \in Range(reg2.entries) : f.vault = v
           /\ Holders(v) = {} => \E f \in Range(reg2.entries) : f.vault = v /\ f.token = t
<1>1. CASE Holders(v) # {}
  <2>1. reg2 = reg
      BY <1>1 DEF Added
  <2>2. \E f \in Range(reg.entries) : f.vault = v
      BY <1>1 DEF Holders
  <2> QED
      BY <1>1, <2>1, <2>2
<1>2. CASE Holders(v) = {}
  <2>1. PICK x : x = PairedEntry(v, v, t)
      OBVIOUS
  <2>2. x \in Entry /\ x.id = v /\ x.vault = v /\ x.token = t /\ ~x.archived
      BY <2>1, PairedEntryType DEF Id
  <2>3. reg2 = [reg EXCEPT !.entries = Append(reg.entries, x)]
      BY <1>2, <2>1 DEF Added
  <2>4. PICK r : r = reg
      OBVIOUS
  <2>5. Sound(r) /\ x \in Entry /\ reg2 = [r EXCEPT !.entries = Append(r.entries, x)]
      BY <2>2, <2>3, <2>4
  <2>6. /\ Sound(reg2) /\ reg2.active = r.active
        /\ ActiveEntry(reg2) = ActiveEntry(r)
        /\ Range(reg2.entries) = Range(r.entries) \cup {x}
      BY <2>5, OneMore
  <2> QED
      BY <1>2, <2>2, <2>4, <2>6
<1> QED
    BY <1>1, <1>2

\* The entry of a vault that addDatalet finds or makes.
LEMMA FoundByVault ==
    ASSUME NEW reg, Sound(reg), NEW v, \E f \in Range(reg.entries) : f.vault = v,
           NEW I, I = {i \in 1 .. Len(reg.entries) : reg.entries[i].vault = v},
           NEW e, e = reg.entries[Min(I)]
    PROVE  e \in Range(reg.entries) /\ e \in Entry /\ e.vault = v
<1>1. /\ reg.entries \in Seq(Entry)
      /\ Len(reg.entries) \in Nat /\ DOMAIN reg.entries = 1 .. Len(reg.entries)
    BY EntriesDomain DEF Sound
<1>2. I \subseteq Nat /\ I # {}
    BY <1>1, EntriesDomain
<1>3. Min(I) \in I
    BY <1>2, MinIsFirst
<1>4. \A i \in DOMAIN reg.entries : reg.entries[i] \in Entry /\ reg.entries[i] \in Range(reg.entries)
    BY <1>1, EntriesDomain
<1> QED
  <2>1. PICK m : m = Min(I)
      OBVIOUS
  <2>2. m \in DOMAIN reg.entries /\ reg.entries[m].vault = v
      BY <1>1, <1>3, <2>1
  <2> QED
      BY <1>4, <2>1, <2>2

-----------------------------------------------------------------------------
(* The entries that are left without those of one id. *)

\* One after the other, the first n entries without those with the id.
Leaves(K, n, es, id) ==
    /\ DOMAIN K = 0 .. n /\ K[0] = <<>>
    /\ \A i \in 1 .. n :
          K[i] = IF es[i].id = id THEN K[i - 1] ELSE Append(K[i - 1], es[i])

LEMMA LeavesExist ==
    ASSUME NEW es, NEW id, NEW n \in Nat
    PROVE  \E K : Leaves(K, n, es, id)
<1> DEFINE T == {i \in Nat : ~ \E K : Leaves(K, i, es, id)}
<1> SUFFICES ASSUME T # {}
             PROVE  FALSE
    BY Zenon
<1>1. PICK t \in T : \A i \in T : t <= i
    BY LeastNat
<1>2. t # 0
  <2>1. Leaves([i \in 0 .. 0 |-> <<>>], 0, es, id)
      BY DEF Leaves
  <2> QED
      BY <1>1, <2>1
<1>3. t - 1 \in Nat /\ t - 1 \notin T
    BY <1>1, <1>2
<1>4. PICK K : Leaves(K, t - 1, es, id)
    BY <1>3
<1> DEFINE After(i) == IF es[i].id = id THEN K[i - 1] ELSE Append(K[i - 1], es[i])
           Q == [i \in 0 .. t |-> IF i = t THEN After(t) ELSE K[i]]
<1>5. Leaves(Q, t, es, id)
  <2>1. Q[0] = <<>>
      BY <1>1, <1>2, <1>4 DEF Leaves
  <2>2. ASSUME NEW i \in 1 .. t
        PROVE  Q[i] = IF es[i].id = id THEN Q[i - 1] ELSE Append(Q[i - 1], es[i])
    <3>1. Q[i - 1] = K[i - 1]
        BY <1>1, <2>2
    <3>2. CASE i = t
        BY <3>1, <3>2
    <3>3. CASE i # t
      <4>1. i \in 1 .. t - 1
          BY <1>1, <3>3
      <4>2. K[i] = After(i)
          BY <1>4, <4>1 DEF Leaves
      <4> QED
          BY <3>1, <3>3, <4>2
    <3> QED
        BY <3>2, <3>3
  <2> HIDE DEF Q
  <2>3. DOMAIN Q = 0 .. t
      BY DEF Q
  <2> QED
      BY <2>1, <2>2, <2>3 DEF Leaves
<1> QED
    BY <1>1, <1>5

\* What Without is: the last of them.
LEMMA WithoutIsLast ==
    ASSUME NEW es \in Seq(Entry), NEW id
    PROVE  \E K : Leaves(K, Len(es), es, id) /\ Without(es, id) = K[Len(es)]
<1> DEFINE Body(K) == [n \in 0 .. Len(es) |->
                          IF n = 0 THEN <<>>
                          ELSE IF es[n].id = id THEN K[n - 1]
                          ELSE Append(K[n - 1], es[n])]
           kept == CHOOSE K : K = Body(K)
<1>0. Len(es) \in Nat
    OBVIOUS
<1>1. PICK K : Leaves(K, Len(es), es, id)
    BY <1>0, LeavesExist
<1>2. Body(K)[0] = K[0]
    BY <1>0, <1>1 DEF Leaves
<1>3. \A n \in 1 .. Len(es) : Body(K)[n] = K[n]
    BY <1>0, <1>1 DEF Leaves
<1>4. DOMAIN K = 0 .. Len(es) /\ DOMAIN Body(K) = 0 .. Len(es)
    BY <1>1 DEF Leaves
<1>5. K = Body(K)
  <2>1. K = [n \in 0 .. Len(es) |-> K[n]]
      BY <1>1 DEF Leaves
  <2> HIDE DEF Body
  <2>2. \A n \in 0 .. Len(es) : K[n] = Body(K)[n]
      BY <1>0, <1>2, <1>3
  <2>3. Body(K) = [n \in 0 .. Len(es) |-> Body(K)[n]]
      BY DEF Body
  <2> QED
      BY <2>1, <2>2, <2>3
<1>6. kept = Body(kept)
  <2> HIDE DEF Body
  <2> QED
      BY <1>5
<1>7. Without(es, id) = kept[Len(es)]
    BY DEF Without
<1>8. Leaves(kept, Len(es), es, id)
  <2> HIDE DEF kept
  <2>1. PICK f : f = kept
      OBVIOUS
  <2>2. PICK len \in Nat : len = Len(es)
      BY <1>0
  <2>3. f = [n \in 0 .. len |-> IF n = 0 THEN <<>>
                               ELSE IF es[n].id = id THEN f[n - 1]
                               ELSE Append(f[n - 1], es[n])]
      BY <1>6, <2>1, <2>2
  <2>4. DOMAIN f = 0 .. len /\ f[0] = <<>>
      BY <2>3
  <2>5. ASSUME NEW i \in 1 .. len
        PROVE  f[i] = IF es[i].id = id THEN f[i - 1] ELSE Append(f[i - 1], es[i])
    <3>1. i \in 0 .. len /\ i # 0
        BY <2>5
    <3> QED
        BY <2>3, <3>1
  <2> QED
      BY <2>1, <2>2, <2>4, <2>5 DEF Leaves
<1> HIDE DEF kept
<1> QED
    BY <1>7, <1>8

\* What the entries left of the first n are.
LeftOf(ks, n, es, id) ==
    /\ ks \in Seq(Entry)
    /\ \A f \in Range(ks) : f.id # id /\ \E i \in 1 .. n : es[i] = f
    /\ \A i \in 1 .. n : es[i].id # id => es[i] \in Range(ks)
    /\ Apart(es) => Apart(ks)
    /\ \A k \in 1 .. n : IsFirst(es, k) /\ es[k].id # id =>
          \E m \in DOMAIN ks : IsFirst(ks, m) /\ ks[m] = es[k]

LEMMA OneLeft ==
    ASSUME NEW es \in Seq(Entry), NEW id, NEW n \in 1 .. Len(es),
           NEW ks, LeftOf(ks, n - 1, es, id), es[n].id # id
    PROVE  LeftOf(Append(ks, es[n]), n, es, id)
<1>1. PICK e \in Entry : e = es[n]
    OBVIOUS
<1>2. ks \in Seq(Entry) /\ n \in Nat /\ n - 1 \in Nat /\ n \in DOMAIN es
      /\ DOMAIN es = 1 .. Len(es)
    BY DEF LeftOf
<1>3. PICK fs : fs = Append(ks, e)
    OBVIOUS
<1>4. fs \in Seq(Entry) /\ Range(fs) = Range(ks) \cup {e}
    BY <1>2, <1>3, AppendGrows
<1>5. PICK len \in Nat : len = Len(ks)
    BY <1>2
<1>6. /\ DOMAIN ks = 1 .. len /\ DOMAIN fs = 1 .. len + 1 /\ fs[len + 1] = e
      /\ \A i \in 1 .. len : fs[i] = ks[i]
    BY <1>2, <1>3, <1>5
<1>7. \A f \in Range(fs) : f.id # id /\ \E i \in 1 .. n : es[i] = f
  <2>1. \A f \in Range(ks) : f.id # id /\ \E i \in 1 .. n - 1 : es[i] = f
      BY DEF LeftOf
  <2>2. \A i \in 1 .. n - 1 : i \in 1 .. n
      BY <1>2
  <2>3. n \in 1 .. n
      BY <1>2
  <2> QED
      BY <1>1, <1>4, <2>1, <2>2, <2>3
<1>8. \A i \in 1 .. n : es[i].id # id => es[i] \in Range(fs)
  <2>1. \A i \in 1 .. n - 1 : es[i].id # id => es[i] \in Range(ks)
      BY DEF LeftOf
  <2>2. \A i \in 1 .. n : i = n \/ i \in 1 .. n - 1
      BY <1>2
  <2> QED
      BY <1>1, <1>4, <2>1, <2>2
<1>9. \A i \in 1 .. len : \E j \in 1 .. n - 1 : es[j] = ks[i]
    BY <1>6 DEF LeftOf, Range
<1>10. ASSUME Apart(es)
       PROVE  Apart(fs)
  <2>1. Apart(ks)
      BY <1>10 DEF LeftOf
  <2>2. ASSUME NEW i \in 1 .. len
        PROVE  ks[i].id # e.id
    <3>1. PICK j \in 1 .. n - 1 : es[j] = ks[i]
        BY <1>9
    <3>2. j \in DOMAIN es /\ j # n
        BY <1>2, <3>1
    <3> QED
        BY <1>1, <1>2, <1>10, <3>1, <3>2 DEF Apart
  <2>3. \A i \in 1 .. len + 1 : i = len + 1 \/ i \in 1 .. len
      BY <1>5
  <2> QED
      BY <1>6, <2>1, <2>2, <2>3 DEF Apart
<1>11. ASSUME NEW k \in 1 .. n, IsFirst(es, k), es[k].id # id
       PROVE  \E m \in DOMAIN fs : IsFirst(fs, m) /\ fs[m] = es[k]
  <2>1. CASE k \in 1 .. n - 1
    <3>1. PICK m \in 1 .. len : IsFirst(ks, m) /\ ks[m] = es[k]
        BY <1>6, <1>11, <2>1 DEF LeftOf
    <3>2. m \in 1 .. len + 1 /\ fs[m] = ks[m]
        BY <1>6, <3>1
    <3>3. ASSUME NEW i \in 1 .. len + 1, fs[i].id = fs[m].id
          PROVE  m <= i
      <4>1. CASE i \in 1 .. len
          BY <1>6, <3>1, <3>2, <3>3, <4>1 DEF IsFirst
      <4>2. CASE i = len + 1
          BY <3>1, <4>2
      <4> QED
          BY <3>3, <4>1, <4>2
    <3> QED
        BY <1>6, <3>1, <3>2, <3>3 DEF IsFirst
  <2>2. CASE k = n
    <3>1. \A i \in 1 .. len : ks[i].id # e.id
      <4>1. ASSUME NEW i \in 1 .. len, ks[i].id = e.id
            PROVE  FALSE
        <5>1. PICK j \in 1 .. n - 1 : es[j] = ks[i]
            BY <1>9, <4>1
        <5>2. j \in DOMAIN es /\ j < n
            BY <1>2, <5>1
        <5>3. n <= j
            BY <1>1, <1>11, <2>2, <4>1, <5>1, <5>2 DEF IsFirst
        <5> QED
            BY <1>2, <5>2, <5>3
      <4> QED
          BY <4>1
    <3>2. len + 1 \in DOMAIN fs /\ fs[len + 1] = es[k]
        BY <1>1, <1>6, <2>2
    <3>3. \A i \in 1 .. len + 1 : fs[i].id = e.id => len + 1 <= i
        BY <1>6, <3>1
    <3> QED
        BY <1>6, <3>2, <3>3 DEF IsFirst
  <2> QED
      BY <1>2, <2>1, <2>2
<1> QED
    BY <1>1, <1>3, <1>4, <1>7, <1>8, <1>10, <1>11 DEF LeftOf

LEMMA AllLeft ==
    ASSUME NEW es \in Seq(Entry), NEW id, NEW K, Leaves(K, Len(es), es, id)
    PROVE  LeftOf(K[Len(es)], Len(es), es, id)
<1> DEFINE T == {n \in Nat : n <= Len(es) /\ ~LeftOf(K[n], n, es, id)}
<1>0. PICK len \in Nat : len = Len(es) /\ DOMAIN es = 1 .. len
    OBVIOUS
<1> SUFFICES ASSUME T # {}
             PROVE  FALSE
    BY <1>0
<1>1. PICK t \in T : \A i \in T : t <= i
    BY LeastNat
<1>2. LeftOf(<<>>, 0, es, id)
  <2>1. <<>> \in Seq(Entry) /\ DOMAIN <<>> = {}
      OBVIOUS
  <2>2. Range(<<>>) = {} /\ 1 .. 0 = {}
      BY <2>1 DEF Range
  <2> QED
      BY <2>1, <2>2 DEF LeftOf, Apart
<1>3. t # 0
    BY <1>1, <1>2 DEF Leaves
<1>4. t \in 1 .. Len(es) /\ t - 1 \in Nat /\ t - 1 <= Len(es) /\ t - 1 < t
    BY <1>0, <1>1, <1>3
<1>5. LeftOf(K[t - 1], t - 1, es, id)
    BY <1>1, <1>4
<1>6. CASE es[t].id # id
  <2>1. K[t] = Append(K[t - 1], es[t])
      BY <1>4, <1>6 DEF Leaves
  <2> QED
      BY <1>1, <1>4, <1>5, <1>6, <2>1, OneLeft
<1>7. CASE es[t].id = id
  <2>1. K[t] = K[t - 1]
      BY <1>4, <1>7 DEF Leaves
  <2>2. \A i \in 1 .. t : i = t \/ i \in 1 .. t - 1
      BY <1>4
  <2>3. \A i \in 1 .. t - 1 : i \in 1 .. t
      BY <1>4
  <2>4. LeftOf(K[t - 1], t, es, id)
      BY <1>5, <1>7, <2>2, <2>3 DEF LeftOf
  <2> QED
      BY <1>1, <2>1, <2>4
<1> QED
    BY <1>6, <1>7

LEMMA ForgottenRegistry ==
    ASSUME NEW reg, Sound(reg), reg = registry, NEW id, id # reg.active,
           NEW reg2, reg2 = Forgotten(id)
    PROVE  /\ Sound(reg2) /\ reg2.active = reg.active
           /\ ActiveEntry(reg2) = ActiveEntry(reg)
           /\ Apart(reg.entries) => Apart(reg2.entries)
           /\ Range(reg2.entries) = {e \in Range(reg.entries) : e.id # id}
<1> DEFINE es == reg.entries
<1>1. es \in Seq(Entry) /\ reg.active \in Id /\ DOMAIN es = 1 .. Len(es)
    BY EntriesDomain DEF Sound
<1>2. PICK ks : ks = Without(es, id)
    OBVIOUS
<1>3. LeftOf(ks, Len(es), es, id)
    BY <1>1, <1>2, WithoutIsLast, AllLeft
<1>4. PICK k \in DOMAIN es :
        IsFirst(es, k) /\ es[k].id = reg.active /\ ActiveEntry(reg) = es[k]
    BY ActiveIsFirst
<1>5. PICK m \in DOMAIN ks : IsFirst(ks, m) /\ ks[m] = es[k]
    BY <1>1, <1>3, <1>4 DEF LeftOf
<1>6. ks \in Seq(Entry) /\ ks # <<>> /\ ks[m] \in Range(ks)
    BY <1>3, <1>5 DEF LeftOf, Range
<1>7. \E e \in Range(ks) : e.id = reg.active
    BY <1>4, <1>5, <1>6
<1>8. reg2 = [entries |-> ks, active |-> reg.active]
    BY <1>2, <1>6, <1>7 DEF Forgotten
<1>9. reg2 \in [active : Id, entries : Seq(Entry)] /\ reg2.entries = ks
      /\ reg2.active = reg.active
    BY <1>1, <1>6, <1>8
<1>10. Sound(reg2)
    BY <1>4, <1>5, <1>9 DEF Sound
<1>11. ActiveEntry(reg2) = ActiveEntry(reg)
  <2>1. ActiveEntry(reg2) = ks[m]
      BY <1>4, <1>5, <1>9, <1>10, FirstIsActive
  <2> QED
      BY <1>4, <1>5, <2>1
<1>12. Range(ks) = {e \in Range(es) : e.id # id}
  <2>1. ASSUME NEW f \in Range(ks)
        PROVE  f \in Range(es) /\ f.id # id
    <3>1. f.id # id /\ \E i \in 1 .. Len(es) : es[i] = f
        BY <1>3 DEF LeftOf
    <3> QED
        BY <1>1, <3>1 DEF Range
  <2>2. ASSUME NEW e \in Range(es), e.id # id
        PROVE  e \in Range(ks)
    <3>1. PICK i \in 1 .. Len(es) : es[i] = e
        BY <1>1 DEF Range
    <3> QED
        BY <1>3, <2>2, <3>1 DEF LeftOf
  <2> QED
      BY <2>1, <2>2
<1>13. Apart(es) => Apart(ks)
    BY <1>3 DEF LeftOf
<1> QED
    BY <1>9, <1>10, <1>11, <1>12, <1>13

-----------------------------------------------------------------------------
(* The inductive invariant, part by part. *)

\* The page shows the entry that is active.
PageIsOpen == Sound(registry) /\ page.vault = ActiveEntry(registry).vault

HasEntry(f) == \E e \in Range(registry.entries) : e.id = f.id /\ e.vault = f.vault

\* What the flows are at, and for what.
StepsFit ==
    /\ flow["open"].step \in {"idle", "fetch"}
    /\ flow["pair"].step \in {"idle", "fetch"}
    /\ flow["rotate"].step \in {"idle", "asked"}
    /\ flow["erase"].step \in {"idle", "asked"}
VaultsFit ==
    \A k \in Kind : flow[k].step # "idle" =>
        flow[k].vault \in Vault /\ server[flow[k].vault].state # "none"
PairFits == flow["pair"].step # "idle" => page.vault = NoVault
RotateFits ==
    flow["rotate"].step # "idle" =>
        /\ flow["rotate"].vault = page.vault
        /\ flow["rotate"].token = server[page.vault].token
EraseFits ==
    flow["erase"].step # "idle" =>
        flow["erase"].id # registry.active /\ HasEntry(flow["erase"])
FlowsFit == StepsFit /\ VaultsFit /\ PairFits /\ RotateFits /\ EraseFits

\* A vault nobody made has no entry, and took nothing.
HeldAreMade ==
    \A v \in Vault : server[v].state = "none" => Holders(v) = {} /\ server[v].taken = {}

\* Nothing is stored anywhere that was not made.
OnlyMade ==
    /\ disk[Local] \subseteq made
    /\ \A v \in Vault : outbox[v] \cup server[v].taken \subseteq made

\* What is in this browser of a vault is queued for it or comes from it; what the
\* user made of a vault that is erased was given up.
CopiesOfVaults == \A v \in Vault : disk[v] \subseteq outbox[v] \cup server[v].taken
ErasedIsGivenUp ==
    \A v \in Vault : server[v].state = "erased" =>
        server[v].taken \cup outbox[v] \subseteq parted

Always ==
    /\ TypeOK /\ PageIsOpen /\ FlowsFit /\ HeldAreMade
    /\ OnlyMade /\ CopiesOfVaults /\ ErasedIsGivenUp

\* What holds as long as ids tell entries apart.
Arriving(k) == flow[k].step = "fetch" /\ server[flow[k].vault].state # "erased"
OpenIsShown == \A e \in Range(registry.entries) : e.id = registry.active => ~e.archived
FetchedIsListed == \A k \in {"open", "add"} : Arriving(k) => HasEntry(flow[k])
OneIsHere == \A v \in Vault : disk[v] # {} => v = page.vault
NothingAside == page.vault # NoVault => disk[Local] \subseteq parted
CodeIsCurrent ==
    LET f == flow["add"]
    IN  f.step = "asked" /\ Holders(f.vault) = {} /\ server[f.vault].state = "live"
          => f.token = server[f.vault].token

Told ==
    /\ IdsDiffer /\ OpenIsShown /\ FetchedIsListed
    /\ OneIsHere /\ NothingAside /\ CodeIsCurrent

\* And as long as nothing went wrong in haste.
QueuedIsHere == page.vault # NoVault => outbox[page.vault] \subseteq disk[page.vault]
LeftIsEmpty == page.vault = NoVault /\ OnItsWayOut => disk[Local] = {}
LiveIsAtHand == \A v \in Vault : server[v].state = "live" /\ Holders(v) # {} => AtHand(v)
WorkIsKept ==
    \A i \in made \ parted :
        \/ i \in disk[GraphOf(page)] \cup disk[Local]
        \/ \E v \in Vault : AtHand(v) /\ i \in server[v].taken \cup outbox[v]

Careful == QueuedIsHere /\ LeftIsEmpty /\ LiveIsAtHand /\ WorkIsKept

Kept == Always /\ (~doubled => Told) /\ (~doubled /\ ~hasty => Careful)

-----------------------------------------------------------------------------
(* Types. *)

LEMMA IdleType ==
    Idle \in Flow /\ Idle.step = "idle" /\ Idle.id \in Id /\ Idle.vault = NoVault
<1>1. (CHOOSE u \in Uuid : TRUE) \in Uuid
    BY IdsAreThere
<1>2. 0 \in Token /\ 0 \in 0 .. Budget
    BY DataletBounds DEF Token
<1> QED
    BY <1>1, <1>2 DEF Idle, Flow, Id

LEMMA BegunType ==
    ASSUME flow \in [Kind -> Flow], NEW k \in Kind, NEW step \in {"asked", "fetch"},
           NEW i \in Id, NEW v \in Vault \cup {NoVault}, NEW t \in Token,
           NEW c \in BOOLEAN, Begun(k, step, i, v, t, c)
    PROVE  /\ flow' \in [Kind -> Flow]
           /\ flow'[k].step = step /\ flow'[k].id = i /\ flow'[k].vault = v
           /\ flow'[k].token = t
           /\ \A j \in Kind : j # k => flow'[j] = flow[j]
<1>1. PICK f : f = [step |-> step, id |-> i, vault |-> v, token |-> t,
                    created |-> c, tries |-> 0]
    OBVIOUS
<1>2. 0 \in 0 .. Budget
    BY DataletBounds
<1>3. f \in Flow
    BY <1>1, <1>2 DEF Flow
<1>4. f.step = step /\ f.id = i /\ f.vault = v /\ f.token = t
    BY <1>1
<1>5. flow' = [flow EXCEPT ![k] = f]
    BY <1>1 DEF Begun
<1> QED
    BY <1>3, <1>4, <1>5

LEMMA EndedType ==
    ASSUME flow \in [Kind -> Flow], NEW k \in Kind, Ended(k)
    PROVE  /\ flow' \in [Kind -> Flow] /\ flow'[k].step = "idle"
           /\ \A j \in Kind : j # k => flow'[j] = flow[j]
    BY IdleType DEF Ended

\* A page that is loaded shows what is active, and no flow is under way.
LEMMA ReloadOpens ==
    ASSUME NEW reg, Sound(reg), NEW k, Reload(reg, k), hasty \in BOOLEAN,
           doubled \in BOOLEAN
    PROVE  /\ registry' = reg /\ registry' \in [active : Id, entries : Seq(Entry)]
           /\ page' \in [vault : Vault \cup {NoVault}, token : Token]
           /\ page'.vault = ActiveEntry(reg).vault
           /\ page'.token = ActiveEntry(reg).token
           /\ PageIsOpen'
           /\ flow' \in [Kind -> Flow] /\ \A j \in Kind : flow'[j].step = "idle"
           /\ FlowsFit'
           /\ hasty' \in BOOLEAN /\ doubled' = doubled
           /\ ~hasty' => ~hasty
<1>1. registry' = reg /\ reg \in [active : Id, entries : Seq(Entry)]
    BY DEF Reload, Sound
<1>2. PICK a \in Entry : a = ActiveEntry(reg)
    BY ActiveIsListed
<1>3. page' = [vault |-> a.vault, token |-> a.token]
    BY <1>2 DEF Reload
<1>4. page' \in [vault : Vault \cup {NoVault}, token : Token]
      /\ page'.vault = a.vault /\ page'.token = a.token
    BY <1>2, <1>3 DEF Entry
<1>5. PageIsOpen'
    BY <1>1, <1>2, <1>4 DEF PageIsOpen
<1>6. flow' \in [Kind -> Flow] /\ \A j \in Kind : flow'[j].step = "idle"
    BY IdleType DEF Reload
<1>7. FlowsFit'
    BY <1>6 DEF FlowsFit, StepsFit, VaultsFit, PairFits, RotateFits, EraseFits, Kind
<1>8. hasty' \in BOOLEAN /\ doubled' = doubled /\ (~hasty' => ~hasty)
    BY DEF Reload
<1> QED
    BY <1>1, <1>2, <1>4, <1>5, <1>6, <1>7, <1>8

-----------------------------------------------------------------------------
(* Steps that leave the registry and the page as they are. *)

LEMMA SameBook ==
    ASSUME PageIsOpen, UNCHANGED <<registry, page>>
    PROVE  /\ PageIsOpen'
           /\ \A v \in Vault : Holders(v)' = Holders(v)
           /\ \A f : HasEntry(f)' <=> HasEntry(f)
           /\ IdsDiffer' <=> IdsDiffer
           /\ OpenIsShown' <=> OpenIsShown
<1>1. PICK reg, pg : reg = registry /\ pg = page
    OBVIOUS
<1>2. registry' = reg /\ page' = pg
    BY <1>1
<1>3. PageIsOpen'
    BY <1>1, <1>2 DEF PageIsOpen
<1> QED
    BY <1>1, <1>2, <1>3 DEF Holders, HasEntry, IdsDiffer, OpenIsShown

\* The facts about the page that every step needs.
LEMMA PageFacts ==
    ASSUME TypeOK, PageIsOpen
    PROVE  /\ page.vault \in Vault \cup {NoVault} /\ GraphOf(page) \in Graph
           /\ GraphOf(page) = IF page.vault = NoVault THEN Local ELSE page.vault
           /\ GraphOf(ActiveEntry(registry)) = GraphOf(page)
           /\ page.vault = ActiveEntry(registry).vault
           /\ Local \notin Vault /\ NoVault \notin Vault
           /\ Local \in Graph /\ Vault \subseteq Graph
    BY VaultsAreNotLocal DEF TypeOK, PageIsOpen, GraphOf, Graph

\* An invariant about what the page holds of each vault: its parts.
LEMMA MakeKeeps ==
    ASSUME Kept, NEW i \in Item, Make(i)
    PROVE  Kept'
<1>1. TypeOK /\ PageIsOpen /\ FlowsFit /\ HeldAreMade
      /\ OnlyMade /\ CopiesOfVaults /\ ErasedIsGivenUp
    BY DEF Kept, Always
<1>2. /\ page.vault \in Vault \cup {NoVault}
      /\ GraphOf(page) = IF page.vault = NoVault THEN Local ELSE page.vault
      /\ Local \notin Vault /\ NoVault \notin Vault
      /\ Local \in Graph /\ Vault \subseteq Graph /\ GraphOf(page) \in Graph
    BY <1>1, PageFacts
<1>3. TypeOK'
    BY <1>1, <1>2 DEF Make, TypeOK, bounds
<1>4. /\ UNCHANGED <<registry, page, server, flow, doubled>>
      /\ i \notin made /\ made' = made \cup {i}
      /\ disk' = [disk EXCEPT ![GraphOf(page)] = @ \cup {i}]
      /\ disk \in [Graph -> SUBSET Item] /\ outbox \in [Vault -> SUBSET Item]
      /\ server \in [Vault -> [state : {"none", "live", "erased"}, token : Token,
                               taken : SUBSET Item, shown : SUBSET Item]]
    BY <1>1 DEF Make, TypeOK
<1>5. /\ PageIsOpen'
      /\ \A v \in Vault : Holders(v)' = Holders(v)
      /\ \A f : HasEntry(f)' <=> HasEntry(f)
      /\ IdsDiffer' <=> IdsDiffer
      /\ OpenIsShown' <=> OpenIsShown
    BY <1>1, <1>4, SameBook
<1>6. FlowsFit'
    BY <1>1, <1>4, <1>5
       DEF FlowsFit, StepsFit, VaultsFit, PairFits, RotateFits, EraseFits
<1>7. HeldAreMade'
    BY <1>1, <1>4, <1>5 DEF HeldAreMade
<1>8. /\ \A v \in Vault : outbox'[v] = IF v = page.vault THEN outbox[v] \cup {i} ELSE outbox[v]
      /\ \A g \in Graph : disk'[g] = IF g = GraphOf(page) THEN disk[g] \cup {i} ELSE disk[g]
    BY <1>2, <1>4 DEF Make
<1>9. OnlyMade'
    BY <1>1, <1>2, <1>4, <1>8 DEF OnlyMade
<1>10. CopiesOfVaults'
    BY <1>1, <1>2, <1>4, <1>8 DEF CopiesOfVaults
<1>11. ErasedIsGivenUp'
  <2>1. parted \subseteq parted' /\ (page.vault # NoVault /\ server[page.vault].state = "erased"
                                       => i \in parted')
      BY DEF Make
  <2>2. \A v \in Vault : i \notin outbox[v] \cup server[v].taken
      BY <1>1, <1>4 DEF OnlyMade
  <2>3. ASSUME NEW v \in Vault, server[v].state = "erased",
               NEW j \in server[v].taken \cup outbox'[v]
        PROVE  j \in parted'
    <3>1. CASE j = i
      <4>1. i \in outbox'[v] /\ i \notin outbox[v]
          BY <2>2, <2>3, <3>1
      <4>2. v = page.vault
          BY <1>8, <4>1
      <4> QED
          BY <1>2, <2>1, <2>3, <3>1, <4>2
    <3>2. CASE j # i
      <4>1. server[v].taken \cup outbox[v] \subseteq parted
          BY <1>1, <2>3 DEF ErasedIsGivenUp
      <4>2. j \in server[v].taken \cup outbox[v]
          BY <1>8, <2>3, <3>2
      <4> QED
          BY <2>1, <4>1, <4>2
    <3> QED
        BY <3>1, <3>2
  <2> QED
      BY <1>4, <2>3 DEF ErasedIsGivenUp
<1>12. ASSUME ~doubled'
       PROVE  Told'
  <2>1. Told
      BY <1>4, <1>12 DEF Kept
  <2>2. OneIsHere' /\ NothingAside'
    <3>1. parted \subseteq parted'
        BY DEF Make
    <3> QED
        BY <1>2, <1>4, <1>8, <2>1, <3>1 DEF Told, OneIsHere, NothingAside
  <2>3. FetchedIsListed'
      BY <1>4, <2>1 DEF Told, FetchedIsListed, Arriving, HasEntry
  <2>4. CodeIsCurrent'
      BY <1>4, <2>1 DEF Told, CodeIsCurrent, Holders
  <2> QED
      BY <1>5, <2>1, <2>2, <2>3, <2>4 DEF Told
<1>13. ASSUME ~doubled', ~hasty'
       PROVE  Careful'
  <2>0. ~hasty
      BY <1>13 DEF Make
  <2>1. Careful /\ Told
      BY <1>4, <1>13, <2>0 DEF Kept
  <2>2. QueuedIsHere'
      BY <1>2, <1>4, <1>8, <2>1 DEF Careful, QueuedIsHere
  <2>3. LeftIsEmpty'
      BY <1>4, <1>13 DEF LeftIsEmpty, OnItsWayOut, Make
  <2>4. \A v \in Vault : AtHand(v)' <=> AtHand(v)
      BY <1>4, <1>5 DEF AtHand
  <2>5. LiveIsAtHand'
      BY <1>4, <1>5, <2>1, <2>4 DEF Careful, LiveIsAtHand
  <2>6. WorkIsKept'
    <3>1. parted \subseteq parted' /\ GraphOf(page') = GraphOf(page)
        BY <1>4 DEF Make
    <3>2. ASSUME NEW j \in made' \ parted'
          PROVE  \/ j \in disk'[GraphOf(page')] \cup disk'[Local]
                 \/ \E v \in Vault : AtHand(v)' /\ j \in server'[v].taken \cup outbox'[v]
      <4>1. CASE j = i
          BY <1>2, <1>8, <3>1, <4>1
      <4>2. CASE j \in made \ parted
        <5>1. \/ j \in disk[GraphOf(page)] \cup disk[Local]
              \/ \E v \in Vault : AtHand(v) /\ j \in server[v].taken \cup outbox[v]
            BY <2>1, <4>2 DEF Careful, WorkIsKept
        <5> QED
            BY <1>2, <1>4, <1>8, <2>4, <3>1, <5>1
      <4> QED
          BY <1>4, <3>1, <3>2, <4>1, <4>2
    <3> QED
        BY <3>2 DEF WorkIsKept
  <2> QED
      BY <2>2, <2>3, <2>5, <2>6 DEF Careful
<1> QED
    BY <1>3, <1>5, <1>6, <1>7, <1>9, <1>10, <1>11, <1>12, <1>13 DEF Kept, Always

-----------------------------------------------------------------------------
(* Steps that change the flows and the vaults, but nothing in the browser. *)

Quiet ==
    /\ UNCHANGED <<registry, page, disk, outbox, made, doubled>>
    /\ parted \subseteq parted'
    /\ \A v \in Vault :
          /\ server[v].state # "none" =>
                server'[v].state # "none" /\ server'[v].taken = server[v].taken
          /\ server'[v].state = "none" => server'[v].taken = server[v].taken
          /\ server'[v].taken \subseteq made
          /\ server[v].state = "erased" => server'[v].state = "erased"
          /\ server'[v].state = "erased" /\ server[v].state # "erased" =>
                server[v].state = "live" /\ server[v].taken \cup outbox[v] \subseteq parted'

StayAtHand == \A v \in Vault : AtHand(v) => AtHand(v)' \/ server'[v].state = "erased"

LEMMA QuietKeeps ==
    ASSUME Kept, Quiet, TypeOK', FlowsFit'
    PROVE  /\ Always'
           /\ ~doubled => IdsDiffer' /\ OpenIsShown' /\ OneIsHere' /\ NothingAside'
           /\ ~doubled /\ ~hasty /\ StayAtHand =>
                QueuedIsHere' /\ LiveIsAtHand' /\ WorkIsKept'
<1>1. TypeOK /\ PageIsOpen /\ HeldAreMade
      /\ OnlyMade /\ CopiesOfVaults /\ ErasedIsGivenUp
    BY DEF Kept, Always
<1>2. /\ PageIsOpen'
      /\ \A v \in Vault : Holders(v)' = Holders(v)
      /\ IdsDiffer' <=> IdsDiffer
      /\ OpenIsShown' <=> OpenIsShown
    BY <1>1, SameBook DEF Quiet
<1>3. /\ UNCHANGED <<registry, page, disk, outbox, made, doubled>>
      /\ parted \subseteq parted'
      /\ \A v \in Vault : server[v].taken \subseteq server'[v].taken
    BY <1>1 DEF Quiet, HeldAreMade
<1>4. HeldAreMade'
  <2>1. \A v \in Vault : server'[v].state = "none" =>
            server[v].state = "none" /\ Holders(v) = {}
      BY <1>1 DEF Quiet, HeldAreMade
  <2>2. \A v \in Vault : server'[v].state = "none" => server'[v].taken = {}
      BY <1>1, <2>1 DEF Quiet, HeldAreMade
  <2> QED
      BY <1>2, <2>1, <2>2 DEF HeldAreMade
<1>5. OnlyMade'
    BY <1>1, <1>3 DEF OnlyMade, Quiet
<1>6. CopiesOfVaults'
    BY <1>1, <1>3 DEF CopiesOfVaults
<1>7. ErasedIsGivenUp'
  <2>1. ASSUME NEW v \in Vault, server'[v].state = "erased"
        PROVE  server'[v].taken \cup outbox[v] \subseteq parted'
    <3>1. CASE server[v].state = "erased"
        BY <1>1, <1>3, <3>1 DEF Quiet, ErasedIsGivenUp
    <3>2. CASE server[v].state # "erased"
        BY <2>1, <3>2 DEF Quiet
    <3> QED
        BY <3>1, <3>2
  <2> QED
      BY <1>3, <2>1 DEF ErasedIsGivenUp
<1>8. ~doubled => IdsDiffer' /\ OpenIsShown' /\ OneIsHere' /\ NothingAside'
    BY <1>2, <1>3 DEF Kept, Told, OneIsHere, NothingAside
<1>9. ASSUME ~doubled, ~hasty, StayAtHand
      PROVE  QueuedIsHere' /\ LiveIsAtHand' /\ WorkIsKept'
  <2>1. Careful
      BY <1>9 DEF Kept
  <2>2. QueuedIsHere'
      BY <1>3, <2>1 DEF Careful, QueuedIsHere
  <2>3. ASSUME NEW v \in Vault, server'[v].state = "live", Holders(v)' # {}
        PROVE  AtHand(v)'
    <3>1. server[v].state = "live" /\ Holders(v) # {}
      <4>1. Holders(v) # {} /\ server[v].state # "none"
          BY <1>1, <1>2, <2>3 DEF HeldAreMade
      <4>2. server[v].state \in {"none", "live", "erased"}
          BY <1>1 DEF TypeOK
      <4> QED
          BY <2>3, <4>1, <4>2 DEF Quiet
    <3>2. AtHand(v)
        BY <2>1, <3>1 DEF Careful, LiveIsAtHand
    <3> QED
        BY <1>9, <2>3, <3>2 DEF StayAtHand
  <2>4. LiveIsAtHand'
      BY <2>3 DEF LiveIsAtHand
  <2>5. ASSUME NEW i \in made, i \notin parted'
        PROVE  \/ i \in disk[GraphOf(page)] \cup disk[Local]
               \/ \E v \in Vault : AtHand(v)' /\ i \in server'[v].taken \cup outbox[v]
    <3>1. CASE i \in disk[GraphOf(page)] \cup disk[Local]
        BY <3>1
    <3>2. CASE i \notin disk[GraphOf(page)] \cup disk[Local]
      <4>1. PICK v \in Vault : AtHand(v) /\ i \in server[v].taken \cup outbox[v]
          BY <1>3, <2>1, <2>5, <3>2 DEF Careful, WorkIsKept
      <4>2. i \in server'[v].taken \cup outbox[v]
          BY <1>3, <4>1
      <4>3. server'[v].state # "erased"
          BY <1>3, <1>7, <2>5, <4>2 DEF ErasedIsGivenUp
      <4> QED
          BY <1>9, <4>1, <4>2, <4>3 DEF StayAtHand
    <3> QED
        BY <3>1, <3>2
  <2>6. WorkIsKept'
      BY <1>3, <2>5 DEF WorkIsKept
  <2> QED
      BY <2>2, <2>4, <2>6
<1> QED
    BY <1>2, <1>4, <1>5, <1>6, <1>7, <1>8, <1>9 DEF Always

\* A flow k that ends or begins, beside the others.
LEMMA FlowsGoOn ==
    ASSUME FlowsFit, UNCHANGED <<registry, page>>, NEW k \in Kind,
           \A j \in Kind : j # k => flow'[j] = flow[j],
           \A v \in Vault : server[v].state # "none" => server'[v].state # "none",
           k # "rotate" => \A v \in Vault :
              server[v].state # "none" => server'[v].token = server[v].token,
           \/ flow'[k].step = "idle"
           \/ /\ flow'[k].step = IF k \in {"rotate", "erase"} THEN "asked" ELSE "fetch"
              /\ flow'[k].vault \in Vault /\ server'[flow'[k].vault].state # "none"
              /\ k = "pair" => page.vault = NoVault
              /\ k = "rotate" => /\ flow'[k].vault = page.vault
                                 /\ flow'[k].token = server'[page.vault].token
              /\ k = "erase" => flow'[k].id # registry.active /\ HasEntry(flow'[k])
           \/ /\ k = "add" /\ flow'[k].step = "asked"
              /\ flow'[k].vault \in Vault /\ server'[flow'[k].vault].state # "none"
    PROVE  FlowsFit'
<1>1. StepsFit /\ VaultsFit /\ PairFits /\ RotateFits /\ EraseFits
    BY DEF FlowsFit
<1>2. StepsFit'
    BY <1>1 DEF StepsFit, Kind
<1>3. VaultsFit'
    BY <1>1 DEF VaultsFit
<1>4. PairFits'
    BY <1>1 DEF PairFits, Kind
<1>5. RotateFits'
  <2>1. CASE k = "rotate"
      BY <2>1 DEF RotateFits
  <2>2. CASE k # "rotate"
      BY <1>1, <2>2 DEF RotateFits, VaultsFit, Kind
  <2> QED
      BY <2>1, <2>2
<1>6. EraseFits'
  <2>1. CASE k = "erase"
      BY <2>1 DEF EraseFits, HasEntry
  <2>2. CASE k # "erase"
      BY <1>1, <2>2 DEF EraseFits, HasEntry, Kind
  <2> QED
      BY <2>1, <2>2
<1> QED
    BY <1>2, <1>3, <1>4, <1>5, <1>6 DEF FlowsFit

\* What a step did not begin is as it was.
LEMMA FlowsAsTold ==
    ASSUME Told, FlowsFit, UNCHANGED <<registry, page>>, NEW k \in Kind,
           \A j \in Kind : j # k => flow'[j] = flow[j],
           \A v \in Vault : server[v].state # "none" =>
              /\ server'[v].state \in {server[v].state, "erased"}
              /\ server'[v].token = server[v].token \/ Holders(v) # {},
           \/ flow'[k].step = "idle"
           \/ flow'[k].step = "fetch" /\ (Arriving(k)' => HasEntry(flow[k])')
           \/ /\ k = "add" /\ flow'[k].step = "asked"
              /\ flow'[k].token = server'[flow'[k].vault].token
           \/ k \in {"pair", "rotate", "erase"}
    PROVE  FetchedIsListed' /\ CodeIsCurrent'
<1>1. FetchedIsListed /\ CodeIsCurrent /\ VaultsFit
    BY DEF Told, FlowsFit
<1>2. ASSUME NEW j \in {"open", "add"}, j # k, flow'[j].step = "fetch",
             server'[flow'[j].vault].state # "erased"
      PROVE  \E e \in Range(registry'.entries) :
                e.id = flow'[j].id /\ e.vault = flow'[j].vault
  <2>1. PICK f : f = flow[j]
      OBVIOUS
  <2>2. flow'[j] = f /\ f.vault \in Vault /\ server[f.vault].state # "none"
      BY <1>1, <1>2, <2>1 DEF VaultsFit, Kind
  <2>3. server[f.vault].state # "erased"
      BY <1>2, <2>2
  <2>4. HasEntry(f)
      BY <1>1, <1>2, <2>1, <2>2, <2>3 DEF FetchedIsListed, Arriving
  <2> QED
      BY <2>2, <2>4 DEF HasEntry
<1>3. FetchedIsListed'
  <2>1. ASSUME NEW j \in {"open", "add"}, Arriving(j)'
        PROVE  HasEntry(flow[j])'
    <3>1. CASE j # k
        BY <1>2, <2>1, <3>1 DEF Arriving, HasEntry
    <3>2. CASE j = k
        BY <2>1, <3>2 DEF Arriving
    <3> QED
        BY <3>1, <3>2
  <2> QED
      BY <2>1 DEF FetchedIsListed
<1>4. ASSUME flow'["add"].step = "asked",
             \A e \in Range(registry'.entries) : e.vault # flow'["add"].vault,
             server'[flow'["add"].vault].state = "live"
      PROVE  flow'["add"].token = server'[flow'["add"].vault].token
  <2>1. CASE k = "add"
      BY <1>4, <2>1
  <2>2. CASE k # "add"
    <3>1. PICK f : f = flow["add"]
        OBVIOUS
    <3>2. flow'["add"] = f /\ f.vault \in Vault /\ server[f.vault].state # "none"
        BY <1>1, <1>4, <2>2, <3>1 DEF VaultsFit, Kind
    <3>3. server[f.vault].state = "live" /\ Holders(f.vault) = {}
        BY <1>4, <3>2 DEF Holders
    <3>4. f.token = server[f.vault].token
        BY <1>1, <1>4, <3>1, <3>2, <3>3 DEF CodeIsCurrent
    <3> QED
        BY <3>2, <3>3, <3>4
  <2> QED
      BY <2>1, <2>2
<1>5. CodeIsCurrent'
    BY <1>4 DEF CodeIsCurrent, Holders
<1> QED
    BY <1>3, <1>5

\* A quiet step keeps the invariant.
LEMMA QuietStep ==
    ASSUME Kept, Quiet, TypeOK', FlowsFit',
           ~doubled => FetchedIsListed' /\ CodeIsCurrent',
           ~doubled /\ ~hasty' => ~hasty /\ StayAtHand /\ LeftIsEmpty'
    PROVE  Kept'
<1>1. doubled' = doubled
    BY DEF Quiet
<1>2. /\ Always'
      /\ ~doubled => IdsDiffer' /\ OpenIsShown' /\ OneIsHere' /\ NothingAside'
      /\ ~doubled /\ ~hasty /\ StayAtHand =>
            QueuedIsHere' /\ LiveIsAtHand' /\ WorkIsKept'
    BY QuietKeeps
<1>3. ~doubled' => Told'
    BY <1>1, <1>2 DEF Told
<1>4. ~doubled' /\ ~hasty' => Careful'
    BY <1>1, <1>2 DEF Careful
<1> QED
    BY <1>2, <1>3, <1>4 DEF Kept

\* No vault's token changes, and no rotation begins or ends.
LEMMA TokensStay ==
    ASSUME PageIsOpen, UNCHANGED <<registry, page>>, flow'["rotate"] = flow["rotate"],
           \A v \in Vault : server[v].state = "live" =>
              /\ server'[v].state \in {"live", "erased"}
              /\ server'[v].token = server[v].token
    PROVE  StayAtHand
<1>1. \A v \in Vault : Holders(v)' = Holders(v)
    BY SameBook
<1>2. ASSUME NEW v \in Vault, AtHand(v), server'[v].state # "erased"
      PROVE  AtHand(v)'
    BY <1>1, <1>2 DEF AtHand
<1> QED
    BY <1>2 DEF StayAtHand

ServerState == [state : {"none", "live", "erased"}, token : Token,
                taken : SUBSET Item, shown : SUBSET Item]

LEMMA ServerTypes ==
    ASSUME TypeOK
    PROVE  /\ server \in [Vault -> ServerState]
           /\ \A v \in Vault : server[v].shown \subseteq server[v].taken
           /\ \A v \in Vault : server[v].state \in {"none", "live", "erased"}
    BY DEF TypeOK, ServerState

LEMMA NewVaultIs ==
    ASSUME TypeOK, NEW v \in Vault, NEW items \in SUBSET Item, NewVault(v, items)
    PROVE  /\ server' \in [Vault -> ServerState]
           /\ \A w \in Vault : server'[w].shown \subseteq server'[w].taken
           /\ server[v].state = "none" /\ server'[v].state = "live"
           /\ server'[v].taken = items /\ server'[v].token = 1 /\ 1 \in Token
           /\ \A w \in Vault : w # v => server'[w] = server[w]
<1>1. server \in [Vault -> ServerState] /\ \A w \in Vault : server[w].shown \subseteq server[w].taken
    BY ServerTypes
<1>2. 1 \in Token
    BY DataletBounds DEF Token
<1>3. PICK s : s = [state |-> "live", token |-> 1, taken |-> items, shown |-> {}]
    OBVIOUS
<1>4. /\ s \in ServerState /\ s.state = "live" /\ s.token = 1
      /\ s.taken = items /\ s.shown = {}
    BY <1>2, <1>3 DEF ServerState
<1>5. server' = [server EXCEPT ![v] = s] /\ server[v].state = "none"
    BY <1>3 DEF NewVault
<1> QED
    BY <1>1, <1>2, <1>4, <1>5

LEMMA ShowKeeps ==
    ASSUME Kept, NEW v \in Vault, NEW i \in Item, Show(v, i)
    PROVE  Kept'
<1>1. TypeOK /\ PageIsOpen /\ FlowsFit /\ OnlyMade
    BY DEF Kept, Always
<1>2. server \in [Vault -> ServerState] /\ \A w \in Vault : server[w].shown \subseteq server[w].taken
    BY <1>1, ServerTypes
<1>3. /\ UNCHANGED <<browser, flow, made, history, bounds>>
      /\ i \in server[v].taken
      /\ server' = [server EXCEPT ![v].shown = server[v].shown \cup {i}]
    BY DEF Show
<1>4. /\ server' \in [Vault -> ServerState]
      /\ \A w \in Vault : server'[w].shown \subseteq server'[w].taken
      /\ \A w \in Vault : /\ server'[w].state = server[w].state
                          /\ server'[w].token = server[w].token
                          /\ server'[w].taken = server[w].taken
  <2>1. PICK s \in ServerState : s = server[v]
      BY <1>2
  <2>2. PICK t : t = [s EXCEPT !.shown = s.shown \cup {i}]
      OBVIOUS
  <2>3. /\ t \in ServerState /\ t.state = s.state /\ t.token = s.token /\ t.taken = s.taken
        /\ t.shown = s.shown \cup {i}
      BY <2>1, <2>2 DEF ServerState
  <2>4. server' = [server EXCEPT ![v] = t]
      BY <1>3, <2>1, <2>2
  <2> QED
      BY <1>2, <1>3, <2>1, <2>3, <2>4
<1>5. TypeOK'
    BY <1>1, <1>3, <1>4 DEF TypeOK, ServerState, browser, history, bounds
<1>6. Quiet
    BY <1>1, <1>3, <1>4 DEF Quiet, OnlyMade, browser, history
<1>7. UNCHANGED <<registry, page, flow, hasty>> /\ "open" \in Kind
    BY <1>3 DEF browser, history, Kind
<1>8. FlowsFit'
  <2>1. StepsFit /\ VaultsFit /\ PairFits /\ RotateFits /\ EraseFits
      BY <1>1 DEF FlowsFit
  <2>2. StepsFit' /\ VaultsFit' /\ PairFits'
      BY <1>4, <1>7, <2>1 DEF StepsFit, VaultsFit, PairFits
  <2>3. RotateFits'
      BY <1>4, <1>7, <2>1 DEF RotateFits, VaultsFit, Kind
  <2>4. EraseFits'
      BY <1>7, <2>1 DEF EraseFits, HasEntry
  <2> QED
      BY <2>2, <2>3, <2>4 DEF FlowsFit
<1>9. ~doubled => FetchedIsListed' /\ CodeIsCurrent'
    BY <1>1, <1>4, <1>7 DEF Kept, Told, FlowsFit, VaultsFit, Kind,
       FetchedIsListed, Arriving, HasEntry, CodeIsCurrent, Holders
<1>10. StayAtHand
    BY <1>1, <1>4, <1>7, TokensStay
<1>11. ~doubled /\ ~hasty => LeftIsEmpty'
    BY <1>3 DEF Kept, Careful, LeftIsEmpty, OnItsWayOut, browser
<1> QED
    BY <1>5, <1>6, <1>7, <1>8, <1>9, <1>10, <1>11, QuietStep

\* The flow k ends, whatever it was.
LEMMA EndedKeeps ==
    ASSUME Kept, NEW k \in Kind, Ended(k),
           UNCHANGED <<browser, server, made, parted, doubled>>,
           hasty' \in BOOLEAN, ~hasty' => ~hasty /\ k # "rotate",
           gestures' \in 0 .. MaxGestures, faults' \in 0 .. MaxFaults
    PROVE  Kept'
<1>1. TypeOK /\ PageIsOpen /\ FlowsFit /\ OnlyMade
    BY DEF Kept, Always
<1>2. /\ flow' \in [Kind -> Flow] /\ flow'[k].step = "idle"
      /\ \A j \in Kind : j # k => flow'[j] = flow[j]
    BY <1>1, EndedType DEF TypeOK
<1>3. UNCHANGED <<registry, page, disk, outbox, server, made, parted, doubled>>
    BY DEF browser
<1>4. TypeOK'
    BY <1>1, <1>2, <1>3 DEF TypeOK
<1>5. Quiet
    BY <1>1, <1>3 DEF Quiet, OnlyMade
<1>6. FlowsFit'
    BY <1>1, <1>2, <1>3, FlowsGoOn
<1>7. ~doubled => FetchedIsListed' /\ CodeIsCurrent'
    BY <1>1, <1>2, <1>3, FlowsAsTold, ServerTypes DEF Kept
<1>8. ASSUME ~doubled, ~hasty'
      PROVE  ~hasty /\ StayAtHand /\ LeftIsEmpty'
  <2>1. ~hasty /\ k # "rotate"
      BY <1>8
  <2>2. StayAtHand
    <3>1. flow'["rotate"] = flow["rotate"]
        BY <1>2, <2>1 DEF Kind
    <3> QED
        BY <1>1, <1>3, <3>1, TokensStay
  <2>3. LeftIsEmpty'
    <3>1. LeftIsEmpty
        BY <1>8, <2>1 DEF Kept, Careful
    <3>2. OnItsWayOut' => OnItsWayOut
        BY <1>2 DEF OnItsWayOut, Kind
    <3> QED
        BY <1>3, <3>1, <3>2 DEF LeftIsEmpty
  <2> QED
      BY <2>1, <2>2, <2>3
<1> QED
    BY <1>3, <1>4, <1>5, <1>6, <1>7, <1>8, QuietStep

LEMMA GestureBounds ==
    ASSUME TypeOK
    PROVE  /\ Gesture => gestures' \in 0 .. MaxGestures /\ faults' \in 0 .. MaxFaults
           /\ Fault => gestures' \in 0 .. MaxGestures /\ faults' \in 0 .. MaxFaults
           /\ UNCHANGED bounds => gestures' \in 0 .. MaxGestures /\ faults' \in 0 .. MaxFaults
<1>1. MaxGestures \in Nat /\ MaxFaults \in Nat
    BY DataletBounds
<1> QED
    BY <1>1 DEF TypeOK, Gesture, Fault, bounds

LEMMA FetchRefusedKeeps ==
    ASSUME Kept, NEW k \in Kind, FetchRefused(k)
    PROVE  Kept'
<1>1. TypeOK
    BY DEF Kept, Always
<1>2. k # "rotate" /\ Ended(k) /\ UNCHANGED <<browser, server, made, history, bounds>>
    BY DEF FetchRefused, Fetching
<1> QED
    BY <1>1, <1>2, GestureBounds, EndedKeeps DEF TypeOK, history

LEMMA PairRefusedKeeps ==
    ASSUME Kept, PairRefused
    PROVE  Kept'
<1>1. TypeOK
    BY DEF Kept, Always
<1>2. "pair" \in Kind /\ Ended("pair") /\ UNCHANGED <<browser, server, made, history, bounds>>
    BY DEF PairRefused, Kind
<1> QED
    BY <1>1, <1>2, GestureBounds, EndedKeeps DEF TypeOK, history

LEMMA RequestFailsKeeps ==
    ASSUME Kept, NEW k \in Kind, RequestFails(k)
    PROVE  Kept'
<1>1. TypeOK
    BY DEF Kept, Always
<1>2. /\ Ended(k) /\ UNCHANGED <<browser, server, made, parted, doubled>>
      /\ Fault
    BY DEF RequestFails
<1>3. hasty' \in BOOLEAN /\ (~hasty' => ~hasty /\ k # "rotate")
    BY DEF RequestFails
<1> QED
    BY <1>1, <1>2, <1>3, GestureBounds, EndedKeeps

LEMMA FetchAgainKeeps ==
    ASSUME Kept, NEW k \in Kind, FetchAgain(k)
    PROVE  Kept'
<1>1. TypeOK /\ PageIsOpen /\ FlowsFit /\ OnlyMade
    BY DEF Kept, Always
<1>2. /\ k \in {"open", "add"} /\ flow[k].step = "fetch" /\ flow[k].tries < Budget
      /\ flow' = [flow EXCEPT ![k].tries = flow[k].tries + 1]
      /\ UNCHANGED <<browser, server, made, history, bounds>>
    BY DEF FetchAgain, Fetching, Unsettled
<1>3. /\ flow' \in [Kind -> Flow] /\ flow'[k].step = "fetch"
      /\ flow'[k].id = flow[k].id /\ flow'[k].vault = flow[k].vault
      /\ \A j \in Kind : j # k => flow'[j] = flow[j]
  <2>1. PICK f \in Flow : f = flow[k]
      BY <1>1 DEF TypeOK
  <2>2. f.tries + 1 \in 0 .. Budget
      BY <1>2, <2>1, DataletBounds DEF Flow
  <2>3. PICK g : g = [f EXCEPT !.tries = f.tries + 1]
      OBVIOUS
  <2>4. g \in Flow /\ g.step = f.step /\ g.id = f.id /\ g.vault = f.vault
      BY <2>1, <2>2, <2>3 DEF Flow
  <2>5. flow' = [flow EXCEPT ![k] = g]
      BY <1>2, <2>1, <2>3
  <2> QED
      BY <1>1, <1>2, <2>1, <2>4, <2>5 DEF TypeOK
<1>4. UNCHANGED <<registry, page, disk, outbox, server, made, parted, hasty, doubled>>
    BY <1>2 DEF browser, history
<1>5. TypeOK'
    BY <1>1, <1>2, <1>3, <1>4, GestureBounds DEF TypeOK
<1>6. Quiet
    BY <1>1, <1>4 DEF Quiet, OnlyMade
<1>7. flow[k].vault \in Vault /\ server[flow[k].vault].state # "none"
    BY <1>1, <1>2 DEF FlowsFit, VaultsFit
<1>8. FlowsFit'
    BY <1>1, <1>2, <1>3, <1>4, <1>7, FlowsGoOn
<1>9. ASSUME ~doubled
      PROVE  FetchedIsListed' /\ CodeIsCurrent'
  <2>1. Arriving(k)' => HasEntry(flow[k])'
    <3>1. PICK f : f = flow[k]
        OBVIOUS
    <3>2. Arriving(k) => HasEntry(f)
        BY <1>2, <1>9, <3>1 DEF Kept, Told, FetchedIsListed
    <3> QED
        BY <1>2, <1>3, <1>4, <3>1, <3>2 DEF Arriving, HasEntry
  <2> QED
      BY <1>1, <1>3, <1>4, <1>9, <2>1, FlowsAsTold, ServerTypes DEF Kept
<1>10. ASSUME ~doubled, ~hasty'
       PROVE  ~hasty /\ StayAtHand /\ LeftIsEmpty'
  <2>1. ~hasty
      BY <1>4, <1>10
  <2>2. StayAtHand
      BY <1>1, <1>2, <1>3, <1>4, TokensStay DEF Kind
  <2>3. LeftIsEmpty'
    <3>1. LeftIsEmpty
        BY <1>10, <2>1 DEF Kept, Careful
    <3>2. OnItsWayOut
        BY <1>2 DEF OnItsWayOut
    <3> QED
        BY <1>4, <3>1, <3>2 DEF LeftIsEmpty
  <2> QED
      BY <2>1, <2>2, <2>3
<1> QED
    BY <1>4, <1>5, <1>6, <1>8, <1>9, <1>10, QuietStep

\* What can be left holds nothing of its own.
LEMMA LeftWithNothing ==
    ASSUME TypeOK, PageIsOpen, CanLeave
    PROVE  /\ page.vault = NoVault => disk[Local] = {}
           /\ page.vault # NoVault => outbox[page.vault] = {}
    BY DEF CanLeave, PageIsOpen

LEMMA OpenKeeps ==
    ASSUME Kept, NEW e \in Range(registry.entries), Open(e)
    PROVE  Kept'
<1>1. TypeOK /\ PageIsOpen /\ FlowsFit /\ OnlyMade /\ HeldAreMade
    BY DEF Kept, Always
<1>2. /\ e.vault # NoVault /\ CanLeave /\ Gesture
      /\ Begun("open", "fetch", e.id, e.vault, e.token, FALSE)
      /\ UNCHANGED <<browser, server, made, history>>
    BY DEF Open
<1>3. PICK i \in Id, v \in Vault, t \in Token : i = e.id /\ v = e.vault /\ t = e.token
  <2>1. e \in Entry
      BY <1>1, EntriesDomain DEF TypeOK
  <2> QED
      BY <1>2, <2>1 DEF Entry
<1>4. server[v].state # "none"
    BY <1>1, <1>3 DEF HeldAreMade, Holders
<1>5. /\ flow' \in [Kind -> Flow] /\ flow'["open"].step = "fetch"
      /\ flow'["open"].id = i /\ flow'["open"].vault = v
      /\ \A j \in Kind : j # "open" => flow'[j] = flow[j]
      /\ "open" \in Kind
  <2>1. "open" \in Kind /\ flow \in [Kind -> Flow]
      BY <1>1 DEF Kind, TypeOK
  <2>2. Begun("open", "fetch", i, v, t, FALSE)
      BY <1>2, <1>3
  <2>3. i \in Id /\ v \in Vault \cup {NoVault} /\ t \in Token /\ FALSE \in BOOLEAN
      BY <1>3
  <2> QED
      BY <2>1, <2>2, <2>3, BegunType
<1>6. UNCHANGED <<registry, page, disk, outbox, server, made, parted, hasty, doubled>>
    BY <1>2 DEF browser, history
<1>7. TypeOK'
    BY <1>1, <1>2, <1>5, <1>6, GestureBounds DEF TypeOK
<1>8. Quiet
    BY <1>1, <1>6 DEF Quiet, OnlyMade
<1>9. FlowsFit'
    BY <1>1, <1>3, <1>4, <1>5, <1>6, FlowsGoOn
<1>10. ASSUME ~doubled
       PROVE  FetchedIsListed' /\ CodeIsCurrent'
  <2>1. HasEntry(flow["open"])'
      BY <1>3, <1>5, <1>6 DEF HasEntry
  <2> QED
      BY <1>1, <1>5, <1>6, <1>10, <2>1, FlowsAsTold, ServerTypes DEF Kept
<1>11. ASSUME ~doubled, ~hasty'
       PROVE  ~hasty /\ StayAtHand /\ LeftIsEmpty'
  <2>1. ~hasty
      BY <1>6, <1>11
  <2>2. StayAtHand
      BY <1>1, <1>5, <1>6, TokensStay DEF Kind
  <2>3. LeftIsEmpty'
      BY <1>1, <1>2, <1>6, LeftWithNothing DEF LeftIsEmpty
  <2> QED
      BY <2>1, <2>2, <2>3
<1> QED
    BY <1>6, <1>7, <1>8, <1>9, <1>10, <1>11, QuietStep

\* What an offer makes of the vaults.
OnlyNews(v) ==
    /\ server' \in [Vault -> ServerState]
    /\ \A w \in Vault : server'[w].shown \subseteq server'[w].taken
    /\ server'[v].state # "none" /\ server'[v].token \in Token
    /\ \A w \in Vault :
          /\ server[w].state # "none" => server'[w] = server[w]
          /\ server'[w].state = "none" => server'[w].taken = server[w].taken
          /\ server'[w].taken \subseteq made
          /\ server'[w].state = "erased" => server[w].state = "erased"

LEMMA NewsOfNew ==
    ASSUME TypeOK, OnlyMade, NEW v \in Vault, NEW items \in SUBSET Item,
           items \subseteq made, NewVault(v, items)
    PROVE  OnlyNews(v)
<1>1. \A w \in Vault : server[w].taken \subseteq made
    BY DEF OnlyMade
<1>2. /\ server' \in [Vault -> ServerState]
      /\ \A w \in Vault : server'[w].shown \subseteq server'[w].taken
      /\ server[v].state = "none" /\ server'[v].state = "live"
      /\ server'[v].taken = items /\ server'[v].token = 1 /\ 1 \in Token
      /\ \A w \in Vault : w # v => server'[w] = server[w]
    BY NewVaultIs
<1>3. ASSUME NEW w \in Vault
      PROVE  /\ server[w].state # "none" => server'[w] = server[w]
             /\ server'[w].state = "none" => server'[w].taken = server[w].taken
             /\ server'[w].taken \subseteq made
             /\ server'[w].state = "erased" => server[w].state = "erased"
    BY <1>1, <1>2
<1> QED
    BY <1>2, <1>3 DEF OnlyNews

LEMMA NewsOfOld ==
    ASSUME TypeOK, OnlyMade, NEW v \in Vault, server[v].state # "none", UNCHANGED server
    PROVE  OnlyNews(v)
<1>1. /\ server \in [Vault -> ServerState]
      /\ \A w \in Vault : server[w].shown \subseteq server[w].taken
      /\ \A w \in Vault : server[w].taken \subseteq made
    BY ServerTypes DEF OnlyMade
<1>2. server[v].token \in Token
    BY <1>1 DEF ServerState
<1> QED
    BY <1>1, <1>2 DEF OnlyNews

LEMMA NewsOfOffer ==
    ASSUME TypeOK, OnlyMade, NEW v \in Vault, Offered(v)
    PROVE  OnlyNews(v)
<1>1. \A w \in Vault : server[w].taken \subseteq made /\ server[w].taken \in SUBSET Item
    BY DEF OnlyMade, TypeOK
<1>2. CASE NewVault(v, {})
    BY <1>2, NewsOfNew
<1>3. CASE \E w \in Vault : server[w].state = "live" /\ NewVault(v, server[w].taken)
    BY <1>1, <1>3, NewsOfNew
<1>4. CASE server[v].state # "none" /\ UNCHANGED server
    BY <1>4, NewsOfOld
<1> QED
    BY <1>2, <1>3, <1>4 DEF Offered

\* A gesture that asks the vault v for something, in the flow k.
LEMMA AskedKeeps ==
    ASSUME Kept, NEW k \in {"add", "pair"}, NEW step \in {"asked", "fetch"},
           NEW v \in Vault, NEW t, t = server'[v].token, NEW c \in BOOLEAN,
           OnlyNews(v), Begun(k, step, Idle.id, v, t, c), Gesture,
           UNCHANGED <<browser, made, history>>,
           k = "add" => step = "asked" /\ CanLeave,
           k = "pair" => step = "fetch" /\ page.vault = NoVault
    PROVE  Kept'
<1>1. TypeOK /\ PageIsOpen /\ FlowsFit /\ OnlyMade
    BY DEF Kept, Always
<1>2. UNCHANGED <<registry, page, disk, outbox, made, parted, hasty, doubled>>
    BY DEF browser, history
<1>3. /\ server' \in [Vault -> ServerState]
      /\ \A w \in Vault : server'[w].shown \subseteq server'[w].taken
      /\ server'[v].state # "none" /\ t \in Token
      /\ \A w \in Vault : server[w].state # "none" => server'[w] = server[w]
    BY DEF OnlyNews
<1>4. /\ flow' \in [Kind -> Flow] /\ flow'[k].step = step
      /\ flow'[k].vault = v /\ flow'[k].token = t
      /\ \A j \in Kind : j # k => flow'[j] = flow[j]
      /\ k \in Kind
  <2>1. k \in Kind /\ flow \in [Kind -> Flow]
      BY <1>1 DEF Kind, TypeOK
  <2>2. v \in Vault \cup {NoVault} /\ t \in Token
      BY <1>3
  <2> QED
      BY <2>1, <2>2, IdleType, BegunType
<1>5. TypeOK'
    BY <1>1, <1>2, <1>3, <1>4, GestureBounds DEF TypeOK, ServerState
<1>6. Quiet
    BY <1>1, <1>2 DEF Quiet, OnlyNews
<1>7. FlowsFit'
    BY <1>1, <1>2, <1>3, <1>4, FlowsGoOn
<1>8. ASSUME ~doubled
      PROVE  FetchedIsListed' /\ CodeIsCurrent'
  <2>1. \A w \in Vault : server[w].state # "none" =>
            /\ server'[w].state \in {server[w].state, "erased"}
            /\ server'[w].token = server[w].token
      BY <1>3
  <2> QED
      BY <1>1, <1>2, <1>4, <1>8, <2>1, FlowsAsTold DEF Kept
<1>9. ASSUME ~doubled, ~hasty'
      PROVE  ~hasty /\ StayAtHand /\ LeftIsEmpty'
  <2>1. ~hasty
      BY <1>2, <1>9
  <2>2. StayAtHand
    <3>1. flow'["rotate"] = flow["rotate"]
        BY <1>4 DEF Kind
    <3>2. \A w \in Vault : server[w].state = "live" =>
              server'[w].state \in {"live", "erased"} /\ server'[w].token = server[w].token
        BY <1>3
    <3> QED
        BY <1>1, <1>2, <3>1, <3>2, TokensStay
  <2>3. LeftIsEmpty'
    <3>1. CASE k = "add"
        BY <1>1, <1>2, <3>1, LeftWithNothing DEF LeftIsEmpty
    <3>2. CASE k = "pair"
      <4>1. LeftIsEmpty
          BY <1>9, <2>1 DEF Kept, Careful
      <4>2. OnItsWayOut' => OnItsWayOut
          BY <1>4, <3>2 DEF OnItsWayOut, Kind
      <4> QED
          BY <1>2, <4>1, <4>2 DEF LeftIsEmpty
    <3> QED
        BY <3>1, <3>2
  <2> QED
      BY <2>1, <2>2, <2>3
<1> QED
    BY <1>2, <1>5, <1>6, <1>7, <1>8, <1>9, QuietStep

LEMMA AddKeeps ==
    ASSUME Kept, NEW v \in Vault, Add(v)
    PROVE  Kept'
<1>1. TypeOK /\ OnlyMade
    BY DEF Kept, Always
<1>2. PICK t : t = server'[v].token
    OBVIOUS
<1>3. /\ Gesture /\ CanLeave /\ Offered(v)
      /\ Begun("add", "asked", Idle.id, v, t, FALSE)
      /\ UNCHANGED <<browser, made, history>>
    BY <1>2 DEF Add
<1> QED
    BY <1>1, <1>2, <1>3, NewsOfOffer, AskedKeeps

LEMMA PairBeginsKeeps ==
    ASSUME Kept, NEW v \in Vault, NEW created \in BOOLEAN, PairBegins(v, created)
    PROVE  Kept'
<1>1. TypeOK /\ OnlyMade
    BY DEF Kept, Always
<1>2. PICK t : t = server'[v].token
    OBVIOUS
<1>3. /\ Gesture /\ page.vault = NoVault
      /\ Begun("pair", "fetch", Idle.id, v, t, created)
      /\ UNCHANGED <<browser, made, history>>
    BY <1>2 DEF PairBegins
<1>4. OnlyNews(v)
  <2>1. CASE created
      BY <1>1, <2>1, NewsOfNew DEF PairBegins
  <2>2. CASE ~created
      BY <1>1, <2>2, NewsOfOld DEF PairBegins
  <2> QED
      BY <2>1, <2>2
<1> QED
    BY <1>2, <1>3, <1>4, AskedKeeps

LEMMA RotateKeeps ==
    ASSUME Kept, Rotate
    PROVE  Kept'
<1>1. TypeOK /\ PageIsOpen /\ FlowsFit /\ OnlyMade /\ HeldAreMade
    BY DEF Kept, Always
<1>2. server \in [Vault -> ServerState] /\ \A w \in Vault : server[w].shown \subseteq server[w].taken
    BY <1>1, ServerTypes
<1>3. PICK v \in Vault : v = page.vault
    BY <1>1, PageFacts DEF Rotate
<1>4. PICK t : t = server[v].token + 1
    OBVIOUS
<1>5. /\ Gesture /\ flow["rotate"].step = "idle"
      /\ server[v].state = "live" /\ server[v].token < MaxToken
      /\ server' = [server EXCEPT ![v].token = t]
      /\ Begun("rotate", "asked", Idle.id, v, t, FALSE)
      /\ UNCHANGED <<browser, made, history>>
    BY <1>3, <1>4 DEF Rotate, Answers
<1>6. t \in Token
  <2>1. server[v].token \in Nat
      BY <1>2, DataletBounds DEF ServerState, Token
  <2> QED
      BY <1>4, <1>5, <2>1, DataletBounds DEF Token
<1>7. /\ server' \in [Vault -> ServerState]
      /\ \A w \in Vault : server'[w].shown \subseteq server'[w].taken
      /\ server'[v].token = t
      /\ \A w \in Vault : /\ server'[w].state = server[w].state
                          /\ server'[w].taken = server[w].taken
                          /\ w # v => server'[w].token = server[w].token
  <2>1. PICK s \in ServerState : s = server[v]
      BY <1>2
  <2>2. PICK r : r = [s EXCEPT !.token = t]
      OBVIOUS
  <2>3. /\ r \in ServerState /\ r.state = s.state /\ r.token = t
        /\ r.taken = s.taken /\ r.shown = s.shown
      BY <1>6, <2>1, <2>2 DEF ServerState
  <2>4. server' = [server EXCEPT ![v] = r]
      BY <1>5, <2>1, <2>2
  <2> QED
      BY <1>2, <2>1, <2>3, <2>4
<1>8. UNCHANGED <<registry, page, disk, outbox, made, parted, hasty, doubled>>
    BY <1>5 DEF browser, history
<1>9. /\ flow' \in [Kind -> Flow] /\ flow'["rotate"].step = "asked"
      /\ flow'["rotate"].vault = v /\ flow'["rotate"].token = t
      /\ \A j \in Kind : j # "rotate" => flow'[j] = flow[j]
      /\ "rotate" \in Kind
  <2>1. "rotate" \in Kind /\ flow \in [Kind -> Flow]
      BY <1>1 DEF Kind, TypeOK
  <2>2. PICK id \in Id, c \in BOOLEAN : id = Idle.id /\ c = FALSE
      BY IdleType
  <2>3. Begun("rotate", "asked", id, v, t, c)
      BY <1>5, <2>2
  <2> QED
      BY <1>6, <2>1, <2>2, <2>3, BegunType
<1>10. TypeOK'
    BY <1>1, <1>5, <1>7, <1>8, <1>9, GestureBounds DEF TypeOK, ServerState
<1>11. Quiet
    BY <1>1, <1>7, <1>8 DEF Quiet, OnlyMade
<1>12. Holders(v) # {}
  <2>1. ActiveEntry(registry) \in Range(registry.entries)
        /\ ActiveEntry(registry).vault = v
      BY <1>1, <1>3, ActiveIsListed DEF PageIsOpen
  <2> QED
      BY <2>1 DEF Holders
<1>13. FlowsFit'
  <2>1. server'[v].state # "none"
      BY <1>5, <1>7
  <2>2. \A w \in Vault : server[w].state # "none" => server'[w].state # "none"
      BY <1>7
  <2> QED
      BY <1>1, <1>3, <1>7, <1>8, <1>9, <2>1, <2>2, FlowsGoOn
<1>14. ASSUME ~doubled
       PROVE  FetchedIsListed' /\ CodeIsCurrent'
  <2>1. \A w \in Vault : server[w].state # "none" =>
            /\ server'[w].state \in {server[w].state, "erased"}
            /\ server'[w].token = server[w].token \/ Holders(w) # {}
      BY <1>7, <1>12
  <2> QED
      BY <1>1, <1>8, <1>9, <1>14, <2>1, FlowsAsTold DEF Kept
<1>15. ASSUME ~doubled, ~hasty'
       PROVE  ~hasty /\ StayAtHand /\ LeftIsEmpty'
  <2>1. ~hasty
      BY <1>8, <1>15
  <2>2. StayAtHand
    <3>1. \A w \in Vault : Holders(w)' = Holders(w)
        BY <1>1, <1>8, SameBook
    <3>2. ASSUME NEW w \in Vault, AtHand(w)
          PROVE  AtHand(w)'
      <4>1. CASE w = v
          BY <1>7, <1>9, <3>2, <4>1 DEF AtHand
      <4>2. CASE w # v
          BY <1>5, <1>7, <3>1, <3>2, <4>2 DEF AtHand
      <4> QED
          BY <4>1, <4>2
    <3> QED
        BY <3>2 DEF StayAtHand
  <2>3. LeftIsEmpty'
    <3>1. LeftIsEmpty
        BY <1>15, <2>1 DEF Kept, Careful
    <3>2. OnItsWayOut' => OnItsWayOut
        BY <1>9 DEF OnItsWayOut, Kind
    <3> QED
        BY <1>8, <3>1, <3>2 DEF LeftIsEmpty
  <2> QED
      BY <2>1, <2>2, <2>3
<1> QED
    BY <1>8, <1>10, <1>11, <1>13, <1>14, <1>15, QuietStep

\* What a request to erase a vault makes of it.
OnlyErased ==
    /\ server' \in [Vault -> ServerState]
    /\ parted \subseteq parted' /\ parted' \subseteq made
    /\ \A w \in Vault :
          /\ server'[w].state \in {server[w].state, "erased"}
          /\ server'[w].token = server[w].token
          /\ server'[w].taken = server[w].taken
          /\ server'[w].shown = server[w].shown
          /\ server'[w].state = "erased" /\ server[w].state # "erased" =>
                server[w].state = "live" /\ server[w].taken \cup outbox[w] \subseteq parted'

LEMMA ErasesOrNot ==
    ASSUME TypeOK, OnlyMade, NEW v \in Vault, NEW t,
           Erases(v, t) \/ UNCHANGED <<server, parted>>
    PROVE  OnlyErased
<1>1. /\ server \in [Vault -> ServerState] /\ parted \subseteq made
      /\ \A w \in Vault : server[w].taken \cup outbox[w] \subseteq made
    BY ServerTypes DEF OnlyMade, TypeOK
<1>2. CASE UNCHANGED <<server, parted>>
    BY <1>1, <1>2 DEF OnlyErased
<1>3. CASE Answers(v, t) /\ Erases(v, t)
  <2>1. PICK s \in ServerState : s = server[v]
      BY <1>1
  <2>2. PICK r : r = [s EXCEPT !.state = "erased"]
      OBVIOUS
  <2>3. /\ r \in ServerState /\ r.state = "erased" /\ r.token = s.token
        /\ r.taken = s.taken /\ r.shown = s.shown
      BY <2>1, <2>2 DEF ServerState
  <2>4. server' = [server EXCEPT ![v] = r] /\ server[v].state = "live"
      BY <1>3, <2>1, <2>2 DEF Erases, Answers
  <2>5. parted' = parted \cup (made \cap (server[v].taken \cup outbox[v]))
      BY <1>3 DEF Erases
  <2>6. ASSUME NEW w \in Vault
        PROVE  /\ server'[w].state \in {server[w].state, "erased"}
               /\ server'[w].token = server[w].token
               /\ server'[w].taken = server[w].taken
               /\ server'[w].shown = server[w].shown
               /\ server'[w].state = "erased" /\ server[w].state # "erased" =>
                    server[w].state = "live" /\ server[w].taken \cup outbox[w] \subseteq parted'
    <3>1. CASE w = v
        BY <1>1, <2>1, <2>3, <2>4, <2>5, <3>1
    <3>2. CASE w # v
        BY <1>1, <2>4, <3>2
    <3> QED
        BY <3>1, <3>2
  <2>7. server' \in [Vault -> ServerState]
      BY <1>1, <2>3, <2>4
  <2>8. parted \subseteq parted' /\ parted' \subseteq made
      BY <1>1, <2>5
  <2> QED
      BY <2>6, <2>7, <2>8 DEF OnlyErased
<1> QED
    BY <1>2, <1>3 DEF Erases

\* A request to erase a vault that comes to its end: the vault may be gone or not.
LEMMA UnansweredKeeps ==
    ASSUME Kept, OnlyErased, UNCHANGED <<registry, page, disk, outbox, made, hasty, doubled>>,
           gestures' \in 0 .. MaxGestures, faults' \in 0 .. MaxFaults,
           flow' \in [Kind -> Flow], flow'["erase"].step = "idle",
           \A j \in Kind : j # "erase" => flow'[j] = flow[j]
    PROVE  Kept'
<1>1. TypeOK /\ PageIsOpen /\ FlowsFit /\ OnlyMade
    BY DEF Kept, Always
<1>3. OnlyErased
    OBVIOUS
<1>4. /\ flow' \in [Kind -> Flow] /\ flow'["erase"].step = "idle"
      /\ \A j \in Kind : j # "erase" => flow'[j] = flow[j]
      /\ "erase" \in Kind
    BY DEF Kind
<1>5. UNCHANGED <<registry, page, disk, outbox, made, hasty, doubled>>
    OBVIOUS
<1>6. TypeOK'
  <2>1. \A w \in Vault : server'[w].shown \subseteq server'[w].taken
      BY <1>1, <1>3 DEF OnlyErased, TypeOK
  <2> QED
      BY <1>1, <1>3, <1>4, <1>5, <2>1 DEF TypeOK, OnlyErased, ServerState
<1>7. Quiet
    BY <1>1, <1>3, <1>5 DEF Quiet, OnlyErased, OnlyMade
<1>8. \A w \in Vault : server[w].state # "none" =>
          /\ server'[w].state # "none"
          /\ server'[w].state \in {server[w].state, "erased"}
          /\ server'[w].token = server[w].token
    BY <1>3 DEF OnlyErased
<1>9. FlowsFit'
    BY <1>1, <1>4, <1>5, <1>8, FlowsGoOn
<1>10. ~doubled => FetchedIsListed' /\ CodeIsCurrent'
    BY <1>1, <1>4, <1>5, <1>8, FlowsAsTold DEF Kept
<1>11. ASSUME ~doubled, ~hasty'
       PROVE  ~hasty /\ StayAtHand /\ LeftIsEmpty'
  <2>1. ~hasty
      BY <1>5, <1>11
  <2>2. StayAtHand
    <3>1. flow'["rotate"] = flow["rotate"]
        BY <1>4 DEF Kind
    <3>2. \A w \in Vault : server[w].state = "live" =>
              server'[w].state \in {"live", "erased"} /\ server'[w].token = server[w].token
        BY <1>8
    <3> QED
        BY <1>1, <1>5, <3>1, <3>2, TokensStay
  <2>3. LeftIsEmpty'
    <3>1. LeftIsEmpty
        BY <1>11, <2>1 DEF Kept, Careful
    <3>2. OnItsWayOut' => OnItsWayOut
        BY <1>4 DEF OnItsWayOut, Kind
    <3> QED
        BY <1>5, <3>1, <3>2 DEF LeftIsEmpty
  <2> QED
      BY <2>1, <2>2, <2>3
<1> QED
    BY <1>5, <1>6, <1>7, <1>9, <1>10, <1>11, QuietStep

LEMMA EraseUnansweredKeeps ==
    ASSUME Kept, EraseUnanswered
    PROVE  Kept'
<1>1. TypeOK /\ FlowsFit /\ OnlyMade
    BY DEF Kept, Always
<1>2. /\ Fault /\ Ended("erase") /\ UNCHANGED <<browser, made, hasty, doubled>>
      /\ flow["erase"].step = "asked"
    BY DEF EraseUnanswered
<1>3. OnlyErased
  <2>1. flow["erase"].vault \in Vault
      BY <1>1, <1>2 DEF FlowsFit, VaultsFit, Kind
  <2> QED
      BY <1>1, <2>1, ErasesOrNot DEF EraseUnanswered
<1>4. /\ flow' \in [Kind -> Flow] /\ flow'["erase"].step = "idle"
      /\ \A j \in Kind : j # "erase" => flow'[j] = flow[j]
    BY <1>1, <1>2, EndedType DEF TypeOK, Kind
<1>5. UNCHANGED <<registry, page, disk, outbox, made, hasty, doubled>>
    BY <1>2 DEF browser
<1>6. gestures' \in 0 .. MaxGestures /\ faults' \in 0 .. MaxFaults
    BY <1>1, <1>2, GestureBounds
<1> QED
    BY <1>3, <1>4, <1>5, <1>6, UnansweredKeeps

\* An item sent goes from the queue to the vault.
LEMMA SendKeeps ==
    ASSUME Kept, NEW i \in Item, Send(i)
    PROVE  Kept'
<1>1. TypeOK /\ PageIsOpen /\ FlowsFit /\ HeldAreMade
      /\ OnlyMade /\ CopiesOfVaults /\ ErasedIsGivenUp
    BY DEF Kept, Always
<1>2. PICK v \in Vault : v = page.vault
    BY <1>1, PageFacts DEF Send
<1>3. /\ i \in outbox[v] /\ server[v].state = "live"
      /\ outbox' = [outbox EXCEPT ![v] = outbox[v] \ {i}]
      /\ server' = [server EXCEPT ![v].taken = server[v].taken \cup {i}]
      /\ UNCHANGED <<registry, page, disk, flow, made, history, bounds>>
    BY <1>2 DEF Send, Answers
<1>4. server \in [Vault -> ServerState] /\ \A w \in Vault : server[w].shown \subseteq server[w].taken
    BY <1>1, ServerTypes
<1>5. /\ server' \in [Vault -> ServerState]
      /\ \A w \in Vault :
            /\ server'[w].shown \subseteq server'[w].taken
            /\ server'[w].state = server[w].state /\ server'[w].token = server[w].token
            /\ server'[w].taken = IF w = v THEN server[w].taken \cup {i} ELSE server[w].taken
  <2>1. PICK s \in ServerState : s = server[v]
      BY <1>4
  <2>2. PICK t : t = [s EXCEPT !.taken = s.taken \cup {i}]
      OBVIOUS
  <2>3. /\ t \in ServerState /\ t.state = s.state /\ t.token = s.token
        /\ t.taken = s.taken \cup {i} /\ t.shown = s.shown
      BY <2>1, <2>2 DEF ServerState
  <2>4. server' = [server EXCEPT ![v] = t]
      BY <1>3, <2>1, <2>2
  <2> QED
      BY <1>4, <2>1, <2>3, <2>4
<1>6. /\ outbox' \in [Vault -> SUBSET Item]
      /\ \A w \in Vault :
            outbox'[w] = IF w = v THEN outbox[w] \ {i} ELSE outbox[w]
    BY <1>1, <1>3 DEF TypeOK
<1>7. \A w \in Vault : server'[w].taken \cup outbox'[w] = server[w].taken \cup outbox[w]
  <2>1. ASSUME NEW w \in Vault
        PROVE  server'[w].taken \cup outbox'[w] = server[w].taken \cup outbox[w]
    <3>1. CASE w = v
        BY <1>3, <1>5, <1>6, <3>1
    <3>2. CASE w # v
        BY <1>5, <1>6, <3>2
    <3> QED
        BY <3>1, <3>2
  <2> QED
      BY <2>1
<1>8. UNCHANGED <<registry, page, disk, flow, made, parted, hasty, doubled>>
    BY <1>3 DEF history
<1>9. TypeOK'
    BY <1>1, <1>3, <1>5, <1>6, <1>8 DEF TypeOK, ServerState, bounds
<1>10. /\ PageIsOpen'
       /\ \A w \in Vault : Holders(w)' = Holders(w)
       /\ \A f : HasEntry(f)' <=> HasEntry(f)
       /\ IdsDiffer' <=> IdsDiffer
       /\ OpenIsShown' <=> OpenIsShown
    BY <1>1, <1>8, SameBook
<1>11. FlowsFit'
  <2>1. StepsFit /\ VaultsFit /\ PairFits /\ RotateFits /\ EraseFits
      BY <1>1 DEF FlowsFit
  <2>2. StepsFit' /\ VaultsFit' /\ PairFits'
      BY <1>5, <1>8, <2>1 DEF StepsFit, VaultsFit, PairFits
  <2>3. RotateFits'
      BY <1>2, <1>5, <1>8, <2>1 DEF RotateFits
  <2>4. EraseFits'
      BY <1>8, <2>1 DEF EraseFits, HasEntry
  <2> QED
      BY <2>2, <2>3, <2>4 DEF FlowsFit
<1>12. HeldAreMade'
    BY <1>1, <1>3, <1>5, <1>10 DEF HeldAreMade
<1>13. OnlyMade' /\ CopiesOfVaults' /\ ErasedIsGivenUp'
  <2>1. OnlyMade'
      BY <1>1, <1>7, <1>8 DEF OnlyMade
  <2>2. CopiesOfVaults'
      BY <1>1, <1>7, <1>8 DEF CopiesOfVaults
  <2>3. ErasedIsGivenUp'
      BY <1>1, <1>5, <1>7, <1>8 DEF ErasedIsGivenUp
  <2> QED
      BY <2>1, <2>2, <2>3
<1>14. ASSUME ~doubled'
       PROVE  Told'
  <2>1. Told
      BY <1>8, <1>14 DEF Kept
  <2>2. OneIsHere' /\ NothingAside'
      BY <1>8, <2>1 DEF Told, OneIsHere, NothingAside
  <2>3. FetchedIsListed' /\ CodeIsCurrent'
      BY <1>1, <1>5, <1>8, <2>1 DEF Told, FlowsFit, VaultsFit, Kind,
         FetchedIsListed, Arriving, HasEntry, CodeIsCurrent, Holders
  <2> QED
      BY <1>10, <2>1, <2>2, <2>3 DEF Told
<1>15. ASSUME ~doubled', ~hasty'
       PROVE  Careful'
  <2>1. Careful
      BY <1>8, <1>15 DEF Kept
  <2>2. QueuedIsHere'
      BY <1>2, <1>6, <1>8, <2>1 DEF Careful, QueuedIsHere
  <2>3. LeftIsEmpty'
      BY <1>8, <2>1 DEF Careful, LeftIsEmpty, OnItsWayOut
  <2>4. \A w \in Vault : AtHand(w)' <=> AtHand(w)
      BY <1>5, <1>8, <1>10 DEF AtHand
  <2>5. LiveIsAtHand'
      BY <1>5, <1>10, <2>1, <2>4 DEF Careful, LiveIsAtHand
  <2>6. WorkIsKept'
      BY <1>7, <1>8, <2>1, <2>4 DEF Careful, WorkIsKept, GraphOf
  <2> QED
      BY <2>2, <2>3, <2>5, <2>6 DEF Careful
<1> QED
    BY <1>9, <1>10, <1>11, <1>12, <1>13, <1>14, <1>15 DEF Kept, Always

\* What is evicted is what is open.
LEMMA LeftIs ==
    ASSUME TypeOK, PageIsOpen, NEW k \in Kind
    PROVE  /\ Left(k) \in [Graph -> SUBSET Item]
           /\ \A g \in Graph : Left(k)[g] \subseteq disk[g]
           /\ ActiveEntry(registry).id = flow[k].id => Left(k) = disk
           /\ ActiveEntry(registry).id # flow[k].id =>
                Left(k)[GraphOf(page)] = {}
<1>1. GraphOf(page) \in Graph /\ GraphOf(ActiveEntry(registry)) = GraphOf(page)
    BY PageFacts
<1>2. disk \in [Graph -> SUBSET Item]
    BY DEF TypeOK
<1> QED
    BY <1>1, <1>2 DEF Left

LEMMA ArrivesInvalidKeeps ==
    ASSUME Kept, NEW k \in Kind, ArrivesInvalid(k)
    PROVE  Kept'
<1>1. TypeOK /\ PageIsOpen /\ FlowsFit /\ HeldAreMade
      /\ OnlyMade /\ CopiesOfVaults /\ ErasedIsGivenUp
    BY DEF Kept, Always
<1>2. /\ Fault /\ disk' = Left(k) /\ Ended(k) /\ hasty'
      /\ UNCHANGED <<registry, page, outbox, server, made, parted, doubled>>
    BY DEF ArrivesInvalid
<1>3. /\ disk' \in [Graph -> SUBSET Item]
      /\ \A g \in Graph : disk'[g] \subseteq disk[g]
    BY <1>1, <1>2, LeftIs
<1>4. /\ flow' \in [Kind -> Flow] /\ flow'[k].step = "idle"
      /\ \A j \in Kind : j # k => flow'[j] = flow[j]
    BY <1>1, <1>2, EndedType DEF TypeOK
<1>5. TypeOK'
  <2>1. hasty' \in BOOLEAN
      BY DEF ArrivesInvalid
  <2> QED
      BY <1>1, <1>2, <1>3, <1>4, <2>1, GestureBounds DEF TypeOK
<1>6. /\ PageIsOpen'
      /\ \A w \in Vault : Holders(w)' = Holders(w)
      /\ IdsDiffer' <=> IdsDiffer
      /\ OpenIsShown' <=> OpenIsShown
    BY <1>1, <1>2, SameBook
<1>7. FlowsFit'
    BY <1>1, <1>2, <1>4, FlowsGoOn
<1>8. Local \in Graph /\ Vault \subseteq Graph
    BY DEF Graph
<1>9. HeldAreMade' /\ OnlyMade' /\ CopiesOfVaults' /\ ErasedIsGivenUp'
  <2>1. HeldAreMade'
      BY <1>1, <1>2, <1>6 DEF HeldAreMade
  <2>2. OnlyMade'
      BY <1>1, <1>2, <1>3, <1>8 DEF OnlyMade
  <2>3. CopiesOfVaults'
      BY <1>1, <1>2, <1>3, <1>8 DEF CopiesOfVaults
  <2>4. ErasedIsGivenUp'
      BY <1>1, <1>2 DEF ErasedIsGivenUp
  <2> QED
      BY <2>1, <2>2, <2>3, <2>4
<1>10. ASSUME ~doubled'
       PROVE  Told'
  <2>1. Told
      BY <1>2, <1>10 DEF Kept
  <2>2. OneIsHere' /\ NothingAside'
      BY <1>2, <1>3, <1>8, <2>1 DEF Told, OneIsHere, NothingAside
  <2>3. FetchedIsListed' /\ CodeIsCurrent'
      BY <1>1, <1>2, <1>4, <2>1, FlowsAsTold, ServerTypes
  <2> QED
      BY <1>6, <2>1, <2>2, <2>3 DEF Told
<1> QED
    BY <1>2, <1>5, <1>6, <1>7, <1>9, <1>10 DEF Kept, Always

-----------------------------------------------------------------------------
(* Steps that load the page again. *)

\* The entries of vaults are of vaults that were made.
HeldExist(reg) ==
    \A f \in Range(reg.entries) : f.vault \in Vault => server[f.vault].state # "none"

LEMMA ReloadKeeps ==
    ASSUME Kept, NEW reg, Sound(reg), NEW k, Reload(reg, k), UNCHANGED <<server, made>>,
           disk' \in [Graph -> SUBSET Item], outbox' \in [Vault -> SUBSET Item],
           parted \subseteq parted', parted' \subseteq made,
           gestures' \in 0 .. MaxGestures, faults' \in 0 .. MaxFaults,
           HeldExist(reg), OnlyMade', CopiesOfVaults',
           \A v \in Vault : server[v].state = "erased" => outbox'[v] \subseteq parted',
           ~doubled => Apart(reg.entries) /\ OpenIsShown' /\ OneIsHere' /\ NothingAside',
           ~doubled /\ ~hasty' => QueuedIsHere' /\ LiveIsAtHand' /\ WorkIsKept'
    PROVE  Kept'
<1>1. TypeOK /\ PageIsOpen /\ HeldAreMade /\ ErasedIsGivenUp
    BY DEF Kept, Always
<1>2. /\ registry' = reg /\ registry' \in [active : Id, entries : Seq(Entry)]
      /\ page' \in [vault : Vault \cup {NoVault}, token : Token]
      /\ PageIsOpen'
      /\ flow' \in [Kind -> Flow] /\ \A j \in Kind : flow'[j].step = "idle"
      /\ FlowsFit'
      /\ hasty' \in BOOLEAN /\ doubled' = doubled
    BY <1>1, ReloadOpens DEF TypeOK
<1>3. TypeOK'
    BY <1>1, <1>2 DEF TypeOK
<1>4. HeldAreMade'
  <2>1. ASSUME NEW v \in Vault, server[v].state = "none", NEW f \in Range(reg.entries),
               f.vault = v
        PROVE  FALSE
      BY <2>1 DEF HeldExist
  <2> QED
      BY <1>1, <1>2, <2>1 DEF HeldAreMade, Holders
<1>5. ErasedIsGivenUp'
    BY <1>1 DEF ErasedIsGivenUp
<1>6. ~doubled' => Told'
  <2>1. Apart(reg.entries) => IdsDiffer'
      BY <1>2 DEF Apart, IdsDiffer
  <2>2. FetchedIsListed' /\ CodeIsCurrent'
      BY <1>2 DEF FetchedIsListed, Arriving, CodeIsCurrent, Kind
  <2> QED
      BY <1>2, <2>1, <2>2 DEF Told
<1>7. LeftIsEmpty'
    BY <1>2 DEF LeftIsEmpty, OnItsWayOut, Kind
<1> QED
    BY <1>2, <1>3, <1>4, <1>5, <1>6, <1>7 DEF Kept, Always, Careful

\* A vault whose token an entry still holds is at hand after a reload.
LEMMA HeldIsAtHand ==
    ASSUME NEW reg, NEW k, Reload(reg, k), UNCHANGED server, NEW v \in Vault,
           server[v].state = "live",
           \E f \in Range(reg.entries) : f.vault = v /\ f.token = server[v].token
    PROVE  AtHand(v)'
<1>1. registry' = reg
    BY DEF Reload
<1> QED
    BY <1>1 DEF AtHand, Holders

\* Without a rotation under way, it is an entry that holds the token.
LEMMA HeldByEntry ==
    ASSUME NEW reg, NEW k, Reload(reg, k), k # "rotate", ~hasty', NEW v \in Vault, AtHand(v)
    PROVE  \E e \in Range(registry.entries) : e.vault = v /\ e.token = server[v].token
<1>1. flow["rotate"].step = "idle"
    BY DEF Reload
<1> QED
    BY <1>1 DEF AtHand, Holders

\* What is open, of a vault, is with that vault, too.
LEMMA OpenIsElsewhere ==
    ASSUME Kept, ~doubled, ~hasty, page.vault # NoVault,
           NEW i \in made \ parted, i \in disk[GraphOf(page)] \cup disk[Local]
    PROVE  page.vault \in Vault /\ AtHand(page.vault)
           /\ i \in server[page.vault].taken \cup outbox[page.vault]
<1>1. /\ TypeOK /\ PageIsOpen /\ HeldAreMade /\ CopiesOfVaults /\ ErasedIsGivenUp
      /\ NothingAside /\ LiveIsAtHand
    BY DEF Kept, Always, Told, Careful
<1>2. /\ page.vault \in Vault /\ GraphOf(page) = page.vault
      /\ page.vault = ActiveEntry(registry).vault
    BY <1>1, PageFacts
<1>3. i \in disk[page.vault]
    BY <1>1, <1>2 DEF NothingAside
<1>4. i \in server[page.vault].taken \cup outbox[page.vault]
    BY <1>1, <1>2, <1>3 DEF CopiesOfVaults
<1>5. Holders(page.vault) # {}
  <2>1. ActiveEntry(registry) \in Range(registry.entries)
      BY <1>1, ActiveIsListed DEF PageIsOpen
  <2> QED
      BY <1>2, <2>1 DEF Holders
<1>6. server[page.vault].state = "live"
    BY <1>1, <1>2, <1>4, <1>5, ServerTypes DEF HeldAreMade, ErasedIsGivenUp
<1> QED
    BY <1>1, <1>2, <1>4, <1>5, <1>6 DEF LiveIsAtHand

LEMMA ClosePageKeeps ==
    ASSUME Kept, ClosePage
    PROVE  Kept'
<1>1. TypeOK /\ PageIsOpen /\ HeldAreMade
      /\ OnlyMade /\ CopiesOfVaults /\ ErasedIsGivenUp
    BY DEF Kept, Always
<1>2. PICK reg : reg = registry
    OBVIOUS
<1>3. /\ Fault /\ Reload(reg, "none")
      /\ UNCHANGED <<disk, outbox, server, made, parted>>
    BY <1>2 DEF ClosePage
<1>4. Sound(reg)
    BY <1>1, <1>2 DEF PageIsOpen
<1>5. /\ registry' = reg /\ page'.vault = page.vault
      /\ ~hasty' => ~hasty
    BY <1>1, <1>2, <1>3, <1>4, ReloadOpens DEF TypeOK, PageIsOpen
<1>6. HeldExist(reg)
    BY <1>1, <1>2 DEF HeldExist, HeldAreMade, Holders
<1>7. OnlyMade' /\ CopiesOfVaults'
    BY <1>1, <1>3 DEF OnlyMade, CopiesOfVaults
<1>8. ASSUME ~doubled
      PROVE  Apart(reg.entries) /\ OpenIsShown' /\ OneIsHere' /\ NothingAside'
  <2>1. Told
      BY <1>8 DEF Kept
  <2>2. Apart(reg.entries)
      BY <1>2, <2>1 DEF Told, IdsDiffer, Apart
  <2>3. OpenIsShown'
      BY <1>2, <1>5, <2>1 DEF Told, OpenIsShown
  <2>4. OneIsHere' /\ NothingAside'
      BY <1>3, <1>5, <2>1 DEF Told, OneIsHere, NothingAside
  <2> QED
      BY <2>2, <2>3, <2>4
<1>9. ASSUME ~doubled, ~hasty'
      PROVE  QueuedIsHere' /\ LiveIsAtHand' /\ WorkIsKept'
  <2>1. Careful
      BY <1>5, <1>9 DEF Kept
  <2>2. ASSUME NEW v \in Vault, AtHand(v)
        PROVE  AtHand(v)'
    <3>1. \E e \in Range(registry.entries) : e.vault = v /\ e.token = server[v].token
        BY <1>3, <1>9, <2>2, HeldByEntry
    <3> QED
        BY <1>2, <1>3, <2>2, <3>1, HeldIsAtHand DEF AtHand
  <2>3. QueuedIsHere'
      BY <1>3, <1>5, <2>1 DEF Careful, QueuedIsHere
  <2>4. LiveIsAtHand'
      BY <1>2, <1>3, <1>5, <2>1, <2>2 DEF Careful, LiveIsAtHand, Holders
  <2>5. WorkIsKept'
      BY <1>3, <1>5, <2>1, <2>2 DEF Careful, WorkIsKept, GraphOf
  <2> QED
      BY <2>3, <2>4, <2>5
<1>10. /\ disk' \in [Graph -> SUBSET Item] /\ outbox' \in [Vault -> SUBSET Item]
       /\ parted \subseteq parted' /\ parted' \subseteq made
       /\ gestures' \in 0 .. MaxGestures /\ faults' \in 0 .. MaxFaults
       /\ \A v \in Vault : server[v].state = "erased" => outbox'[v] \subseteq parted'
    BY <1>1, <1>3, GestureBounds DEF TypeOK, ErasedIsGivenUp
<1> QED
    BY <1>3, <1>4, <1>6, <1>7, <1>8, <1>9, <1>10, ReloadKeeps

LEMMA ActivatedRegistry ==
    ASSUME Sound(registry), NEW id \in Id, NEW reg2, reg2 = Activated(id)
    PROVE  /\ Sound(reg2) /\ reg2.entries = registry.entries
           /\ (\E e \in Range(registry.entries) : e.id = id) => reg2.active = id
<1>1. PICK reg : reg = registry
    OBVIOUS
<1>2. reg \in [active : Id, entries : Seq(Entry)] /\ Sound(reg)
    BY <1>1 DEF Sound
<1>3. CASE \E e \in Range(reg.entries) : e.id = id
  <2>1. reg2 = [reg EXCEPT !.active = id]
      BY <1>1, <1>3 DEF Activated
  <2>2. /\ reg2 \in [active : Id, entries : Seq(Entry)]
        /\ reg2.entries = reg.entries /\ reg2.active = id
      BY <1>2, <2>1
  <2>3. \E i \in DOMAIN reg.entries : reg.entries[i].id = id
      BY <1>3 DEF Range
  <2> QED
      BY <1>1, <2>2, <2>3 DEF Sound
<1>4. CASE ~ \E e \in Range(reg.entries) : e.id = id
    BY <1>1, <1>4 DEF Activated
<1> QED
    BY <1>1, <1>3, <1>4

\* What was at hand stays so when its token stays with an entry and no rotation is
\* cut off.
LEMMA StaysAtHand ==
    ASSUME NEW reg, NEW k, Reload(reg, k), k # "rotate", ~hasty', UNCHANGED server,
           \A e \in Range(registry.entries) : e.vault \in Vault =>
              \E f \in Range(reg.entries) : f.vault = e.vault /\ f.token = e.token
    PROVE  \A v \in Vault : AtHand(v) => AtHand(v)'
<1>1. ASSUME NEW v \in Vault, AtHand(v)
      PROVE  AtHand(v)'
  <2>1. \E e \in Range(registry.entries) : e.vault = v /\ e.token = server[v].token
      BY <1>1, HeldByEntry
  <2>2. \E f \in Range(reg.entries) : f.vault = v /\ f.token = server[v].token
      BY <2>1
  <2>3. server[v].state = "live"
      BY <1>1 DEF AtHand
  <2> QED
      BY <2>2, <2>3, HeldIsAtHand
<1> QED
    BY <1>1

\* The page is loaded for the datalet that arrived.
LEMMA ArrivesKeeps ==
    ASSUME Kept, NEW k \in Kind, Arrives(k)
    PROVE  Kept'
<1>1. TypeOK /\ PageIsOpen /\ FlowsFit /\ HeldAreMade
      /\ OnlyMade /\ CopiesOfVaults /\ ErasedIsGivenUp
    BY DEF Kept, Always
<1>2. PICK f \in Flow : f = flow[k]
    BY <1>1 DEF TypeOK
<1>3. PICK reg1 : reg1 = Activated(f.id)
    OBVIOUS
<1>4. PICK reg : reg = Archived(reg1, f.id, FALSE)
    OBVIOUS
<1>5. /\ k \in {"open", "add"} /\ f.step = "fetch"
      /\ server[f.vault].state = "live"
      /\ disk' = [Left(k) EXCEPT ![f.vault] = server[f.vault].shown]
      /\ Reload(reg, k)
      /\ UNCHANGED <<outbox, server, made, parted, bounds>>
    BY <1>2, <1>3, <1>4 DEF Arrives, Fetching, Answers
<1>6. f.vault \in Vault /\ f.id \in Id /\ f.vault # NoVault /\ f.vault # Local
    BY <1>1, <1>2, <1>5, VaultsAreNotLocal DEF FlowsFit, VaultsFit, Flow
<1>7. /\ Sound(reg1) /\ reg1.entries = registry.entries
      /\ (\E e \in Range(registry.entries) : e.id = f.id) => reg1.active = f.id
    BY <1>1, <1>3, <1>6, ActivatedRegistry DEF PageIsOpen
<1>8. PICK no \in BOOLEAN : no = FALSE
    OBVIOUS
<1>9. /\ Sound(reg) /\ reg.active = reg1.active
      /\ Apart(registry.entries) => Apart(reg.entries)
      /\ ActiveEntry(reg).vault = ActiveEntry(reg1).vault
      /\ \A g \in Range(reg.entries) :
            /\ \E e \in Range(registry.entries) : e.vault = g.vault
            /\ g.id = f.id => ~g.archived
      /\ \A e \in Range(registry.entries) : \E g \in Range(reg.entries) :
            g.vault = e.vault /\ g.token = e.token
  <2>1. reg = Archived(reg1, f.id, no)
      BY <1>4, <1>8
  <2> QED
      BY <1>6, <1>7, <1>8, <2>1, ArchivedRegistry
<1>10. /\ registry' = reg /\ page'.vault = ActiveEntry(reg).vault
       /\ ~hasty' => ~hasty
    BY <1>1, <1>5, <1>9, ReloadOpens DEF TypeOK
<1>11. /\ Left(k) \in [Graph -> SUBSET Item]
       /\ \A g \in Graph : Left(k)[g] \subseteq disk[g]
       /\ ActiveEntry(registry).id # f.id => Left(k)[GraphOf(page)] = {}
    BY <1>1, <1>2, LeftIs
<1>12. Local \in Graph /\ Vault \subseteq Graph
    BY DEF Graph
<1>13. server[f.vault].shown \subseteq server[f.vault].taken
       /\ server[f.vault].taken \subseteq Item
    BY <1>1, <1>6 DEF TypeOK
<1>14. /\ disk' \in [Graph -> SUBSET Item]
       /\ disk'[Local] = Left(k)[Local]
       /\ disk'[f.vault] = server[f.vault].shown
       /\ \A v \in Vault : v # f.vault => disk'[v] = Left(k)[v]
    BY <1>5, <1>6, <1>11, <1>12, <1>13
<1>15. OnlyMade' /\ CopiesOfVaults'
  <2>1. OnlyMade'
      BY <1>1, <1>5, <1>11, <1>12, <1>14 DEF OnlyMade
  <2>2. ASSUME NEW v \in Vault
        PROVE  disk'[v] \subseteq outbox[v] \cup server[v].taken
      BY <1>1, <1>11, <1>12, <1>13, <1>14 DEF CopiesOfVaults
  <2> QED
      BY <1>5, <2>1, <2>2 DEF CopiesOfVaults
<1>16. HeldExist(reg)
    BY <1>1, <1>9 DEF HeldExist, HeldAreMade, Holders
<1>17. ASSUME ~doubled
       PROVE  /\ page'.vault = f.vault
              /\ Apart(reg.entries) /\ OpenIsShown' /\ OneIsHere' /\ NothingAside'
  <2>1. Told
      BY <1>17 DEF Kept
  <2>2. Apart(registry.entries)
      BY <2>1 DEF Told, IdsDiffer, Apart
  <2>3. PICK e \in Range(registry.entries) : e.id = f.id /\ e.vault = f.vault
    <3>1. Arriving(k) => HasEntry(flow[k])
        BY <1>5, <2>1 DEF Told, FetchedIsListed
    <3> QED
        BY <1>2, <1>5, <3>1 DEF Arriving, HasEntry
  <2>4. reg1.active = f.id
      BY <1>7, <2>3
  <2>5. ActiveEntry(reg1) = e
      BY <1>7, <2>2, <2>3, <2>4, ActiveIsListed
  <2>6. page'.vault = f.vault
      BY <1>9, <1>10, <2>3, <2>5
  <2>7. Apart(reg.entries) /\ OpenIsShown'
      BY <1>9, <1>10, <2>2, <2>4 DEF OpenIsShown
  <2>8. /\ Sound(registry) /\ page.vault = ActiveEntry(registry).vault
        /\ GraphOf(page) = IF page.vault = NoVault THEN Local ELSE page.vault
        /\ page.vault \in Vault \cup {NoVault}
      BY <1>1, PageFacts DEF PageIsOpen
  <2>9. ActiveEntry(registry).id = f.id => page.vault = f.vault
    <3>1. ASSUME ActiveEntry(registry).id = f.id
          PROVE  page.vault = f.vault
      <4>1. ActiveEntry(registry).id = registry.active
          BY <2>8, ActiveIsListed
      <4>2. e = ActiveEntry(registry)
          BY <2>2, <2>3, <2>8, <3>1, <4>1, ActiveIsListed
      <4> QED
          BY <2>3, <2>8, <4>2
    <3> QED
        BY <3>1
  <2>10. ASSUME NEW v \in Vault, v # f.vault
         PROVE  disk'[v] = {}
    <3>1. disk'[v] \subseteq disk[v]
        BY <1>11, <1>12, <1>14, <2>10
    <3>2. CASE v # page.vault
        BY <2>1, <3>1, <3>2 DEF Told, OneIsHere
    <3>3. CASE v = page.vault
      <4>1. ActiveEntry(registry).id # f.id /\ GraphOf(page) = v
          BY <2>8, <2>9, <2>10, <3>3, VaultsAreNotLocal
      <4> QED
          BY <1>11, <1>14, <2>10, <4>1
    <3> QED
        BY <3>2, <3>3
  <2>11. OneIsHere'
      BY <2>6, <2>10 DEF OneIsHere
  <2>12. disk'[Local] \subseteq parted
    <3>1. CASE page.vault = NoVault
        BY <1>6, <1>11, <1>14, <2>8, <2>9, <3>1
    <3>2. CASE page.vault # NoVault
        BY <1>11, <1>12, <1>14, <2>1, <3>2 DEF Told, NothingAside
    <3> QED
        BY <3>1, <3>2
  <2>13. NothingAside'
      BY <1>5, <2>12 DEF NothingAside
  <2> QED
      BY <2>6, <2>7, <2>11, <2>13
<1>18. ASSUME ~doubled, ~hasty'
       PROVE  QueuedIsHere' /\ LiveIsAtHand' /\ WorkIsKept'
  <2>1. Careful /\ ~hasty
      BY <1>10, <1>18 DEF Kept
  <2>2. k # "rotate" /\ outbox[f.vault] = {}
      BY <1>2, <1>5, <1>18 DEF Reload
  <2>3. QueuedIsHere'
      BY <1>5, <1>17, <1>18, <2>2 DEF QueuedIsHere
  <2>4. \A v \in Vault : AtHand(v) => AtHand(v)'
      BY <1>5, <1>9, <1>18, <2>2, StaysAtHand
  <2>5. LiveIsAtHand'
    <3>1. \A v \in Vault : Holders(v)' # {} => Holders(v) # {}
        BY <1>9, <1>10 DEF Holders
    <3> QED
        BY <1>5, <2>1, <2>4, <3>1 DEF Careful, LiveIsAtHand
  <2>6. ASSUME NEW i \in made \ parted
        PROVE  \E v \in Vault : AtHand(v) /\ i \in server[v].taken \cup outbox[v]
    <3>1. CASE i \in disk[GraphOf(page)] \cup disk[Local]
      <4>1. CASE page.vault = NoVault
        <5>1. disk[Local] = {}
          <6>1. OnItsWayOut
              BY <1>2, <1>5 DEF OnItsWayOut
          <6> QED
              BY <2>1, <4>1, <6>1 DEF Careful, LeftIsEmpty
        <5> QED
            BY <1>1, <3>1, <4>1, <5>1, PageFacts
      <4>2. CASE page.vault # NoVault
          BY <1>18, <2>1, <3>1, <4>2, OpenIsElsewhere
      <4> QED
          BY <4>1, <4>2
    <3>2. CASE i \notin disk[GraphOf(page)] \cup disk[Local]
        BY <2>1, <3>2 DEF Careful, WorkIsKept
    <3> QED
        BY <3>1, <3>2
  <2>7. WorkIsKept'
      BY <1>5, <2>4, <2>6 DEF WorkIsKept
  <2> QED
      BY <2>3, <2>5, <2>7
<1>19. /\ outbox' \in [Vault -> SUBSET Item]
       /\ parted \subseteq parted' /\ parted' \subseteq made
       /\ gestures' \in 0 .. MaxGestures /\ faults' \in 0 .. MaxFaults
       /\ \A v \in Vault : server[v].state = "erased" => outbox'[v] \subseteq parted'
    BY <1>1, <1>5, GestureBounds DEF TypeOK, ErasedIsGivenUp
<1> QED
    BY <1>5, <1>9, <1>14, <1>15, <1>16, <1>17, <1>18, <1>19, ReloadKeeps

\* With ids that tell entries apart, pairing the open datalet leaves the others'
\* tokens where they are.
LEMMA PairedHolders ==
    ASSUME Sound(registry), Apart(registry.entries), NEW v \in Vault, NEW t \in Token,
           NEW reg, reg = Paired(registry, v, t),
           ActiveEntry(registry).vault \in {v, NoVault}
    PROVE  /\ \A e \in Range(registry.entries) : e.vault \in Vault \ {v} =>
                  e \in Range(reg.entries)
           /\ \E f \in Range(reg.entries) : f.vault = v /\ f.token = t
           /\ \A f \in Range(reg.entries) : f.vault # v =>
                  \E e \in Range(registry.entries) : e.vault = f.vault
<1>1. v \in Vault \cup {NoVault} /\ NoVault \notin Vault
    BY VaultsAreNotLocal
<1>2. /\ Sound(reg) /\ ActiveEntry(reg).vault = v /\ ActiveEntry(reg).token = t
      /\ \A f \in Range(reg.entries) : \E e \in Range(registry.entries) :
            e.id = f.id /\ e.archived = f.archived /\ f.vault \in {v, e.vault}
      /\ \A e \in Range(registry.entries) :
            e.id # registry.active => e \in Range(reg.entries)
  <2>1. PICK rg : rg = registry
      OBVIOUS
  <2>2. Sound(rg) /\ v \in Vault \cup {NoVault} /\ reg = Paired(rg, v, t)
      BY <1>1, <2>1
  <2>3. /\ Sound(reg) /\ ActiveEntry(reg).vault = v /\ ActiveEntry(reg).token = t
        /\ \A f \in Range(reg.entries) : \E e \in Range(rg.entries) :
              e.id = f.id /\ e.archived = f.archived /\ f.vault \in {v, e.vault}
      BY <2>2, PairedRegistry
  <2>4. \A e \in Range(rg.entries) : e.id # rg.active => e \in Range(reg.entries)
      BY <2>2, PairedRegistry, SMTT(60)
  <2> QED
      BY <2>1, <2>3, <2>4
<1>3. \A e \in Range(registry.entries) :
          e.id = registry.active => e = ActiveEntry(registry)
    BY ActiveIsListed
<1>4. ActiveEntry(reg) \in Range(reg.entries)
    BY <1>2, ActiveIsListed
<1> QED
    BY <1>1, <1>2, <1>3, <1>4

LEMMA PairEndsKeeps ==
    ASSUME Kept, PairEnds
    PROVE  Kept'
<1>1. TypeOK /\ PageIsOpen /\ FlowsFit /\ HeldAreMade
      /\ OnlyMade /\ CopiesOfVaults /\ ErasedIsGivenUp
    BY DEF Kept, Always
<1>2. PICK f \in Flow : f = flow["pair"]
    BY <1>1 DEF TypeOK, Kind
<1>3. PICK carried : carried = IF f.created THEN disk[Local] ELSE {}
    OBVIOUS
<1>4. PICK v : v = f.vault
    OBVIOUS
<1>5. PICK reg : reg = Paired(registry, v, f.token)
    OBVIOUS
<1>6. /\ f.step = "fetch" /\ server[v].state = "live" /\ server[v].token = f.token
      /\ disk' = IF carried = {} THEN [disk EXCEPT ![v] = server[v].shown]
                 ELSE [disk EXCEPT ![Local] = {}, ![v] = carried]
      /\ outbox' = [outbox EXCEPT ![v] = outbox[v] \cup carried]
      /\ parted' = IF f.created THEN parted ELSE parted \cup disk[Local]
      /\ Reload(reg, "pair")
      /\ UNCHANGED <<server, made, bounds>>
    BY <1>2, <1>3, <1>4, <1>5 DEF PairEnds, Answers
<1>7. /\ v \in Vault /\ page.vault = NoVault /\ f.token \in Token
      /\ v # NoVault /\ v # Local
    BY <1>1, <1>2, <1>4, <1>6, VaultsAreNotLocal
       DEF FlowsFit, VaultsFit, PairFits, Flow, Kind
<1>8. /\ Sound(registry) /\ ActiveEntry(registry).vault = NoVault
      /\ GraphOf(page) = Local
      /\ Local \in Graph /\ Vault \subseteq Graph
    BY <1>1, <1>7, PageFacts DEF PageIsOpen
<1>9. /\ Sound(reg) /\ reg.active = registry.active
      /\ Apart(registry.entries) => Apart(reg.entries)
      /\ ActiveEntry(reg).vault = v
      /\ \A g \in Range(reg.entries) : \E e \in Range(registry.entries) :
            e.id = g.id /\ e.archived = g.archived /\ g.vault \in {v, e.vault}
  <2>1. v \in Vault \cup {NoVault} /\ f.token \in Token
      BY <1>7
  <2> QED
      BY <1>5, <1>8, <2>1, PairedRegistry
<1>10. /\ registry' = reg /\ page'.vault = v
       /\ ~hasty' => ~hasty
    BY <1>1, <1>6, <1>9, ReloadOpens DEF TypeOK
<1>11. /\ disk \in [Graph -> SUBSET Item] /\ outbox \in [Vault -> SUBSET Item]
       /\ carried \subseteq disk[Local]
       /\ server[v].shown \subseteq server[v].taken /\ server[v].taken \subseteq Item
    BY <1>1, <1>3, <1>7 DEF TypeOK
<1>12. /\ disk' \in [Graph -> SUBSET Item] /\ outbox' \in [Vault -> SUBSET Item]
       /\ disk'[Local] \subseteq disk[Local]
       /\ carried # {} => disk'[Local] = {}
       /\ carried = {} => disk'[Local] = disk[Local] /\ disk'[v] = server[v].shown
       /\ carried # {} => disk'[v] = carried
       /\ \A w \in Vault : w # v => disk'[w] = disk[w] /\ outbox'[w] = outbox[w]
       /\ outbox'[v] = outbox[v] \cup carried
  <2>1. carried \subseteq Item
      BY <1>8, <1>11
  <2>2. outbox' \in [Vault -> SUBSET Item] /\ outbox'[v] = outbox[v] \cup carried
        /\ \A w \in Vault : w # v => outbox'[w] = outbox[w]
      BY <1>6, <1>7, <1>11, <2>1
  <2>3. CASE carried = {}
    <3>1. disk' = [disk EXCEPT ![v] = server[v].shown]
        BY <1>6, <2>3
    <3> QED
        BY <1>7, <1>8, <1>11, <2>2, <2>3, <3>1
  <2>4. CASE carried # {}
    <3>1. PICK d : d = [disk EXCEPT ![Local] = {}]
        OBVIOUS
    <3>2. disk' = [d EXCEPT ![v] = carried]
        BY <1>6, <2>4, <3>1
    <3>3. /\ d \in [Graph -> SUBSET Item] /\ d[Local] = {}
          /\ \A w \in Vault : d[w] = disk[w]
        BY <1>8, <1>11, <3>1, VaultsAreNotLocal
    <3>4. /\ disk' \in [Graph -> SUBSET Item] /\ disk'[v] = carried
          /\ disk'[Local] = {} /\ \A w \in Vault : w # v => disk'[w] = disk[w]
        BY <1>7, <1>8, <2>1, <3>2, <3>3
    <3> QED
        BY <2>2, <2>4, <3>4
  <2> QED
      BY <2>3, <2>4
<1>13. parted \subseteq parted' /\ parted' \subseteq made
    BY <1>1, <1>6 DEF TypeOK, OnlyMade
<1>14. OnlyMade' /\ CopiesOfVaults'
  <2>1. ASSUME NEW w \in Vault
        PROVE  outbox'[w] \cup server[w].taken \subseteq made
    <3>1. outbox[w] \cup server[w].taken \subseteq made /\ disk[Local] \subseteq made
        BY <1>1 DEF OnlyMade
    <3>2. outbox'[w] \subseteq outbox[w] \cup carried
        BY <1>12
    <3> QED
        BY <1>11, <3>1, <3>2
  <2>2. disk'[Local] \subseteq made
      BY <1>1, <1>12 DEF OnlyMade
  <2>3. OnlyMade'
      BY <1>6, <2>1, <2>2 DEF OnlyMade
  <2>4. ASSUME NEW w \in Vault
        PROVE  disk'[w] \subseteq outbox'[w] \cup server[w].taken
    <3>1. CASE w = v
        BY <1>11, <1>12, <3>1
    <3>2. CASE w # v
        BY <1>1, <1>12, <3>2 DEF CopiesOfVaults
    <3> QED
        BY <3>1, <3>2
  <2>5. CopiesOfVaults'
      BY <1>6, <2>4 DEF CopiesOfVaults
  <2> QED
      BY <2>3, <2>5
<1>15. HeldExist(reg)
    BY <1>1, <1>6, <1>9 DEF HeldExist, HeldAreMade, Holders
<1>16. \A w \in Vault : server[w].state = "erased" => outbox'[w] \subseteq parted'
    BY <1>1, <1>6, <1>12, <1>13 DEF ErasedIsGivenUp
<1>17. ASSUME ~doubled
       PROVE  Apart(reg.entries) /\ OpenIsShown' /\ OneIsHere' /\ NothingAside'
  <2>1. Told
      BY <1>17 DEF Kept
  <2>2. Apart(reg.entries)
      BY <1>9, <2>1 DEF Told, IdsDiffer, Apart
  <2>3. OpenIsShown'
      BY <1>9, <1>10, <2>1 DEF Told, OpenIsShown
  <2>4. OneIsHere'
      BY <1>7, <1>10, <1>12, <2>1, VaultsAreNotLocal DEF Told, OneIsHere
  <2>5. disk'[Local] \subseteq parted'
    <3>1. CASE f.created
        BY <1>3, <1>12, <3>1
    <3>2. CASE ~f.created
        BY <1>6, <1>12, <3>2
    <3> QED
        BY <3>1, <3>2
  <2> QED
      BY <2>2, <2>3, <2>4, <2>5 DEF NothingAside
<1>18. ASSUME ~doubled, ~hasty'
       PROVE  QueuedIsHere' /\ LiveIsAtHand' /\ WorkIsKept'
  <2>1. Careful /\ Told
      BY <1>10, <1>18 DEF Kept
  <2>2. outbox[v] = {}
      BY <1>2, <1>4, <1>6, <1>18 DEF Reload
  <2>3. QueuedIsHere'
      BY <1>10, <1>12, <2>2 DEF QueuedIsHere
  <2>4. /\ \A e \in Range(registry.entries) : e.vault \in Vault \ {v} =>
              e \in Range(reg.entries)
        /\ \E g \in Range(reg.entries) : g.vault = v /\ g.token = f.token
        /\ \A g \in Range(reg.entries) : g.vault # v =>
              \E e \in Range(registry.entries) : e.vault = g.vault
    <3>1. Apart(registry.entries)
        BY <2>1 DEF Told, IdsDiffer, Apart
    <3> QED
        BY <1>5, <1>7, <1>8, <3>1, PairedHolders
  <2>5. ASSUME NEW w \in Vault, AtHand(w) \/ w = v
        PROVE  AtHand(w)'
    <3>1. CASE w = v
        BY <1>6, <2>4, <3>1, HeldIsAtHand
    <3>2. CASE w # v
      <4>1. \E e \in Range(registry.entries) : e.vault = w /\ e.token = server[w].token
          BY <1>6, <1>18, <2>5, <3>2, HeldByEntry
      <4>2. \E e \in Range(reg.entries) : e.vault = w /\ e.token = server[w].token
          BY <2>4, <3>2, <4>1
      <4>3. server[w].state = "live"
          BY <2>5, <3>2 DEF AtHand
      <4> QED
          BY <1>6, <4>2, <4>3, HeldIsAtHand
    <3> QED
        BY <3>1, <3>2
  <2>6. ASSUME NEW w \in Vault, server[w].state = "live",
               \E g \in Range(reg.entries) : g.vault = w
        PROVE  AtHand(w)'
    <3>1. CASE w = v
        BY <2>5, <3>1
    <3>2. CASE w # v
      <4>1. Holders(w) # {}
          BY <2>4, <2>6, <3>2 DEF Holders
      <4> QED
          BY <2>1, <2>5, <2>6, <4>1 DEF Careful, LiveIsAtHand
    <3> QED
        BY <3>1, <3>2
  <2>7. LiveIsAtHand'
      BY <1>6, <1>10, <2>6 DEF LiveIsAtHand, Holders
  <2>8. ASSUME NEW i \in made \ parted'
        PROVE  \/ i \in disk'[v]
               \/ \E w \in Vault : AtHand(w)' /\ i \in server[w].taken \cup outbox'[w]
    <3>1. CASE i \in disk[Local]
        BY <1>3, <1>6, <1>12, <2>8, <3>1
    <3>2. CASE i \notin disk[Local]
      <4>1. PICK w \in Vault : AtHand(w) /\ i \in server[w].taken \cup outbox[w]
          BY <1>8, <1>13, <2>1, <2>8, <3>2 DEF Careful, WorkIsKept
      <4>2. outbox[w] \subseteq outbox'[w]
          BY <1>12
      <4> QED
          BY <2>5, <4>1, <4>2
    <3> QED
        BY <3>1, <3>2
  <2>9. WorkIsKept'
    <3>1. GraphOf(page') = v
        BY <1>7, <1>10 DEF GraphOf
    <3> QED
        BY <1>6, <2>8, <3>1 DEF WorkIsKept
  <2> QED
      BY <2>3, <2>7, <2>9
<1>19. gestures' \in 0 .. MaxGestures /\ faults' \in 0 .. MaxFaults
    BY <1>1, <1>6, GestureBounds
<1> QED
    BY <1>6, <1>9, <1>12, <1>13, <1>14, <1>15, <1>16, <1>17, <1>18, <1>19, ReloadKeeps

LEMMA RotatedKeeps ==
    ASSUME Kept, Rotated
    PROVE  Kept'
<1>1. TypeOK /\ PageIsOpen /\ FlowsFit /\ HeldAreMade
      /\ OnlyMade /\ CopiesOfVaults /\ ErasedIsGivenUp
    BY DEF Kept, Always
<1>2. PICK f \in Flow : f = flow["rotate"]
    BY <1>1 DEF TypeOK, Kind
<1>3. PICK v : v = f.vault
    OBVIOUS
<1>4. PICK reg : reg = Paired(registry, v, f.token)
    OBVIOUS
<1>5. /\ f.step = "asked" /\ Reload(reg, "rotate")
      /\ UNCHANGED <<disk, outbox, server, made, parted, bounds>>
    BY <1>2, <1>3, <1>4 DEF Rotated
<1>6. /\ v \in Vault /\ page.vault = v /\ f.token = server[v].token /\ f.token \in Token
      /\ server[v].state # "none"
    BY <1>1, <1>2, <1>3, <1>5
       DEF FlowsFit, VaultsFit, RotateFits, Flow, Kind
<1>7. Sound(registry) /\ ActiveEntry(registry).vault = v
    BY <1>1, <1>6 DEF PageIsOpen
<1>8. /\ Sound(reg) /\ reg.active = registry.active
      /\ Apart(registry.entries) => Apart(reg.entries)
      /\ ActiveEntry(reg).vault = v
      /\ \A g \in Range(reg.entries) : \E e \in Range(registry.entries) :
            e.id = g.id /\ e.archived = g.archived /\ g.vault \in {v, e.vault}
  <2>1. v \in Vault \cup {NoVault}
      BY <1>6
  <2> QED
      BY <1>4, <1>6, <1>7, <2>1, PairedRegistry
<1>9. /\ registry' = reg /\ page'.vault = v
      /\ ~hasty' => ~hasty
    BY <1>1, <1>5, <1>8, ReloadOpens DEF TypeOK
<1>10. OnlyMade' /\ CopiesOfVaults'
    BY <1>1, <1>5 DEF OnlyMade, CopiesOfVaults
<1>11. HeldExist(reg)
    BY <1>1, <1>6, <1>8 DEF HeldExist, HeldAreMade, Holders
<1>12. ASSUME ~doubled
       PROVE  Apart(reg.entries) /\ OpenIsShown' /\ OneIsHere' /\ NothingAside'
  <2>1. Told
      BY <1>12 DEF Kept
  <2>2. Apart(reg.entries)
      BY <1>8, <2>1 DEF Told, IdsDiffer, Apart
  <2>3. OpenIsShown'
      BY <1>8, <1>9, <2>1 DEF Told, OpenIsShown
  <2>4. OneIsHere' /\ NothingAside'
      BY <1>5, <1>6, <1>9, <2>1 DEF Told, OneIsHere, NothingAside
  <2> QED
      BY <2>2, <2>3, <2>4
<1>13. ASSUME ~doubled, ~hasty'
       PROVE  QueuedIsHere' /\ LiveIsAtHand' /\ WorkIsKept'
  <2>1. Careful /\ Told
      BY <1>9, <1>13 DEF Kept
  <2>2. QueuedIsHere'
      BY <1>5, <1>6, <1>9, <2>1 DEF Careful, QueuedIsHere
  <2>3. /\ \A e \in Range(registry.entries) : e.vault \in Vault \ {v} =>
              e \in Range(reg.entries)
        /\ \E g \in Range(reg.entries) : g.vault = v /\ g.token = f.token
        /\ \A g \in Range(reg.entries) : g.vault # v =>
              \E e \in Range(registry.entries) : e.vault = g.vault
    <3>1. Apart(registry.entries)
        BY <2>1 DEF Told, IdsDiffer, Apart
    <3> QED
        BY <1>4, <1>6, <1>7, <3>1, PairedHolders
  <2>4. ASSUME NEW w \in Vault, server[w].state = "live", AtHand(w) \/ w = v
        PROVE  AtHand(w)'
    <3>1. \E e \in Range(reg.entries) : e.vault = w /\ e.token = server[w].token
      <4>1. CASE w = v
          BY <1>6, <2>3, <4>1
      <4>2. CASE w # v
          BY <1>2, <1>3, <2>3, <2>4, <4>2 DEF AtHand, Holders
      <4> QED
          BY <4>1, <4>2
    <3> QED
        BY <1>5, <2>4, <3>1, HeldIsAtHand
  <2>5. ASSUME NEW w \in Vault, server[w].state = "live",
               \E g \in Range(reg.entries) : g.vault = w
        PROVE  AtHand(w)'
    <3>1. CASE w = v
        BY <2>4, <2>5, <3>1
    <3>2. CASE w # v
      <4>1. Holders(w) # {}
          BY <2>3, <2>5, <3>2 DEF Holders
      <4> QED
          BY <2>1, <2>4, <2>5, <4>1 DEF Careful, LiveIsAtHand
    <3> QED
        BY <3>1, <3>2
  <2>6. LiveIsAtHand'
      BY <1>5, <1>9, <2>5 DEF LiveIsAtHand, Holders
  <2>7. \A w \in Vault : AtHand(w) => AtHand(w)'
      BY <2>4 DEF AtHand
  <2>8. WorkIsKept'
    <3>1. GraphOf(page') = GraphOf(page)
        BY <1>6, <1>9 DEF GraphOf
    <3> QED
        BY <1>5, <2>1, <2>7, <3>1 DEF Careful, WorkIsKept
  <2> QED
      BY <2>2, <2>6, <2>8
<1>14. /\ disk' \in [Graph -> SUBSET Item] /\ outbox' \in [Vault -> SUBSET Item]
       /\ parted \subseteq parted' /\ parted' \subseteq made
       /\ gestures' \in 0 .. MaxGestures /\ faults' \in 0 .. MaxFaults
       /\ \A w \in Vault : server[w].state = "erased" => outbox'[w] \subseteq parted'
    BY <1>1, <1>5, GestureBounds DEF TypeOK, ErasedIsGivenUp
<1> QED
    BY <1>5, <1>8, <1>10, <1>11, <1>12, <1>13, <1>14, ReloadKeeps

LEMMA LeaveKeeps ==
    ASSUME Kept, Leave
    PROVE  Kept'
<1>1. TypeOK /\ PageIsOpen /\ FlowsFit /\ HeldAreMade
      /\ OnlyMade /\ CopiesOfVaults /\ ErasedIsGivenUp
    BY DEF Kept, Always
<1>2. PICK v : v = page.vault
    OBVIOUS
<1>3. PICK rg : rg = registry
    OBVIOUS
<1>4. PICK reg : reg = Unpaired(rg)
    OBVIOUS
<1>5. /\ Gesture /\ v # NoVault /\ Unused # {}
      /\ disk' = IF disk[v] = {} THEN disk
                 ELSE [disk EXCEPT ![v] = {}, ![Local] = disk[v]]
      /\ outbox' = [outbox EXCEPT ![v] = {}]
      /\ Reload(reg, "leave")
      /\ UNCHANGED <<server, made, parted>>
    BY <1>1, <1>2, <1>3, <1>4 DEF Leave, PageIsOpen
<1>6. /\ v \in Vault /\ v # Local /\ GraphOf(page) = v
      /\ Sound(rg) /\ ActiveEntry(rg).vault = v
      /\ Local \in Graph /\ Vault \subseteq Graph
    BY <1>1, <1>2, <1>3, <1>5, PageFacts DEF PageIsOpen
<1>7. /\ Sound(reg) /\ reg.active = rg.active
      /\ Apart(rg.entries) => Apart(reg.entries)
      /\ ActiveEntry(reg).vault = NoVault
      /\ \A f \in Range(reg.entries) :
            \/ f.id # rg.active /\ \E e \in Range(rg.entries) : f.vault = e.vault
            \/ f.id = rg.active /\ f.vault = NoVault /\ ~f.archived
      /\ \A e \in Range(rg.entries) :
            e.id # rg.active => e \in Range(reg.entries)
      /\ \E f \in Range(reg.entries) :
            f.vault = v /\ f.token = ActiveEntry(rg).token
    BY <1>3, <1>4, <1>5, <1>6, UnpairedRegistry
<1>8. /\ registry' = reg /\ page'.vault = NoVault
      /\ ~hasty' => ~hasty
    BY <1>1, <1>5, <1>7, ReloadOpens DEF TypeOK
<1>9. disk \in [Graph -> SUBSET Item] /\ outbox \in [Vault -> SUBSET Item]
    BY <1>1 DEF TypeOK
<1>10. /\ disk' \in [Graph -> SUBSET Item] /\ outbox' \in [Vault -> SUBSET Item]
       /\ disk'[Local] = IF disk[v] = {} THEN disk[Local] ELSE disk[v]
       /\ disk'[v] = {} /\ outbox'[v] = {}
       /\ \A w \in Vault : w # v => disk'[w] = disk[w] /\ outbox'[w] = outbox[w]
  <2>1. outbox' \in [Vault -> SUBSET Item] /\ outbox'[v] = {}
        /\ \A w \in Vault : w # v => outbox'[w] = outbox[w]
      BY <1>5, <1>6, <1>9
  <2>2. CASE disk[v] = {}
      BY <1>5, <1>9, <2>1, <2>2
  <2>3. CASE disk[v] # {}
    <3>1. PICK d : d = [disk EXCEPT ![v] = {}]
        OBVIOUS
    <3>2. disk' = [d EXCEPT ![Local] = disk[v]]
        BY <1>5, <2>3, <3>1
    <3>3. /\ d \in [Graph -> SUBSET Item] /\ d[v] = {}
          /\ \A w \in Vault : w # v => d[w] = disk[w]
        BY <1>6, <1>9, <3>1
    <3>4. /\ disk' \in [Graph -> SUBSET Item] /\ disk'[Local] = disk[v]
          /\ \A w \in Vault : disk'[w] = d[w]
        BY <1>6, <1>9, <3>2, <3>3, VaultsAreNotLocal
    <3> QED
        BY <1>6, <2>1, <2>3, <3>3, <3>4
  <2> QED
      BY <2>2, <2>3
<1>11. OnlyMade' /\ CopiesOfVaults'
  <2>1. disk[v] \subseteq made
      BY <1>1, <1>6 DEF OnlyMade, CopiesOfVaults
  <2>2. OnlyMade'
      BY <1>1, <1>5, <1>10, <2>1 DEF OnlyMade
  <2>3. ASSUME NEW w \in Vault
        PROVE  disk'[w] \subseteq outbox'[w] \cup server[w].taken
    <3>1. CASE w = v
        BY <1>10, <3>1
    <3>2. CASE w # v
        BY <1>1, <1>10, <3>2 DEF CopiesOfVaults
    <3> QED
        BY <3>1, <3>2
  <2> QED
      BY <1>5, <2>2, <2>3 DEF CopiesOfVaults
<1>12. HeldExist(reg)
    BY <1>1, <1>3, <1>7, VaultsAreNotLocal DEF HeldExist, HeldAreMade, Holders
<1>13. ASSUME ~doubled
       PROVE  Apart(reg.entries) /\ OpenIsShown' /\ OneIsHere' /\ NothingAside'
  <2>1. Told
      BY <1>13 DEF Kept
  <2>2. Apart(reg.entries)
      BY <1>3, <1>7, <2>1 DEF Told, IdsDiffer, Apart
  <2>3. OpenIsShown'
      BY <1>7, <1>8 DEF OpenIsShown
  <2>4. OneIsHere'
      BY <1>2, <1>10, <2>1 DEF Told, OneIsHere
  <2>5. NothingAside'
      BY <1>8 DEF NothingAside
  <2> QED
      BY <2>2, <2>3, <2>4, <2>5
<1>14. ASSUME ~doubled, ~hasty'
       PROVE  QueuedIsHere' /\ LiveIsAtHand' /\ WorkIsKept'
  <2>1. Careful /\ Told
      BY <1>8, <1>14 DEF Kept
  <2>2. QueuedIsHere'
      BY <1>8 DEF QueuedIsHere
  <2>3. \A w \in Vault : AtHand(w) => AtHand(w)'
    <3>1. \A e \in Range(rg.entries) : e.id = rg.active => e = ActiveEntry(rg)
      <4>1. Apart(rg.entries)
          BY <1>3, <2>1 DEF Told, IdsDiffer, Apart
      <4> QED
          BY <1>6, <4>1, ActiveIsListed
    <3>2. \A e \in Range(registry.entries) : e.vault \in Vault =>
              \E f \in Range(reg.entries) : f.vault = e.vault /\ f.token = e.token
        BY <1>3, <1>6, <1>7, <3>1
    <3> QED
        BY <1>5, <1>14, <3>2, StaysAtHand
  <2>4. LiveIsAtHand'
    <3>1. \A w \in Vault : Holders(w)' # {} => Holders(w) # {}
        BY <1>3, <1>7, <1>8, VaultsAreNotLocal DEF Holders
    <3> QED
        BY <1>5, <2>1, <2>3, <3>1 DEF Careful, LiveIsAtHand
  <2>5. ASSUME NEW i \in made \ parted
        PROVE  \/ i \in disk'[Local]
               \/ \E w \in Vault : AtHand(w) /\ i \in server[w].taken \cup outbox'[w]
    <3>1. CASE i \in disk[v]
        BY <1>10, <3>1
    <3>2. CASE i \in disk[Local]
        BY <1>2, <1>5, <2>1, <2>5, <3>2 DEF Told, NothingAside
    <3>3. CASE i \notin disk[v] \cup disk[Local]
      <4>1. PICK w \in Vault : AtHand(w) /\ i \in server[w].taken \cup outbox[w]
          BY <1>6, <2>1, <3>3 DEF Careful, WorkIsKept
      <4>2. w = v => i \notin outbox[w]
          BY <1>2, <1>5, <2>1, <3>3 DEF Careful, QueuedIsHere
      <4> QED
          BY <1>10, <4>1, <4>2
    <3> QED
        BY <3>1, <3>2, <3>3
  <2>6. WorkIsKept'
      BY <1>5, <2>3, <2>5 DEF WorkIsKept
  <2> QED
      BY <2>2, <2>4, <2>6
<1>15. /\ parted \subseteq parted' /\ parted' \subseteq made
       /\ gestures' \in 0 .. MaxGestures /\ faults' \in 0 .. MaxFaults
       /\ \A w \in Vault : server[w].state = "erased" => outbox'[w] \subseteq parted'
    BY <1>1, <1>5, <1>10, GestureBounds DEF TypeOK, ErasedIsGivenUp
<1> QED
    BY <1>5, <1>7, <1>10, <1>11, <1>12, <1>13, <1>14, <1>15, ReloadKeeps

-----------------------------------------------------------------------------
(* Steps that change the registry under the page that is open. *)

LEMMA BookKeeps ==
    ASSUME Kept, NEW reg, Sound(reg), registry' = reg,
           ActiveEntry(reg).vault = ActiveEntry(registry).vault,
           UNCHANGED <<page, disk, outbox, made>>, OnlyErased, TypeOK', FlowsFit',
           HeldExist(reg),
           ~doubled' => /\ ~doubled /\ Apart(reg.entries) /\ OpenIsShown'
                        /\ FetchedIsListed' /\ CodeIsCurrent',
           ~doubled' /\ ~hasty' => /\ ~hasty /\ LeftIsEmpty' /\ StayAtHand,
           \A w \in Vault : ~doubled' /\ ~hasty' /\ server[w].state = "live"
                            /\ server'[w].state = "live" /\ Holders(w)' # {} =>
              Holders(w) # {} \/ AtHand(w)'
    PROVE  Kept'
<1>1. TypeOK /\ PageIsOpen /\ HeldAreMade
      /\ OnlyMade /\ CopiesOfVaults /\ ErasedIsGivenUp
    BY DEF Kept, Always
<1>2. /\ parted \subseteq parted'
      /\ \A w \in Vault :
            /\ server'[w].state \in {server[w].state, "erased"}
            /\ server'[w].taken = server[w].taken
            /\ server'[w].state = "erased" /\ server[w].state # "erased" =>
                  server[w].state = "live"
                  /\ server[w].taken \cup outbox[w] \subseteq parted'
    BY DEF OnlyErased
<1>3. UNCHANGED <<page, disk, outbox, made>>
    OBVIOUS
<1>4. PageIsOpen'
    BY <1>1 DEF PageIsOpen
<1>5. HeldAreMade'
  <2>1. ASSUME NEW w \in Vault, server'[w].state = "none"
        PROVE  server[w].state = "none" /\ server'[w].taken = {}
      BY <1>1, <1>2, <2>1 DEF HeldAreMade
  <2>2. ASSUME NEW w \in Vault, server[w].state = "none", NEW f \in Range(reg.entries),
               f.vault = w
        PROVE  FALSE
      BY <2>2 DEF HeldExist
  <2> QED
      BY <2>1, <2>2 DEF HeldAreMade, Holders
<1>6. OnlyMade' /\ CopiesOfVaults'
    BY <1>1, <1>2, <1>3 DEF OnlyMade, CopiesOfVaults
<1>7. ErasedIsGivenUp'
    BY <1>1, <1>2, <1>3 DEF ErasedIsGivenUp
<1>8. ASSUME ~doubled'
      PROVE  Told'
  <2>1. Told
      BY <1>8 DEF Kept
  <2>2. OneIsHere' /\ NothingAside'
      BY <1>2, <1>3, <2>1 DEF Told, OneIsHere, NothingAside
  <2>3. IdsDiffer'
      BY <1>8 DEF IdsDiffer, Apart
  <2> QED
      BY <1>8, <2>2, <2>3 DEF Told
<1>9. ASSUME ~doubled', ~hasty'
      PROVE  Careful'
  <2>1. Careful
      BY <1>9 DEF Kept
  <2>2. QueuedIsHere'
      BY <1>3, <2>1 DEF Careful, QueuedIsHere
  <2>3. ASSUME NEW w \in Vault, server'[w].state = "live", Holders(w)' # {}
        PROVE  AtHand(w)'
    <3>1. server[w].state = "live"
        BY <1>2, <2>3
    <3>2. CASE Holders(w) = {}
        BY <1>9, <2>3, <3>1, <3>2
    <3>3. CASE Holders(w) # {}
        BY <1>9, <2>1, <2>3, <3>1, <3>3 DEF Careful, LiveIsAtHand, StayAtHand
    <3> QED
        BY <3>2, <3>3
  <2>4. LiveIsAtHand'
      BY <2>3 DEF LiveIsAtHand
  <2>5. ASSUME NEW i \in made, i \notin parted'
        PROVE  \/ i \in disk[GraphOf(page)] \cup disk[Local]
               \/ \E v \in Vault : AtHand(v)' /\ i \in server'[v].taken \cup outbox[v]
    <3>1. CASE i \in disk[GraphOf(page)] \cup disk[Local]
        BY <3>1
    <3>2. CASE i \notin disk[GraphOf(page)] \cup disk[Local]
      <4>1. PICK v \in Vault : AtHand(v) /\ i \in server[v].taken \cup outbox[v]
          BY <1>2, <2>1, <2>5, <3>2 DEF Careful, WorkIsKept
      <4>2. i \in server'[v].taken \cup outbox[v]
          BY <1>2, <4>1
      <4>3. server'[v].state # "erased"
          BY <1>3, <1>7, <2>5, <4>2 DEF ErasedIsGivenUp
      <4> QED
          BY <1>9, <4>1, <4>2, <4>3 DEF StayAtHand
    <3> QED
        BY <3>1, <3>2
  <2>6. WorkIsKept'
      BY <1>3, <2>5 DEF WorkIsKept
  <2> QED
      BY <1>9, <2>2, <2>4, <2>6 DEF Careful
<1> QED
    BY <1>4, <1>5, <1>6, <1>7, <1>8, <1>9 DEF Kept, Always

\* A step without a request changes nothing on the server.
LEMMA NothingErased ==
    ASSUME TypeOK, OnlyMade, UNCHANGED <<server, parted>>
    PROVE  OnlyErased
<1>1. server \in [Vault -> ServerState] /\ parted \subseteq made
    BY ServerTypes DEF TypeOK
<1> QED
    BY <1>1 DEF OnlyErased

LEMMA PutAwayKeeps ==
    ASSUME Kept, NEW e \in Range(registry.entries), NEW put \in BOOLEAN, PutAway(e, put)
    PROVE  Kept'
<1>1. TypeOK /\ PageIsOpen /\ FlowsFit /\ HeldAreMade /\ OnlyMade
    BY DEF Kept, Always
<1>2. e.id \in Id
    BY <1>1, EntriesDomain DEF TypeOK, Entry
<1>3. PICK reg : reg = Archived(registry, e.id, put)
    OBVIOUS
<1>4. /\ Gesture /\ flow["open"].step = "idle" /\ flow["add"].step = "idle"
      /\ registry' = reg
      /\ UNCHANGED <<page, disk, outbox, server, flow, made, parted, hasty, doubled>>
    BY <1>3 DEF PutAway, Switching, Adding, history
<1>5. /\ Sound(reg) /\ reg.active = registry.active
      /\ Apart(registry.entries) => Apart(reg.entries)
      /\ ActiveEntry(reg).vault = ActiveEntry(registry).vault
      /\ \A f \in Range(reg.entries) : \E g \in Range(registry.entries) :
            /\ g.id = f.id /\ g.vault = f.vault /\ g.token = f.token
            /\ f.archived => g.archived \/ (put /\ g.id # registry.active)
      /\ \A g \in Range(registry.entries) : \E f \in Range(reg.entries) :
            f.id = g.id /\ f.vault = g.vault /\ f.token = g.token
  <2>1. Sound(registry)
      BY <1>1 DEF PageIsOpen
  <2>2. PICK id \in Id : id = e.id
      BY <1>2
  <2>3. reg = Archived(registry, id, put)
      BY <1>3, <2>2
  <2> QED
      BY <2>1, <2>3, ArchivedRegistry
<1>6. TypeOK'
    BY <1>1, <1>4, <1>5, GestureBounds DEF TypeOK, Sound
<1>7. OnlyErased
    BY <1>1, <1>4, NothingErased
<1>8. FlowsFit'
  <2>1. StepsFit /\ VaultsFit /\ PairFits /\ RotateFits /\ EraseFits
      BY <1>1 DEF FlowsFit
  <2>2. StepsFit' /\ VaultsFit' /\ PairFits' /\ RotateFits'
      BY <1>4, <2>1 DEF StepsFit, VaultsFit, PairFits, RotateFits
  <2>3. EraseFits'
      BY <1>4, <1>5, <2>1 DEF EraseFits, HasEntry
  <2> QED
      BY <2>2, <2>3 DEF FlowsFit
<1>9. HeldExist(reg)
    BY <1>1, <1>5 DEF HeldExist, HeldAreMade, Holders
<1>10. ASSUME ~doubled'
       PROVE  /\ ~doubled /\ Apart(reg.entries) /\ OpenIsShown'
              /\ FetchedIsListed' /\ CodeIsCurrent'
  <2>1. ~doubled
      BY <1>4, <1>10
  <2>2. Told
      BY <2>1 DEF Kept
  <2>3. Apart(reg.entries)
      BY <1>5, <2>2 DEF Told, IdsDiffer, Apart
  <2>4. OpenIsShown'
      BY <1>4, <1>5, <2>2 DEF Told, OpenIsShown
  <2>5. FetchedIsListed' /\ CodeIsCurrent'
      BY <1>4 DEF FetchedIsListed, Arriving, CodeIsCurrent
  <2> QED
      BY <2>1, <2>3, <2>4, <2>5
<1>11. ASSUME ~doubled', ~hasty'
       PROVE  ~hasty /\ LeftIsEmpty' /\ StayAtHand
  <2>1. ~hasty
      BY <1>4, <1>11
  <2>2. LeftIsEmpty'
      BY <1>4 DEF LeftIsEmpty, OnItsWayOut
  <2>3. StayAtHand
      BY <1>4, <1>5 DEF StayAtHand, AtHand, Holders
  <2> QED
      BY <2>1, <2>2, <2>3
<1>12. \A w \in Vault : Holders(w)' # {} => Holders(w) # {}
    BY <1>4, <1>5 DEF Holders
<1> QED
    BY <1>4, <1>5, <1>6, <1>7, <1>8, <1>9, <1>10, <1>11, <1>12, BookKeeps

\* A step that forgets an entry, and with it every other of the same id, that holds
\* no vault that exists.
LEMMA ForgetKeeps ==
    ASSUME Kept, NEW id, id # registry.active, registry' = Forgotten(id),
           UNCHANGED <<page, disk, outbox, made, hasty, doubled>>,
           OnlyErased, flow' \in [Kind -> Flow],
           gestures' \in 0 .. MaxGestures, faults' \in 0 .. MaxFaults,
           flow'["erase"].step = "idle",
           \A j \in Kind : j # "erase" => flow'[j] = flow[j],
           NEW h \in Range(registry.entries), h.id = id,
           h.vault \in Vault => server'[h.vault].state = "erased"
    PROVE  Kept'
<1>1. TypeOK /\ PageIsOpen /\ FlowsFit /\ HeldAreMade
    BY DEF Kept, Always
<1>2. PICK rg, reg : rg = registry /\ reg = Forgotten(id)
    OBVIOUS
<1>3. /\ Sound(reg) /\ reg.active = registry.active
      /\ ActiveEntry(reg) = ActiveEntry(registry)
      /\ Apart(registry.entries) => Apart(reg.entries)
      /\ Range(reg.entries) = {e \in Range(registry.entries) : e.id # id}
  <2>1. Sound(rg) /\ id # rg.active
      BY <1>1, <1>2 DEF PageIsOpen
  <2> QED
      BY <1>2, <2>1, ForgottenRegistry
<1>4. registry' = reg /\ registry'.active = registry.active
    BY <1>2, <1>3
<1>5. UNCHANGED <<page, disk, outbox, made, hasty, doubled>>
    OBVIOUS
<1>6. /\ parted' \subseteq made /\ server' \in [Vault -> ServerState]
      /\ \A w \in Vault :
            /\ server'[w].state \in {server[w].state, "erased"}
            /\ server'[w].token = server[w].token
            /\ server'[w].taken = server[w].taken /\ server'[w].shown = server[w].shown
            /\ server[w].state # "none" => server'[w].state # "none"
    BY DEF OnlyErased
<1>7. TypeOK'
  <2>1. \A w \in Vault : server'[w].shown \subseteq server'[w].taken
      BY <1>1, <1>6 DEF TypeOK
  <2>2. registry' \in [active : Id, entries : Seq(Entry)]
      BY <1>3, <1>4 DEF Sound
  <2> QED
      BY <1>1, <1>5, <1>6, <2>1, <2>2 DEF TypeOK, ServerState
<1>8. FlowsFit'
  <2>1. StepsFit /\ VaultsFit /\ PairFits /\ RotateFits /\ EraseFits
      BY <1>1 DEF FlowsFit
  <2>2. StepsFit'
      BY <2>1 DEF StepsFit, Kind
  <2>3. VaultsFit'
    <3>1. ASSUME NEW j \in Kind, flow'[j].step # "idle"
          PROVE  flow'[j].vault \in Vault /\ server'[flow'[j].vault].state # "none"
      <4>1. j # "erase" /\ flow'[j] = flow[j]
          BY <3>1
      <4> QED
          BY <1>6, <2>1, <3>1, <4>1 DEF VaultsFit
    <3> QED
        BY <3>1 DEF VaultsFit
  <2>4. PairFits' /\ RotateFits'
    <3>1. flow'["pair"] = flow["pair"] /\ flow'["rotate"] = flow["rotate"]
        BY DEF Kind
    <3>2. flow["rotate"].step # "idle" => page.vault \in Vault
        BY <2>1 DEF RotateFits, VaultsFit, Kind
    <3> QED
        BY <1>5, <1>6, <2>1, <3>1, <3>2 DEF PairFits, RotateFits
  <2>5. EraseFits'
      BY DEF EraseFits
  <2> QED
      BY <2>2, <2>3, <2>4, <2>5 DEF FlowsFit
<1>9. HeldExist(reg)
    BY <1>1, <1>3 DEF HeldExist, HeldAreMade, Holders
<1>10. ASSUME Told, NEW e \in Range(registry.entries), e.vault \in Vault,
              server'[e.vault].state # "erased"
       PROVE  e \in Range(reg.entries)
  <2>1. Apart(registry.entries) /\ registry.entries \in Seq(Entry)
      BY <1>1, <1>10 DEF Told, IdsDiffer, Apart, TypeOK
  <2>2. e.id = id => e = h
      BY <2>1, EntriesDomain DEF Apart
  <2> QED
      BY <1>3, <1>10, <2>2
<1>11. ASSUME ~doubled'
       PROVE  /\ ~doubled /\ Apart(reg.entries) /\ OpenIsShown'
              /\ FetchedIsListed' /\ CodeIsCurrent'
  <2>1. ~doubled
      BY <1>11
  <2>2. Told
      BY <2>1 DEF Kept
  <2>3. Apart(reg.entries)
      BY <1>3, <2>2 DEF Told, IdsDiffer, Apart
  <2>4. OpenIsShown'
      BY <1>3, <1>4, <2>2 DEF Told, OpenIsShown
  <2>5. FetchedIsListed'
    <3>1. ASSUME NEW k \in {"open", "add"}, flow'[k].step = "fetch",
                 server'[flow'[k].vault].state # "erased"
          PROVE  \E e \in Range(reg.entries) :
                    e.id = flow'[k].id /\ e.vault = flow'[k].vault
      <4>1. PICK f : f = flow[k]
          OBVIOUS
      <4>2. flow'[k] = f /\ f.vault \in Vault
          BY <1>1, <3>1, <4>1 DEF FlowsFit, VaultsFit, Kind
      <4>3. server[f.vault].state # "erased"
          BY <1>6, <3>1, <4>2
      <4>4. PICK e \in Range(registry.entries) : e.id = f.id /\ e.vault = f.vault
          BY <2>2, <3>1, <4>1, <4>2, <4>3 DEF Told, FetchedIsListed, Arriving, HasEntry
      <4>5. e \in Range(reg.entries)
          BY <1>10, <2>2, <3>1, <4>2, <4>4
      <4> QED
          BY <4>2, <4>4, <4>5
    <3> QED
        BY <1>4, <3>1 DEF FetchedIsListed, Arriving, HasEntry
  <2>6. CodeIsCurrent'
    <3>1. ASSUME flow'["add"].step = "asked",
                 \A e \in Range(reg.entries) : e.vault # flow'["add"].vault,
                 server'[flow'["add"].vault].state = "live"
          PROVE  flow'["add"].token = server'[flow'["add"].vault].token
      <4>1. PICK f : f = flow["add"]
          OBVIOUS
      <4>2. flow'["add"] = f /\ f.vault \in Vault
          BY <1>1, <3>1, <4>1 DEF FlowsFit, VaultsFit, Kind
      <4>3. server[f.vault].state = "live"
          BY <1>6, <3>1, <4>2
      <4>4. Holders(f.vault) = {}
          BY <1>10, <2>2, <3>1, <4>2 DEF Holders
      <4>5. f.token = server[f.vault].token
          BY <2>2, <3>1, <4>1, <4>2, <4>3, <4>4 DEF Told, CodeIsCurrent
      <4> QED
          BY <1>6, <4>2, <4>5
    <3> QED
        BY <1>4, <3>1 DEF CodeIsCurrent, Holders
  <2> QED
      BY <2>1, <2>3, <2>4, <2>5, <2>6
<1>12. ASSUME ~doubled', ~hasty'
       PROVE  ~hasty /\ LeftIsEmpty' /\ StayAtHand
  <2>1. ~hasty /\ ~doubled
      BY <1>12
  <2>2. Careful /\ Told
      BY <2>1 DEF Kept
  <2>3. LeftIsEmpty'
    <3>1. OnItsWayOut' => OnItsWayOut
        BY DEF OnItsWayOut, Kind
    <3> QED
        BY <1>5, <2>2, <3>1 DEF Careful, LeftIsEmpty
  <2>4. ASSUME NEW w \in Vault, AtHand(w), server'[w].state # "erased"
        PROVE  AtHand(w)'
    <3>1. flow'["rotate"] = flow["rotate"]
        BY DEF Kind
    <3>2. server'[w].state = "live" /\ server'[w].token = server[w].token
        BY <1>6, <2>4 DEF AtHand
    <3>3. \A e \in Holders(w) : e \in Range(reg.entries)
        BY <1>10, <2>2, <2>4 DEF Holders
    <3> QED
        BY <1>4, <2>4, <3>1, <3>2, <3>3 DEF AtHand, Holders
  <2> QED
      BY <2>1, <2>3, <2>4 DEF StayAtHand
<1>13. \A w \in Vault : Holders(w)' # {} => Holders(w) # {}
    BY <1>3, <1>4 DEF Holders
<1>14. ActiveEntry(reg).vault = ActiveEntry(registry).vault
    BY <1>3
<1> QED
    BY <1>3, <1>4, <1>5, <1>7, <1>8, <1>9, <1>11, <1>12, <1>13, <1>14, BookKeeps

LEMMA EraseKeeps ==
    ASSUME Kept, NEW e \in Range(registry.entries), Erase(e)
    PROVE  Kept'
<1>1. TypeOK /\ PageIsOpen /\ FlowsFit /\ HeldAreMade /\ OnlyMade
    BY DEF Kept, Always
<1>2. /\ Gesture /\ flow["erase"].step = "idle" /\ e.id # registry.active
      /\ UNCHANGED <<page, disk, outbox, server, made, parted, hasty, doubled>>
    BY DEF Erase, history
<1>3. gestures' \in 0 .. MaxGestures /\ faults' \in 0 .. MaxFaults
    BY <1>1, <1>2, GestureBounds
<1>4. e \in Entry
    BY <1>1, EntriesDomain DEF TypeOK
<1>5. OnlyErased
    BY <1>1, <1>2, NothingErased
<1>6. CASE e.vault = NoVault
  <2>1. registry' = Forgotten(e.id) /\ flow' = flow
      BY <1>6 DEF Erase
  <2>2. e.vault \notin Vault
      BY <1>6, VaultsAreNotLocal
  <2>3. flow \in [Kind -> Flow]
      BY <1>1 DEF TypeOK
  <2>4. PICK id : id = e.id
      OBVIOUS
  <2>5. /\ id # registry.active /\ registry' = Forgotten(id) /\ flow' \in [Kind -> Flow]
        /\ flow'["erase"].step = "idle"
        /\ \A j \in Kind : j # "erase" => flow'[j] = flow[j]
      BY <1>2, <2>1, <2>3, <2>4
  <2> QED
      BY <1>2, <1>3, <1>5, <2>2, <2>4, <2>5, ForgetKeeps
<1>7. CASE e.vault # NoVault
  <2>1. PICK id \in Id, v \in Vault, t \in Token : id = e.id /\ v = e.vault /\ t = e.token
      BY <1>4, <1>7 DEF Entry
  <2>2. PICK no \in BOOLEAN : no = FALSE
      OBVIOUS
  <2>3. registry' = registry /\ Begun("erase", "asked", id, v, t, no)
      BY <1>7, <2>1, <2>2 DEF Erase
  <2>4. /\ flow' \in [Kind -> Flow] /\ flow'["erase"].step = "asked"
        /\ flow'["erase"].id = id /\ flow'["erase"].vault = v
        /\ \A j \in Kind : j # "erase" => flow'[j] = flow[j]
        /\ "erase" \in Kind
    <3>1. "erase" \in Kind /\ flow \in [Kind -> Flow] /\ v \in Vault \cup {NoVault}
        BY <1>1 DEF Kind, TypeOK
    <3> QED
        BY <2>3, <3>1, BegunType
  <2>5. server[v].state # "none"
      BY <1>1, <2>1 DEF HeldAreMade, Holders
  <2>6. TypeOK'
      BY <1>1, <1>2, <1>3, <2>3, <2>4 DEF TypeOK
  <2>7. Quiet
      BY <1>1, <1>2, <2>3 DEF Quiet, OnlyMade
  <2>8. HasEntry(flow["erase"])'
      BY <2>1, <2>3, <2>4 DEF HasEntry
  <2>9. FlowsFit'
      BY <1>1, <1>2, <2>1, <2>3, <2>4, <2>5, <2>8, FlowsGoOn DEF HasEntry
  <2>10. ~doubled => FetchedIsListed' /\ CodeIsCurrent'
      BY <1>1, <1>2, <2>3, <2>4, FlowsAsTold, ServerTypes DEF Kept
  <2>11. ASSUME ~doubled, ~hasty'
         PROVE  ~hasty /\ StayAtHand /\ LeftIsEmpty'
    <3>1. ~hasty
        BY <1>2, <2>11
    <3>2. StayAtHand
      <4>1. flow'["rotate"] = flow["rotate"]
          BY <2>4 DEF Kind
      <4> QED
          BY <1>1, <1>2, <2>3, <4>1, TokensStay
    <3>3. LeftIsEmpty'
      <4>1. LeftIsEmpty
          BY <2>11, <3>1 DEF Kept, Careful
      <4>2. OnItsWayOut' => OnItsWayOut
          BY <2>4 DEF OnItsWayOut, Kind
      <4> QED
          BY <1>2, <2>3, <4>1, <4>2 DEF LeftIsEmpty
    <3> QED
        BY <3>1, <3>2, <3>3
  <2> QED
      BY <1>2, <2>6, <2>7, <2>9, <2>10, <2>11, QuietStep
<1> QED
    BY <1>6, <1>7

LEMMA EraseAnsweredKeeps ==
    ASSUME Kept, EraseAnswered
    PROVE  Kept'
<1>1. TypeOK /\ PageIsOpen /\ FlowsFit /\ OnlyMade
    BY DEF Kept, Always
<1>2. PICK f : f = flow["erase"]
    OBVIOUS
<1>3. /\ f.step = "asked" /\ Erases(f.vault, f.token) /\ Ended("erase")
      /\ UNCHANGED <<page, disk, outbox, made, hasty, doubled>>
      /\ bounds' = bounds
      /\ \/ server'[f.vault].state = "erased" /\ registry' = Forgotten(f.id)
         \/ UNCHANGED registry
    BY <1>2 DEF EraseAnswered
<1>4. gestures' \in 0 .. MaxGestures /\ faults' \in 0 .. MaxFaults
    BY <1>1, <1>3, GestureBounds
<1>5. f.vault \in Vault
    BY <1>1, <1>2, <1>3 DEF FlowsFit, VaultsFit, Kind
<1>6. OnlyErased
    BY <1>1, <1>3, <1>5, ErasesOrNot
<1>7. /\ flow' \in [Kind -> Flow] /\ flow'["erase"].step = "idle"
      /\ \A j \in Kind : j # "erase" => flow'[j] = flow[j]
      /\ "erase" \in Kind
    BY <1>1, <1>3, EndedType DEF TypeOK, Kind
<1>8. CASE server'[f.vault].state = "erased" /\ registry' = Forgotten(f.id)
  <2>1. f.id # registry.active /\ HasEntry(f)
      BY <1>1, <1>2, <1>3 DEF FlowsFit, EraseFits
  <2>2. PICK h \in Range(registry.entries) : h.id = f.id /\ h.vault = f.vault
      BY <2>1 DEF HasEntry
  <2> QED
      BY <1>3, <1>4, <1>6, <1>7, <1>8, <2>1, <2>2, ForgetKeeps
<1>9. CASE UNCHANGED registry
    BY <1>3, <1>4, <1>6, <1>7, <1>9, UnansweredKeeps
<1> QED
    BY <1>3, <1>8, <1>9

\* The answer to a code redeemed, when the open datalet cannot be left any more.
LEMMA AdoptRefusedKeeps ==
    ASSUME Kept, Adopt, ~CanLeave
    PROVE  Kept'
<1>1. TypeOK /\ PageIsOpen
    BY DEF Kept, Always
<1>2. /\ Ended("add") /\ "add" \in Kind
      /\ UNCHANGED <<registry, page, disk, outbox, server, made, parted, hasty>>
      /\ bounds' = bounds
    BY DEF Adopt, Kind
<1>3. UNCHANGED browser
    BY <1>2 DEF browser
<1>4. doubled' = doubled
  <2>1. doubled \in BOOLEAN
      BY <1>1 DEF TypeOK
  <2>2. ~doubled => IdsDiffer
      BY DEF Kept, Told
  <2>3. IdsDiffer' <=> IdsDiffer
      BY <1>1, <1>2, SameBook
  <2>4. doubled' = (doubled \/ ~IdsDiffer')
      BY DEF Adopt
  <2> QED
      BY <2>1, <2>2, <2>3, <2>4
<1>5. hasty' \in BOOLEAN /\ (~hasty' => ~hasty)
    BY <1>1, <1>2 DEF TypeOK
<1>6. gestures' \in 0 .. MaxGestures /\ faults' \in 0 .. MaxFaults
    BY <1>1, <1>2, GestureBounds
<1> QED
    BY <1>2, <1>3, <1>4, <1>5, <1>6, EndedKeeps

LEMMA AdoptKeeps ==
    ASSUME Kept, Adopt, CanLeave
    PROVE  Kept'
<1>1. TypeOK /\ PageIsOpen /\ FlowsFit /\ HeldAreMade /\ OnlyMade
    BY DEF Kept, Always
<1>2. PICK f \in Flow : f = flow["add"]
    BY <1>1 DEF TypeOK, Kind
<1>3. PICK rg, reg : rg = registry /\ reg = Added(f.vault, f.token)
    OBVIOUS
<1> DEFINE I == {i \in 1 .. Len(reg.entries) : reg.entries[i].vault = f.vault}
<1>4. PICK e : e = reg.entries[IF I # {} THEN Min(I) ELSE 0]
    OBVIOUS
<1>5. /\ f.step = "asked" /\ registry' = reg
      /\ Begun("add", "fetch", e.id, e.vault, e.token, FALSE)
      /\ UNCHANGED <<page, disk, outbox, server, made, parted, hasty>>
      /\ bounds' = bounds
    BY <1>2, <1>3, <1>4 DEF Adopt, SelectInSeq
<1>6. PICK v \in Vault, t \in Token : v = f.vault /\ t = f.token /\ server[v].state # "none"
    BY <1>1, <1>2, <1>5 DEF FlowsFit, VaultsFit, Flow, Kind
<1>7. /\ Sound(reg) /\ reg.active = registry.active
      /\ ActiveEntry(reg) = ActiveEntry(registry)
      /\ Range(registry.entries) \subseteq Range(reg.entries)
      /\ \A g \in Range(reg.entries) :
            \/ g \in Range(registry.entries)
            \/ g.id = v /\ g.vault = v /\ ~g.archived
      /\ \E g \in Range(reg.entries) : g.vault = v
      /\ Holders(v) = {} => \E g \in Range(reg.entries) : g.vault = v /\ g.token = t
  <2>1. Sound(rg) /\ reg = Added(v, t)
      BY <1>1, <1>3, <1>6 DEF PageIsOpen
  <2> QED
      BY <1>3, <2>1, AddedRegistry
<1>8. e \in Range(reg.entries) /\ e \in Entry /\ e.vault = v
  <2>1. PICK is : is = I
      OBVIOUS
  <2>2. is = {i \in 1 .. Len(reg.entries) : reg.entries[i].vault = v}
      BY <1>6, <2>1
  <2>3. reg.entries \in Seq(Entry)
      BY <1>7 DEF Sound
  <2>4. is # {}
      BY <1>7, <2>2, <2>3, EntriesDomain
  <2>5. e = reg.entries[Min(is)]
      BY <1>4, <2>1, <2>4
  <2> QED
      BY <1>7, <2>2, <2>5, FoundByVault
<1>9. /\ flow' \in [Kind -> Flow] /\ flow'["add"].step = "fetch"
      /\ flow'["add"].id = e.id /\ flow'["add"].vault = v
      /\ \A j \in Kind : j # "add" => flow'[j] = flow[j]
      /\ "add" \in Kind
  <2>1. PICK id \in Id, w \in Vault \cup {NoVault}, k \in Token, no \in BOOLEAN :
            id = e.id /\ w = e.vault /\ k = e.token /\ no = FALSE
      BY <1>8 DEF Entry
  <2>2. Begun("add", "fetch", id, w, k, no)
      BY <1>5, <2>1
  <2>3. "add" \in Kind /\ flow \in [Kind -> Flow]
      BY <1>1 DEF Kind, TypeOK
  <2> QED
      BY <1>8, <2>1, <2>2, <2>3, BegunType
<1>10. gestures' \in 0 .. MaxGestures /\ faults' \in 0 .. MaxFaults
    BY <1>1, <1>5, GestureBounds
<1>11. doubled' \in BOOLEAN /\ (~doubled' => ~doubled /\ IdsDiffer')
  <2>1. doubled' = (doubled \/ ~IdsDiffer')
      BY DEF Adopt
  <2> QED
      BY <2>1
<1>12. TypeOK'
    BY <1>1, <1>5, <1>7, <1>9, <1>10, <1>11 DEF TypeOK, Sound
<1>13. OnlyErased
    BY <1>1, <1>5, NothingErased
<1>14. HasEntry(flow["add"])'
    BY <1>5, <1>8, <1>9 DEF HasEntry
<1>15. FlowsFit'
  <2>1. StepsFit /\ VaultsFit /\ PairFits /\ RotateFits /\ EraseFits
      BY <1>1 DEF FlowsFit
  <2>2. StepsFit'
      BY <1>9, <2>1 DEF StepsFit, Kind
  <2>3. VaultsFit'
      BY <1>5, <1>6, <1>9, <2>1 DEF VaultsFit
  <2>4. PairFits' /\ RotateFits'
      BY <1>5, <1>9, <2>1 DEF PairFits, RotateFits, Kind
  <2>5. EraseFits'
      BY <1>5, <1>7, <1>9, <2>1 DEF EraseFits, HasEntry, Kind
  <2> QED
      BY <2>2, <2>3, <2>4, <2>5 DEF FlowsFit
<1>16. HeldExist(reg)
    BY <1>1, <1>6, <1>7 DEF HeldExist, HeldAreMade, Holders
<1>17. ASSUME ~doubled'
       PROVE  /\ ~doubled /\ Apart(reg.entries) /\ OpenIsShown'
              /\ FetchedIsListed' /\ CodeIsCurrent'
  <2>1. ~doubled /\ IdsDiffer'
      BY <1>11, <1>17
  <2>2. Told
      BY <2>1 DEF Kept
  <2>3. Apart(reg.entries)
      BY <1>5, <2>1 DEF IdsDiffer, Apart
  <2>4. OpenIsShown'
      BY <1>5, <1>7, <2>2 DEF Told, OpenIsShown
  <2>5. FetchedIsListed'
    <3>1. ASSUME Arriving("open")'
          PROVE  HasEntry(flow["open"])'
      <4>1. flow'["open"] = flow["open"]
          BY <1>9 DEF Kind
      <4>2. HasEntry(flow["open"])
          BY <1>5, <2>2, <3>1, <4>1 DEF Told, FetchedIsListed, Arriving
      <4> QED
          BY <1>5, <1>7, <4>1, <4>2 DEF HasEntry
    <3> QED
        BY <1>14, <3>1 DEF FetchedIsListed
  <2>6. CodeIsCurrent'
      BY <1>9 DEF CodeIsCurrent
  <2> QED
      BY <2>1, <2>3, <2>4, <2>5, <2>6
<1>18. Holders(v) = {} /\ ~doubled /\ server[v].state = "live" => t = server[v].token
  <2>1. ASSUME Holders(v) = {}, ~doubled, server[v].state = "live"
        PROVE  t = server[v].token
    <3>1. CodeIsCurrent
        BY <2>1 DEF Kept, Told
    <3> QED
        BY <1>2, <1>5, <1>6, <2>1, <3>1 DEF CodeIsCurrent
  <2> QED
      BY <2>1
<1>19. ASSUME ~doubled', ~hasty'
       PROVE  ~hasty /\ LeftIsEmpty' /\ StayAtHand
  <2>1. ~hasty
      BY <1>5, <1>19
  <2>2. LeftIsEmpty'
      BY <1>1, <1>5, LeftWithNothing DEF LeftIsEmpty
  <2>3. StayAtHand
    <3>1. flow'["rotate"] = flow["rotate"]
        BY <1>9 DEF Kind
    <3> QED
        BY <1>5, <1>7, <3>1 DEF StayAtHand, AtHand, Holders
  <2> QED
      BY <2>1, <2>2, <2>3
<1>20. ASSUME NEW w \in Vault, ~doubled', server[w].state = "live", Holders(w)' # {},
              Holders(w) = {}
       PROVE  AtHand(w)'
  <2>1. w = v
      BY <1>5, <1>7, <1>20 DEF Holders
  <2>2. ~doubled
      BY <1>11, <1>20
  <2>3. \E g \in Range(reg.entries) : g.vault = v /\ g.token = server[v].token
      BY <1>7, <1>18, <1>20, <2>1, <2>2
  <2> QED
      BY <1>5, <1>20, <2>1, <2>3 DEF AtHand, Holders
<1>21. UNCHANGED <<page, disk, outbox, made>>
       /\ ActiveEntry(reg).vault = ActiveEntry(registry).vault
    BY <1>5, <1>7
<1> QED
    BY <1>5, <1>7, <1>12, <1>13, <1>15, <1>16, <1>17, <1>19, <1>20, <1>21, BookKeeps

-----------------------------------------------------------------------------
(* The invariant. *)

\* Browsers never used, or paired before there was a registry.
LEMMA InitKept ==
    ASSUME Init
    PROVE  Kept
<1>1. PICK e : /\ e \in {LocalEntry(Idle.id)} \cup {PairedEntry(v, v, 1) : v \in Elsewhere}
               /\ registry = [active |-> e.id, entries |-> <<e>>]
               /\ page = [vault |-> e.vault, token |-> e.token]
    BY DEF Init
<1>2. 1 \in Token /\ 0 \in Token /\ Elsewhere \subseteq Vault
    BY DataletBounds, ElsewhereAreVaults DEF Token
<1>3. /\ e \in Entry /\ ~e.archived
      /\ e.vault = NoVault \/ (e.vault \in Elsewhere /\ e.token = 1)
  <2>1. CASE e = LocalEntry(Idle.id)
      BY <2>1, IdleType, LocalEntryType
  <2>2. CASE e \in {PairedEntry(v, v, 1) : v \in Elsewhere}
    <3>1. PICK v \in Elsewhere : e = PairedEntry(v, v, 1)
        BY <2>2
    <3>2. v \in Id /\ v \in Vault \cup {NoVault}
        BY <1>2 DEF Id
    <3> QED
        BY <1>2, <3>1, <3>2, PairedEntryType
  <2> QED
      BY <1>1, <2>1, <2>2
<1>4. e.id \in Id /\ e.vault \in Vault \cup {NoVault} /\ e.token \in Token
    BY <1>3 DEF Entry
<1>5. PICK es : es = <<e>>
    OBVIOUS
<1>6. /\ es \in Seq(Entry) /\ DOMAIN es = {1} /\ es[1] = e /\ Range(es) = {e}
  <2>1. es \in Seq(Entry) /\ Len(es) = 1 /\ es[1] = e
      BY <1>3, <1>5
  <2>2. DOMAIN es = {1}
      BY <2>1
  <2> QED
      BY <2>1, <2>2 DEF Range
<1>7. /\ registry \in [active : Id, entries : Seq(Entry)]
      /\ registry.active = e.id /\ registry.entries = es
    BY <1>1, <1>4, <1>5, <1>6
<1>8. Sound(registry) /\ ActiveEntry(registry) = e
  <2>1. Sound(registry)
      BY <1>6, <1>7 DEF Sound
  <2> QED
      BY <1>6, <1>7, <2>1, ActiveIsListed
<1>9. /\ page \in [vault : Vault \cup {NoVault}, token : Token] /\ page.vault = e.vault
    BY <1>1, <1>4
<1>10. PageIsOpen
    BY <1>8, <1>9 DEF PageIsOpen
<1>11. /\ server \in [Vault -> ServerState]
       /\ \A v \in Vault :
             /\ server[v].taken = {} /\ server[v].shown = {}
             /\ server[v].state # "erased"
             /\ v \in Elsewhere => server[v].state = "live" /\ server[v].token = 1
             /\ v \notin Elsewhere => server[v].state = "none"
  <2>1. PICK n : n = NoVaultYet
      OBVIOUS
  <2>2. /\ n \in ServerState /\ n.state = "none" /\ n.taken = {} /\ n.shown = {}
      BY <1>2, <2>1 DEF NoVaultYet, ServerState
  <2>3. PICK m : m = [n EXCEPT !.state = "live"]
      OBVIOUS
  <2>4. m \in ServerState /\ m.state = "live" /\ m.taken = {} /\ m.shown = {}
      BY <2>2, <2>3 DEF ServerState
  <2>5. PICK l : l = [m EXCEPT !.token = 1]
      OBVIOUS
  <2>6. /\ l \in ServerState /\ l.state = "live" /\ l.token = 1
        /\ l.taken = {} /\ l.shown = {}
      BY <1>2, <2>4, <2>5 DEF ServerState
  <2>7. server = [v \in Vault |-> IF v \in Elsewhere THEN l ELSE n]
      BY <2>1, <2>3, <2>5 DEF Init
  <2> QED
      BY <2>2, <2>6, <2>7
<1>12. /\ disk = [g \in Graph |-> {}] /\ outbox = [v \in Vault |-> {}]
       /\ made = {} /\ parted = {} /\ gestures = 0 /\ faults = 0
       /\ flow \in [Kind -> Flow] /\ \A k \in Kind : flow[k].step = "idle"
    BY IdleType DEF Init
<1>13. hasty \in BOOLEAN /\ doubled \in BOOLEAN
    BY DEF Init
<1>14. TypeOK
  <2>1. 0 \in 0 .. MaxGestures /\ 0 \in 0 .. MaxFaults
      BY DataletBounds
  <2> QED
      BY <1>7, <1>9, <1>11, <1>12, <1>13, <2>1 DEF TypeOK, ServerState
<1>15. FlowsFit
    BY <1>12 DEF FlowsFit, StepsFit, VaultsFit, PairFits, RotateFits, EraseFits, Kind
<1>16. \A v \in Vault : Holders(v) # {} => v \in Elsewhere /\ e.vault = v /\ e.token = 1
    BY <1>3, <1>6, <1>7, VaultsAreNotLocal DEF Holders
<1>17. HeldAreMade
    BY <1>11, <1>16 DEF HeldAreMade
<1>18. OnlyMade /\ CopiesOfVaults /\ ErasedIsGivenUp
    BY <1>11, <1>12 DEF OnlyMade, CopiesOfVaults, ErasedIsGivenUp, Graph
<1>19. Told
  <2>1. IdsDiffer /\ OpenIsShown
      BY <1>3, <1>6, <1>7 DEF IdsDiffer, OpenIsShown
  <2>2. FetchedIsListed /\ CodeIsCurrent
      BY <1>12 DEF FetchedIsListed, Arriving, CodeIsCurrent, Kind
  <2>3. OneIsHere /\ NothingAside
      BY <1>12 DEF OneIsHere, NothingAside, Graph
  <2> QED
      BY <2>1, <2>2, <2>3 DEF Told
<1>20. Careful
  <2>1. QueuedIsHere
      BY <1>9, <1>12, <1>4 DEF QueuedIsHere
  <2>2. LeftIsEmpty
      BY <1>12 DEF LeftIsEmpty, Graph
  <2>3. LiveIsAtHand
      BY <1>6, <1>7, <1>11, <1>16 DEF LiveIsAtHand, AtHand, Holders
  <2>4. WorkIsKept
      BY <1>12 DEF WorkIsKept
  <2> QED
      BY <2>1, <2>2, <2>3, <2>4 DEF Careful
<1> QED
    BY <1>10, <1>14, <1>15, <1>17, <1>18, <1>19, <1>20 DEF Kept, Always

LEMMA NextKeeps ==
    ASSUME Kept, Next
    PROVE  Kept'
<1>1. CASE Work
    BY <1>1, MakeKeeps, SendKeeps, ShowKeeps DEF Work
<1>2. CASE Gestures
    BY <1>2, OpenKeeps, EraseKeeps, PutAwayKeeps, AddKeeps, PairBeginsKeeps, LeaveKeeps,
       RotateKeeps DEF Gestures
<1>3. CASE Answered
    BY <1>3, AdoptKeeps, AdoptRefusedKeeps, PairEndsKeeps, PairRefusedKeeps, RotatedKeeps,
       EraseAnsweredKeeps, FetchRefusedKeeps, FetchAgainKeeps, ArrivesKeeps DEF Answered
<1>4. CASE Faults
    BY <1>4, ClosePageKeeps, EraseUnansweredKeeps, RequestFailsKeeps, ArrivesInvalidKeeps
       DEF Faults
<1> QED
    BY <1>1, <1>2, <1>3, <1>4 DEF Next

LEMMA StutterKeeps ==
    ASSUME Kept, UNCHANGED vars
    PROVE  Kept'
<1>1. TypeOK /\ PageIsOpen /\ FlowsFit /\ OnlyMade
    BY DEF Kept, Always
<1>2. /\ UNCHANGED <<registry, page, disk, outbox, server, flow, made, parted, hasty, doubled>>
      /\ bounds' = bounds
    BY DEF vars, browser, history
<1>3. TypeOK'
    BY <1>1, <1>2 DEF TypeOK, bounds
<1>4. Quiet
    BY <1>1, <1>2 DEF Quiet, OnlyMade
<1>5. FlowsFit'
    BY <1>1, <1>2 DEF FlowsFit, StepsFit, VaultsFit, PairFits, RotateFits, EraseFits, HasEntry
<1>6. ~doubled => FetchedIsListed' /\ CodeIsCurrent'
    BY <1>2 DEF Kept, Told, FetchedIsListed, Arriving, HasEntry, CodeIsCurrent, Holders
<1>7. StayAtHand
    BY <1>1, <1>2, TokensStay
<1>8. ~doubled /\ ~hasty => LeftIsEmpty'
    BY <1>2 DEF Kept, Careful, LeftIsEmpty, OnItsWayOut
<1> QED
    BY <1>2, <1>3, <1>4, <1>5, <1>6, <1>7, <1>8, QuietStep

THEOREM Inductive == Spec => []Kept
<1>1. Init => Kept
    BY InitKept
<1>2. Kept /\ [Next]_vars => Kept'
    BY NextKeeps, StutterKeeps
<1> QED
    BY <1>1, <1>2, PTL DEF Spec

\* The browser's state is well formed, whatever the user does and however the answers
\* come.
THEOREM DataletTypes == Spec => []TypeOK
<1>1. Kept => TypeOK
    BY DEF Kept, Always
<1> QED
    BY <1>1, Inductive, PTL

\* One datalet is open, listed and shown, and only its records take room.
THEOREM OneIsResident == Spec => []OneResident
<1>1. Kept => OneResident
  <2>1. ASSUME Kept, ~doubled
        PROVE  /\ \E e \in Range(registry.entries) : e.id = registry.active /\ ~e.archived
               /\ \A v \in Vault : disk[v] # {} => v = page.vault
    <3>1. PageIsOpen /\ Told
        BY <2>1 DEF Kept, Always
    <3>2. ActiveEntry(registry) \in Range(registry.entries)
          /\ ActiveEntry(registry).id = registry.active
        BY <3>1, ActiveIsListed DEF PageIsOpen
    <3> QED
        BY <3>1, <3>2 DEF Told, OpenIsShown, OneIsHere
  <2> QED
      BY <2>1 DEF OneResident
<1> QED
    BY <1>1, Inductive, PTL

\* What the user made and did not give up is in reach.
THEOREM WorkIsSafe == Spec => []WorkSurvives
<1>1. Kept => WorkSurvives
  <2>1. ASSUME Kept, ~doubled, ~hasty
        PROVE  WorkIsKept /\ GraphOf(ActiveEntry(registry)) = GraphOf(page)
    <3>1. TypeOK /\ PageIsOpen /\ Careful
        BY <2>1 DEF Kept, Always
    <3> QED
        BY <3>1, PageFacts DEF Careful
  <2> QED
      BY <2>1 DEF WorkSurvives, WorkIsKept
<1> QED
    BY <1>1, Inductive, PTL

\* Where ids tell entries apart, forgetting one loses the others of no vault.
LEMMA OthersStay ==
    ASSUME TypeOK, PageIsOpen, IdsDiffer, NEW id, id # registry.active,
           registry' = Forgotten(id), NEW h \in Range(registry.entries), h.id = id,
           NEW v \in Vault, Holders(v) # {}, h.vault # v
    PROVE  Holders(v)' # {}
<1>1. PICK rg, reg : rg = registry /\ reg = Forgotten(id)
    OBVIOUS
<1>2. Range(reg.entries) = {e \in Range(registry.entries) : e.id # id}
  <2>1. Sound(rg) /\ id # rg.active
      BY <1>1 DEF PageIsOpen
  <2> QED
      BY <1>1, <2>1, ForgottenRegistry
<1>3. PICK e \in Range(registry.entries) : e.vault = v
    BY DEF Holders
<1>4. e.id # id
  <2>1. registry.entries \in Seq(Entry)
      BY DEF TypeOK
  <2> QED
      BY <1>3, <2>1, EntriesDomain DEF IdsDiffer
<1> QED
    BY <1>1, <1>2, <1>3, <1>4 DEF Holders

\* The steps that change the registry, one by one.
LEMMA EntryStays ==
    ASSUME Kept, IdsDiffer, [Next]_vars, NEW v \in Vault, Holders(v) # {}
    PROVE  Holders(v)' # {} \/ server'[v].state = "erased"
<1>1. TypeOK /\ PageIsOpen /\ FlowsFit /\ Sound(registry) /\ Apart(registry.entries)
    BY DEF Kept, Always, PageIsOpen, IdsDiffer, Apart
<1>2. CASE UNCHANGED registry
    BY <1>2 DEF Holders
<1>3. ASSUME NEW reg, registry' = reg,
             \A e \in Range(registry.entries) : e.vault \in Vault =>
                \E f \in Range(reg.entries) : f.vault = e.vault
      PROVE  Holders(v)' # {}
    BY <1>3 DEF Holders
<1>4. ASSUME NEW e \in Range(registry.entries), NEW put \in BOOLEAN, PutAway(e, put)
      PROVE  Holders(v)' # {}
  <2>1. PICK reg : reg = Archived(registry, e.id, put)
      OBVIOUS
  <2>2. e.id \in Id
      BY <1>1, EntriesDomain DEF TypeOK, Entry
  <2>3. \A g \in Range(registry.entries) : \E f \in Range(reg.entries) :
            f.id = g.id /\ f.vault = g.vault /\ f.token = g.token
      BY <1>1, <2>1, <2>2, ArchivedRegistry
  <2>4. registry' = reg
      BY <1>4, <2>1 DEF PutAway
  <2> QED
      BY <1>3, <2>3, <2>4
<1>5. ASSUME NEW e \in Range(registry.entries), Erase(e)
      PROVE  Holders(v)' # {}
  <2>1. CASE e.vault = NoVault
    <3>1. PICK id : id = e.id
        OBVIOUS
    <3>2. id # registry.active /\ registry' = Forgotten(id) /\ e.vault # v
        BY <1>5, <2>1, <3>1, VaultsAreNotLocal DEF Erase
    <3> QED
        BY <1>1, <3>1, <3>2, OthersStay
  <2>2. CASE e.vault # NoVault
      BY <1>2, <1>5, <2>2 DEF Erase, Holders
  <2> QED
      BY <2>1, <2>2
<1>6. CASE EraseAnswered
  <2>1. PICK f : f = flow["erase"]
      OBVIOUS
  <2>2. \/ server'[f.vault].state = "erased" /\ registry' = Forgotten(f.id)
        \/ UNCHANGED registry
      BY <1>6, <2>1 DEF EraseAnswered
  <2>3. f.id # registry.active /\ HasEntry(f)
      BY <1>1, <1>6, <2>1 DEF EraseAnswered, FlowsFit, EraseFits
  <2>4. PICK h \in Range(registry.entries) : h.id = f.id /\ h.vault = f.vault
      BY <2>3 DEF HasEntry
  <2>5. CASE f.vault = v
      BY <1>2, <2>2, <2>5
  <2>6. CASE f.vault # v
      BY <1>1, <1>2, <2>2, <2>3, <2>4, <2>6, OthersStay
  <2> QED
      BY <2>5, <2>6
<1>7. CASE Adopt
  <2>1. PICK f \in Flow : f = flow["add"]
      BY <1>1 DEF TypeOK, Kind
  <2>2. CASE CanLeave
    <3>1. PICK rg, reg : rg = registry /\ reg = Added(f.vault, f.token)
        OBVIOUS
    <3>2. f.vault \in Vault /\ f.token \in Token
        BY <1>1, <1>7, <2>1 DEF Adopt, FlowsFit, VaultsFit, Flow, Kind
    <3>3. Range(rg.entries) \subseteq Range(reg.entries)
        BY <1>1, <3>1, <3>2, AddedRegistry
    <3>4. registry' = reg
        BY <1>7, <2>1, <2>2, <3>1 DEF Adopt
    <3> QED
        BY <1>3, <3>1, <3>3, <3>4
  <2>3. CASE ~CanLeave
      BY <1>2, <1>7, <2>3 DEF Adopt
  <2> QED
      BY <2>2, <2>3
<1>8. ASSUME NEW k \in Kind, Arrives(k)
      PROVE  Holders(v)' # {}
  <2>1. PICK f \in Flow : f = flow[k]
      BY <1>1 DEF TypeOK
  <2>2. PICK reg1 : reg1 = Activated(f.id)
      OBVIOUS
  <2>3. PICK no \in BOOLEAN : no = FALSE
      OBVIOUS
  <2>4. PICK reg : reg = Archived(reg1, f.id, no)
      OBVIOUS
  <2>5. registry' = reg
      BY <1>8, <2>1, <2>2, <2>3, <2>4 DEF Arrives, Reload
  <2>6. f.id \in Id
      BY DEF Flow
  <2>7. Sound(reg1) /\ reg1.entries = registry.entries
      BY <1>1, <2>2, <2>6, ActivatedRegistry
  <2>8. \A g \in Range(reg1.entries) : \E h \in Range(reg.entries) :
            h.id = g.id /\ h.vault = g.vault /\ h.token = g.token
      BY <2>4, <2>6, <2>7, ArchivedRegistry
  <2> QED
      BY <1>3, <2>5, <2>7, <2>8
<1>9. ASSUME NEW w \in Vault, NEW t \in Token, registry' = Paired(registry, w, t),
             ActiveEntry(registry).vault \in {w, NoVault}
      PROVE  Holders(v)' # {}
  <2>1. PICK reg : reg = Paired(registry, w, t)
      OBVIOUS
  <2>2. /\ \A e \in Range(registry.entries) : e.vault \in Vault \ {w} =>
              e \in Range(reg.entries)
        /\ \E f \in Range(reg.entries) : f.vault = w /\ f.token = t
      BY <1>1, <1>9, <2>1, PairedHolders
  <2> QED
      BY <1>3, <1>9, <2>1, <2>2
<1>10. CASE PairEnds
  <2>1. PICK f \in Flow : f = flow["pair"]
      BY <1>1 DEF TypeOK, Kind
  <2>2. /\ f.vault \in Vault /\ f.token \in Token
        /\ ActiveEntry(registry).vault = NoVault
      BY <1>1, <1>10, <2>1
         DEF PairEnds, FlowsFit, VaultsFit, PairFits, PageIsOpen, Flow, Kind
  <2>3. registry' = Paired(registry, f.vault, f.token)
      BY <1>10, <2>1 DEF PairEnds, Reload
  <2>4. PICK w \in Vault, t \in Token : w = f.vault /\ t = f.token
      BY <2>2
  <2> QED
      BY <1>9, <2>2, <2>3, <2>4
<1>11. CASE Rotated
  <2>1. PICK f \in Flow : f = flow["rotate"]
      BY <1>1 DEF TypeOK, Kind
  <2>2. /\ f.vault \in Vault /\ f.token \in Token
        /\ ActiveEntry(registry).vault = f.vault
      BY <1>1, <1>11, <2>1
         DEF Rotated, FlowsFit, VaultsFit, RotateFits, PageIsOpen, Flow, Kind
  <2>3. registry' = Paired(registry, f.vault, f.token)
      BY <1>11, <2>1 DEF Rotated, Reload
  <2>4. PICK w \in Vault, t \in Token : w = f.vault /\ t = f.token
      BY <2>2
  <2> QED
      BY <1>9, <2>2, <2>3, <2>4
<1>12. CASE Leave
  <2>1. PICK rg : rg = registry
      OBVIOUS
  <2>2. PICK reg : reg = Unpaired(rg)
      OBVIOUS
  <2>3. registry' = reg /\ Unused # {} /\ Sound(rg)
      BY <1>1, <1>12, <2>1, <2>2 DEF Leave, Reload
  <2>4. /\ \A e \in Range(rg.entries) : e.id # rg.active => e \in Range(reg.entries)
        /\ \E f \in Range(reg.entries) : f.vault = ActiveEntry(rg).vault
      BY <2>1, <2>2, <2>3, UnpairedRegistry
  <2>5. \A e \in Range(rg.entries) : e.id = rg.active => e = ActiveEntry(rg)
      BY <1>1, <2>1, <2>3, ActiveIsListed
  <2> QED
      BY <1>3, <2>1, <2>3, <2>4, <2>5
<1>13. CASE ClosePage
    BY <1>2, <1>13 DEF ClosePage, Reload
<1>14. CASE Work
    BY <1>2, <1>14 DEF Work, Make, Send, Show, browser
<1>15. CASE Gestures
  <2>1. ASSUME NEW e \in Range(registry.entries), Open(e)
        PROVE  UNCHANGED registry
      BY <2>1 DEF Open, browser
  <2>2. ASSUME NEW w \in Vault, Add(w) \/ \E created \in BOOLEAN : PairBegins(w, created)
        PROVE  UNCHANGED registry
      BY <2>2 DEF Add, PairBegins, browser
  <2>3. Rotate => UNCHANGED registry
      BY DEF Rotate, browser
  <2> QED
      BY <1>2, <1>4, <1>5, <1>12, <1>15, <2>1, <2>2, <2>3 DEF Gestures
<1>16. CASE Answered
  <2>1. PairRefused => UNCHANGED registry
      BY DEF PairRefused, browser
  <2>2. ASSUME NEW k \in Kind, FetchRefused(k) \/ FetchAgain(k)
        PROVE  UNCHANGED registry
      BY <2>2 DEF FetchRefused, FetchAgain, browser
  <2> QED
      BY <1>2, <1>6, <1>7, <1>8, <1>10, <1>11, <1>16, <2>1, <2>2 DEF Answered
<1>17. CASE Faults
  <2>1. EraseUnanswered => UNCHANGED registry
      BY DEF EraseUnanswered, browser
  <2>2. ASSUME NEW k \in Kind, RequestFails(k) \/ ArrivesInvalid(k)
        PROVE  UNCHANGED registry
      BY <2>2 DEF RequestFails, ArrivesInvalid, browser
  <2> QED
      BY <1>2, <1>13, <1>17, <2>1, <2>2 DEF Faults
<1>18. CASE UNCHANGED vars
    BY <1>2, <1>18 DEF vars, browser
<1> QED
    BY <1>14, <1>15, <1>16, <1>17, <1>18 DEF Next

\* The token a vault can be erased with is lost to no step, as long as ids tell
\* entries apart.
THEOREM EntriesStay == Spec => VaultsStayErasable
<1>1. Kept /\ [Next]_vars =>
          (IdsDiffer => \A v \in Vault : Holders(v) # {} =>
             Holders(v)' # {} \/ server'[v].state = "erased")
    BY EntryStays
<1> QED
    BY <1>1, Inductive, PTL DEF Spec, VaultsStayErasable
=============================================================================
