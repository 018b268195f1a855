------------------------- MODULE StreamFanout_proofs -------------------------
(***************************************************************************)
(* Proofs about the stream of a vault, for any number of connections, any   *)
(* trimming and any length: no connection misses an entry, and what they    *)
(* get is the feed of EntryFeed.                                            *)
(***************************************************************************)
EXTENDS StreamFanout, Integers, FiniteSetsExt, Functions, WellFoundedInduction, TLAPS

-----------------------------------------------------------------------------
(* The last of a set of positions, and sequences that grow by one element. *)

\* A set of naturals that is not empty has a least element.
LEMMA LeastNat ==
    ASSUME NEW T, T \subseteq Nat, T # {}
    PROVE  \E x \in T : \A y \in T : x <= y
<1> DEFINE Less == {ss \in Nat \X Nat : ss[1] < ss[2]}
<1>1. OpToRel(<, Nat) = Less
    BY Zenon DEF OpToRel
<1>2. IsWellFoundedOn(Less, Nat)
    BY <1>1, NatLessThanWellFounded, Zenon
<1>3. \E x \in T : \A y \in T : ~ (<<y, x>> \in Less)
  <2> HIDE DEF Less
  <2> QED
      BY <1>2, WFMin
<1>4. ASSUME NEW x \in Nat, NEW y \in Nat, ~ (<<y, x>> \in Less)
      PROVE  x <= y
  <2>1. y < x => <<y, x>> \in Less
      OBVIOUS
  <2> QED
      BY <2>1, <1>4
<1> QED
  <2> HIDE DEF Less
  <2> QED
      BY <1>3, <1>4

\* A bounded set of naturals that is not empty has Max as its greatest element.
LEMMA MaxIsLast ==
    ASSUME NEW n \in Nat, NEW T, T \subseteq 0 .. n, T # {}
    PROVE  Max(T) \in T /\ \A y \in T : y <= Max(T)
<1> DEFINE Bounds == {u \in Nat : \A y \in T : y <= u}
<1>1. n \in Bounds /\ Bounds \subseteq Nat
    OBVIOUS
<1>2. PICK u \in Bounds : \A v \in Bounds : u <= v
    BY <1>1, LeastNat
<1>3. u \in T
  <2>1. SUFFICES ASSUME u \notin T
                 PROVE  FALSE
      OBVIOUS
  <2>2. \A y \in T : y < u /\ y \in Nat
      BY <2>1
  <2>3. PICK t \in T : TRUE
      OBVIOUS
  <2>4. u - 1 \in Nat
      BY <2>2, <2>3
  <2>5. \A y \in T : y <= u - 1
      BY <2>2
  <2>6. u - 1 \in Bounds
      BY <2>4, <2>5
  <2> QED
      BY <1>2, <2>6
<1>4. \E x \in T : \A y \in T : x >= y
    BY <1>3
<1> QED
    BY <1>4 DEF Max

\* A sequence of elements of S that grows by one of them.
LEMMA AppendGrows ==
    ASSUME NEW S, NEW s \in Seq(S), NEW x \in S
    PROVE  /\ Append(s, x) \in Seq(S)
           /\ Range(Append(s, x)) = Range(s) \cup {x}
<1>1. /\ Append(s, x) \in Seq(S) /\ Len(s) \in Nat
      /\ DOMAIN s = 1 .. Len(s) /\ DOMAIN Append(s, x) = 1 .. Len(s) + 1
    OBVIOUS
<1>2. \A i \in 1 .. Len(s) : Append(s, x)[i] = s[i]
    OBVIOUS
<1>3. Append(s, x)[Len(s) + 1] = x
    OBVIOUS
<1> QED
    BY <1>1, <1>2, <1>3 DEF Range

-----------------------------------------------------------------------------
(* Types. *)

LEMMA WrittenType ==
    ASSUME NEW n \in Nat, out \in [Conn -> Seq(SUBSET (1 .. n))],
           NEW C, NEW S, S \subseteq 1 .. n
    PROVE  Written(C, S) \in [Conn -> Seq(SUBSET (1 .. n))]
<1>1. \A c \in Conn : S \ Sent(c) \in SUBSET (1 .. n) /\ out[c] \in Seq(SUBSET (1 .. n))
    OBVIOUS
<1>2. \A c \in Conn : Append(out[c], S \ Sent(c)) \in Seq(SUBSET (1 .. n))
    BY <1>1, AppendGrows
<1> QED
    BY <1>1, <1>2 DEF Written

\* What a task writes is sent to the connections it writes to that are there.
LEMMA WrittenIsSent ==
    ASSUME NEW n \in Nat, out \in [Conn -> Seq(SUBSET (1 .. n))],
           NEW C, NEW S, S \subseteq 1 .. n, out' = Written(C, S), NEW c \in Conn
    PROVE  Sent(c)' = IF c \in C /\ here[c] THEN Sent(c) \cup S ELSE Sent(c)
<1>1. CASE c \in C /\ here[c] /\ ~ S \subseteq Sent(c)
  <2>1. out'[c] = Append(out[c], S \ Sent(c))
      BY <1>1 DEF Written
  <2> DEFINE P == SUBSET (1 .. n)
             more == S \ Sent(c)
  <2>2. more \in P /\ out[c] \in Seq(P)
      OBVIOUS
  <2>3. Range(Append(out[c], more)) = Range(out[c]) \cup {more}
    <3> HIDE DEF P, more
    <3> QED
        BY <2>2, AppendGrows
  <2>4. Range(out'[c]) = Range(out[c]) \cup {S \ Sent(c)}
      BY <2>1, <2>3
  <2> QED
      BY <1>1, <2>4 DEF Sent
<1>2. CASE ~ (c \in C /\ here[c] /\ ~ S \subseteq Sent(c))
  <2>1. out'[c] = out[c]
      BY <1>2 DEF Written
  <2>2. Sent(c)' = Sent(c)
      BY <2>1 DEF Sent
  <2> QED
      BY <1>2, <2>2
<1> QED
    BY <1>1, <1>2

LEMMA SentType ==
    ASSUME NEW n \in Nat, out \in [Conn -> Seq(SUBSET (1 .. n))], NEW c \in Conn
    PROVE  Sent(c) \subseteq 1 .. n
<1>1. out[c] \in Seq(SUBSET (1 .. n))
    OBVIOUS
<1>2. Range(out[c]) \subseteq SUBSET (1 .. n)
    BY <1>1 DEF Range
<1> QED
    BY <1>2 DEF Sent

\* A stream that grows keeps what was said of its entries.
LEMMA LongerStream ==
    ASSUME NEW n \in Nat, NEW s \in Seq(SUBSET (1 .. n))
    PROVE  s \in Seq(SUBSET (1 .. n + 1))
<1>1. \A i \in 1 .. Len(s) : s[i] \in SUBSET (1 .. n + 1)
    OBVIOUS
<1> QED
    BY <1>1

LEMMA InitType == Init => TypeOK
<1>1. <<>> \in Seq(SUBSET (1 .. 0))
    OBVIOUS
<1> QED
    BY <1>1, FanoutBounds DEF Init, TypeOK, NoWatcher, Phases

\* The last of the entries read, if there are any.
LEMMA LastRead ==
    ASSUME NEW n \in Nat, NEW S, S \subseteq 1 .. n, S # {}
    PROVE  Max(S) \in S /\ Max(S) \in 1 .. n /\ \A e \in S : e <= Max(S)
<1>1. S \subseteq 0 .. n
    OBVIOUS
<1> QED
    BY <1>1, MaxIsLast

LEMMA CommitType == TypeOK /\ Commit => TypeOK'
<1> SUFFICES ASSUME TypeOK, Commit
             PROVE  TypeOK'
    OBVIOUS
<1> USE DEF TypeOK, Commit, stream, call
<1>1. seq \in Nat /\ seq' = seq + 1 /\ seq' \in 0 .. MaxSeq
    BY FanoutBounds
<1>2. earliest' \in 1 .. MaxSeq + 1 /\ earliest' <= seq' + 1
    BY <1>1, FanoutBounds
<1>3. out' \in [Conn -> Seq(SUBSET (1 .. seq'))]
  <2>1. \A c \in Conn : out[c] \in Seq(SUBSET (1 .. seq + 1))
      BY <1>1, LongerStream
  <2> QED
      BY <1>1, <2>1
<1>4. watcher' \in [running : BOOLEAN, last : Nat, hand : SUBSET (1 .. seq')]
  <2>1. SUBSET (1 .. seq) \subseteq SUBSET (1 .. seq')
      BY <1>1
  <2> QED
      BY <2>1
<1>5. got' \in [Conn -> SUBSET (1 .. seq')]
  <2>1. SUBSET (1 .. seq) \subseteq SUBSET (1 .. seq')
      BY <1>1
  <2> QED
      BY <2>1
<1> QED
    BY <1>1, <1>2, <1>3, <1>4, <1>5

LEMMA StepType == TypeOK /\ [Next]_vars => TypeOK'
<1> SUFFICES ASSUME TypeOK, [Next]_vars
             PROVE  TypeOK'
    OBVIOUS
<1>n. /\ seq \in Nat /\ seq <= MaxSeq /\ MaxSeq \in Nat
      /\ out \in [Conn -> Seq(SUBSET (1 .. seq))]
      /\ Retained \subseteq 1 .. seq
    BY FanoutBounds DEF TypeOK, Retained
<1>w. NoWatcher \in [running : BOOLEAN, last : Nat, hand : SUBSET (1 .. seq)]
    BY DEF NoWatcher
<1>1. CASE Commit
    BY <1>1, CommitType
<1>2. CASE Delete
    BY <1>2, <1>n DEF TypeOK, Delete, call
<1>3. ASSUME NEW gone, Closes(gone), UNCHANGED <<seq, earliest, call, out>>,
             vault' \in {"there", "deleted", "announced"}, phase' \in [Conn -> Phases],
             since' \in [Conn -> Nat]
      PROVE  TypeOK'
    BY <1>3, <1>w DEF TypeOK, Unsubscribed, Closes, call
<1>4. CASE Announce
    BY <1>3, <1>4 DEF Announce, Closes, TypeOK
<1>5. CASE ProcessEnds
    BY <1>5, <1>w DEF ProcessEnds, TypeOK, stream, call, Phases
<1>6. ASSUME NEW c \in Conn, NEW s \in 0 .. (IF Ahead THEN MaxSeq ELSE seq), Open(c, s)
      PROVE  TypeOK'
    BY <1>6, <1>n DEF Open, TypeOK, stream, Phases
<1>7. ASSUME NEW c \in Conn, Leave(c)
      PROVE  TypeOK'
    BY <1>3, <1>7 DEF Leave, Closes, TypeOK, stream, call
<1>8. ASSUME NEW c \in Conn, Probe(c)
      PROVE  TypeOK'
  <2>1. probed' \in [Conn -> 0 .. MaxSeq]
      BY <1>8, <1>n DEF Probe, TypeOK, Retained
  <2> QED
      BY <1>8, <2>1 DEF Probe, TypeOK, stream
<1>9. ASSUME NEW c \in Conn, Read(c)
      PROVE  TypeOK'
  <2>1. got' \in [Conn -> SUBSET (1 .. seq)]
      BY <1>9, <1>n DEF Read, TypeOK
  <2> QED
      BY <1>9, <1>n, <2>1 DEF Read, TypeOK, stream
<1>10. ASSUME NEW c \in Conn, Refuse(c)
       PROVE  TypeOK'
    BY <1>10 DEF Refuse, TypeOK, stream, call, Phases
<1>11. ASSUME NEW c \in Conn, Attach(c)
       PROVE  TypeOK'
  <2>1. got[c] \subseteq 1 .. seq
      BY DEF TypeOK
  <2>2. out' \in [Conn -> Seq(SUBSET (1 .. seq))]
      BY <1>n, <1>11, <2>1, WrittenType DEF Attach
  <2>3. from' \in [Conn -> Nat]
    <3>1. got[c] # {} => Max(got[c]) \in Nat
        BY <1>n, <2>1, LastRead
    <3> QED
        BY <1>11, <3>1 DEF Attach, TypeOK
  <2>4. watcher' \in [running : BOOLEAN, last : Nat, hand : SUBSET (1 .. seq)]
      BY <1>11 DEF Attach, TypeOK, Watching
  <2> QED
      BY <1>11, <2>2, <2>3, <2>4 DEF Attach, TypeOK, stream, Phases
<1>12. ASSUME NEW c \in Conn, CloseGap(c)
       PROVE  TypeOK'
  <2>1. got[c] \subseteq 1 .. seq
      BY DEF TypeOK
  <2>2. out' \in [Conn -> Seq(SUBSET (1 .. seq))]
      BY <1>n, <1>12, <2>1, WrittenType DEF CloseGap
  <2> QED
      BY <1>12, <2>2 DEF CloseGap, TypeOK, stream, Phases
<1>13. CASE Fetch
    BY <1>13, <1>n DEF Fetch, TypeOK, Watching, stream, call
<1>14. CASE Deliver
  <2>1. watcher.hand \subseteq 1 .. seq /\ watcher.hand # {}
      BY <1>14 DEF Deliver, TypeOK
  <2>2. out' \in [Conn -> Seq(SUBSET (1 .. seq))]
      BY <1>n, <1>14, <2>1, WrittenType DEF Deliver
  <2>3. Max(watcher.hand) \in Nat
      BY <1>n, <2>1, LastRead
  <2> QED
      BY <1>14, <2>2, <2>3 DEF Deliver, TypeOK, Watching, stream, call
<1>15. CASE UNCHANGED vars
    BY <1>15 DEF TypeOK, vars, stream, call
<1> QED
    BY <1>1, <1>2, <1>4, <1>5, <1>6, <1>7, <1>8, <1>9, <1>10, <1>11, <1>12, <1>13, <1>14, <1>15
    DEF Next, Handler, Watch

\* Whatever the connections, the limits and the trimming, every variable stays in its type.
THEOREM TypeCorrect == Spec => []TypeOK
    BY InitType, StepType, PTL DEF Spec

-----------------------------------------------------------------------------
(* No entry is missed. *)

\* S leaves out no entry that is kept between lo and any that is in S.
Contiguous(lo, S) == \A e \in Retained : \A h \in S : lo < e /\ e <= h => e \in S

\* Whoever is served is attached to a watcher that runs, and has not passed the end
\* of the stream; what its last read found has no holes, nor has what a connection
\* has read before it attaches itself.
Watched ==
    /\ watcher.last <= seq
    /\ Contiguous(watcher.last, watcher.hand)
    /\ listeners # {} => watcher.running
    /\ \A c \in Conn :
          /\ Serving(c) => c \in listeners
          /\ since[c] <= seq
          /\ phase[c] = "idle" => reading[c] = "none"
          /\ phase[c] \in {"idle", "asked"} => from[c] = since[c]
          /\ phase[c] = "asked" /\ reading[c] = "read" => Contiguous(from[c], got[c])

LEMMA StepWatched ==
    ASSUME ~ Ahead, TypeOK, Watched, [Next]_vars
    PROVE  Watched'
<1>n. /\ seq \in Nat /\ Retained \subseteq 1 .. seq
      /\ watcher.hand \subseteq 1 .. seq /\ watcher.last \in Nat
      /\ \A c \in Conn : got[c] \subseteq 1 .. seq /\ since[c] \in Nat /\ from[c] \in Nat
    BY FanoutBounds DEF TypeOK, Retained
<1>1. CASE Commit
  <2>1. \A e \in Retained' : e \in Retained \/ e = seq + 1
      BY <1>1, <1>n DEF Commit, Retained, TypeOK
  <2>2. ASSUME NEW lo, NEW S, S \subseteq 1 .. seq, Contiguous(lo, S)
        PROVE  Contiguous(lo, S)'
    <3>1. SUFFICES ASSUME NEW e \in Retained', NEW h \in S, lo < e, e <= h
                   PROVE  e \in S
        BY DEF Contiguous
    <3>2. h \in Nat /\ h <= seq
        BY <1>n, <2>2
    <3>3. e \in Retained
        BY <1>n, <2>1, <3>1, <3>2
    <3> QED
        BY <2>2, <3>1, <3>3 DEF Contiguous
  <2>3. Contiguous(watcher.last, watcher.hand)'
      BY <1>1, <1>n, <2>2 DEF Watched, Commit
  <2>4. \A c \in Conn : phase[c] = "asked" /\ reading[c] = "read" => Contiguous(from[c], got[c])'
      BY <1>1, <1>n, <2>2 DEF Watched, Commit, call
  <2> QED
      BY <1>1, <1>n, <2>3, <2>4 DEF Watched, Commit, Serving, call
<1>2. ASSUME NEW gone, Closes(gone), UNCHANGED <<seq, earliest, call, since, phase>>
      PROVE  Watched'
  <2>1. Retained' = Retained
      BY <1>2 DEF Retained
  <2>2. \A lo, S : Contiguous(lo, S)' <=> Contiguous(lo, S)
      BY <2>1 DEF Contiguous
  <2>3. listeners' \subseteq listeners
      BY <1>2 DEF Closes, Unsubscribed
  <2>4. watcher' = watcher \/ (watcher' = NoWatcher /\ listeners' = {})
      BY <1>2 DEF Closes, Unsubscribed
  <2>5. \A c \in Conn : Serving(c)' => Serving(c) /\ c \notin gone
      BY <1>2 DEF Closes, Serving
  <2>6. \A c \in Conn : Serving(c)' => c \in listeners'
      BY <1>2, <2>5 DEF Closes, Unsubscribed, Watched
  <2>7. NoWatcher.hand = {} /\ NoWatcher.last = 0 /\ Contiguous(0, {})'
      BY DEF NoWatcher, Contiguous
  <2>8. /\ watcher'.last <= seq' /\ Contiguous(watcher.last, watcher.hand)'
        /\ listeners' # {} => watcher'.running
    <3>1. CASE watcher' = watcher
        BY <3>1, <1>2, <2>2, <2>3 DEF Watched
    <3>2. CASE watcher' = NoWatcher /\ listeners' = {}
        BY <3>2, <1>2, <1>n, <2>7
    <3> QED
        BY <2>4, <3>1, <3>2
  <2> QED
      BY <1>2, <2>2, <2>6, <2>8 DEF Watched, call
<1>3. CASE Delete
  <2>1. Retained' = {}
      BY <1>3, <1>n DEF Delete, Retained, TypeOK
  <2> QED
      BY <1>3, <2>1 DEF Watched, Delete, Contiguous, Serving, call
<1>4. CASE ProcessEnds
    BY <1>4, <1>n DEF Watched, ProcessEnds, Serving, NoWatcher, Contiguous, stream, call
<1>s. ASSUME UNCHANGED <<seq, earliest>>
      PROVE  \A lo, S : Contiguous(lo, S)' <=> Contiguous(lo, S)
    BY <1>s DEF Contiguous, Retained
<1>5. ASSUME NEW c \in Conn, NEW s \in 0 .. (IF Ahead THEN MaxSeq ELSE seq), Open(c, s)
      PROVE  Watched'
  <2>1. s \in Nat /\ s <= seq
      BY <1>n
  <2>2. reading'[c] = reading[c] /\ phase'[c] = "asked" /\ since'[c] = s /\ from'[c] = s
      BY <1>5 DEF Open, TypeOK
  <2> QED
      BY <1>5, <2>1, <2>2, <1>s DEF Watched, Open, Serving, stream, TypeOK
<1>6. ASSUME NEW c \in Conn, Probe(c)
      PROVE  Watched'
    BY <1>6, <1>s DEF Watched, Probe, Serving, stream, TypeOK
<1>7. ASSUME NEW c \in Conn, Read(c)
      PROVE  Watched'
  <2>1. got'[c] = {e \in Retained : e > from[c]} /\ from' = from
      BY <1>7 DEF Read, TypeOK
  <2>2. Contiguous(from[c], got[c])'
      BY <1>7, <1>n, <2>1 DEF Read, Contiguous, Retained, stream
  <2> QED
      BY <1>7, <2>2, <1>s DEF Watched, Read, Serving, stream, TypeOK
<1>8. ASSUME NEW c \in Conn, Refuse(c)
      PROVE  Watched'
    BY <1>8, <1>s DEF Watched, Refuse, Serving, stream, call, TypeOK
<1>9. ASSUME NEW c \in Conn, Attach(c)
      PROVE  Watched'
  <2>1. /\ watcher'.last <= seq' /\ Contiguous(watcher.last, watcher.hand)'
        /\ listeners' # {} => watcher'.running
      BY <1>9, <1>s DEF Watched, Attach, Contiguous, Watching, stream
  <2> QED
      BY <1>9, <2>1, <1>s DEF Watched, Attach, Serving, stream, TypeOK
<1>10. ASSUME NEW c \in Conn, CloseGap(c)
       PROVE  Watched'
    BY <1>10, <1>s DEF Watched, CloseGap, Serving, stream, TypeOK
<1>11. CASE Fetch
  <2>1. Contiguous(watcher.last, watcher.hand)'
      BY <1>11, <1>n DEF Fetch, Contiguous, Watching, Retained, stream
  <2> QED
      BY <1>11, <2>1, <1>s DEF Watched, Fetch, Serving, Watching, stream, call
<1>12. CASE Deliver
  <2>1. Max(watcher.hand) \in 1 .. seq
      BY <1>12, <1>n, LastRead DEF Deliver
  <2> QED
      BY <1>12, <2>1, <1>n, <1>s DEF Watched, Deliver, Contiguous, Serving, Watching, stream, call
<1>13. CASE UNCHANGED vars
    BY <1>13, <1>s DEF Watched, Serving, vars, stream, call
<1>14. ASSUME NEW c \in Conn, Leave(c)
       PROVE  Watched'
    BY <1>2, <1>14 DEF Leave, stream
<1>15. CASE Announce
    BY <1>2, <1>15 DEF Announce
<1> QED
    BY <1>1, <1>3, <1>4, <1>5, <1>6, <1>7, <1>8, <1>9, <1>10, <1>11, <1>12, <1>13, <1>14, <1>15
    DEF Next, Handler, Watch

LEMMA InitWatched == Init => Watched
    BY DEF Init, Watched, NoWatcher, Contiguous, Serving

LEMMA InitNothing == Init => NothingSkipped
    BY DEF Init, NothingSkipped, Serving

LEMMA StepNothing ==
    ASSUME TypeOK, Watched, Watched', NothingSkipped, [Next]_vars
    PROVE  NothingSkipped'
<1>n. /\ seq \in Nat /\ Retained \subseteq 1 .. seq
      /\ watcher.hand \subseteq 1 .. seq /\ watcher.last \in Nat
      /\ out \in [Conn -> Seq(SUBSET (1 .. seq))]
      /\ \A c \in Conn : got[c] \subseteq 1 .. seq /\ since[c] \in Nat /\ from[c] \in Nat
    BY FanoutBounds DEF TypeOK, Retained
<1> SUFFICES ASSUME NEW d \in Conn, Serving(d)', ~ Lapsed(d)', NEW e \in Retained',
                    e > since'[d]
             PROVE  e \in Sent(d)' \/ StillToCome(d, e)'
    BY DEF NothingSkipped
<1>0. ASSUME Serving(d), ~ Lapsed(d), e \in Retained, e > since[d]
      PROVE  e \in Sent(d) \/ StillToCome(d, e)
    BY <1>0 DEF NothingSkipped
<1>1. CASE Commit
  <2>1. CASE e = seq + 1
    <3>1. watcher'.running /\ d \in listeners' /\ watcher'.last = watcher.last
        BY <1>1 DEF Commit, Watched, Serving
    <3> QED
        BY <3>1, <2>1, <1>n DEF Watched, StillToCome
  <2>2. CASE e \in Retained
    <3>1. e \in Sent(d) \/ StillToCome(d, e)
        BY <1>0, <1>1, <2>2 DEF Commit, Serving, Lapsed, call
    <3> QED
        BY <1>1, <3>1 DEF Commit, Sent, StillToCome, call
  <2> QED
      BY <2>1, <2>2, <1>1, <1>n DEF Commit, Retained, TypeOK
<1>2. CASE Delete
    BY <1>2, <1>n DEF Delete, Retained, TypeOK
<1>3. ASSUME NEW gone, Closes(gone), UNCHANGED <<seq, earliest, call, since, phase, out>>
      PROVE  e \in Sent(d)' \/ StillToCome(d, e)'
  <2>1. Serving(d) /\ d \in listeners'
      BY <1>3 DEF Closes, Serving, Watched
  <2>2. watcher' = watcher
      BY <1>3, <2>1 DEF Closes, Unsubscribed
  <2>3. e \in Sent(d) \/ StillToCome(d, e)
      BY <1>0, <1>3, <2>1 DEF Retained, Lapsed, call
  <2> QED
      BY <1>3, <2>1, <2>2, <2>3 DEF Sent, StillToCome, call
<1>4. CASE ProcessEnds
    BY <1>4 DEF ProcessEnds, Serving
\* Nobody is served otherwise than before, nothing is written.
<1>r. ASSUME UNCHANGED <<seq, earliest, out, here>>
      PROVE  Retained' = Retained /\ Sent(d)' = Sent(d)
    BY <1>r DEF Retained, Sent
<1>5. ASSUME NEW c \in Conn, NEW s \in 0 .. (IF Ahead THEN MaxSeq ELSE seq), Open(c, s)
      PROVE  e \in Sent(d)' \/ StillToCome(d, e)'
  <2>1. d # c
      BY <1>5 DEF Open, Serving, TypeOK
  <2>2. /\ phase'[d] = phase[d] /\ since'[d] = since[d] /\ from'[d] = from[d]
        /\ UNCHANGED <<reading, got, watcher, listeners, here>>
      BY <1>5, <2>1 DEF Open, TypeOK
  <2>3. e \in Sent(d) \/ StillToCome(d, e)
      BY <1>0, <1>5, <1>r, <2>2 DEF Open, Serving, Lapsed, stream
  <2> QED
      BY <1>5, <1>r, <2>2, <2>3 DEF Open, StillToCome, stream
<1>6. ASSUME NEW c \in Conn, Probe(c)
      PROVE  e \in Sent(d)' \/ StillToCome(d, e)'
  <2>1. e \in Sent(d) \/ StillToCome(d, e)
      BY <1>0, <1>6, <1>r DEF Probe, Serving, Lapsed, stream, TypeOK
  <2> QED
      BY <1>6, <1>r, <2>1 DEF Probe, StillToCome, stream, TypeOK
<1>7. ASSUME NEW c \in Conn, Read(c)
      PROVE  e \in Sent(d)' \/ StillToCome(d, e)'
  <2>1. e \in Sent(d) \/ StillToCome(d, e)
      BY <1>0, <1>7, <1>r DEF Read, Serving, Lapsed, stream, TypeOK
  <2> QED
      BY <1>7, <1>r, <1>n, <2>1 DEF Read, StillToCome, stream, TypeOK
<1>8. ASSUME NEW c \in Conn, Refuse(c)
      PROVE  e \in Sent(d)' \/ StillToCome(d, e)'
  <2>1. e \in Sent(d) \/ StillToCome(d, e)
      BY <1>0, <1>8, <1>r DEF Refuse, Serving, Lapsed, stream, call, TypeOK
  <2> QED
      BY <1>8, <1>r, <2>1 DEF Refuse, Serving, StillToCome, stream, call, TypeOK
<1>9. ASSUME NEW c \in Conn, Attach(c)
      PROVE  e \in Sent(d)' \/ StillToCome(d, e)'
  <2>r. Retained' = Retained
      BY <1>9 DEF Attach, stream, Retained
  <2>1. Sent(d)' = IF d \in {c} /\ here[d] THEN Sent(d) \cup got[c] ELSE Sent(d)
      BY <1>9, <1>n, WrittenIsSent DEF Attach
  <2>2. CASE d = c
    <3>1. e \in Retained /\ e > from[c] /\ here[c]
        BY <1>9, <2>2, <2>r DEF Attach, Watched, Serving
    <3>2. from'[c] = (IF got[c] = {} THEN from[c] ELSE Max(got[c])) /\ reading'[c] = "none"
          /\ phase'[c] = "attached"
        BY <1>9 DEF Attach, TypeOK
    <3>3. CASE got[c] = {}
        BY <2>2, <3>1, <3>2, <3>3 DEF StillToCome
    <3>4. CASE got[c] # {} /\ e <= Max(got[c])
      <4>1. Max(got[c]) \in got[c]
          BY <3>4, <1>n, LastRead
      <4>2. e \in got[c]
          BY <1>9, <3>1, <3>4, <4>1 DEF Contiguous, Watched, Attach
      <4> QED
          BY <2>1, <2>2, <3>1, <4>2
    <3>5. CASE got[c] # {} /\ e > Max(got[c])
        BY <2>2, <3>2, <3>5 DEF StillToCome
    <3>6. got[c] # {} => Max(got[c]) \in Nat /\ e \in Nat
        BY <1>n, <2>r, LastRead
    <3> QED
        BY <3>3, <3>4, <3>5, <3>6
  <2>3. CASE d # c
    <3>1. Serving(d) /\ watcher.running
        BY <1>9, <2>3 DEF Attach, Serving, Watched, TypeOK
    <3>2. e \in Sent(d) \/ StillToCome(d, e)
        BY <1>0, <1>9, <2>3, <2>r, <3>1 DEF Attach, Lapsed, TypeOK
    <3> QED
        BY <1>9, <2>1, <2>3, <3>1, <3>2 DEF Attach, StillToCome, TypeOK
  <2> QED
      BY <2>2, <2>3
<1>10. ASSUME NEW c \in Conn, CloseGap(c)
       PROVE  e \in Sent(d)' \/ StillToCome(d, e)'
  <2>r. Retained' = Retained /\ Serving(d)
      BY <1>10 DEF CloseGap, stream, Retained, Serving, TypeOK
  <2>1. Sent(d)' = IF reading[c] = "read" /\ d \in {c} /\ here[d] THEN Sent(d) \cup got[c] ELSE Sent(d)
    <3>1. CASE reading[c] = "read"
        BY <3>1, <1>10, <1>n, WrittenIsSent DEF CloseGap
    <3>2. CASE reading[c] # "read"
        BY <3>2, <1>10 DEF CloseGap, Sent
    <3> QED
        BY <3>1, <3>2
  <2>2. ~ Lapsed(d) /\ (d = c => reading[c] = "read")
      BY <1>10 DEF CloseGap, Lapsed, TypeOK
  <2>3. e \in Sent(d) \/ StillToCome(d, e)
      BY <1>0, <1>10, <2>r, <2>2 DEF CloseGap
  <2> QED
      BY <1>10, <2>r, <2>1, <2>2, <2>3 DEF CloseGap, StillToCome, Serving, TypeOK
<1>11. CASE Fetch
  <2>1. e \in Sent(d) \/ StillToCome(d, e)
      BY <1>0, <1>11, <1>r DEF Fetch, Serving, Lapsed, stream, call
  <2> QED
      BY <1>11, <1>r, <2>1 DEF Fetch, StillToCome, Watching, stream, call
<1>12. CASE Deliver
  <2>r. Retained' = Retained /\ Serving(d) /\ ~ Lapsed(d)
      BY <1>12 DEF Deliver, stream, Retained, Serving, Lapsed, call
  <2>1. Sent(d)' = IF d \in listeners /\ here[d] THEN Sent(d) \cup watcher.hand ELSE Sent(d)
      BY <1>12, <1>n, WrittenIsSent DEF Deliver
  <2>2. e \in Sent(d) \/ StillToCome(d, e)
      BY <1>0, <1>12, <2>r DEF Deliver
  <2>3. CASE e \in watcher.hand
      BY <2>1, <2>3, <2>r DEF Serving, Watched
  <2>4. CASE e \notin watcher.hand
    <3>1. Max(watcher.hand) \in watcher.hand /\ Max(watcher.hand) \in Nat /\ e \in Nat
        BY <1>12, <1>n, <2>r, LastRead DEF Deliver
    <3>2. e > watcher.last => e > Max(watcher.hand)
        BY <2>4, <2>r, <3>1, <1>n DEF Watched, Contiguous
    <3>3. watcher' = Watching(Max(watcher.hand), {}) /\ listeners' = listeners
        BY <1>12 DEF Deliver
    <3> QED
        BY <1>12, <2>1, <2>2, <3>2, <3>3 DEF Deliver, StillToCome, Watching, call
  <2> QED
      BY <2>3, <2>4
<1>13. CASE UNCHANGED vars
    BY <1>13, <1>0 DEF Retained, Sent, Serving, Lapsed, StillToCome, vars, stream, call
<1>14. ASSUME NEW c \in Conn, Leave(c)
       PROVE  e \in Sent(d)' \/ StillToCome(d, e)'
    BY <1>3, <1>14 DEF Leave, stream
<1>15. CASE Announce
    BY <1>3, <1>15 DEF Announce
<1> QED
    BY <1>1, <1>2, <1>4, <1>5, <1>6, <1>7, <1>8, <1>9, <1>10, <1>11, <1>12, <1>13, <1>14, <1>15
    DEF Next, Handler, Watch

\* Nobody who asks for entries from within the stream misses one that is kept, for any
\* number of connections on one watcher and whatever is trimmed.  A position past the
\* end is excepted, which a client has when Redis has lost data: the watcher it
\* starts waits there, for every other connection too.
THEOREM NothingIsSkipped ==
    ASSUME ~ Ahead
    PROVE  Spec => []NothingSkipped
<1>1. Init => TypeOK /\ Watched /\ NothingSkipped
    BY InitType, InitWatched, InitNothing
<1>2. TypeOK /\ Watched /\ NothingSkipped /\ [Next]_vars
        => (TypeOK /\ Watched /\ NothingSkipped)'
    BY StepType, StepWatched, StepNothing
<1> QED
    BY <1>1, <1>2, PTL DEF Spec

-----------------------------------------------------------------------------
(* What the connections get is a feed. *)

\* Where the handlers and the clients are with respect to each other, and what a
\* connection knows of the position it asked from.
Orderly ==
    \A c \in Conn :
        /\ phase[c] = "idle" => here[c] /\ reading[c] = "none" /\ got[c] = {}
        /\ phase[c] \in {"idle", "asked"} => out[c] = <<>>
        /\ phase[c] = "live" => reading[c] \in {"read", "gap"}
        /\ c \in listeners /\ here[c] => phase[c] \in {"attached", "live"}
        /\ since[c] <= from[c]
        /\ reading[c] = "probed" => probed[c] <= earliest
        /\ phase[c] \in {"asked", "attached"} /\ reading[c] = "gap" => since[c] + 1 < earliest
        /\ got[c] # {} => \A e \in got[c] : from[c] < e

LEMMA InitOrderly == Init => Orderly
    BY DEF Init, Orderly

LEMMA StepOrderly ==
    ASSUME TypeOK, Orderly, [Next]_vars
    PROVE  Orderly'
<1>n. /\ seq \in Nat /\ earliest \in Nat
      /\ Retained \subseteq 1 .. seq
      /\ \A c \in Conn : got[c] \subseteq 1 .. seq /\ since[c] \in Nat /\ from[c] \in Nat
                             /\ probed[c] \in Nat
    BY FanoutBounds DEF TypeOK, Retained
<1>1. CASE Commit \/ Delete
  <2>1. earliest' >= earliest /\ earliest' \in Nat
      BY <1>1, <1>n DEF Commit, Delete, TypeOK
  <2> QED
      BY <1>1, <1>n, <2>1 DEF Commit, Delete, Orderly, call
<1>3. ASSUME NEW gone \in SUBSET Conn, Closes(gone), UNCHANGED <<seq, earliest, call, since, phase, out>>,
             \A c \in gone : phase[c] # "idle"
      PROVE  Orderly'
    BY <1>3 DEF Orderly, Closes, Unsubscribed, call
<1>4. CASE ProcessEnds
    BY <1>4 DEF Orderly, ProcessEnds, stream, call
<1>5. ASSUME NEW c \in Conn, NEW s \in 0 .. (IF Ahead THEN MaxSeq ELSE seq), Open(c, s)
      PROVE  Orderly'
  <2>1. /\ phase'[c] = "asked" /\ since'[c] = s /\ from'[c] = s
        /\ \A d \in Conn : d # c => /\ phase'[d] = phase[d]
                                   /\ since'[d] = since[d] /\ from'[d] = from[d]
      BY <1>5 DEF Open, TypeOK
  <2>2. UNCHANGED <<listeners, here, reading, probed, got, out, earliest>>
      BY <1>5 DEF Open, stream
  <2>3. phase[c] = "idle" /\ s <= s
      BY <1>5 DEF Open
  <2> QED
      BY <2>1, <2>2, <2>3 DEF Orderly
<1>6. ASSUME NEW c \in Conn, Probe(c)
      PROVE  Orderly'
  <2>1. probed'[c] <= earliest
      BY <1>6, <1>n DEF Probe, TypeOK
  <2> QED
      BY <1>6, <2>1, <1>n DEF Orderly, Probe, TypeOK, stream
<1>7. ASSUME NEW c \in Conn, Read(c)
      PROVE  Orderly'
  <2>1. got'[c] = {e \in Retained : e > from[c]}
      BY <1>7 DEF Read, TypeOK
  <2>2. reading'[c] = IF from[c] < probed[c] - 1 THEN "gap" ELSE "read"
      BY <1>7 DEF Read, TypeOK
  <2>3. reading'[c] = "gap" => since[c] + 1 < earliest
      BY <1>7, <2>2, <1>n DEF Read, Orderly
  <2> QED
      BY <1>7, <2>1, <2>2, <2>3, <1>n DEF Orderly, Read, TypeOK, stream
<1>8. ASSUME NEW c \in Conn, Refuse(c)
      PROVE  Orderly'
    BY <1>8, <1>n DEF Orderly, Refuse, TypeOK, stream, call
<1>9. ASSUME NEW c \in Conn, Attach(c)
      PROVE  Orderly'
  <2>1. got[c] # {} => Max(got[c]) \in got[c] /\ Max(got[c]) \in Nat
      BY <1>n, LastRead
  <2>2. from'[c] = IF got[c] = {} THEN from[c] ELSE Max(got[c])
      BY <1>9 DEF Attach, TypeOK
  <2>3. since[c] <= from'[c]
      BY <2>1, <2>2, <1>n DEF Orderly
  <2>4. \A d \in Conn : d # c => out'[d] = out[d]
      BY <1>9 DEF Attach, Written
  <2> QED
      BY <1>9, <2>3, <2>4 DEF Orderly, Attach, TypeOK, stream
<1>10. ASSUME NEW c \in Conn, CloseGap(c)
       PROVE  Orderly'
  <2>4. \A d \in Conn : d # c => out'[d] = out[d]
      BY <1>10 DEF CloseGap, Written
  <2> QED
      BY <1>10, <2>4 DEF Orderly, CloseGap, TypeOK, stream
<1>11. CASE Fetch
    BY <1>11 DEF Orderly, Fetch, stream, call
<1>12. CASE Deliver
  <2>1. \A c \in Conn : phase[c] \in {"idle", "asked"} => out'[c] = out[c]
      BY <1>12 DEF Deliver, Written, Orderly
  <2> QED
      BY <1>12, <2>1 DEF Orderly, Deliver, stream, call
<1>13. CASE UNCHANGED vars
    BY <1>13 DEF Orderly, vars, stream, call
<1>14. ASSUME NEW c \in Conn, Leave(c)
       PROVE  Orderly'
    BY <1>3, <1>14 DEF Leave, stream
<1>15. CASE Announce
  <2>1. \A c \in {d \in Conn : Serving(d)} : phase[c] # "idle"
      BY DEF Serving
  <2> QED
      BY <1>3, <1>15, <2>1 DEF Announce
<1> QED
    BY <1>1, <1>4, <1>5, <1>6, <1>7, <1>8, <1>9, <1>10, <1>11, <1>12, <1>13, <1>14, <1>15
    DEF Next, Handler, Watch

LEMMA InitFeed == Init => Feed!FeedInit
<1>1. Range(<<>>) = {}
    BY DEF Range
<1> QED
    BY <1>1 DEF Init, Feed!FeedInit, Sent, FeedState

\* Sends what is new of S to the connections of C that are there.
LEMMA WrittenIsSend ==
    ASSUME TypeOK, NEW C \in SUBSET Conn, NEW S \in SUBSET (1 .. seq),
           out' = Written(C, S), UNCHANGED <<seq, earliest, since, here>>,
           \A c \in C : here[c] => FeedState(c) \in {"open", "lapsed"},
           \A c \in Conn : FeedState(c)' = FeedState(c)
    PROVE  \E more \in Feed!Parcels : Feed!Send(more)
<1> DEFINE more == [c \in Conn |-> IF c \in C /\ here[c] THEN S \ Sent(c) ELSE {}]
<1>1. more \in Feed!Parcels
    BY DEF Feed!Parcels
<1>2. \A c \in Conn : Sent(c)' = Sent(c) \cup more[c]
  <2>1. seq \in Nat /\ out \in [Conn -> Seq(SUBSET (1 .. seq))]
      BY FanoutBounds DEF TypeOK
  <2> QED
      BY <2>1, WrittenIsSent
<1>3. \A c \in Conn : more[c] # {} => FeedState(c) \in {"open", "lapsed"}
    OBVIOUS
<1>4. \A c \in Conn : more[c] \cap Sent(c) = {}
    OBVIOUS
<1>5. Feed!Send(more)
  <2> HIDE DEF more
  <2> QED
      BY <1>2, <1>3, <1>4 DEF Feed!Send
<1> QED
    BY <1>1, <1>5

LEMMA StepFeed ==
    ASSUME TypeOK, Orderly, [Next]_vars
    PROVE  [Feed!FeedNext]_(Feed!feed)
<1>n. /\ seq \in Nat /\ earliest \in Nat /\ seq <= MaxSeq
      /\ out \in [Conn -> Seq(SUBSET (1 .. seq))]
      /\ \A c \in Conn : got[c] \in SUBSET (1 .. seq) /\ since[c] \in Nat
    BY FanoutBounds DEF TypeOK
\* Nothing that a client can tell.
<1>u. ASSUME UNCHANGED <<seq, earliest, since>>,
             \A c \in Conn : Sent(c)' = Sent(c) /\ FeedState(c)' = FeedState(c)
      PROVE  UNCHANGED Feed!feed
    BY <1>u DEF Feed!feed
<1>1. CASE Commit \/ Delete
  <2>1. seq' \in seq .. MaxSeq /\ earliest' \in earliest .. seq' + 1
      BY <1>1, <1>n, FanoutBounds DEF Commit, Delete, TypeOK
  <2>2. \A c \in Conn : Sent(c)' = Sent(c) /\ FeedState(c)' = FeedState(c)
      BY <1>1 DEF Commit, Delete, Sent, FeedState, Lapsed, call
  <2>3. since' = since
      BY <1>1 DEF Commit, Delete
  <2>4. Feed!Publish
      BY <2>1, <2>2, <2>3 DEF Feed!Publish
  <2> QED
      BY <2>4 DEF Feed!FeedNext
<1>f. ASSUME NEW gone \in SUBSET Conn, UNCHANGED <<seq, earliest, since, out>>,
             \A c \in Conn : FeedState(c)' = IF c \in gone THEN "over" ELSE FeedState(c)
      PROVE  [Feed!FeedNext]_(Feed!feed)
  <2>1. \A c \in Conn : Sent(c)' = Sent(c)
      BY <1>f DEF Sent
  <2>2. Feed!Finish(gone)
      BY <1>f, <2>1 DEF Feed!Finish
  <2> QED
      BY <2>2 DEF Feed!FeedNext
<1>3. ASSUME NEW gone \in SUBSET Conn, Closes(gone), UNCHANGED <<seq, earliest, call, since, phase, out>>
      PROVE  [Feed!FeedNext]_(Feed!feed)
  <2>1. \A c \in Conn : FeedState(c)' = IF c \in gone THEN "over" ELSE FeedState(c)
      BY <1>3 DEF Closes, FeedState, Lapsed, call
  <2> QED
      BY <1>3, <1>f, <2>1
<1>4. CASE ProcessEnds
  <2> DEFINE gone == {c \in Conn : phase[c] # "idle"}
  <2>1. \A c \in Conn : FeedState(c)' = IF c \in gone THEN "over" ELSE FeedState(c)
      BY <1>4 DEF ProcessEnds, FeedState, Orderly
  <2>2. gone \in SUBSET Conn /\ UNCHANGED <<seq, earliest, since, out>>
      BY <1>4 DEF ProcessEnds, stream
  <2> QED
      BY <2>1, <2>2, <1>f
<1>5. ASSUME NEW c \in Conn, NEW s \in 0 .. (IF Ahead THEN MaxSeq ELSE seq), Open(c, s)
      PROVE  [Feed!FeedNext]_(Feed!feed)
  <2>1. s \in 0 .. MaxSeq
      BY <1>n, FanoutBounds
  <2>2. FeedState(c) = "idle" /\ FeedState(c)' = "asked"
      BY <1>5 DEF Open, FeedState, Orderly, TypeOK
  <2>3. \A d \in Conn : d # c => FeedState(d)' = FeedState(d)
      BY <1>5 DEF Open, FeedState, Lapsed, TypeOK
  <2>4. [d \in Conn |-> FeedState(d)]' = [[d \in Conn |-> FeedState(d)] EXCEPT ![c] = "asked"]
      BY <2>2, <2>3
  <2>5. \A d \in Conn : Sent(d)' = Sent(d)
      BY <1>5 DEF Open, Sent
  <2>6. Feed!Ask(c, s)
      BY <1>5, <2>2, <2>4, <2>5 DEF Open, Feed!Ask, stream
  <2> QED
      BY <2>1, <2>6 DEF Feed!FeedNext
<1>6. ASSUME NEW c \in Conn, Probe(c) \/ Read(c)
      PROVE  [Feed!FeedNext]_(Feed!feed)
  <2>1. \A d \in Conn : Sent(d)' = Sent(d) /\ FeedState(d)' = FeedState(d)
      BY <1>6 DEF Probe, Read, Sent, FeedState, Lapsed, TypeOK
  <2> QED
      BY <1>6, <1>u, <2>1 DEF Probe, Read, stream
<1>8. ASSUME NEW c \in Conn, Refuse(c)
      PROVE  [Feed!FeedNext]_(Feed!feed)
  <2>1. \A d \in Conn : FeedState(d)' = IF d \in {c} THEN "over" ELSE FeedState(d)
      BY <1>8 DEF Refuse, FeedState, Lapsed, TypeOK, call
  <2> QED
      BY <1>8, <1>f, <2>1 DEF Refuse, stream, call
<1>9. ASSUME NEW c \in Conn, Attach(c)
      PROVE  [Feed!FeedNext]_(Feed!feed)
  <2>1. \A d \in Conn : Sent(d)' = IF d \in {c} /\ here[d] THEN Sent(d) \cup got[c] ELSE Sent(d)
      BY <1>9, <1>n, WrittenIsSent DEF Attach
  <2>2. \A d \in Conn : d # c => FeedState(d)' = FeedState(d)
      BY <1>9 DEF Attach, FeedState, Lapsed, TypeOK
  <2>3. CASE here[c]
    <3>1. FeedState(c) = "asked" /\ FeedState(c)' = "open"
        BY <1>9, <2>3 DEF Attach, FeedState, Lapsed, TypeOK
    <3>2. Sent(c) = {}
        BY <1>9 DEF Attach, Orderly, Sent, Range
    <3>3. [d \in Conn |-> FeedState(d)]' = [[d \in Conn |-> FeedState(d)] EXCEPT ![c] = "open"]
        BY <2>2, <3>1
    <3>4. [d \in Conn |-> Sent(d)]' = [[d \in Conn |-> Sent(d)] EXCEPT ![c] = got[c]]
        BY <2>1, <2>3, <3>2
    <3>5. Feed!Serve(c, got[c])
        BY <1>9, <3>1, <3>3, <3>4 DEF Attach, Feed!Serve, stream
    <3> QED
        BY <1>n, <3>5 DEF Feed!FeedNext
  <2>4. CASE ~ here[c]
    <3>1. FeedState(c)' = FeedState(c)
        BY <1>9, <2>4 DEF Attach, FeedState
    <3> QED
        BY <1>9, <1>u, <2>1, <2>2, <2>4, <3>1 DEF Attach, stream
  <2> QED
      BY <2>3, <2>4
<1>10. ASSUME NEW c \in Conn, CloseGap(c)
       PROVE  [Feed!FeedNext]_(Feed!feed)
  <2>1. \A d \in Conn : d # c => FeedState(d)' = FeedState(d)
      BY <1>10 DEF CloseGap, FeedState, Lapsed, TypeOK
  <2>2. CASE reading[c] = "read"
    <3>1. FeedState(c)' = FeedState(c) /\ (here[c] => FeedState(c) = "open")
        BY <1>10, <2>2 DEF CloseGap, FeedState, Lapsed, TypeOK
    <3>2. \E more \in Feed!Parcels : Feed!Send(more)
      <4>1. out' = Written({c}, got[c]) /\ UNCHANGED <<seq, earliest, since, here>>
          BY <1>10, <2>2 DEF CloseGap, stream
      <4>2. \A d \in {c} : here[d] => FeedState(d) \in {"open", "lapsed"}
          BY <3>1
      <4>3. \A d \in Conn : FeedState(d)' = FeedState(d)
          BY <2>1, <3>1
      <4> QED
          BY <4>1, <4>2, <4>3, <1>n, WrittenIsSend
    <3> QED
        BY <3>2 DEF Feed!FeedNext
  <2>3. CASE reading[c] = "gap"
    <3>1. \A d \in Conn : Sent(d)' = Sent(d)
        BY <1>10, <2>3 DEF CloseGap, Sent
    <3>2. CASE here[c]
      <4>1. FeedState(c) = "open" /\ FeedState(c)' = "lapsed"
          BY <1>10, <2>3, <3>2 DEF CloseGap, FeedState, Lapsed, TypeOK
      <4>2. [d \in Conn |-> FeedState(d)]' = [[d \in Conn |-> FeedState(d)] EXCEPT ![c] = "lapsed"]
          BY <2>1, <4>1
      <4>3. earliest > since[c] + 1
          BY <1>10, <1>n, <2>3 DEF Orderly, CloseGap
      <4>4. Feed!Lapse(c)
          BY <1>10, <3>1, <4>1, <4>2, <4>3 DEF CloseGap, Feed!Lapse, stream
      <4> QED
          BY <4>4 DEF Feed!FeedNext
    <3>3. CASE ~ here[c]
      <4>1. FeedState(c)' = FeedState(c)
          BY <1>10, <3>3 DEF CloseGap, FeedState
      <4> QED
          BY <1>10, <1>u, <2>1, <3>1, <4>1 DEF CloseGap, stream
    <3> QED
        BY <3>2, <3>3
  <2> QED
      BY <1>10, <2>2, <2>3 DEF CloseGap
<1>11. CASE Fetch
  <2>1. \A d \in Conn : Sent(d)' = Sent(d) /\ FeedState(d)' = FeedState(d)
      BY <1>11 DEF Fetch, Sent, FeedState, Lapsed, call
  <2> QED
      BY <1>11, <1>u, <2>1 DEF Fetch, stream
<1>12. CASE Deliver
  <2>1. \A d \in Conn : FeedState(d)' = FeedState(d)
      BY <1>12 DEF Deliver, FeedState, Lapsed, call
  <2>2. \A d \in listeners : here[d] => FeedState(d) \in {"open", "lapsed"}
      BY DEF Orderly, FeedState, TypeOK
  <2>3. /\ listeners \in SUBSET Conn /\ watcher.hand \in SUBSET (1 .. seq)
        /\ out' = Written(listeners, watcher.hand)
        /\ UNCHANGED <<seq, earliest, since, here>>
      BY <1>12 DEF Deliver, TypeOK, stream
  <2>4. \E more \in Feed!Parcels : Feed!Send(more)
      BY <2>1, <2>2, <2>3, WrittenIsSend
  <2> QED
      BY <2>4 DEF Feed!FeedNext
<1>13. CASE UNCHANGED vars
  <2>1. \A d \in Conn : Sent(d)' = Sent(d) /\ FeedState(d)' = FeedState(d)
      BY <1>13 DEF vars, Sent, FeedState, Lapsed, call
  <2> QED
      BY <1>13, <1>u, <2>1 DEF vars, stream
<1>14. ASSUME NEW c \in Conn, Leave(c)
       PROVE  [Feed!FeedNext]_(Feed!feed)
    BY <1>3, <1>14 DEF Leave, stream
<1>15. CASE Announce
    BY <1>3, <1>15 DEF Announce
<1> QED
    BY <1>1, <1>4, <1>5, <1>6, <1>8, <1>9, <1>10, <1>11, <1>12, <1>13, <1>14, <1>15
    DEF Next, Handler, Watch

\* Every step of the server is a step of the feed that EntryFeed describes or one no
\* client can tell: nobody is sent an entry twice, nor one that is not in the stream,
\* and a promise is dropped only for a client whose next entry was trimmed, whatever
\* the since of the others.  That the promise is kept in the end is left to TLC.
THEOREM FeedIsImplemented == Spec => Feed!FeedSafety
<1>1. Init => TypeOK /\ Orderly /\ Feed!FeedInit
    BY InitType, InitOrderly, InitFeed
<1>2. TypeOK /\ Orderly /\ [Next]_vars => TypeOK' /\ Orderly' /\ [Feed!FeedNext]_(Feed!feed)
    BY StepType, StepOrderly, StepFeed
<1> QED
    BY <1>1, <1>2, PTL DEF Spec, Feed!FeedSafety
=============================================================================
