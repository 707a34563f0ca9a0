----------------------------- MODULE LibraryProofs -----------------------------
(***************************************************************************)
(* Counted references, for every number of threads, references and objects: *)
(* the count of an object is the number of references to it and of those    *)
(* that were assigned over, so an object that is held is not destroyed.     *)
(* The logger, for every bound of its ids: an id names the sink it was      *)
(* returned for, and a message reaches the sinks of its logger.             *)
(***************************************************************************)
EXTENDS Tensorlib, FiniteSetTheorems, TLAPS

Values == Objects \cup {NoObject, "dead"}
ReleaseSteps == {"decrement", "read", "free"}

RefTypes ==
  /\ ref \in [Threads -> [Slots -> Values]]
  /\ count \in [Objects -> Int] /\ lost \in [Objects -> Nat] /\ freed \in [Objects -> Nat]
  /\ releasing \in [Threads -> [at : {Idle}] \cup [at : ReleaseSteps, slot : Slots, then : Values]]
  /\ made \subseteq Objects /\ IsFiniteSet(made)
  /\ owner \in [object : Objects \cup {NoObject}, size : {Base, Derived}]
  /\ living \in Int /\ misfreed \in Int
  /\ \A t \in Threads : releasing[t].at # Idle => Object(t) \in Objects

CountInv == \A o \in Objects : count[o] = Counted(o) + lost[o]

Held(o) == \E t \in Threads, s \in Slots : ref[t][s] = o
OffCount(o) == {t \in Threads : releasing[t].at \in {"read", "free"} /\ Object(t) = o}

LifeInv(o) ==
  /\ o \notin made => freed[o] = 0 /\ count[o] = 0
  /\ owner.object = o => o \in made /\ freed[o] = 0 /\ count[o] = 0
  /\ Held(o) => o \in made /\ o # owner.object
  /\ count[o] > 0 => freed[o] = 0 /\ o \in references
  /\ \A t \in OffCount(o) : releasing[t].at = "free" => count[o] = 0

FreeInv(o) ==
  o \notin raced =>
    /\ \A t, u \in OffCount(o) : t = u
    /\ freed[o] <= 1 /\ (freed[o] = 1 => ~Held(o))

LivingInv == raced = {} => living = Derived * Cardinality({o \in made : freed[o] = 0}) + misfreed

RefInv == RefTypes /\ CountInv /\ (\A o \in Objects : LifeInv(o) /\ FreeInv(o)) /\ LivingInv

-----------------------------------------------------------------------------
(* Counting references *)

HoldingOf(rf, rel, o) ==
  {h \in Threads \X Slots :
     rf[h[1]][h[2]] = o /\ ~(rel[h[1]].at \in {"read", "free"} /\ rel[h[1]].slot = h[2])}
ComingOf(rel, o) == {t \in Threads : rel[t].at # Idle /\ rel[t].then = o}
One(r, o) == IF r = o THEN 1 ELSE 0

\* The references when one of them is given the value r
With(rf, t, s, r) == [rf EXCEPT ![t][s] = r]

\* The number of references and of assignments under way that count for o
Count(rf, rel, o) == Cardinality(HoldingOf(rf, rel, o)) + Cardinality(ComingOf(rel, o))

LEMMA HoldersAreFinite ==
  ASSUME NEW rf, NEW rel, NEW o
  PROVE  /\ IsFiniteSet(HoldingOf(rf, rel, o)) /\ Cardinality(HoldingOf(rf, rel, o)) \in Nat
         /\ IsFiniteSet(ComingOf(rel, o)) /\ Cardinality(ComingOf(rel, o)) \in Nat
         /\ Count(rf, rel, o) \in Nat
<1>1. IsFiniteSet(Threads \X Slots) /\ IsFiniteSet(Threads)
  BY ReferencesAssumption, FS_Product
<1>2. HoldingOf(rf, rel, o) \subseteq Threads \X Slots /\ ComingOf(rel, o) \subseteq Threads
  BY DEF HoldingOf, ComingOf
<1>3. IsFiniteSet(HoldingOf(rf, rel, o)) /\ IsFiniteSet(ComingOf(rel, o))
  BY <1>1, <1>2, FS_Subset
<1>4. Cardinality(HoldingOf(rf, rel, o)) \in Nat /\ Cardinality(ComingOf(rel, o)) \in Nat
  BY <1>3, FS_CardinalityType
<1> QED BY <1>3, <1>4 DEF Count

\* Two sets that differ in one element at most
LEMMA OneElement ==
  ASSUME NEW A, NEW B, IsFiniteSet(A), IsFiniteSet(B), NEW p, A \ {p} = B \ {p}
  PROVE  Cardinality(B) = Cardinality(A) - (IF p \in A THEN 1 ELSE 0) + (IF p \in B THEN 1 ELSE 0)
<1>1. /\ Cardinality(A) \in Nat /\ Cardinality(B) \in Nat
      /\ Cardinality(A \ {p}) = IF p \in A THEN Cardinality(A) - 1 ELSE Cardinality(A)
      /\ Cardinality(B \ {p}) = IF p \in B THEN Cardinality(B) - 1 ELSE Cardinality(B)
  BY FS_RemoveElement, FS_CardinalityType
<1> QED BY <1>1

\* A reference of a thread that counts none off is given another value.
LEMMA PutCounts ==
  ASSUME NEW rf \in [Threads -> [Slots -> Values]], NEW rel, NEW t \in Threads, NEW s \in Slots,
         rel[t].at \notin {"read", "free"}, NEW r \in Values
  PROVE  /\ With(rf, t, s, r) \in [Threads -> [Slots -> Values]]
         /\ With(rf, t, s, r)[t][s] = r
         /\ \A u \in Threads, v \in Slots : u # t \/ v # s => With(rf, t, s, r)[u][v] = rf[u][v]
         /\ \A o \in Objects : Count(With(rf, t, s, r), rel, o) = Count(rf, rel, o) - One(rf[t][s], o) + One(r, o)
<1> DEFINE rf2 == With(rf, t, s, r)
<1>1. /\ rf2 \in [Threads -> [Slots -> Values]] /\ rf2[t][s] = r
      /\ \A u \in Threads, v \in Slots : u # t \/ v # s => rf2[u][v] = rf[u][v]
  BY DEF With
<1> HIDE DEF rf2
<1>2. ASSUME NEW o \in Objects
      PROVE  Count(rf2, rel, o) = Count(rf, rel, o) - One(rf[t][s], o) + One(r, o)
  <2> DEFINE A == HoldingOf(rf, rel, o)
             B == HoldingOf(rf2, rel, o)
  <2>1. A \ {<<t, s>>} = B \ {<<t, s>>}
    <3>1. ASSUME NEW h \in Threads \X Slots, h # <<t, s>> PROVE h \in A <=> h \in B
      <4>1. h[1] \in Threads /\ h[2] \in Slots /\ (h[1] # t \/ h[2] # s)
        BY <3>1
      <4> QED BY <1>1, <4>1 DEF HoldingOf
    <3>2. A \subseteq Threads \X Slots /\ B \subseteq Threads \X Slots
      BY DEF HoldingOf
    <3> HIDE DEF A, B
    <3> QED BY <3>1, <3>2
  <2>2. (<<t, s>> \in A <=> rf[t][s] = o) /\ (<<t, s>> \in B <=> r = o)
    BY <1>1 DEF HoldingOf
  <2>3. IsFiniteSet(A) /\ IsFiniteSet(B) /\ Cardinality(A) \in Nat /\ Cardinality(ComingOf(rel, o)) \in Nat
    BY HoldersAreFinite
  <2>4. Count(rf2, rel, o) = Cardinality(B) + Cardinality(ComingOf(rel, o))
        /\ Count(rf, rel, o) = Cardinality(A) + Cardinality(ComingOf(rel, o))
    BY DEF Count
  <2> HIDE DEF A, B
  <2>5. Cardinality(B) = Cardinality(A) - One(rf[t][s], o) + One(r, o)
    BY <2>1, <2>2, <2>3, OneElement DEF One
  <2>6. One(rf[t][s], o) \in Int /\ One(r, o) \in Int
    BY DEF One
  <2> QED BY <2>3, <2>4, <2>5, <2>6
<1> QED BY <1>1, <1>2 DEF rf2

RelTypes(rel) == rel \in [Threads -> [at : {Idle}] \cup [at : ReleaseSteps, slot : Slots, then : Values]]

\* The releases when a thread begins one, has counted the reference off, and ends it
Begun(rel, t, s, r) == [rel EXCEPT ![t] = [at |-> "decrement", slot |-> s, then |-> r]]
CountedOffBy(rel, t) == [rel EXCEPT ![t].at = "read"]
Ended(rel, t) == [rel EXCEPT ![t] = [at |-> Idle]]

\* A thread begins to release a reference, which will be given the value r.
LEMMA BeginCounts ==
  ASSUME NEW rf, NEW rel, RelTypes(rel), NEW t \in Threads, NEW s \in Slots, rel[t].at = Idle,
         NEW r \in Values
  PROVE  /\ RelTypes(Begun(rel, t, s, r))
         /\ \A o \in Objects : Count(rf, Begun(rel, t, s, r), o) = Count(rf, rel, o) + One(r, o)
<1> DEFINE rel2 == Begun(rel, t, s, r)
<1>1. /\ rel2[t].at = "decrement" /\ rel2[t].slot = s /\ rel2[t].then = r
      /\ \A u \in Threads : u # t => rel2[u] = rel[u]
  BY DEF RelTypes, Begun
<1>2. RelTypes(rel2)
  <2>1. [at |-> "decrement", slot |-> s, then |-> r] \in [at : ReleaseSteps, slot : Slots, then : Values]
    BY DEF ReleaseSteps
  <2> QED BY <2>1 DEF RelTypes, Begun
<1> HIDE DEF rel2
<1>3. ASSUME NEW o \in Objects PROVE Count(rf, rel2, o) = Count(rf, rel, o) + One(r, o)
  <2>1. HoldingOf(rf, rel2, o) = HoldingOf(rf, rel, o)
    <3>1. ASSUME NEW h \in Threads \X Slots
          PROVE  (rel2[h[1]].at \in {"read", "free"} /\ rel2[h[1]].slot = h[2])
                   <=> (rel[h[1]].at \in {"read", "free"} /\ rel[h[1]].slot = h[2])
      BY <1>1 DEF Idle
    <3> QED BY <3>1 DEF HoldingOf
  <2> DEFINE A == ComingOf(rel, o)
             B == ComingOf(rel2, o)
  <2>2. A \ {t} = B \ {t} /\ t \notin A /\ (t \in B <=> r = o)
    BY <1>1 DEF ComingOf, Idle
  <2>3. IsFiniteSet(A) /\ IsFiniteSet(B) /\ Cardinality(A) \in Nat /\ Cardinality(HoldingOf(rf, rel, o)) \in Nat
    BY HoldersAreFinite
  <2>4. Count(rf, rel2, o) = Cardinality(HoldingOf(rf, rel, o)) + Cardinality(B)
        /\ Count(rf, rel, o) = Cardinality(HoldingOf(rf, rel, o)) + Cardinality(A)
    BY <2>1 DEF Count
  <2> HIDE DEF A, B
  <2>5. Cardinality(B) = Cardinality(A) + One(r, o)
    BY <2>2, <2>3, OneElement DEF One
  <2>6. One(r, o) \in Int
    BY DEF One
  <2> QED BY <2>3, <2>4, <2>5, <2>6
<1> QED BY <1>2, <1>3 DEF rel2

\* The reference a thread releases is counted off.
LEMMA OffCounts ==
  ASSUME NEW rf, NEW rel, RelTypes(rel), NEW t \in Threads, rel[t].at = "decrement"
  PROVE  /\ RelTypes(CountedOffBy(rel, t))
         /\ \A o \in Objects : Count(rf, CountedOffBy(rel, t), o) = Count(rf, rel, o) - One(rf[t][rel[t].slot], o)
<1> DEFINE rel2 == CountedOffBy(rel, t)
<1>1. /\ rel[t].slot \in Slots /\ rel[t].then \in Values
      /\ rel2[t].at = "read" /\ rel2[t].slot = rel[t].slot /\ rel2[t].then = rel[t].then
      /\ \A u \in Threads : u # t => rel2[u] = rel[u]
      /\ rel2[t] \in [at : ReleaseSteps, slot : Slots, then : Values]
  BY DEF RelTypes, Idle, ReleaseSteps, CountedOffBy
<1>2. RelTypes(rel2)
  BY <1>1 DEF RelTypes, CountedOffBy
<1> HIDE DEF rel2
<1>3. ASSUME NEW o \in Objects
      PROVE  Count(rf, rel2, o) = Count(rf, rel, o) - One(rf[t][rel[t].slot], o)
  <2>1. ComingOf(rel2, o) = ComingOf(rel, o)
    BY <1>1 DEF ComingOf, Idle
  <2> DEFINE A == HoldingOf(rf, rel, o)
             B == HoldingOf(rf, rel2, o)
             p == <<t, rel[t].slot>>
  <2>2. A \ {p} = B \ {p}
    <3>1. ASSUME NEW h \in Threads \X Slots, h # p PROVE h \in A <=> h \in B
      <4>1. h[1] \in Threads /\ h[2] \in Slots /\ (h[1] # t \/ h[2] # rel[t].slot)
        BY <3>1
      <4>2. (rel2[h[1]].at \in {"read", "free"} /\ rel2[h[1]].slot = h[2])
              <=> (rel[h[1]].at \in {"read", "free"} /\ rel[h[1]].slot = h[2])
        BY <1>1, <4>1
      <4> QED BY <4>2 DEF HoldingOf
    <3>2. A \subseteq Threads \X Slots /\ B \subseteq Threads \X Slots
      BY DEF HoldingOf
    <3> HIDE DEF A, B, p
    <3> QED BY <3>1, <3>2
  <2>3. (p \in A <=> rf[t][rel[t].slot] = o) /\ p \notin B
    BY <1>1 DEF HoldingOf
  <2>4. IsFiniteSet(A) /\ IsFiniteSet(B) /\ Cardinality(A) \in Nat /\ Cardinality(ComingOf(rel, o)) \in Nat
    BY HoldersAreFinite
  <2>5. Count(rf, rel2, o) = Cardinality(B) + Cardinality(ComingOf(rel, o))
        /\ Count(rf, rel, o) = Cardinality(A) + Cardinality(ComingOf(rel, o))
    BY <2>1 DEF Count
  <2> HIDE DEF A, B, p
  <2>6. Cardinality(B) = Cardinality(A) - One(rf[t][rel[t].slot], o)
    BY <2>2, <2>3, <2>4, OneElement DEF One
  <2>7. One(rf[t][rel[t].slot], o) \in Int
    BY DEF One
  <2> QED BY <2>4, <2>5, <2>6, <2>7
<1> QED BY <1>2, <1>3 DEF rel2

\* A thread ends a release: the value that was coming is held.
LEMMA DoneCounts ==
  ASSUME NEW rf \in [Threads -> [Slots -> Values]], NEW rel, RelTypes(rel), NEW t \in Threads,
         rel[t].at \in {"read", "free"}
  PROVE  /\ RelTypes(Ended(rel, t))
         /\ \A o \in Objects :
              Count(With(rf, t, rel[t].slot, rel[t].then), Ended(rel, t), o) = Count(rf, rel, o)
<1> DEFINE rel2 == Ended(rel, t)
           rf2 == With(rf, t, rel[t].slot, rel[t].then)
<1>1. /\ rel[t].slot \in Slots /\ rel[t].then \in Values /\ rel[t].at # Idle
      /\ rel2[t].at = Idle
      /\ \A u \in Threads : u # t => rel2[u] = rel[u]
      /\ RelTypes(rel2)
  BY DEF RelTypes, Idle, ReleaseSteps, Ended
<1>2. /\ rf2 \in [Threads -> [Slots -> Values]] /\ rf2[t][rel[t].slot] = rel[t].then
      /\ \A u \in Threads, v \in Slots : u # t \/ v # rel[t].slot => rf2[u][v] = rf[u][v]
  BY <1>1 DEF With
<1> HIDE DEF rel2, rf2
<1>3. ASSUME NEW o \in Objects PROVE Count(rf2, rel2, o) = Count(rf, rel, o)
  <2> DEFINE A == HoldingOf(rf, rel, o)
             B == HoldingOf(rf2, rel2, o)
             C == ComingOf(rel, o)
             C2 == ComingOf(rel2, o)
             p == <<t, rel[t].slot>>
  <2>1. A \ {p} = B \ {p}
    <3>1. ASSUME NEW h \in Threads \X Slots, h # p PROVE h \in A <=> h \in B
      <4>1. h[1] \in Threads /\ h[2] \in Slots /\ (h[1] # t \/ h[2] # rel[t].slot)
        BY <3>1
      <4>2. (rel2[h[1]].at \in {"read", "free"} /\ rel2[h[1]].slot = h[2])
              <=> (rel[h[1]].at \in {"read", "free"} /\ rel[h[1]].slot = h[2])
        BY <1>1, <4>1 DEF Idle
      <4>3. rf2[h[1]][h[2]] = rf[h[1]][h[2]]
        BY <1>2, <4>1
      <4> QED BY <4>2, <4>3 DEF HoldingOf
    <3>2. A \subseteq Threads \X Slots /\ B \subseteq Threads \X Slots
      BY DEF HoldingOf
    <3> HIDE DEF A, B, p
    <3> QED BY <3>1, <3>2
  <2>2. p \notin A /\ (p \in B <=> rel[t].then = o)
    BY <1>1, <1>2 DEF HoldingOf, Idle
  <2>3. C \ {t} = C2 \ {t} /\ (t \in C <=> rel[t].then = o) /\ t \notin C2
    BY <1>1 DEF ComingOf
  <2>4. /\ IsFiniteSet(A) /\ IsFiniteSet(B) /\ IsFiniteSet(C) /\ IsFiniteSet(C2)
        /\ Cardinality(A) \in Nat /\ Cardinality(C) \in Nat
    BY HoldersAreFinite
  <2>5. Count(rf2, rel2, o) = Cardinality(B) + Cardinality(C2) /\ Count(rf, rel, o) = Cardinality(A) + Cardinality(C)
    BY DEF Count
  <2> HIDE DEF A, B, C, C2, p
  <2>6. Cardinality(B) = Cardinality(A) + One(rel[t].then, o) /\ Cardinality(C2) = Cardinality(C) - One(rel[t].then, o)
    BY <2>1, <2>2, <2>3, <2>4, OneElement DEF One
  <2>7. One(rel[t].then, o) \in Int
    BY DEF One
  <2> QED BY <2>4, <2>5, <2>6, <2>7
<1> QED BY <1>1, <1>3 DEF rel2, rf2

LEMMA CountedIsCount ==
  /\ \A o : Counted(o) = Count(ref, releasing, o)
  /\ \A o : Counted(o)' = Count(ref', releasing', o)
BY DEF Counted, Holding, Coming, CountedOff, Count, HoldingOf, ComingOf

\* Who holds an object and has not counted it off counts, and so does a value that is coming.
LEMMA HolderCounts ==
  ASSUME NEW t \in Threads, NEW o,
         \/ \E s \in Slots : ref[t][s] = o /\ (releasing[t].at \notin {"read", "free"} \/ releasing[t].slot # s)
         \/ releasing[t].at # Idle /\ releasing[t].then = o
  PROVE  Count(ref, releasing, o) \in Nat /\ Count(ref, releasing, o) >= 1
<1> DEFINE A == HoldingOf(ref, releasing, o)
           C == ComingOf(releasing, o)
<1>1. A # {} \/ C # {}
  <2>1. CASE \E s \in Slots : ref[t][s] = o /\ (releasing[t].at \notin {"read", "free"} \/ releasing[t].slot # s)
    <3>1. PICK s \in Slots : ref[t][s] = o /\ (releasing[t].at \notin {"read", "free"} \/ releasing[t].slot # s)
      BY <2>1
    <3>2. <<t, s>> \in A
      BY <3>1 DEF HoldingOf
    <3> QED BY <3>2
  <2>2. CASE releasing[t].at # Idle /\ releasing[t].then = o
    <3>1. t \in C
      BY <2>2 DEF ComingOf
    <3> QED BY <3>1
  <2> QED BY <2>1, <2>2
<1>2. /\ IsFiniteSet(A) /\ IsFiniteSet(C) /\ Cardinality(A) \in Nat /\ Cardinality(C) \in Nat
      /\ Count(ref, releasing, o) = Cardinality(A) + Cardinality(C)
  BY HoldersAreFinite DEF Count
<1> HIDE DEF A, C
<1>3. Cardinality(A) # 0 \/ Cardinality(C) # 0
  BY <1>1, <1>2, FS_EmptySet
<1> QED BY <1>2, <1>3

LEMMA CountsPositive ==
  ASSUME RefTypes, CountInv
  PROVE  /\ \A t \in Threads, s \in Slots :
              (releasing[t].at \notin {"read", "free"} \/ releasing[t].slot # s) /\ ref[t][s] \in Objects
                => count[ref[t][s]] > 0
         /\ \A t \in Threads :
              releasing[t].at # Idle /\ releasing[t].then \in Objects => count[releasing[t].then] > 0
<1>1. \A o \in Objects : count[o] = Count(ref, releasing, o) + lost[o] /\ lost[o] \in Nat
  BY CountedIsCount DEF RefTypes, CountInv
<1>2. ASSUME NEW t \in Threads, NEW s \in Slots, ref[t][s] \in Objects,
             releasing[t].at \notin {"read", "free"} \/ releasing[t].slot # s
      PROVE  count[ref[t][s]] > 0
  <2>1. Count(ref, releasing, ref[t][s]) \in Nat /\ Count(ref, releasing, ref[t][s]) >= 1
    BY <1>2, HolderCounts
  <2> QED BY <1>1, <1>2, <2>1
<1>3. ASSUME NEW t \in Threads, releasing[t].at # Idle, releasing[t].then \in Objects
      PROVE  count[releasing[t].then] > 0
  <2>1. Count(ref, releasing, releasing[t].then) \in Nat /\ Count(ref, releasing, releasing[t].then) >= 1
    BY <1>3, HolderCounts
  <2> QED BY <1>1, <1>3, <2>1
<1> QED BY <1>2, <1>3

LEMMA CountIsNat ==
  ASSUME RefTypes, CountInv
  PROVE  \A o \in Objects : count[o] \in Nat /\ lost[o] \in Nat /\ Count(ref, releasing, o) \in Nat
                            /\ count[o] = Count(ref, releasing, o) + lost[o]
<1>1. \A o \in Objects : Count(ref, releasing, o) \in Nat
  BY HoldersAreFinite
<1> QED BY <1>1, CountedIsCount DEF RefTypes, CountInv

LEMMA IncRefCounts ==
  ASSUME RefTypes, NEW r \in Values, IncRef(r)
  PROVE  /\ count' \in [Objects -> Int]
         /\ \A o \in Objects : /\ count'[o] = count[o] + One(r, o)
                               /\ o \in references => o \in references'
         /\ r \in Objects => r \in references'
<1>1. \A o \in Objects : count[o] \in Int
  BY DEF RefTypes
<1>2. CASE r \in Objects
  <2>1. count' = [count EXCEPT ![r] = @ + 1] /\ references' = references \cup {r}
    BY <1>2 DEF IncRef, Holds, register_reference
  <2> QED BY <1>1, <1>2, <2>1 DEF One, RefTypes
<1>3. CASE r \notin Objects
  <2>1. count' = count /\ references' = references
    BY <1>3 DEF IncRef, Holds
  <2> QED BY <1>1, <1>3, <2>1 DEF One, RefTypes
<1> QED BY <1>2, <1>3

LEMMA OverwrittenCounts ==
  ASSUME RefTypes, NEW r \in Values, Overwritten(r)
  PROVE  lost' \in [Objects -> Nat] /\ \A o \in Objects : lost'[o] = lost[o] + One(r, o)
<1>1. \A o \in Objects : lost[o] \in Nat
  BY DEF RefTypes
<1> QED BY <1>1 DEF Overwritten, Holds, One, RefTypes

-----------------------------------------------------------------------------
(* Steps of references *)

\* A thread that is not releasing gives its references values that are held already, or begins to
\* release one.
LEMMA IdleStep ==
  ASSUME RefInv, RefTypes', CountInv', NEW t \in Threads, releasing[t].at = Idle,
         UNCHANGED <<made, freed, living, owner, raced, misfreed>>,
         \A u \in Threads \ {t} : ref'[u] = ref[u] /\ releasing'[u] = releasing[u],
         releasing'[t].at \in {Idle, "decrement"},
         \A s \in Slots : ref'[t][s] \in Objects => Held(ref'[t][s]),
         \A o \in Objects : /\ count'[o] = count[o] \/ (count'[o] = count[o] + 1 /\ count[o] > 0)
                            /\ o \in references => o \in references'
  PROVE  RefInv'
<1>1. ASSUME NEW o \in Objects PROVE OffCount(o)' = OffCount(o)
  <2>1. ASSUME NEW u \in Threads PROVE u \in OffCount(o)' <=> u \in OffCount(o)
    <3>1. CASE u = t
      BY <3>1 DEF OffCount, Idle
    <3>2. CASE u # t
      BY <3>2 DEF OffCount, Object
    <3> QED BY <3>1, <3>2
  <2> QED BY <2>1 DEF OffCount
<1>2. ASSUME NEW o \in Objects, Held(o)' PROVE Held(o)
  BY <1>2 DEF Held
<1>3. \A o \in Objects : count[o] \in Nat
  BY CountIsNat DEF RefInv
<1>4. ASSUME NEW o \in Objects, count'[o] > 0 PROVE count[o] > 0
  BY <1>3, <1>4
<1>5. ASSUME NEW o \in Objects, count[o] = 0 PROVE count'[o] = 0
  BY <1>3, <1>5
<1>6. ASSUME NEW o \in Objects PROVE LifeInv(o)'
  <2>1. LifeInv(o)
    BY DEF RefInv
  <2>2. \A u \in OffCount(o)' : u \in OffCount(o) /\ (releasing'[u].at = "free" => releasing[u].at = "free")
    BY <1>1 DEF OffCount, Idle
  <2> QED BY <1>2, <1>4, <1>5, <2>1, <2>2 DEF LifeInv
<1>7. ASSUME NEW o \in Objects PROVE FreeInv(o)'
  BY <1>1, <1>2 DEF RefInv, FreeInv
<1>8. LivingInv'
  BY DEF RefInv, LivingInv
<1> QED BY <1>6, <1>7, <1>8 DEF RefInv

LEMMA OneIs ==
  ASSUME NEW r, NEW o
  PROVE  One(r, o) \in {0, 1} /\ (One(r, o) = 1 <=> r = o) /\ (r \notin Objects /\ o \in Objects => One(r, o) = 0)
BY DEF One

\* IdleStep for an action given by what it does to the references, the counts and the release
LEMMA IdleAction ==
  ASSUME RefInv, NEW t \in Threads, releasing[t].at = Idle,
         UNCHANGED <<made, freed, living, owner, raced, misfreed>>,
         ref' \in [Threads -> [Slots -> Values]], RelTypes(releasing'),
         count' \in [Objects -> Int], lost' \in [Objects -> Nat],
         \A u \in Threads \ {t} : ref'[u] = ref[u] /\ releasing'[u] = releasing[u],
         \/ releasing' = releasing
         \/ releasing'[t].at = "decrement" /\ ref'[t][releasing'[t].slot] \in Objects,
         \A s \in Slots : ref'[t][s] \in Objects => Held(ref'[t][s]),
         \A o \in Objects : /\ count'[o] = Count(ref', releasing', o) + lost'[o]
                            /\ count'[o] = count[o] \/ (count'[o] = count[o] + 1 /\ count[o] > 0)
                            /\ o \in references => o \in references'
  PROVE  RefInv'
<1>1. RefTypes'
  <2>1. \A u \in Threads : releasing'[u].at # Idle => ref'[u][releasing'[u].slot] \in Objects
    BY DEF RefInv, RefTypes, Object
  <2> QED BY <2>1 DEF RefInv, RefTypes, RelTypes, Object
<1>2. CountInv'
  BY CountedIsCount DEF CountInv
<1> QED BY <1>1, <1>2, IdleStep

\* Put() by a thread that is not releasing
LEMMA PutStep ==
  ASSUME RefTypes, NEW rel, NEW t \in Threads, NEW s \in Slots, rel[t].at \notin {"read", "free"},
         NEW r \in Values, Put(t, s, r)
  PROVE  /\ ref' \in [Threads -> [Slots -> Values]] /\ ref'[t][s] = r
         /\ \A v \in Slots : v # s => ref'[t][v] = ref[t][v]
         /\ \A u \in Threads : u # t => ref'[u] = ref[u]
         /\ \A o \in Objects : Count(ref', rel, o) = Count(ref, rel, o) - One(ref[t][s], o) + One(r, o)
<1> DEFINE W == With(ref, t, s, r)
<1>1. ref \in [Threads -> [Slots -> Values]]
  BY DEF RefTypes
<1>2. ref' = W
  BY DEF Put, With
<1>3. \A o \in Objects : Count(W, rel, o) = Count(ref, rel, o) - One(ref[t][s], o) + One(r, o)
  BY <1>1, PutCounts
<1>4. /\ W \in [Threads -> [Slots -> Values]] /\ W[t][s] = r
      /\ \A v \in Slots : v # s => W[t][v] = ref[t][v]
      /\ \A u \in Threads : u # t => W[u] = ref[u]
  BY <1>1 DEF With
<1> QED BY <1>2, <1>3, <1>4

Moved(t, s, v) == [ref EXCEPT ![t] = [@ EXCEPT ![s] = ref[t][v], ![v] = NoObject]]

\* A thread moves a value from one of its references to another, and what that one held no longer counts.
LEMMA MoveStep ==
  ASSUME RefTypes, NEW rel, NEW t \in Threads, NEW s \in Slots, NEW v \in Slots, s # v,
         rel[t].at \notin {"read", "free"}, ref' = Moved(t, s, v)
  PROVE  /\ ref' \in [Threads -> [Slots -> Values]] /\ ref'[t][s] = ref[t][v] /\ ref'[t][v] = NoObject
         /\ \A y \in Slots : y # s /\ y # v => ref'[t][y] = ref[t][y]
         /\ \A u \in Threads : u # t => ref'[u] = ref[u]
         /\ \A o \in Objects : Count(ref', rel, o) = Count(ref, rel, o) - One(ref[t][s], o)
<1> DEFINE r == ref[t][v]
           mid == With(ref, t, s, r)
           W == With(mid, t, v, NoObject)
<1>1. ref \in [Threads -> [Slots -> Values]] /\ r \in Values /\ NoObject \in Values
  BY DEF RefTypes, Values
<1>2. mid \in [Threads -> [Slots -> Values]] /\ mid[t][v] = r
  BY <1>1 DEF With
<1>3. \A o \in Objects : Count(mid, rel, o) = Count(ref, rel, o) - One(ref[t][s], o) + One(r, o)
  BY <1>1, PutCounts
<1>4. ref' = W
  BY <1>1 DEF With, Moved
<1>5. /\ W \in [Threads -> [Slots -> Values]] /\ W[t][s] = r /\ W[t][v] = NoObject
      /\ \A y \in Slots : y # s /\ y # v => W[t][y] = ref[t][y]
      /\ \A u \in Threads : u # t => W[u] = ref[u]
  BY <1>1 DEF With
<1> HIDE DEF mid
<1>6. \A o \in Objects : Count(W, rel, o) = Count(mid, rel, o) - One(mid[t][v], o) + One(NoObject, o)
  BY <1>1, <1>2, PutCounts
<1> HIDE DEF W
<1>7. ASSUME NEW o \in Objects PROVE Count(W, rel, o) = Count(ref, rel, o) - One(ref[t][s], o)
  <2>1. Count(ref, rel, o) \in Nat
    BY HoldersAreFinite
  <2>2. One(r, o) \in {0, 1} /\ One(ref[t][s], o) \in {0, 1} /\ One(NoObject, o) = 0
    BY ReferencesAssumption, OneIs
  <2> QED BY <1>2, <1>3, <1>6, <2>1, <2>2
<1> QED BY <1>4, <1>5, <1>7

\* The copy constructors
LEMMA CopyFromStep ==
  ASSUME RefInv, NEW t \in Threads, NEW s \in Slots, NEW u \in Threads, NEW v \in Slots, CopyFrom(t, s, u, v)
  PROVE  RefInv'
<1> DEFINE r == ref[u][v]
<1>1. /\ releasing[t].at = Idle /\ releasing[u].at = Idle /\ ref[t][s] = "dead"
      /\ releasing[t].at \notin {"read", "free"} /\ releasing[u].at \notin {"read", "free"}
      /\ Put(t, s, r) /\ IncRef(r)
      /\ UNCHANGED <<made, freed, living, releasing, owner, raced, misfreed, lost>>
  BY DEF CopyFrom, Idles, Idle, Dead, notCounted
<1>2. RefTypes /\ CountInv /\ r \in Values /\ RelTypes(releasing) /\ lost \in [Objects -> Nat]
  BY DEF RefInv, RefTypes, RelTypes
<1>3. /\ count' \in [Objects -> Int]
      /\ \A o \in Objects : count'[o] = count[o] + One(r, o) /\ (o \in references => o \in references')
  BY <1>1, <1>2, IncRefCounts
<1>4. /\ ref' \in [Threads -> [Slots -> Values]] /\ ref'[t][s] = r
      /\ \A y \in Slots : y # s => ref'[t][y] = ref[t][y]
      /\ \A x \in Threads : x # t => ref'[x] = ref[x]
      /\ \A o \in Objects : Count(ref', releasing, o) = Count(ref, releasing, o) - One(ref[t][s], o) + One(r, o)
  BY <1>1, <1>2, PutStep
<1>5. ASSUME NEW o \in Objects
      PROVE  /\ count'[o] = Count(ref', releasing', o) + lost'[o]
             /\ count'[o] = count[o] \/ (count'[o] = count[o] + 1 /\ count[o] > 0)
  <2>1. count[o] \in Nat /\ lost[o] \in Nat /\ Count(ref, releasing, o) \in Nat
        /\ count[o] = Count(ref, releasing, o) + lost[o]
    BY <1>2, CountIsNat
  <2>2. One(r, o) \in {0, 1} /\ One(ref[t][s], o) = 0 /\ (One(r, o) = 1 => r = o)
    BY <1>1, ReferencesAssumption, OneIs
  <2>3. r = o => count[o] > 0
    BY <1>1, <1>2, CountsPositive
  <2>4. lost'[o] = lost[o] /\ releasing' = releasing
    BY <1>1
  <2> QED BY <1>3, <1>4, <2>1, <2>2, <2>3, <2>4
<1>6. \A y \in Slots : ref'[t][y] \in Objects => Held(ref'[t][y])
  BY <1>4 DEF Held
<1> QED BY <1>1, <1>2, <1>3, <1>4, <1>5, <1>6, IdleAction

\* The move constructors
LEMMA MoveFromStep ==
  ASSUME RefInv, NEW t \in Threads, NEW s \in Slots, NEW v \in Slots, MoveFrom(t, s, v)
  PROVE  RefInv'
<1> DEFINE r == ref[t][v]
<1>1. /\ releasing[t].at = Idle /\ releasing[t].at \notin {"read", "free"} /\ ref[t][s] = "dead" /\ s # v
      /\ ref' = Moved(t, s, v)
      /\ UNCHANGED <<made, freed, living, releasing, owner, raced, misfreed, lost, count, references>>
  BY DEF Moved, MoveFrom, Idles, Idle, Dead, Alive, notCounted
<1>2. RefTypes /\ CountInv /\ RelTypes(releasing) /\ lost \in [Objects -> Nat] /\ count \in [Objects -> Int]
  BY DEF RefInv, RefTypes, RelTypes
<1>3. /\ ref' \in [Threads -> [Slots -> Values]] /\ ref'[t][s] = r /\ ref'[t][v] = NoObject
      /\ \A y \in Slots : y # s /\ y # v => ref'[t][y] = ref[t][y]
      /\ \A x \in Threads : x # t => ref'[x] = ref[x]
      /\ \A o \in Objects : Count(ref', releasing, o) = Count(ref, releasing, o) - One(ref[t][s], o)
  BY <1>1, <1>2, MoveStep
<1>4. ASSUME NEW o \in Objects PROVE count'[o] = Count(ref', releasing', o) + lost'[o]
  <2>1. count[o] \in Nat /\ lost[o] \in Nat /\ Count(ref, releasing, o) \in Nat
        /\ count[o] = Count(ref, releasing, o) + lost[o]
    BY <1>2, CountIsNat
  <2>2. One(ref[t][s], o) = 0
    BY <1>1, ReferencesAssumption, OneIs
  <2>3. count'[o] = count[o] /\ lost'[o] = lost[o] /\ releasing' = releasing
    BY <1>1
  <2> QED BY <1>3, <2>1, <2>2, <2>3
<1>5. \A y \in Slots : ref'[t][y] \in Objects => Held(ref'[t][y])
  BY <1>3, ReferencesAssumption DEF Held
<1> QED BY <1>1, <1>2, <1>3, <1>4, <1>5, IdleAction

\* operator=: what was assigned over is still counted, as lost.
LEMMA CopyAssignStep ==
  ASSUME RefInv, NEW t \in Threads, NEW s \in Slots, NEW v \in Slots, CopyAssign(t, s, v)
  PROVE  RefInv'
<1> DEFINE r == ref[t][v]
<1>1. /\ releasing[t].at = Idle /\ releasing[t].at \notin {"read", "free"}
      /\ Put(t, s, r) /\ IncRef(r) /\ Overwritten(ref[t][s])
      /\ UNCHANGED <<made, freed, living, releasing, owner, raced, misfreed>>
  BY DEF CopyAssign, Idles, Idle, notCounted
<1>2. RefTypes /\ CountInv /\ r \in Values /\ RelTypes(releasing) /\ ref[t][s] \in Values
  BY DEF RefInv, RefTypes, RelTypes
<1>3. /\ count' \in [Objects -> Int]
      /\ \A o \in Objects : count'[o] = count[o] + One(r, o) /\ (o \in references => o \in references')
  BY <1>1, <1>2, IncRefCounts
<1>4. lost' \in [Objects -> Nat] /\ \A o \in Objects : lost'[o] = lost[o] + One(ref[t][s], o)
  BY <1>1, <1>2, OverwrittenCounts
<1>5. /\ ref' \in [Threads -> [Slots -> Values]] /\ ref'[t][s] = r
      /\ \A y \in Slots : y # s => ref'[t][y] = ref[t][y]
      /\ \A x \in Threads : x # t => ref'[x] = ref[x]
      /\ \A o \in Objects : Count(ref', releasing, o) = Count(ref, releasing, o) - One(ref[t][s], o) + One(r, o)
  BY <1>1, <1>2, PutStep
<1>6. ASSUME NEW o \in Objects
      PROVE  /\ count'[o] = Count(ref', releasing', o) + lost'[o]
             /\ count'[o] = count[o] \/ (count'[o] = count[o] + 1 /\ count[o] > 0)
  <2>1. count[o] \in Nat /\ lost[o] \in Nat /\ Count(ref, releasing, o) \in Nat
        /\ count[o] = Count(ref, releasing, o) + lost[o]
    BY <1>2, CountIsNat
  <2>2. One(r, o) \in {0, 1} /\ One(ref[t][s], o) \in {0, 1} /\ (One(r, o) = 1 => r = o)
    BY OneIs
  <2>3. r = o => count[o] > 0
    BY <1>1, <1>2, CountsPositive
  <2>4. releasing' = releasing
    BY <1>1
  <2> QED BY <1>3, <1>4, <1>5, <2>1, <2>2, <2>3, <2>4
<1>7. \A y \in Slots : ref'[t][y] \in Objects => Held(ref'[t][y])
  BY <1>5 DEF Held
<1> QED BY <1>1, <1>2, <1>3, <1>4, <1>5, <1>6, <1>7, IdleAction

\* The move assignments
LEMMA MoveAssignStep ==
  ASSUME RefInv, NEW t \in Threads, NEW s \in Slots, NEW v \in Slots, MoveAssign(t, s, v)
  PROVE  RefInv'
<1> DEFINE r == ref[t][v]
<1>1. /\ releasing[t].at = Idle /\ releasing[t].at \notin {"read", "free"} /\ s # v
      /\ ref' = Moved(t, s, v)
      /\ Overwritten(ref[t][s])
      /\ UNCHANGED <<made, freed, living, releasing, owner, raced, misfreed, count, references>>
  BY DEF Moved, MoveAssign, Idles, Idle, notCounted
<1>2. RefTypes /\ CountInv /\ RelTypes(releasing) /\ ref[t][s] \in Values /\ count \in [Objects -> Int]
  BY DEF RefInv, RefTypes, RelTypes
<1>3. /\ ref' \in [Threads -> [Slots -> Values]] /\ ref'[t][s] = r /\ ref'[t][v] = NoObject
      /\ \A y \in Slots : y # s /\ y # v => ref'[t][y] = ref[t][y]
      /\ \A x \in Threads : x # t => ref'[x] = ref[x]
      /\ \A o \in Objects : Count(ref', releasing, o) = Count(ref, releasing, o) - One(ref[t][s], o)
  BY <1>1, <1>2, MoveStep
<1>4. lost' \in [Objects -> Nat] /\ \A o \in Objects : lost'[o] = lost[o] + One(ref[t][s], o)
  BY <1>1, <1>2, OverwrittenCounts
<1>5. ASSUME NEW o \in Objects PROVE count'[o] = Count(ref', releasing', o) + lost'[o]
  <2>1. count[o] \in Nat /\ lost[o] \in Nat /\ Count(ref, releasing, o) \in Nat
        /\ count[o] = Count(ref, releasing, o) + lost[o]
    BY <1>2, CountIsNat
  <2>2. One(ref[t][s], o) \in {0, 1}
    BY OneIs
  <2>3. count'[o] = count[o] /\ releasing' = releasing
    BY <1>1
  <2> QED BY <1>3, <1>4, <2>1, <2>2, <2>3
<1>6. \A y \in Slots : ref'[t][y] \in Objects => Held(ref'[t][y])
  BY <1>3, ReferencesAssumption DEF Held
<1> QED BY <1>1, <1>2, <1>3, <1>4, <1>5, <1>6, IdleAction

\* A thread that is not releasing has nothing else in its record.
LEMMA IdleRecord ==
  ASSUME RefTypes, NEW t \in Threads, releasing[t].at = Idle
  PROVE  [releasing EXCEPT ![t] = [at |-> Idle]] = releasing
<1>1. releasing \in [Threads -> [at : {Idle}] \cup [at : ReleaseSteps, slot : Slots, then : Values]]
  BY DEF RefTypes
<1>2. releasing[t] \in [at : {Idle}]
  BY <1>1 DEF Idle, ReleaseSteps
<1>3. releasing[t] = [at |-> Idle]
  BY <1>2
<1> QED BY <1>1, <1>3

\* A release begins, of a reference that holds an object: the value it will have counts already.
LEMMA BeginHeld ==
  ASSUME RefTypes, NEW t \in Threads, NEW s \in Slots, releasing[t].at = Idle, NEW th \in Values,
         Begin(t, s, th), ref[t][s] \in Objects, NEW rf
  PROVE  /\ RelTypes(releasing')
         /\ \A u \in Threads : u # t => releasing'[u] = releasing[u]
         /\ releasing'[t].at = "decrement" /\ releasing'[t].slot = s
         /\ \A o \in Objects : Count(rf, releasing', o) = Count(rf, releasing, o) + One(th, o)
<1> DEFINE W == Begun(releasing, t, s, th)
<1>1. RelTypes(releasing)
  BY DEF RefTypes, RelTypes
<1>2. releasing' = W
  BY DEF Begin, Holds, Begun
<1>3. RelTypes(W) /\ \A o \in Objects : Count(rf, W, o) = Count(rf, releasing, o) + One(th, o)
  BY <1>1, BeginCounts
<1>4. /\ \A u \in Threads : u # t => W[u] = releasing[u]
      /\ W[t].at = "decrement" /\ W[t].slot = s
  BY <1>1 DEF RelTypes, Begun
<1> QED BY <1>2, <1>3, <1>4

\* ... and one that holds nothing has the value at once.
LEMMA ReleaseBegins ==
  ASSUME RefTypes, NEW t \in Threads, NEW s \in Slots, releasing[t].at = Idle, NEW th \in Values,
         Begin(t, s, th), Now(t, s, th)
  PROVE  /\ ref' \in [Threads -> [Slots -> Values]] /\ RelTypes(releasing')
         /\ \A u \in Threads \ {t} : ref'[u] = ref[u] /\ releasing'[u] = releasing[u]
         /\ \/ releasing' = releasing
            \/ releasing'[t].at = "decrement" /\ ref'[t][releasing'[t].slot] \in Objects
         /\ \A y \in Slots : ref'[t][y] \in {ref[t][y], th}
         /\ \A o \in Objects : Count(ref', releasing', o) = Count(ref, releasing, o) + One(th, o)
<1>1. RelTypes(releasing) /\ ref \in [Threads -> [Slots -> Values]]
  BY DEF RefTypes, RelTypes
<1>2. CASE ref[t][s] \in Objects
  <2>1. ref' = ref
    BY <1>2 DEF Now, Holds
  <2>2. /\ RelTypes(releasing')
        /\ \A u \in Threads : u # t => releasing'[u] = releasing[u]
        /\ releasing'[t].at = "decrement" /\ releasing'[t].slot = s
        /\ \A o \in Objects : Count(ref, releasing', o) = Count(ref, releasing, o) + One(th, o)
    BY <1>2, BeginHeld
  <2> QED BY <1>1, <1>2, <2>1, <2>2
<1>3. CASE ref[t][s] \notin Objects
  <2>1. Put(t, s, th) /\ releasing' = releasing
    BY <1>3, IdleRecord DEF Now, Begin, Holds, Put
  <2>2. releasing[t].at \notin {"read", "free"}
    BY DEF Idle
  <2>3. /\ ref' \in [Threads -> [Slots -> Values]] /\ ref'[t][s] = th
        /\ \A v \in Slots : v # s => ref'[t][v] = ref[t][v]
        /\ \A u \in Threads : u # t => ref'[u] = ref[u]
        /\ \A o \in Objects : Count(ref', releasing, o) = Count(ref, releasing, o) - One(ref[t][s], o) + One(th, o)
    BY <2>1, <2>2, PutStep
  <2>4. ASSUME NEW o \in Objects PROVE Count(ref', releasing, o) = Count(ref, releasing, o) + One(th, o)
    <3>1. One(ref[t][s], o) = 0 /\ One(th, o) \in {0, 1}
      BY <1>3, OneIs
    <3>2. Count(ref, releasing, o) \in Nat
      BY HoldersAreFinite
    <3> QED BY <2>3, <3>1, <3>2
  <2> QED BY <1>1, <2>1, <2>3, <2>4
<1> QED BY <1>2, <1>3

\* The destructor and operator=(nullptr)
LEMMA DestroyStep ==
  ASSUME RefInv, NEW t \in Threads, NEW s \in Slots, Destroy(t, s) \/ Reset(t, s)
  PROVE  RefInv'
<1>1. /\ releasing[t].at = Idle
      /\ UNCHANGED <<count, references, made, freed, living, owner, lost, raced, misfreed>>
      /\ \E th \in {"dead", NoObject} : Begin(t, s, th) /\ Now(t, s, th)
  BY DEF Destroy, Reset, Idles
<1>2. PICK th \in {"dead", NoObject} : Begin(t, s, th) /\ Now(t, s, th)
  BY <1>1
<1>3. RefTypes /\ CountInv /\ th \in Values /\ lost \in [Objects -> Nat] /\ count \in [Objects -> Int]
  BY DEF RefInv, RefTypes, Values
<1>4. /\ ref' \in [Threads -> [Slots -> Values]] /\ RelTypes(releasing')
      /\ \A u \in Threads \ {t} : ref'[u] = ref[u] /\ releasing'[u] = releasing[u]
      /\ \/ releasing' = releasing
         \/ releasing'[t].at = "decrement" /\ ref'[t][releasing'[t].slot] \in Objects
      /\ \A y \in Slots : ref'[t][y] \in {ref[t][y], th}
      /\ \A o \in Objects : Count(ref', releasing', o) = Count(ref, releasing, o) + One(th, o)
  BY <1>1, <1>2, <1>3, ReleaseBegins
<1>5. ASSUME NEW o \in Objects PROVE count'[o] = Count(ref', releasing', o) + lost'[o]
  <2>1. count[o] \in Nat /\ lost[o] \in Nat /\ Count(ref, releasing, o) \in Nat
        /\ count[o] = Count(ref, releasing, o) + lost[o]
    BY <1>3, CountIsNat
  <2>2. One(th, o) = 0
    BY ReferencesAssumption, OneIs
  <2>3. count'[o] = count[o] /\ lost'[o] = lost[o]
    BY <1>1
  <2> QED BY <1>4, <2>1, <2>2, <2>3
<1>6. \A y \in Slots : ref'[t][y] \in Objects => Held(ref'[t][y])
  BY <1>4, ReferencesAssumption DEF Held
<1> QED BY <1>1, <1>3, <1>4, <1>5, <1>6, IdleAction

\* The assignment of a reference to a derived class
LEMMA AssignDerivedStep ==
  ASSUME RefInv, NEW t \in Threads, NEW s \in Slots, NEW v \in Slots, AssignDerived(t, s, v)
  PROVE  RefInv'
<1> DEFINE r == ref[t][v]
<1>1. /\ releasing[t].at = Idle /\ releasing[t].at \notin {"read", "free"}
      /\ IncRef(r) /\ Begin(t, s, r) /\ Now(t, s, r)
      /\ UNCHANGED <<made, freed, living, owner, raced, misfreed, lost>>
  BY DEF AssignDerived, Idles, Idle
<1>2. RefTypes /\ CountInv /\ r \in Values /\ lost \in [Objects -> Nat]
  BY DEF RefInv, RefTypes
<1>3. /\ count' \in [Objects -> Int]
      /\ \A o \in Objects : count'[o] = count[o] + One(r, o) /\ (o \in references => o \in references')
  BY <1>1, <1>2, IncRefCounts
<1>4. /\ ref' \in [Threads -> [Slots -> Values]] /\ RelTypes(releasing')
      /\ \A u \in Threads \ {t} : ref'[u] = ref[u] /\ releasing'[u] = releasing[u]
      /\ \/ releasing' = releasing
         \/ releasing'[t].at = "decrement" /\ ref'[t][releasing'[t].slot] \in Objects
      /\ \A y \in Slots : ref'[t][y] \in {ref[t][y], r}
      /\ \A o \in Objects : Count(ref', releasing', o) = Count(ref, releasing, o) + One(r, o)
  BY <1>1, <1>2, ReleaseBegins
<1>5. ASSUME NEW o \in Objects
      PROVE  /\ count'[o] = Count(ref', releasing', o) + lost'[o]
             /\ count'[o] = count[o] \/ (count'[o] = count[o] + 1 /\ count[o] > 0)
  <2>1. count[o] \in Nat /\ lost[o] \in Nat /\ Count(ref, releasing, o) \in Nat
        /\ count[o] = Count(ref, releasing, o) + lost[o]
    BY <1>2, CountIsNat
  <2>2. One(r, o) \in {0, 1} /\ (One(r, o) = 1 => r = o)
    BY OneIs
  <2>3. r = o => count[o] > 0
    BY <1>1, <1>2, CountsPositive
  <2>4. lost'[o] = lost[o]
    BY <1>1
  <2> QED BY <1>3, <1>4, <2>1, <2>2, <2>3, <2>4
<1>6. \A y \in Slots : ref'[t][y] \in Objects => Held(ref'[t][y])
  BY <1>4 DEF Held
<1> QED BY <1>1, <1>2, <1>3, <1>4, <1>5, <1>6, IdleAction

\* The move constructor of a buffer: a copy, then the release of what was copied
LEMMA MoveBufferStep ==
  ASSUME RefInv, NEW t \in Threads, NEW s \in Slots, NEW v \in Slots, MoveBuffer(t, s, v)
  PROVE  RefInv'
<1> DEFINE r == ref[t][v]
<1>1. /\ releasing[t].at = Idle /\ releasing[t].at \notin {"read", "free"} /\ ref[t][s] = "dead" /\ s # v
      /\ Put(t, s, r) /\ IncRef(r) /\ Begin(t, v, NoObject)
      /\ UNCHANGED <<made, freed, living, owner, raced, misfreed, lost>>
  BY DEF MoveBuffer, Idles, Idle, Dead, Alive
<1>2. RefTypes /\ CountInv /\ r \in Values /\ lost \in [Objects -> Nat] /\ NoObject \in Values /\ RelTypes(releasing)
  BY DEF RefInv, RefTypes, Values, RelTypes
<1>3. /\ count' \in [Objects -> Int]
      /\ \A o \in Objects : count'[o] = count[o] + One(r, o) /\ (o \in references => o \in references')
  BY <1>1, <1>2, IncRefCounts
<1>4. /\ ref' \in [Threads -> [Slots -> Values]] /\ ref'[t][s] = r
      /\ \A y \in Slots : y # s => ref'[t][y] = ref[t][y]
      /\ \A x \in Threads : x # t => ref'[x] = ref[x]
      /\ \A o \in Objects : Count(ref', releasing, o) = Count(ref, releasing, o) - One(ref[t][s], o) + One(r, o)
  BY <1>1, <1>2, PutStep
<1>5. /\ RelTypes(releasing')
      /\ \A u \in Threads : u # t => releasing'[u] = releasing[u]
      /\ \/ releasing' = releasing
         \/ releasing'[t].at = "decrement" /\ releasing'[t].slot = v /\ r \in Objects
      /\ \A o \in Objects : Count(ref', releasing', o) = Count(ref', releasing, o)
  <2>1. CASE r \in Objects
    <3>1. /\ RelTypes(releasing')
          /\ \A u \in Threads : u # t => releasing'[u] = releasing[u]
          /\ releasing'[t].at = "decrement" /\ releasing'[t].slot = v
          /\ \A o \in Objects : Count(ref', releasing', o) = Count(ref', releasing, o) + One(NoObject, o)
      BY <1>1, <1>2, <2>1, BeginHeld
    <3>2. \A o \in Objects : One(NoObject, o) = 0 /\ Count(ref', releasing, o) \in Nat
      BY ReferencesAssumption, OneIs, HoldersAreFinite
    <3> QED BY <2>1, <3>1, <3>2
  <2>2. CASE r \notin Objects
    <3>1. releasing' = releasing
      BY <1>1, <1>2, <2>2, IdleRecord DEF Begin, Holds
    <3> QED BY <1>2, <3>1
  <2> QED BY <2>1, <2>2
<1>6. ASSUME NEW o \in Objects
      PROVE  /\ count'[o] = Count(ref', releasing', o) + lost'[o]
             /\ count'[o] = count[o] \/ (count'[o] = count[o] + 1 /\ count[o] > 0)
  <2>1. count[o] \in Nat /\ lost[o] \in Nat /\ Count(ref, releasing, o) \in Nat
        /\ count[o] = Count(ref, releasing, o) + lost[o]
    BY <1>2, CountIsNat
  <2>2. One(r, o) \in {0, 1} /\ (One(r, o) = 1 => r = o) /\ One(ref[t][s], o) = 0
    BY <1>1, ReferencesAssumption, OneIs
  <2>3. r = o => count[o] > 0
    BY <1>1, <1>2, CountsPositive
  <2>4. lost'[o] = lost[o]
    BY <1>1
  <2> QED BY <1>3, <1>4, <1>5, <2>1, <2>2, <2>3, <2>4
<1>7. /\ \A y \in Slots : ref'[t][y] \in Objects => Held(ref'[t][y])
      /\ ref'[t][v] = r
  BY <1>1, <1>4 DEF Held
<1> QED BY <1>1, <1>2, <1>3, <1>4, <1>5, <1>6, <1>7, IdleAction

-----------------------------------------------------------------------------
(* Steps of new objects *)

\* The bytes of one more object live.
LEMMA OneMoreLives ==
  ASSUME RefInv, NEW x \in Objects \ made, made' = made \cup {x}, living' = living + Derived,
         UNCHANGED <<freed, raced, misfreed>>
  PROVE  LivingInv' /\ IsFiniteSet(made') /\ made' \subseteq Objects /\ living' \in Int
<1> DEFINE S == {o \in made : freed[o] = 0}
<1>1. IsFiniteSet(made) /\ made \subseteq Objects /\ living \in Int /\ misfreed \in Int /\ freed[x] = 0
  BY DEF RefInv, RefTypes, LifeInv
<1>2. IsFiniteSet(S) /\ Cardinality(S) \in Nat
  BY <1>1, FS_Subset, FS_CardinalityType
<1>3. {o \in made' : freed'[o] = 0} = S \cup {x} /\ x \notin S
  BY <1>1
<1>4. Cardinality(S \cup {x}) = Cardinality(S) + 1
  BY <1>2, <1>3, FS_AddElement
<1>5. IsFiniteSet(made') /\ made' \subseteq Objects
  BY <1>1, FS_AddElement
<1>6. living' \in Int
  BY <1>1 DEF Derived
<1>7. LivingInv'
  <2>1. raced = {} => living = 2 * Cardinality(S) + misfreed
    BY DEF RefInv, LivingInv, Derived
  <2>2. raced = {} => living' = 2 * (Cardinality(S) + 1) + misfreed
    BY <1>1, <1>2, <2>1 DEF Derived
  <2> QED BY <1>3, <1>4, <2>2 DEF LivingInv, Derived
<1> QED BY <1>5, <1>6, <1>7

\* A reference of a thread is given a new object.
LEMMA NewReference ==
  ASSUME RefInv, NEW t \in Threads, NEW s \in Slots, NEW x \in Objects \ made, releasing[t].at = Idle,
         allocate(x), Put(t, s, x), IncRef(x), UNCHANGED <<freed, releasing, owner, raced, misfreed>>,
         lost' \in [Objects -> Nat], \A o \in Objects : lost'[o] = lost[o] + One(ref[t][s], o)
  PROVE  RefInv'
<1>1. RefTypes /\ CountInv /\ x \in Values /\ RelTypes(releasing) /\ releasing[t].at \notin {"read", "free"}
  BY DEF RefInv, RefTypes, RelTypes, Values, Idle
<1>2. /\ count' \in [Objects -> Int] /\ x \in references'
      /\ \A o \in Objects : count'[o] = count[o] + One(x, o) /\ (o \in references => o \in references')
  BY <1>1, IncRefCounts
<1>3. /\ ref' \in [Threads -> [Slots -> Values]] /\ ref'[t][s] = x
      /\ \A y \in Slots : y # s => ref'[t][y] = ref[t][y]
      /\ \A u \in Threads : u # t => ref'[u] = ref[u]
      /\ \A o \in Objects : Count(ref', releasing, o) = Count(ref, releasing, o) - One(ref[t][s], o) + One(x, o)
  BY <1>1, PutStep
<1>4. made' = made \cup {x} /\ LivingInv' /\ IsFiniteSet(made') /\ made' \subseteq Objects /\ living' \in Int
  BY OneMoreLives DEF allocate
<1>5. RefTypes'
  <2>1. \A u \in Threads : releasing[u].at # Idle => ref'[u][releasing[u].slot] \in Objects
    BY <1>1, <1>3 DEF RefTypes, Object
  <2> QED BY <1>1, <1>2, <1>3, <1>4, <2>1 DEF RefTypes, Object
<1>6. CountInv'
  <2>1. ASSUME NEW o \in Objects PROVE count'[o] = Count(ref', releasing', o) + lost'[o]
    <3>1. count[o] \in Nat /\ lost[o] \in Nat /\ Count(ref, releasing, o) \in Nat
          /\ count[o] = Count(ref, releasing, o) + lost[o]
      BY <1>1, CountIsNat
    <3>2. One(x, o) \in {0, 1} /\ One(ref[t][s], o) \in {0, 1}
      BY OneIs
    <3>3. releasing' = releasing /\ lost'[o] = lost[o] + One(ref[t][s], o)
      OBVIOUS
    <3> QED BY <1>2, <1>3, <3>1, <3>2, <3>3
  <2> QED BY <2>1, CountedIsCount DEF CountInv
<1>7. LifeInv(x) /\ ~Held(x) /\ x # owner.object /\ freed[x] = 0 /\ count'[x] = 1
  BY <1>2 DEF RefInv, LifeInv, One
<1>8. OffCount(x)' = {}
  <2>1. ASSUME NEW u \in OffCount(x)' PROVE FALSE
    <3>1. u \in Threads /\ releasing[u].at \in {"read", "free"} /\ ref'[u][releasing[u].slot] = x
      BY <2>1 DEF OffCount, Object
    <3>2. u # t /\ ref[u][releasing[u].slot] = x
      BY <1>1, <1>3, <3>1
    <3>3. releasing[u].slot \in Slots
      BY <1>1, <3>1 DEF RelTypes, Idle
    <3> QED BY <1>7, <3>1, <3>2, <3>3 DEF Held
  <2> QED BY <2>1
<1>9. ASSUME NEW o \in Objects, o # x
      PROVE  (Held(o)' => Held(o)) /\ OffCount(o)' = OffCount(o) /\ count'[o] = count[o]
  <2>1. Held(o)' => Held(o)
    BY <1>3, <1>9 DEF Held
  <2>2. OffCount(o)' = OffCount(o)
    BY <1>1, <1>3 DEF OffCount, Object
  <2>3. count'[o] = count[o]
    BY <1>1, <1>2, <1>9, CountIsNat DEF One
  <2> QED BY <2>1, <2>2, <2>3
<1>10. ASSUME NEW o \in Objects PROVE LifeInv(o)' /\ FreeInv(o)'
  <2>1. CASE o = x
    BY <1>2, <1>4, <1>7, <1>8, <2>1 DEF LifeInv, FreeInv
  <2>2. CASE o # x
    <3>1. LifeInv(o)'
      BY <1>2, <1>4, <1>9, <2>2 DEF RefInv, LifeInv
    <3>2. FreeInv(o)'
      BY <1>9, <2>2 DEF RefInv, FreeInv
    <3> QED BY <3>1, <3>2
  <2> QED BY <2>1, <2>2
<1> QED BY <1>4, <1>5, <1>6, <1>10 DEF RefInv

\* make_ref() and resize()
LEMMA MakeStep ==
  ASSUME RefInv, NEW t \in Threads, NEW s \in Slots, Make(t, s) \/ Resize(t, s)
  PROVE  RefInv'
<1>1. /\ releasing[t].at = Idle /\ UNCHANGED <<freed, releasing, owner, raced, misfreed>>
      /\ \E x \in Objects \ made : allocate(x) /\ Put(t, s, x) /\ IncRef(x)
  BY DEF Make, Resize, Idles
<1>2. RefTypes /\ ref[t][s] \in Values
  BY DEF RefInv, RefTypes
<1>3. lost' \in [Objects -> Nat] /\ \A o \in Objects : lost'[o] = lost[o] + One(ref[t][s], o)
  <2>1. CASE Make(t, s)
    <3>1. ref[t][s] = "dead" /\ lost' = lost
      BY <2>1 DEF Make, Dead
    <3>2. lost \in [Objects -> Nat] /\ \A o \in Objects : One(ref[t][s], o) = 0 /\ lost[o] \in Nat
      BY <1>2, <3>1, ReferencesAssumption, OneIs DEF RefTypes
    <3> QED BY <3>1, <3>2
  <2>2. CASE Resize(t, s)
    BY <1>2, <2>2, OverwrittenCounts DEF Resize
  <2> QED BY <2>1, <2>2
<1> QED BY <1>1, <1>3, NewReference

\* make_owning_ptr()
LEMMA MakeOwnerStep ==
  ASSUME RefInv, NEW t \in Threads, MakeOwner(t)
  PROVE  RefInv'
<1>1. PICK x \in Objects \ made : owner' = [object |-> x, size |-> Derived] /\ allocate(x)
  BY DEF MakeOwner
<1>2. UNCHANGED <<freed, misfreed, ref, count, references, releasing, lost, raced>>
  BY DEF MakeOwner, notOwned
<1>3. made' = made \cup {x} /\ LivingInv' /\ IsFiniteSet(made') /\ made' \subseteq Objects /\ living' \in Int
  BY <1>1, <1>2, OneMoreLives DEF allocate
<1>4. RefTypes'
  <2>1. owner' \in [object : Objects \cup {NoObject}, size : {Base, Derived}]
    BY <1>1
  <2> QED BY <1>2, <1>3, <2>1 DEF RefInv, RefTypes, Object
<1>5. CountInv'
  BY <1>2 DEF RefInv, CountInv, Counted, Holding, Coming, CountedOff
<1>6. ASSUME NEW o \in Objects PROVE LifeInv(o)' /\ FreeInv(o)'
  <2>1. LifeInv(o) /\ FreeInv(o)
    BY DEF RefInv
  <2>2. OffCount(o)' = OffCount(o) /\ (Held(o)' <=> Held(o)) /\ owner'.object = x
    BY <1>1, <1>2 DEF OffCount, Held, Object
  <2>3. FreeInv(o)'
    BY <1>2, <2>1, <2>2 DEF FreeInv
  <2>4. LifeInv(o)'
    BY <1>1, <1>2, <1>3, <2>1, <2>2 DEF LifeInv
  <2> QED BY <2>3, <2>4
<1> QED BY <1>3, <1>4, <1>5, <1>6 DEF RefInv

\* The conversion of an owning pointer
LEMMA ToBaseStep ==
  ASSUME RefInv, NEW t \in Threads, ToBase(t)
  PROVE  RefInv'
<1>1. /\ owner' = [owner EXCEPT !.size = Base]
      /\ UNCHANGED <<made, freed, living, misfreed, ref, count, references, releasing, lost, raced>>
  BY DEF ToBase, notOwned
<1>2. owner' \in [object : Objects \cup {NoObject}, size : {Base, Derived}] /\ owner'.object = owner.object
  BY <1>1 DEF RefInv, RefTypes
<1>3. RefTypes'
  BY <1>1, <1>2 DEF RefInv, RefTypes, Object
<1>4. CountInv'
  BY <1>1 DEF RefInv, CountInv, Counted, Holding, Coming, CountedOff
<1>5. ASSUME NEW o \in Objects PROVE LifeInv(o)' /\ FreeInv(o)'
  BY <1>1, <1>2 DEF RefInv, LifeInv, FreeInv, OffCount, Held, Object
<1>6. LivingInv'
  BY <1>1 DEF RefInv, LivingInv
<1> QED BY <1>3, <1>4, <1>5, <1>6 DEF RefInv

-----------------------------------------------------------------------------
(* Steps of a release *)

\* An object is freed, as one of its class or of its base class.
LEMMA OneLessLives ==
  ASSUME RefInv, NEW x \in made, NEW size \in {Base, Derived}, free(x, size), UNCHANGED <<made, raced>>,
         raced = {} => freed[x] = 0
  PROVE  /\ LivingInv' /\ living' \in Int /\ misfreed' \in Int
         /\ freed' \in [Objects -> Nat] /\ freed'[x] = freed[x] + 1
         /\ \A o \in Objects : o # x => freed'[o] = freed[o]
<1> DEFINE S == {o \in made : freed[o] = 0}
<1>1. /\ IsFiniteSet(made) /\ made \subseteq Objects /\ living \in Int /\ misfreed \in Int
      /\ freed \in [Objects -> Nat]
  BY DEF RefInv, RefTypes
<1>2. /\ freed' = [freed EXCEPT ![x] = @ + 1] /\ living' = living - size
      /\ misfreed' = misfreed + Derived - size
  BY DEF free
<1>3. /\ freed' \in [Objects -> Nat] /\ freed'[x] = freed[x] + 1
      /\ \A o \in Objects : o # x => freed'[o] = freed[o]
  BY <1>1, <1>2
<1>4. size \in Int
  BY DEF Base, Derived
<1>5. living' \in Int /\ misfreed' \in Int
  BY <1>1, <1>2, <1>4 DEF Derived
<1>6. LivingInv'
  <2> SUFFICES ASSUME raced = {}
               PROVE  living' = Derived * Cardinality({o \in made : freed'[o] = 0}) + misfreed'
    BY DEF LivingInv
  <2>1. freed[x] = 0 /\ x \in S
    OBVIOUS
  <2>2. IsFiniteSet(S) /\ Cardinality(S) \in Nat
    BY <1>1, FS_Subset, FS_CardinalityType
  <2>3. {o \in made : freed'[o] = 0} = S \ {x}
    BY <1>1, <1>3, <2>1
  <2>4. Cardinality(S \ {x}) = Cardinality(S) - 1
    BY <2>1, <2>2, FS_RemoveElement
  <2>5. living = 2 * Cardinality(S) + misfreed
    BY DEF RefInv, LivingInv, Derived
  <2>6. living - size = 2 * (Cardinality(S) - 1) + (misfreed + 2 - size)
    BY <1>1, <1>4, <2>2, <2>5
  <2> QED BY <1>2, <2>3, <2>4, <2>6 DEF Derived
<1> QED BY <1>3, <1>5, <1>6

\* The deleter of an owning pointer: no reference holds its object.
LEMMA DeleteOwnedStep ==
  ASSUME RefInv, NEW t \in Threads, DeleteOwned(t)
  PROVE  RefInv'
<1> DEFINE x == owner.object
<1>1. /\ x # NoObject /\ owner' = [object |-> NoObject, size |-> Derived] /\ free(x, owner.size)
      /\ UNCHANGED <<made, ref, count, references, releasing, lost, raced>>
  BY DEF DeleteOwned, notOwned
<1>2. x \in Objects /\ owner.size \in {Base, Derived}
  BY <1>1 DEF RefInv, RefTypes
<1>3. x \in made /\ freed[x] = 0 /\ count[x] = 0 /\ ~Held(x)
  BY <1>2 DEF RefInv, LifeInv
<1>4. /\ LivingInv' /\ living' \in Int /\ misfreed' \in Int
      /\ freed' \in [Objects -> Nat] /\ freed'[x] = freed[x] + 1
      /\ \A o \in Objects : o # x => freed'[o] = freed[o]
  BY <1>1, <1>2, <1>3, OneLessLives
<1>5. owner' \in [object : Objects \cup {NoObject}, size : {Base, Derived}] /\ owner'.object = NoObject
  BY <1>1
<1>6. RefTypes'
  BY <1>1, <1>4, <1>5 DEF RefInv, RefTypes, Object
<1>7. CountInv'
  BY <1>1 DEF RefInv, CountInv, Counted, Holding, Coming, CountedOff
<1>8. ASSUME NEW o \in Objects PROVE LifeInv(o)' /\ FreeInv(o)'
  <2>1. LifeInv(o) /\ FreeInv(o)
    BY DEF RefInv
  <2>2. OffCount(o)' = OffCount(o) /\ (Held(o)' <=> Held(o)) /\ owner'.object # o
    BY <1>1, <1>5, ReferencesAssumption DEF OffCount, Held, Object
  <2>3. CASE o = x
    BY <1>1, <1>3, <1>4, <2>1, <2>2, <2>3 DEF LifeInv, FreeInv
  <2>4. CASE o # x
    BY <1>1, <1>4, <2>1, <2>2, <2>4 DEF LifeInv, FreeInv
  <2> QED BY <2>3, <2>4
<1> QED BY <1>4, <1>6, <1>7, <1>8 DEF RefInv

\* dec_ref() counts the reference off.
LEMMA DecrementStep ==
  ASSUME RefInv, NEW t \in Threads, Decrement(t)
  PROVE  RefInv'
<1> DEFINE x == Object(t)
           s == releasing[t].slot
           W == CountedOffBy(releasing, t)
<1>1. /\ releasing[t].at = "decrement" /\ releasing' = W
      /\ count' = [count EXCEPT ![x] = @ - 1]
      /\ raced' = IF InRelease(x, t) THEN raced \cup {x} ELSE raced
      /\ UNCHANGED <<ref, references, made, freed, living, owner, lost, misfreed>>
  BY DEF Decrement, Releases, Go, CountedOffBy
<1>2. RefTypes /\ CountInv /\ RelTypes(releasing) /\ x \in Objects /\ s \in Slots /\ ref[t][s] = x
  BY <1>1 DEF RefInv, RefTypes, RelTypes, Idle, Object
<1>3. RelTypes(W) /\ \A o \in Objects : Count(ref, W, o) = Count(ref, releasing, o) - One(x, o)
  <2>1. RelTypes(W) /\ \A o \in Objects : Count(ref, W, o) = Count(ref, releasing, o) - One(ref[t][releasing[t].slot], o)
    BY <1>1, <1>2, OffCounts
  <2> QED BY <1>2, <2>1
<1>4. /\ W[t].at = "read" /\ W[t].slot = s /\ \A u \in Threads : u # t => W[u] = releasing[u]
  BY <1>1, <1>2 DEF RelTypes, CountedOffBy, Idle, ReleaseSteps
<1> HIDE DEF W
<1>5. /\ count' \in [Objects -> Int] /\ count'[x] = count[x] - 1
      /\ \A o \in Objects : o # x => count'[o] = count[o]
  <2>1. count \in [Objects -> Int]
    BY <1>2 DEF RefTypes
  <2> QED BY <1>1, <1>2, <2>1
<1>6. count[x] > 0 /\ \A o \in Objects : count[o] \in Nat
  <2>1. releasing[t].at \notin {"read", "free"}
    BY <1>1
  <2> QED BY <1>2, <2>1, CountsPositive, CountIsNat
<1>7. RefTypes'
  <2>1. \A u \in Threads : W[u].at # Idle => ref[u][W[u].slot] \in Objects
    BY <1>2, <1>4 DEF RefTypes, Object
  <2> QED BY <1>1, <1>2, <1>3, <1>5, <2>1 DEF RefTypes, RelTypes, Object
<1>8. CountInv'
  <2>1. ASSUME NEW o \in Objects PROVE count'[o] = Count(ref', releasing', o) + lost'[o]
    <3>1. count[o] \in Nat /\ lost[o] \in Nat /\ Count(ref, releasing, o) \in Nat
          /\ count[o] = Count(ref, releasing, o) + lost[o]
      BY <1>2, CountIsNat
    <3>2. count'[o] = count[o] - One(x, o) /\ One(x, o) \in {0, 1}
      BY <1>2, <1>5, <3>1 DEF One
    <3>3. releasing' = W /\ lost'[o] = lost[o] /\ ref' = ref
      BY <1>1
    <3> QED BY <1>3, <3>1, <3>2, <3>3
  <2> QED BY <2>1, CountedIsCount DEF CountInv
<1>9. ASSUME NEW o \in Objects
      PROVE  OffCount(o)' = (IF o = x THEN OffCount(o) \cup {t} ELSE OffCount(o))
  <2>1. ASSUME NEW u \in Threads PROVE u \in OffCount(o)' <=> u \in OffCount(o) \/ (u = t /\ o = x)
    <3>1. CASE u = t
      BY <1>1, <1>2, <1>4, <3>1 DEF OffCount, Object
    <3>2. CASE u # t
      BY <1>1, <1>4, <3>2 DEF OffCount, Object
    <3> QED BY <3>1, <3>2
  <2> QED BY <2>1 DEF OffCount
<1>10. ASSUME NEW o \in Objects PROVE LifeInv(o)'
  <2>1. LifeInv(o) /\ (Held(o)' <=> Held(o))
    BY <1>1 DEF RefInv, Held
  <2>2. \A u \in OffCount(o) : releasing'[u].at = "free" => releasing[u].at = "free"
    BY <1>1, <1>4 DEF OffCount
  <2>3. CASE o = x
    <3>1. count'[o] \in Nat /\ count[o] > 0
      BY <1>5, <1>6, <2>3
    <3>2. \A u \in OffCount(o)' : releasing'[u].at # "free"
      BY <1>1, <1>4, <1>9, <2>1, <2>2, <2>3, <3>1 DEF LifeInv
    <3> QED BY <1>1, <2>1, <3>1, <3>2 DEF LifeInv
  <2>4. CASE o # x
    BY <1>1, <1>5, <1>9, <2>1, <2>2, <2>4 DEF LifeInv
  <2> QED BY <2>3, <2>4
<1>11. ASSUME NEW o \in Objects PROVE FreeInv(o)'
  <2>1. FreeInv(o) /\ (Held(o)' <=> Held(o)) /\ freed'[o] = freed[o] /\ (o \notin raced' => o \notin raced)
    BY <1>1 DEF RefInv, Held
  <2>2. CASE o = x
    <3>1. o \notin raced' => OffCount(o) \subseteq {t}
      <4>1. o \notin raced' => ~InRelease(x, t)
        BY <1>1, <2>2
      <4> QED BY <2>2, <4>1 DEF InRelease, OffCount
    <3> QED BY <1>9, <2>1, <2>2, <3>1 DEF FreeInv
  <2>3. CASE o # x
    BY <1>9, <2>1, <2>3 DEF FreeInv
  <2> QED BY <2>2, <2>3
<1>12. LivingInv'
  <2>1. raced' = {} => raced = {}
    BY <1>1
  <2> QED BY <1>1, <2>1 DEF RefInv, LivingInv
<1> QED BY <1>7, <1>8, <1>10, <1>11, <1>12 DEF RefInv

\* A release ends: the reference is what it was to become.
LEMMA ReleaseEnds ==
  ASSUME RefInv, NEW t \in Threads, releasing[t].at \in {"read", "free"}, Done(t),
         UNCHANGED <<count, lost>>
  PROVE  /\ ref' \in [Threads -> [Slots -> Values]] /\ RelTypes(releasing') /\ CountInv'
         /\ \A u \in Threads : releasing'[u].at # Idle => Object(u)' \in Objects
         /\ \A o \in Objects : /\ OffCount(o)' = OffCount(o) \ {t}
                               /\ Held(o)' => Held(o) \/ count[o] > 0
                               /\ \A u \in OffCount(o)' : releasing'[u] = releasing[u]
         /\ \A u \in Threads, s \in Slots :
              ref'[u][s] = IF u = t /\ s = releasing[t].slot THEN releasing[t].then ELSE ref[u][s]
<1> DEFINE s == releasing[t].slot
           th == releasing[t].then
           W == Ended(releasing, t)
           V == With(ref, t, s, th)
<1>1. RefTypes /\ CountInv /\ RelTypes(releasing) /\ ref \in [Threads -> [Slots -> Values]]
  BY DEF RefInv, RefTypes, RelTypes
<1>2. s \in Slots /\ th \in Values /\ releasing[t].at # Idle
  BY <1>1 DEF RelTypes, Idle
<1>3. releasing' = W /\ ref' = V
  BY DEF Done, Put, Ended, With
<1>4. RelTypes(W) /\ \A o \in Objects : Count(V, W, o) = Count(ref, releasing, o)
  BY <1>1, DoneCounts
<1>5. /\ V \in [Threads -> [Slots -> Values]]
      /\ \A u \in Threads, y \in Slots : V[u][y] = IF u = t /\ y = s THEN th ELSE ref[u][y]
  BY <1>1, <1>2 DEF With
<1>6. W[t].at = Idle /\ \A u \in Threads : u # t => W[u] = releasing[u]
  BY <1>1 DEF RelTypes, Ended
<1> HIDE DEF V, W, s, th
<1>7. CountInv'
  <2>1. ASSUME NEW o \in Objects PROVE count'[o] = Count(ref', releasing', o) + lost'[o]
    <3>1. count[o] = Count(ref, releasing, o) + lost[o] /\ count'[o] = count[o] /\ lost'[o] = lost[o]
      BY <1>1, CountIsNat
    <3> QED BY <1>3, <1>4, <3>1
  <2> QED BY <2>1, CountedIsCount DEF CountInv
<1>8. \A u \in Threads : releasing'[u].at # Idle => Object(u)' \in Objects
  <2>1. ASSUME NEW u \in Threads, W[u].at # Idle PROVE V[u][W[u].slot] \in Objects
    <3>1. u # t /\ W[u] = releasing[u] /\ releasing[u].slot \in Slots
      BY <1>1, <1>6, <2>1 DEF RelTypes
    <3>2. V[u][W[u].slot] = ref[u][releasing[u].slot]
      BY <1>5, <3>1
    <3> QED BY <1>1, <2>1, <3>1, <3>2 DEF RefTypes, Object
  <2> QED BY <1>3, <2>1 DEF Object
<1>9. ASSUME NEW o \in Objects
      PROVE  /\ OffCount(o)' = OffCount(o) \ {t}
             /\ Held(o)' => Held(o) \/ count[o] > 0
             /\ \A u \in OffCount(o)' : releasing'[u] = releasing[u]
  <2>1. ASSUME NEW u \in Threads PROVE u \in OffCount(o)' <=> u \in OffCount(o) /\ u # t
    <3>1. CASE u = t
      BY <1>3, <1>6, <3>1 DEF OffCount, Idle
    <3>2. CASE u # t
      <4>1. releasing[u].at \in {"read", "free"} => releasing[u].slot \in Slots
        BY <1>1 DEF RelTypes, Idle
      <4>2. releasing[u].at \in {"read", "free"} => ref'[u][releasing[u].slot] = ref[u][releasing[u].slot]
        BY <1>3, <1>5, <3>2, <4>1
      <4> QED BY <1>3, <1>6, <3>2, <4>2 DEF OffCount, Object
    <3> QED BY <3>1, <3>2
  <2>2. OffCount(o)' = OffCount(o) \ {t}
    BY <2>1 DEF OffCount
  <2>3. Held(o)' => Held(o) \/ count[o] > 0
    <3> SUFFICES ASSUME NEW u \in Threads, NEW y \in Slots, V[u][y] = o PROVE Held(o) \/ count[o] > 0
      BY <1>3 DEF Held
    <3>1. ref[u][y] = o \/ th = o
      BY <1>5
    <3>2. th = o => count[o] > 0
      BY <1>1, <1>2, CountsPositive DEF th
    <3> QED BY <3>1, <3>2 DEF Held
  <2>4. \A u \in OffCount(o)' : u \in Threads /\ u # t
    BY <2>2 DEF OffCount
  <2>5. \A u \in OffCount(o)' : releasing'[u] = releasing[u]
    BY <1>3, <1>6, <2>4
  <2> QED BY <2>2, <2>3, <2>5
<1> QED BY <1>3, <1>4, <1>5, <1>7, <1>8, <1>9 DEF s, th

\* dec_ref() reads the count: another reference is left, or the object is destroyed next.
LEMMA ReadCountStep ==
  ASSUME RefInv, NEW t \in Threads, ReadCount(t)
  PROVE  RefInv'
<1> DEFINE x == Object(t)
<1>1. /\ releasing[t].at = "read"
      /\ UNCHANGED <<count, references, made, freed, living, owner, lost, raced, misfreed>>
      /\ \/ Done(t)
         \/ count[x] = 0 /\ Go(t, "free") /\ ref' = ref
         \/ UNCHANGED <<ref, releasing>>
  BY DEF ReadCount, Releases
<1>2. RefTypes /\ CountInv /\ RelTypes(releasing) /\ x \in Objects /\ LivingInv
  BY <1>1 DEF RefInv, RefTypes, RelTypes, Idle
<1>3. LivingInv'
  BY <1>1, <1>2 DEF LivingInv
<1>4. CASE Done(t)
  <2>1. /\ ref' \in [Threads -> [Slots -> Values]] /\ RelTypes(releasing') /\ CountInv'
        /\ \A u \in Threads : releasing'[u].at # Idle => Object(u)' \in Objects
        /\ \A o \in Objects : /\ OffCount(o)' = OffCount(o) \ {t}
                              /\ Held(o)' => Held(o) \/ count[o] > 0
                              /\ \A u \in OffCount(o)' : releasing'[u] = releasing[u]
    BY <1>1, <1>4, ReleaseEnds
  <2>2. RefTypes'
    BY <1>1, <1>2, <2>1 DEF RefTypes, RelTypes
  <2>3. \A o \in Objects : count[o] \in Nat
    BY <1>2, CountIsNat
  <2>4. ASSUME NEW o \in Objects PROVE LifeInv(o)' /\ FreeInv(o)'
    <3>1. LifeInv(o) /\ FreeInv(o) /\ count[o] \in Nat
      BY <2>3 DEF RefInv
    <3>2. count[o] > 0 => o \in made /\ o # owner.object /\ freed[o] = 0
      BY <3>1 DEF LifeInv
    <3>3. LifeInv(o)'
      BY <1>1, <2>1, <3>1, <3>2 DEF LifeInv
    <3>4. FreeInv(o)'
      BY <1>1, <2>1, <3>1, <3>2 DEF FreeInv
    <3> QED BY <3>3, <3>4
  <2> QED BY <1>3, <2>1, <2>2, <2>4 DEF RefInv
<1>5. CASE count[x] = 0 /\ Go(t, "free") /\ ref' = ref
  <2>1. /\ releasing[t].slot \in Slots /\ releasing[t].then \in Values
        /\ releasing' = [releasing EXCEPT ![t].at = "free"]
    BY <1>1, <1>2, <1>5 DEF RelTypes, Idle, Go
  <2>2. /\ releasing'[t].at = "free" /\ releasing'[t].slot = releasing[t].slot
        /\ releasing'[t].then = releasing[t].then
        /\ \A u \in Threads : u # t => releasing'[u] = releasing[u]
        /\ RelTypes(releasing')
    BY <1>1, <1>2, <2>1 DEF RelTypes, Idle, ReleaseSteps
  <2>3. RefTypes'
    <3>1. \A u \in Threads : releasing'[u].at # Idle => ref[u][releasing'[u].slot] \in Objects
      BY <1>1, <1>2, <2>2 DEF RefTypes, Object
    <3> QED BY <1>1, <1>2, <1>5, <2>2, <3>1 DEF RefTypes, RelTypes, Object
  <2>4. CountInv'
    <3>1. \A o : Holding(o)' = Holding(o) /\ Coming(o)' = Coming(o)
      <4>1. \A u \in Threads, s \in Slots : CountedOff(u, s)' <=> CountedOff(u, s)
        BY <1>1, <2>2 DEF CountedOff
      <4>2. \A u \in Threads : /\ releasing'[u].at # Idle <=> releasing[u].at # Idle
                               /\ releasing'[u].then = releasing[u].then
        BY <1>1, <2>2 DEF Idle
      <4>3. \A h \in Threads \X Slots : CountedOff(h[1], h[2])' <=> CountedOff(h[1], h[2])
        BY <4>1
      <4>4. \A o : Holding(o)' = Holding(o)
        BY <1>5, <4>3 DEF Holding
      <4>5. \A o : Coming(o)' = Coming(o)
        BY <4>2 DEF Coming
      <4> QED BY <4>4, <4>5
    <3> QED BY <1>1, <1>2, <3>1 DEF CountInv, Counted
  <2>5. ASSUME NEW o \in Objects PROVE LifeInv(o)' /\ FreeInv(o)'
    <3>1. OffCount(o)' = OffCount(o)
      BY <1>1, <1>5, <2>2 DEF OffCount, Object
    <3>2. LifeInv(o) /\ FreeInv(o) /\ (Held(o)' <=> Held(o))
      BY <1>5 DEF RefInv, Held
    <3>3. \A u \in OffCount(o) : releasing'[u].at = "free" => count[o] = 0
      BY <1>5, <2>2, <3>2 DEF LifeInv, OffCount
    <3> QED BY <1>1, <3>1, <3>2, <3>3 DEF LifeInv, FreeInv
  <2> QED BY <1>3, <2>3, <2>4, <2>5 DEF RefInv
<1>6. CASE UNCHANGED <<ref, releasing>>
  <2>1. RefTypes' /\ CountInv'
    BY <1>1, <1>2, <1>6 DEF RefTypes, Object, CountInv, Counted, Holding, Coming, CountedOff
  <2>2. ASSUME NEW o \in Objects PROVE LifeInv(o)' /\ FreeInv(o)'
    BY <1>1, <1>6 DEF RefInv, LifeInv, FreeInv, OffCount, Held, Object
  <2> QED BY <1>3, <2>1, <2>2 DEF RefInv
<1> QED BY <1>1, <1>4, <1>5, <1>6

\* ... and it is destroyed while nothing refers to it.
LEMMA FreeStep ==
  ASSUME RefInv, NEW t \in Threads, Free(t)
  PROVE  RefInv'
<1> DEFINE size == SizeOf(releasing[t].slot)
<1>0. PICK x : x = Object(t)
  OBVIOUS
<1>1. /\ releasing[t].at = "free" /\ Done(t) /\ references' = references \ {x}
      /\ free(x, size) /\ UNCHANGED <<count, made, owner, lost, raced>>
  BY <1>0 DEF Free, Releases, remove_reference
<1>2. RefTypes /\ CountInv /\ RelTypes(releasing) /\ x \in Objects /\ releasing[t].slot \in Slots
      /\ ref[t][releasing[t].slot] = x
  BY <1>0, <1>1 DEF RefInv, RefTypes, RelTypes, Idle, Object
<1>3. size \in {Base, Derived}
  BY DEF SizeOf
<1>4. Held(x) /\ t \in OffCount(x)
  BY <1>0, <1>1, <1>2 DEF Held, OffCount
<1>5. /\ x \in made /\ x # owner.object /\ count[x] = 0
      /\ x \notin raced => freed[x] = 0 /\ \A u \in OffCount(x) : u = t
  <2>1. LifeInv(x) /\ FreeInv(x) /\ freed[x] \in Nat
    BY <1>2 DEF RefInv, RefTypes
  <2>2. x \in made /\ x # owner.object /\ count[x] = 0
    BY <1>1, <1>4, <2>1 DEF LifeInv
  <2>3. x \notin raced => freed[x] = 0
    BY <1>4, <2>1 DEF FreeInv
  <2> QED BY <1>4, <2>1, <2>2, <2>3 DEF FreeInv
<1>6. /\ LivingInv' /\ living' \in Int /\ misfreed' \in Int
      /\ freed' \in [Objects -> Nat] /\ freed'[x] = freed[x] + 1
      /\ \A o \in Objects : o # x => freed'[o] = freed[o]
  BY <1>1, <1>3, <1>5, OneLessLives
<1>7. /\ ref' \in [Threads -> [Slots -> Values]] /\ RelTypes(releasing') /\ CountInv'
      /\ \A u \in Threads : releasing'[u].at # Idle => Object(u)' \in Objects
      /\ \A o \in Objects : /\ OffCount(o)' = OffCount(o) \ {t}
                            /\ Held(o)' => Held(o) \/ count[o] > 0
                            /\ \A u \in OffCount(o)' : releasing'[u] = releasing[u]
      /\ \A u \in Threads, s \in Slots :
           ref'[u][s] = IF u = t /\ s = releasing[t].slot THEN releasing[t].then ELSE ref[u][s]
  BY <1>1, ReleaseEnds
<1>8. RefTypes'
  BY <1>1, <1>2, <1>6, <1>7 DEF RefTypes, RelTypes
<1>9. \A o \in Objects : count[o] \in Nat
  BY <1>2, CountIsNat
<1>10. x \notin raced => ~Held(x)'
  <2> SUFFICES ASSUME x \notin raced, NEW u \in Threads, NEW s \in Slots, ref'[u][s] = x PROVE FALSE
    BY DEF Held
  <2>1. CASE u = t /\ s = releasing[t].slot
    <3>1. releasing[t].then = x
      BY <1>7, <2>1
    <3>2. count[x] > 0
      BY <1>1, <1>2, <3>1, CountsPositive DEF Idle
    <3> QED BY <1>5, <3>2
  <2>2. CASE ~(u = t /\ s = releasing[t].slot)
    <3>1. ref[u][s] = x
      BY <1>7, <2>2
    <3>2. CASE releasing[u].at \notin {"read", "free"} \/ releasing[u].slot # s
      <4>1. count[x] > 0
        BY <1>2, <3>1, <3>2, CountsPositive
      <4> QED BY <1>5, <4>1
    <3>3. CASE releasing[u].at \in {"read", "free"} /\ releasing[u].slot = s
      <4>1. u \in OffCount(x)
        BY <3>1, <3>3 DEF OffCount, Object
      <4> QED BY <1>5, <2>2, <3>3, <4>1
    <3> QED BY <3>2, <3>3
  <2> QED BY <2>1, <2>2
<1>11. ASSUME NEW o \in Objects PROVE LifeInv(o)' /\ FreeInv(o)'
  <2>1. LifeInv(o) /\ FreeInv(o) /\ count[o] \in Nat /\ freed[o] \in Nat
    BY <1>2, <1>9 DEF RefInv, RefTypes
  <2>2. CASE o = x
    <3>1. LifeInv(o)'
      BY <1>1, <1>5, <2>2 DEF LifeInv
    <3>2. FreeInv(o)'
      BY <1>1, <1>5, <1>6, <1>7, <1>10, <2>2 DEF FreeInv
    <3> QED BY <3>1, <3>2
  <2>3. CASE o # x
    <3>1. count[o] > 0 => o \in made /\ o # owner.object /\ freed[o] = 0
      BY <2>1 DEF LifeInv
    <3>2. freed'[o] = freed[o] /\ (o \in references => o \in references')
      BY <1>1, <1>6, <2>3
    <3>3. LifeInv(o)'
      BY <1>1, <1>7, <2>1, <3>1, <3>2 DEF LifeInv
    <3>4. FreeInv(o)'
      BY <1>1, <1>7, <2>1, <3>1, <3>2 DEF FreeInv
    <3> QED BY <3>3, <3>4
  <2> QED BY <2>2, <2>3
<1> QED BY <1>6, <1>7, <1>8, <1>11 DEF RefInv

-----------------------------------------------------------------------------
(* The invariant of the references *)

LEMMA RefInitially == ReferencesInit => RefInv
<1> SUFFICES ASSUME ReferencesInit PROVE RefInv
  OBVIOUS
<1>1. /\ \A t \in Threads : releasing[t].at = Idle /\ \A s \in Slots : ref[t][s] = "dead"
      /\ \A o \in Objects : count[o] = 0 /\ lost[o] = 0 /\ freed[o] = 0
      /\ made = {} /\ living = 0 /\ misfreed = 0 /\ owner = [object |-> NoObject, size |-> Derived]
  BY DEF ReferencesInit
<1>2. RefTypes
  BY <1>1, FS_EmptySet DEF ReferencesInit, RefTypes, Values, Derived
<1>3. CountInv
  <2>1. ASSUME NEW o \in Objects PROVE Counted(o) = 0
    <3>1. Holding(o) = {} /\ Coming(o) = {}
      BY <1>1, ReferencesAssumption DEF Holding, Coming
    <3> QED BY <3>1, FS_EmptySet DEF Counted
  <2> QED BY <1>1, <2>1 DEF CountInv
<1>4. ASSUME NEW o \in Objects PROVE LifeInv(o) /\ FreeInv(o)
  <2>1. ~Held(o) /\ OffCount(o) = {} /\ owner.object # o
    BY <1>1, ReferencesAssumption DEF Held, OffCount, Idle
  <2> QED BY <1>1, <2>1 DEF LifeInv, FreeInv
<1>5. LivingInv
  <2>1. {o \in made : freed[o] = 0} = {}
    BY <1>1
  <2>2. Cardinality({o \in made : freed[o] = 0}) = 0
    BY <2>1, FS_EmptySet
  <2> QED BY <1>1, <2>2 DEF LivingInv, Derived
<1> QED BY <1>2, <1>3, <1>4, <1>5 DEF RefInv

LEMMA RefUnchanged == RefInv /\ UNCHANGED refVars => RefInv'
BY DEF RefInv, RefTypes, CountInv, LifeInv, FreeInv, LivingInv, Held, OffCount, Object, Counted, Holding,
       Coming, CountedOff, refVars

LEMMA RefStep == RefInv /\ ReferencesNext => RefInv'
<1> SUFFICES ASSUME RefInv, ReferencesNext PROVE RefInv'
  OBVIOUS
<1>1. PICK t \in Threads :
        \/ Decrement(t) \/ ReadCount(t) \/ Free(t)
        \/ MakeOwner(t) \/ ToBase(t) \/ DeleteOwned(t)
        \/ \E s \in Slots :
             \/ Make(t, s) \/ Destroy(t, s) \/ Reset(t, s) \/ Resize(t, s)
             \/ \E u \in Threads, v \in Slots : CopyFrom(t, s, u, v)
             \/ \E v \in Slots :
                  \/ MoveFrom(t, s, v) \/ CopyAssign(t, s, v) \/ MoveAssign(t, s, v)
                  \/ AssignDerived(t, s, v) \/ MoveBuffer(t, s, v) \/ MoveAssignBuffer(t, s, v)
  BY DEF ReferencesNext
<1>2. CASE Decrement(t) \/ ReadCount(t) \/ Free(t)
  BY <1>2, DecrementStep, ReadCountStep, FreeStep
<1>3. CASE MakeOwner(t) \/ ToBase(t) \/ DeleteOwned(t)
  BY <1>3, MakeOwnerStep, ToBaseStep, DeleteOwnedStep
<1>4. ASSUME NEW s \in Slots, Make(t, s) \/ Destroy(t, s) \/ Reset(t, s) \/ Resize(t, s) PROVE RefInv'
  BY <1>4, MakeStep, DestroyStep
<1>5. ASSUME NEW s \in Slots, NEW u \in Threads, NEW v \in Slots, CopyFrom(t, s, u, v) PROVE RefInv'
  BY <1>5, CopyFromStep
<1>6. ASSUME NEW s \in Slots, NEW v \in Slots,
             MoveFrom(t, s, v) \/ CopyAssign(t, s, v) \/ MoveAssign(t, s, v)
      PROVE  RefInv'
  BY <1>6, MoveFromStep, CopyAssignStep, MoveAssignStep
<1>7. ASSUME NEW s \in Slots, NEW v \in Slots,
             AssignDerived(t, s, v) \/ MoveBuffer(t, s, v) \/ MoveAssignBuffer(t, s, v)
      PROVE  RefInv'
  BY <1>7, AssignDerivedStep, MoveBufferStep, DestroyStep DEF MoveAssignBuffer
<1> QED BY <1>1, <1>2, <1>3, <1>4, <1>5, <1>6, <1>7

\* The account of every object, and what is known of its life, hold whatever part of the library
\* is used, of references by ReferencesNext alone.
THEOREM ReferencesInvariant == Spec => []RefInv
<1>1. Init => RefInv
  BY RefInitially DEF Init
<1>2. RefInv /\ [Next]_vars => RefInv'
  <2> SUFFICES ASSUME RefInv, [Next]_vars PROVE RefInv'
    OBVIOUS
  <2>1. ReferencesNext \/ UNCHANGED refVars
    BY DEF Next, vars
  <2> QED BY <2>1, RefStep, RefUnchanged
<1> QED BY <1>1, <1>2, PTL DEF Spec

\* Whatever is assigned, moved and released by whichever thread, the count of an object is the
\* number of references to it and of those that were assigned over, and while that is not 0 the
\* object is neither destroyed nor out of the registry.
THEOREM HeldObjectsLive == Spec => []HeldIsAlive
<1>1. RefInv => HeldIsAlive
  <2> SUFFICES ASSUME RefInv, NEW o \in Objects
               PROVE  /\ count[o] = Counted(o) + lost[o]
                      /\ Counted(o) + lost[o] > 0 => freed[o] = 0 /\ o \in references
    BY DEF HeldIsAlive
  <2> QED BY DEF RefInv, CountInv, LifeInv
<1> QED BY <1>1, ReferencesInvariant, PTL

\* An object that two threads never were releasing at once is destroyed once at most; and if there
\* is none of those that were, the arena counts the bytes of what is not destroyed and of what was
\* deleted as its base class.
THEOREM ObjectsDieOnce == Spec => []DestroyedOnce
<1>1. RefInv => DestroyedOnce
  BY DEF RefInv, FreeInv, LivingInv, DestroyedOnce
<1> QED BY <1>1, ReferencesInvariant, PTL

-----------------------------------------------------------------------------
(* The logger *)

LogNames == Names \cup {Core}
Entries == [id : Int, level : Int, logs : SUBSET LogNames]

\* A logger agrees with what it gave: its sinks are the ids it returned, which differ, and each
\* of its loggers has those that were registered with it.
SinksInv(l, gv) ==
  /\ l = [loggers |-> l.loggers, sinks |-> l.sinks, next |-> l.next] /\ l.next \in Int
  /\ l.loggers \in [DOMAIN l.loggers -> [level : Int, sinks : SUBSET Int]]
  /\ DOMAIN l.loggers \subseteq LogNames
  /\ gv \in Seq(Entries)
  /\ \A i, j \in DOMAIN gv : gv[i].id = gv[j].id => i = j
  /\ DOMAIN l.sinks = {gv[i].id : i \in DOMAIN gv}
  /\ \A i \in DOMAIN gv : l.sinks[gv[i].id] = gv[i].level /\ gv[i].logs \subseteq DOMAIN l.loggers
  /\ \A n \in DOMAIN l.loggers : l.loggers[n].sinks = {gv[i].id : i \in {j \in DOMAIN gv : n \in gv[j].logs}}

\* What the last message reached
SentInv ==
  sent.to \in DOMAIN logger.loggers /\ sent.level >= logger.loggers[sent.to].level /\ sent # NothingSent =>
    sent.sinks = {g.id : g \in {h \in ToSet(given) : sent.to \in h.logs /\ h.level <= sent.level}}

LogInv == SinksInv(logger, given) /\ SentInv

LEMMA InstanceKeeps ==
  ASSUME NEW l, NEW gv, SinksInv(l, gv)
  PROVE  /\ SinksInv(Instance(l), gv)
         /\ Instance(l).loggers = l.loggers /\ Instance(l).sinks = l.sinks
<1>1. CASE l = NoLogger
  <2>1. Instance(l) = [loggers |-> l.loggers, sinks |-> l.sinks, next |-> 1]
    BY <1>1 DEF Instance, NoLogger, NewLogger
  <2>2. /\ Instance(l).loggers = l.loggers /\ Instance(l).sinks = l.sinks /\ Instance(l).next = 1
        /\ Instance(l) = [loggers |-> Instance(l).loggers, sinks |-> Instance(l).sinks, next |-> Instance(l).next]
    BY <2>1
  <2> QED BY <2>2 DEF SinksInv
<1>2. CASE l # NoLogger
  BY <1>2 DEF Instance
<1> QED BY <1>1, <1>2

\* A new logger has no sinks, and nothing that was given names it.
LEMMA CreatedKeeps ==
  ASSUME NEW l, NEW gv, SinksInv(l, gv), NEW name \in LogNames, NEW level \in Int
  PROVE  /\ SinksInv(Created(l, name, level), gv)
         /\ name \in DOMAIN Created(l, name, level).loggers
<1>1. CASE name \in DOMAIN l.loggers
  BY <1>1 DEF Created
<1>2. CASE name \notin DOMAIN l.loggers
  <2> DEFINE c == Created(l, name, level)
             new == [level |-> level, sinks |-> {}]
  <2>1. c = [loggers |-> Extend(l.loggers, name, new), sinks |-> l.sinks, next |-> l.next]
    BY <1>2 DEF Created, SinksInv
  <2>2. /\ c.loggers = Extend(l.loggers, name, new) /\ c.sinks = l.sinks /\ c.next = l.next
        /\ c = [loggers |-> c.loggers, sinks |-> c.sinks, next |-> c.next]
    BY <2>1
  <2>3. /\ DOMAIN c.loggers = DOMAIN l.loggers \cup {name} /\ c.loggers[name] = new
        /\ \A n \in DOMAIN l.loggers : c.loggers[n] = l.loggers[n]
    BY <1>2, <2>2 DEF Extend
  <2>4. c.loggers \in [DOMAIN c.loggers -> [level : Int, sinks : SUBSET Int]]
    <3>1. l.loggers \in [DOMAIN l.loggers -> [level : Int, sinks : SUBSET Int]]
      BY DEF SinksInv
    <3>2. new \in [level : Int, sinks : SUBSET Int]
      OBVIOUS
    <3> QED BY <2>2, <3>1, <3>2 DEF Extend
  <2>5. ASSUME NEW n \in DOMAIN c.loggers
        PROVE  c.loggers[n].sinks = {gv[i].id : i \in {j \in DOMAIN gv : n \in gv[j].logs}}
    <3>1. CASE n = name
      <4>1. \A j \in DOMAIN gv : name \notin gv[j].logs
        BY <1>2 DEF SinksInv
      <4>2. c.loggers[n].sinks = {}
        BY <2>3, <3>1
      <4> QED BY <3>1, <4>1, <4>2
    <3>2. CASE n # name
      <4>1. n \in DOMAIN l.loggers /\ c.loggers[n] = l.loggers[n]
        BY <2>3, <3>2
      <4> QED BY <4>1 DEF SinksInv
    <3> QED BY <3>1, <3>2
  <2> HIDE DEF c
  <2>6. SinksInv(c, gv)
    BY <2>2, <2>3, <2>4, <2>5 DEF SinksInv
  <2> QED BY <2>3, <2>6 DEF c
<1> QED BY <1>1, <1>2

LEMMA LoggerFields ==
  ASSUME NEW r, NEW A, NEW B, NEW x, NEW S, NEW T,
         r = [[loggers |-> A, sinks |-> B, next |-> x] EXCEPT !.sinks = S, !.loggers = T]
  PROVE  r = [loggers |-> T, sinks |-> S, next |-> x]
OBVIOUS

\* An entry that names no sink of the logger joins what was given.
LEMMA RegisteredKeeps ==
  ASSUME NEW l, NEW gv, SinksInv(l, gv), NEW names \in SUBSET LogNames, NEW level \in Int
  PROVE  SinksInv(Registered(l, names, level), gv \o Given(l, names, level))
<1> DEFINE id == IF l.next = MaxSinkId THEN 1 ELSE l.next + 1
           m == Registered(l, names, level)
           e == [id |-> id, level |-> level, logs |-> names \cap DOMAIN l.loggers]
<1>0. l = [loggers |-> l.loggers, sinks |-> l.sinks, next |-> l.next] /\ id \in Int /\ gv \in Seq(Entries)
  BY DEF SinksInv
<1>1. CASE id \in DOMAIN l.sinks
  <2>1. m = [loggers |-> l.loggers, sinks |-> l.sinks, next |-> id]
    BY <1>0, <1>1 DEF Registered
  <2>2. m.next = id
    BY <2>1
  <2>3. Given(l, names, level) = <<>>
    BY <1>1, <2>2 DEF Given
  <2>4. gv \o Given(l, names, level) = gv
    BY <1>0, <2>3
  <2>5. /\ m.loggers = l.loggers /\ m.sinks = l.sinks /\ m.next = id
        /\ m = [loggers |-> m.loggers, sinks |-> m.sinks, next |-> m.next]
    BY <2>1
  <2> HIDE DEF m
  <2>6. SinksInv(m, gv)
    BY <1>0, <2>5 DEF SinksInv
  <2> QED BY <2>4, <2>6 DEF m
<1>2. CASE id \notin DOMAIN l.sinks
  <2> DEFINE k == Len(gv) + 1
             gw == Append(gv, e)
  <2>1. m = [loggers |-> WithSink(l.loggers, names, id), sinks |-> Extend(l.sinks, id, level), next |-> id]
    <3> DEFINE named == [l EXCEPT !.next = id]
    <3>1. named = [loggers |-> l.loggers, sinks |-> l.sinks, next |-> id]
      BY <1>0
    <3>2. m = [named EXCEPT !.sinks = Extend(@, id, level), !.loggers = WithSink(@, names, id)]
      BY <1>2, Zenon DEF Registered
    <3>3. named.sinks = l.sinks /\ named.loggers = l.loggers
      BY <3>1
    <3> HIDE DEF m, id, named
    <3>4. m = [named EXCEPT !.sinks = Extend(l.sinks, id, level), !.loggers = WithSink(l.loggers, names, id)]
      BY <3>2, <3>3
    <3> QED BY <3>1, <3>4, LoggerFields
  <2>2. /\ m.next = id /\ m.sinks = Extend(l.sinks, id, level)
        /\ m.loggers = [n \in DOMAIN l.loggers |->
                          IF n \in names THEN [l.loggers[n] EXCEPT !.sinks = @ \cup {id}] ELSE l.loggers[n]]
        /\ m = [loggers |-> m.loggers, sinks |-> m.sinks, next |-> m.next]
    BY <2>1 DEF WithSink
  <2>3. Given(l, names, level) = <<e>>
    BY <1>2, <2>2 DEF Given
  <2>4. e \in Entries
    <3>1. names \cap DOMAIN l.loggers \in SUBSET LogNames
      OBVIOUS
    <3> QED BY <1>0, <3>1 DEF Entries
  <2>5. /\ gv \o <<e>> = gw /\ gw \in Seq(Entries) /\ k \in Nat /\ k \notin DOMAIN gv
        /\ DOMAIN gw = DOMAIN gv \cup {k} /\ gw[k] = e
        /\ \A i \in DOMAIN gv : gw[i] = gv[i]
    BY <1>0, <2>4
  <2>6. e.id = id /\ e.level = level /\ e.logs = names \cap DOMAIN l.loggers
    OBVIOUS
  <2> HIDE DEF m, gw, k, e
  <2>7. /\ DOMAIN m.sinks = DOMAIN l.sinks \cup {id} /\ m.sinks[id] = level
        /\ \A z \in DOMAIN l.sinks : m.sinks[z] = l.sinks[z]
    BY <1>2, <2>2 DEF Extend
  <2>8. /\ DOMAIN l.sinks = {gv[i].id : i \in DOMAIN gv}
        /\ \A i \in DOMAIN gv : gv[i].id \in DOMAIN l.sinks /\ gv[i].id # id
    BY <1>2 DEF SinksInv
  <2>9. \A i, j \in DOMAIN gw : gw[i].id = gw[j].id => i = j
    <3>1. \A i, j \in DOMAIN gv : gv[i].id = gv[j].id => i = j
      BY DEF SinksInv
    <3> QED BY <2>5, <2>6, <2>8, <3>1
  <2>10. DOMAIN m.sinks = {gw[i].id : i \in DOMAIN gw}
    BY <2>5, <2>6, <2>7, <2>8
  <2>11. DOMAIN m.loggers = DOMAIN l.loggers
    BY <2>2
  <2>12. \A i \in DOMAIN gw : m.sinks[gw[i].id] = gw[i].level /\ gw[i].logs \subseteq DOMAIN m.loggers
    <3>1. \A i \in DOMAIN gv : l.sinks[gv[i].id] = gv[i].level /\ gv[i].logs \subseteq DOMAIN l.loggers
      BY DEF SinksInv
    <3> QED BY <2>5, <2>6, <2>7, <2>8, <2>11, <3>1
  <2>13. ASSUME NEW n \in DOMAIN m.loggers
         PROVE  /\ m.loggers[n] \in [level : Int, sinks : SUBSET Int]
                /\ m.loggers[n].sinks = {gw[i].id : i \in {j \in DOMAIN gw : n \in gw[j].logs}}
    <3> DEFINE r == l.loggers[n]
    <3>1. /\ n \in DOMAIN l.loggers /\ r \in [level : Int, sinks : SUBSET Int]
          /\ r.sinks = {gv[i].id : i \in {j \in DOMAIN gv : n \in gv[j].logs}}
      BY <2>11 DEF SinksInv
    <3>2. m.loggers[n] = IF n \in names THEN [r EXCEPT !.sinks = @ \cup {id}] ELSE r
      BY <2>2, <3>1
    <3>3. m.loggers[n] \in [level : Int, sinks : SUBSET Int]
          /\ m.loggers[n].sinks = IF n \in names THEN r.sinks \cup {id} ELSE r.sinks
      <4>1. PICK a \in Int, b \in SUBSET Int : r = [level |-> a, sinks |-> b]
        <5>1. r = [level |-> r.level, sinks |-> r.sinks] /\ r.level \in Int /\ r.sinks \in SUBSET Int
          BY <3>1
        <5> HIDE DEF r
        <5> QED BY <5>1
      <4>2. [r EXCEPT !.sinks = @ \cup {id}] = [level |-> a, sinks |-> b \cup {id}]
        <5> HIDE DEF r, id
        <5> QED BY <4>1
      <4>3. r.sinks = b /\ b \cup {id} \in SUBSET Int
        BY <1>0, <4>1
      <4> HIDE DEF r, id
      <4> QED BY <3>2, <4>1, <4>2, <4>3
    <3>4. n \in e.logs <=> n \in names
      BY <2>6, <3>1
    <3> HIDE DEF r
    <3> QED BY <2>5, <2>6, <3>1, <3>3, <3>4
  <2>14. m.loggers \in [DOMAIN m.loggers -> [level : Int, sinks : SUBSET Int]]
    BY <2>2, <2>13
  <2>15. m.next \in Int /\ DOMAIN m.loggers \subseteq LogNames
    BY <1>0, <2>2, <2>11 DEF SinksInv
  <2>16. SinksInv(m, gw)
    BY <2>2, <2>5, <2>9, <2>10, <2>12, <2>13, <2>14, <2>15 DEF SinksInv
  <2> QED BY <2>3, <2>5, <2>16 DEF m
<1> QED BY <1>1, <1>2

\* A message reaches what was registered with its logger and wants its level.
LEMMA ReachedIs ==
  ASSUME NEW l, NEW gv, SinksInv(l, gv), NEW name \in DOMAIN l.loggers, NEW level \in Int,
         level >= l.loggers[name].level
  PROVE  Reached(l, name, level) = {g.id : g \in {h \in ToSet(gv) : name \in h.logs /\ h.level <= level}}
<1>1. l.loggers[name].level \in Int /\ l.loggers[name].sinks = {gv[i].id : i \in {j \in DOMAIN gv : name \in gv[j].logs}}
  BY DEF SinksInv
<1>2. Reached(l, name, level) = {id \in l.loggers[name].sinks : l.sinks[id] <= level}
  BY <1>1 DEF Reached
<1>3. \A i \in DOMAIN gv : l.sinks[gv[i].id] = gv[i].level
  BY DEF SinksInv
<1>4. ToSet(gv) = {gv[i] : i \in DOMAIN gv}
  BY DEF ToSet
<1>5. ASSUME NEW x
      PROVE  x \in Reached(l, name, level)
               <=> \E i \in DOMAIN gv : x = gv[i].id /\ name \in gv[i].logs /\ gv[i].level <= level
  BY <1>1, <1>2, <1>3
<1>6. ASSUME NEW x
      PROVE  x \in {g.id : g \in {h \in ToSet(gv) : name \in h.logs /\ h.level <= level}}
               <=> \E i \in DOMAIN gv : x = gv[i].id /\ name \in gv[i].logs /\ gv[i].level <= level
  BY <1>4
<1> QED BY <1>5, <1>6

\* The invariant of a logger that was made again
LEMMA NewLoggerInv == SinksInv(NoLogger, <<>>)
<1>1. /\ NoLogger.loggers = <<>> /\ NoLogger.sinks = <<>> /\ NoLogger.next = 0
      /\ NoLogger = [loggers |-> NoLogger.loggers, sinks |-> NoLogger.sinks, next |-> NoLogger.next]
  BY DEF NoLogger
<1>2. DOMAIN <<>> = {} /\ <<>> \in Seq(Entries)
  OBVIOUS
<1>3. NoLogger.loggers \in [DOMAIN NoLogger.loggers -> [level : Int, sinks : SUBSET Int]]
  BY <1>1
<1> HIDE DEF NoLogger
<1> QED BY <1>1, <1>2, <1>3 DEF SinksInv

LEMMA LevelsAreNumbers == Trace \in Int /\ Info \in Int /\ Off \in Int /\ Core \in LogNames /\ {Core} \in SUBSET LogNames
BY DEF Trace, Info, Off, LogNames

LEMMA InitStep ==
  ASSUME LogInv, init_tensor
  PROVE  LogInv'
<1> DEFINE l0 == Instance(logger)
           l1 == Created(l0, Core, Trace)
           l2 == Registered(l1, {Core}, Info)
           l3 == Registered(l2, {Core}, Trace)
           g2 == given \o Given(l1, {Core}, Info)
           g3 == g2 \o Given(l2, {Core}, Trace)
<1>1. logger' = l3 /\ given' = g3 /\ sent' = [to |-> Core, level |-> Info, sinks |-> Reached(l3, Core, Info)]
  BY DEF init_tensor, initialize_logger
<1>2. SinksInv(l1, given)
  BY InstanceKeeps, CreatedKeeps, LevelsAreNumbers DEF LogInv
<1> HIDE DEF l1
<1>3. SinksInv(l2, g2)
  BY <1>2, RegisteredKeeps, LevelsAreNumbers
<1> HIDE DEF l2, g2
<1>4. SinksInv(l3, g3)
  BY <1>3, RegisteredKeeps, LevelsAreNumbers
<1> HIDE DEF l3, g3
<1>5. SinksInv(logger, given)'
  BY <1>1, <1>4 DEF SinksInv
<1>6. SentInv'
  <2>1. sent'.to = Core /\ sent'.level = Info /\ sent'.sinks = Reached(l3, Core, Info)
    BY <1>1
  <2>2. Core \in DOMAIN l3.loggers /\ Info >= l3.loggers[Core].level =>
          Reached(l3, Core, Info) = {g.id : g \in {h \in ToSet(g3) : Core \in h.logs /\ h.level <= Info}}
    BY <1>4, ReachedIs, LevelsAreNumbers
  <2> QED BY <1>1, <2>1, <2>2 DEF SentInv
<1> QED BY <1>5, <1>6 DEF LogInv

\* Whatever clears the record of the last message has nothing to show of it.
LEMMA NothingSentHolds ==
  ASSUME sent' = NothingSent, SinksInv(logger', given')
  PROVE  LogInv'
BY DEF LogInv, SentInv, SinksInv

LEMMA SendStep ==
  ASSUME LogInv, NEW level \in {Trace, Info}, NEW name \in LogNames, send_log(level, name)
  PROVE  LogInv'
<1> DEFINE l == Instance(logger)
<1>1. /\ logger' = l /\ given' = given
      /\ sent' = [to |-> name, level |-> level, sinks |-> Reached(l, name, level)]
  BY DEF send_log
<1>2. SinksInv(l, given) /\ level \in Int
  BY InstanceKeeps, LevelsAreNumbers DEF LogInv
<1> HIDE DEF l
<1>3. SinksInv(logger, given)'
  BY <1>1, <1>2 DEF SinksInv
<1>4. name \in DOMAIN l.loggers /\ level >= l.loggers[name].level =>
        Reached(l, name, level) = {g.id : g \in {h \in ToSet(given) : name \in h.logs /\ h.level <= level}}
  BY <1>2, ReachedIs
<1>5. sent'.to = name /\ sent'.level = level /\ sent'.sinks = Reached(l, name, level)
  BY <1>1
<1>6. SentInv'
  BY <1>1, <1>4, <1>5 DEF SentInv
<1> QED BY <1>3, <1>6 DEF LogInv

LEMMA LogStep == LogInv /\ LoggerNext => LogInv'
<1> SUFFICES ASSUME LogInv, LoggerNext PROVE LogInv'
  OBVIOUS
<1>1. SinksInv(logger, given) /\ SinksInv(Instance(logger), given)
  BY InstanceKeeps DEF LogInv
<1>2. CASE init_tensor
  BY <1>2, InitStep
<1>3. CASE shutdown_tensor
  <2>1. sent' = NothingSent /\ \/ logger' = NoLogger /\ given' = <<>>
                               \/ logger' = Instance(logger) /\ given' = given
    BY <1>3 DEF shutdown_tensor, shutdown_logger
  <2> QED BY <1>1, <2>1, NewLoggerInv, NothingSentHolds
<1>4. CASE register_fails
  BY <1>1, <1>4, NothingSentHolds DEF register_fails
<1>5. ASSUME NEW level \in {Trace, Info}, NEW name \in Names, create_logger(name, level) PROVE LogInv'
  <2>1. name \in LogNames /\ level \in Int
    BY LevelsAreNumbers DEF LogNames
  <2>2. logger' = Created(Instance(logger), name, level) /\ given' = given /\ sent' = NothingSent
    BY <1>5 DEF create_logger
  <2> QED BY <1>1, <2>1, <2>2, CreatedKeeps, NothingSentHolds
<1>6. ASSUME NEW level \in {Trace, Off}, NEW names \in {{Core}, Names, Names \cup {Core}},
             register_sink(names, level)
      PROVE  LogInv'
  <2>1. names \in SUBSET LogNames /\ level \in Int
    BY LevelsAreNumbers DEF LogNames
  <2>2. /\ logger' = Registered(Instance(logger), names, level) /\ sent' = NothingSent
        /\ given' = given \o Given(Instance(logger), names, level)
    BY <1>6 DEF register_sink
  <2> QED BY <1>1, <2>1, <2>2, RegisteredKeeps, NothingSentHolds
<1>7. ASSUME NEW level \in {Trace, Info}, NEW name \in Names \cup {Core}, send_log(level, name) PROVE LogInv'
  BY <1>7, SendStep DEF LogNames
<1>8. ASSUME NEW level \in {Trace, Info}, NEW id \in {0, 2}, send_to_sink(level, id) PROVE LogInv'
  <2>1. logger' = Instance(logger) /\ given' = given /\ sent'.to = ""
    BY <1>8 DEF send_to_sink
  <2>2. "" \notin DOMAIN Instance(logger).loggers
    BY <1>1, LoggerAssumption DEF SinksInv, LogNames, Core
  <2>3. SinksInv(logger, given)'
    <3>1. SinksInv(logger', given')
      BY <1>1, <2>1
    <3> QED BY <3>1 DEF SinksInv
  <2>4. SentInv'
    BY <2>1, <2>2 DEF SentInv
  <2> QED BY <2>3, <2>4 DEF LogInv
<1> QED BY <1>2, <1>3, <1>4, <1>5, <1>6, <1>7, <1>8 DEF LoggerNext

\* However often the ids begin again, one that was returned names the sink it was returned for, and
\* a message to a logger reaches the sinks that were registered with it and want its level, and
\* no other: whatever the last id is and however many loggers there are.
THEOREM MessagesReachTheirSinks == Spec => []MessageReachesItsSinks
<1>1. Init => LogInv
  <2> SUFFICES ASSUME LoggerInit PROVE LogInv
    BY DEF Init
  <2> QED BY NewLoggerInv DEF LoggerInit, LogInv, SentInv
<1>2. LogInv /\ [Next]_vars => LogInv'
  <2> SUFFICES ASSUME LogInv, [Next]_vars PROVE LogInv'
    OBVIOUS
  <2>1. LoggerNext \/ UNCHANGED logVars
    BY DEF Next, vars
  <2>2. CASE UNCHANGED logVars
    BY <2>2 DEF LogInv, SentInv, SinksInv, logVars
  <2> QED BY <2>1, <2>2, LogStep
<1>3. LogInv => MessageReachesItsSinks
  BY DEF LogInv, SinksInv, SentInv, MessageReachesItsSinks
<1> QED BY <1>1, <1>2, <1>3, PTL DEF Spec
=============================================================================
