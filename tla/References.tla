------------------------------ MODULE References ------------------------------
(***************************************************************************)
(* Counted references and the pointers that own one object.  The threads of *)
(* a program have references of their own, to objects they may share.  The  *)
(* count is atomic; the release of a reference is not: it decrements the    *)
(* count, then reads it, then destroys the object.                          *)
(***************************************************************************)
EXTENDS Integers, FiniteSets, FiniteSetsExt

CONSTANTS Objects,     (* the objects make_ref() and make_owning_ptr() make *)
          Threads,
          Slots,       (* the references of each thread *)
          BaseSlots,   (* those of them that are references to the base class *)
          MaxSteps     (* bound: operations of one behaviour *)

NoObject == "nullptr"
Idle == "idle"

ASSUME ReferencesAssumption ==
  /\ BaseSlots \subseteq Slots /\ MaxSteps \in Nat
  /\ IsFiniteSet(Threads) /\ IsFiniteSet(Slots)
  /\ NoObject \notin Objects /\ "dead" \notin Objects

Derived == 2           \* the size of an object
Base == 1              \* the size of its base class

\* A reference holds an object, nullptr, or is not alive.
VARIABLES ref,         (* the references of each thread *)
          count,       (* active_refs of each object *)
          references,  (* the registry of living references *)
          made,        (* history: the objects that were allocated *)
          freed,       (* history: how often each was freed *)
          living,      (* living_memory() of the arena, without its pages *)
          releasing,   (* where each thread is in the release of a reference *)
          owner,       (* an owning pointer: its object and the size of its static type *)
          lost,        (* history: the counts of references that were assigned over *)
          raced,       (* history: the objects two threads were releasing at once *)
          misfreed,    (* history: bytes of derived objects that were not given back *)
          aborted,     (* an assertion of dec_ref() failed *)
          steps        (* history: how many operations were begun *)

refVars == <<ref, count, references, made, freed, living, releasing, owner, lost, raced, misfreed,
             aborted, steps>>

ReferencesInit ==
  /\ ref = [t \in Threads |-> [s \in Slots |-> "dead"]]
  /\ count = [o \in Objects |-> 0] /\ lost = count /\ freed = count
  /\ references = {} /\ made = {} /\ raced = {} /\ living = 0 /\ misfreed = 0
  /\ releasing = [t \in Threads |-> [at |-> Idle]]
  /\ owner = [object |-> NoObject, size |-> Derived]
  /\ aborted = FALSE /\ steps = 0

-----------------------------------------------------------------------------
Idles(t) == ~aborted /\ releasing[t].at = Idle /\ steps < MaxSteps /\ steps' = steps + 1
Holds(r) == r \in Objects
Dead(t, s) == ref[t][s] = "dead"
Alive(t, s) == ref[t][s] # "dead"
SizeOf(s) == IF s \in BaseSlots THEN Base ELSE Derived
Put(t, s, r) == ref' = [ref EXCEPT ![t][s] = r]

register_reference(o) == references \cup {o}
remove_reference(o) == references \ {o}
is_valid_ref(o) == o \in references

\* inc_ref() of a reference to o
IncRef(o) ==
  /\ count' = IF Holds(o) THEN [count EXCEPT ![o] = @ + 1] ELSE count
  /\ references' = IF Holds(o) THEN register_reference(o) ELSE references

\* arena_allocator::allocate() of a new object
allocate(o) == made' = made \cup {o} /\ living' = living + Derived

\* arena_allocator::free() by the allocator of a class of this size
free(o, size) ==
  /\ freed' = [freed EXCEPT ![o] = @ + 1]
  /\ living' = living - size /\ misfreed' = misfreed + Derived - size

notCounted == <<made, freed, living, releasing, owner, raced, misfreed, aborted>>

\* make_ref()
Make(t, s) ==
  /\ Idles(t) /\ Dead(t, s) /\ s \notin BaseSlots
  /\ \E o \in Objects \ made :
       /\ allocate(o)
       /\ Put(t, s, o) /\ IncRef(o)
  /\ UNCHANGED <<freed, releasing, owner, lost, raced, misfreed, aborted>>

\* The copy constructors, also that of a reference to a base class, and clone(); a thread copies
\* the reference of another one while that one keeps it.
CopyFrom(t, s, u, v) ==
  /\ Idles(t) /\ Dead(t, s) /\ Alive(u, v) /\ releasing[u].at = Idle
  /\ Put(t, s, ref[u][v]) /\ IncRef(ref[u][v])
  /\ UNCHANGED <<notCounted, lost>>

\* The move constructors: what was moved from is null.
MoveFrom(t, s, v) ==
  /\ Idles(t) /\ Dead(t, s) /\ Alive(t, v)
  /\ ref' = [ref EXCEPT ![t] = [@ EXCEPT ![s] = ref[t][v], ![v] = NoObject]]
  /\ UNCHANGED <<count, references, lost, notCounted>>

\* The count of what the target held is not taken back.
Overwritten(r) == lost' = IF Holds(r) THEN [lost EXCEPT ![r] = @ + 1] ELSE lost

\* Fault: the new reference is not counted.
CopyAssignUncounted(t, s, v) ==
  /\ Idles(t) /\ Alive(t, s) /\ Alive(t, v) /\ s # v /\ SizeOf(s) = SizeOf(v)
  /\ Put(t, s, ref[t][v])
  /\ Overwritten(ref[t][s])
  /\ UNCHANGED <<count, references, notCounted>>

\* operator= of a reference of the same type
CopyAssign(t, s, v) ==
  /\ Idles(t) /\ Alive(t, s) /\ Alive(t, v) /\ s # v /\ SizeOf(s) = SizeOf(v)
  /\ Put(t, s, ref[t][v]) /\ IncRef(ref[t][v])
  /\ Overwritten(ref[t][s])
  /\ UNCHANGED notCounted

\* The move assignments
MoveAssign(t, s, v) ==
  /\ Idles(t) /\ Alive(t, s) /\ Alive(t, v) /\ s # v /\ SizeOf(s) <= SizeOf(v)
  /\ ref' = [ref EXCEPT ![t] = [@ EXCEPT ![s] = ref[t][v], ![v] = NoObject]]
  /\ Overwritten(ref[t][s])
  /\ UNCHANGED <<count, references, notCounted>>

-----------------------------------------------------------------------------
(* dec_ref(): of the destructor, of operator=(nullptr), and of the assignment of a reference to *)
(* a derived class, which counts the new object first.                                          *)

\* What the reference is in the end
Begin(t, s, then) ==
  releasing' = [releasing EXCEPT ![t] = IF Holds(ref[t][s])
                                        THEN [at |-> "decrement", slot |-> s, then |-> then]
                                        ELSE [at |-> Idle]]
Now(t, s, then) == ref' = IF Holds(ref[t][s]) THEN ref ELSE [ref EXCEPT ![t][s] = then]

Destroy(t, s) ==
  /\ Idles(t) /\ Alive(t, s) /\ Begin(t, s, "dead") /\ Now(t, s, "dead")
  /\ UNCHANGED <<count, references, made, freed, living, owner, lost, raced, misfreed, aborted>>

Reset(t, s) ==
  /\ Idles(t) /\ Alive(t, s) /\ Begin(t, s, NoObject) /\ Now(t, s, NoObject)
  /\ UNCHANGED <<count, references, made, freed, living, owner, lost, raced, misfreed, aborted>>

AssignDerived(t, s, v) ==
  /\ Idles(t) /\ Alive(t, s) /\ Alive(t, v) /\ SizeOf(s) < SizeOf(v)
  /\ IncRef(ref[t][v]) /\ Begin(t, s, ref[t][v]) /\ Now(t, s, ref[t][v])
  /\ UNCHANGED <<made, freed, living, owner, lost, raced, misfreed, aborted>>

Object(t) == ref[t][releasing[t].slot]
Releases(t, step) == ~aborted /\ releasing[t].at = step
Go(t, step) == releasing' = [releasing EXCEPT ![t].at = step]
Done(t) ==
  /\ releasing' = [releasing EXCEPT ![t] = [at |-> Idle]]
  /\ Put(t, releasing[t].slot, releasing[t].then)

\* Another thread has decremented the count of this object and has not read it yet.
InRelease(o, t) ==
  \E u \in Threads \ {t} : releasing[u].at \in {"read", "free"} /\ Object(u) = o

Decrement(t) ==
  /\ Releases(t, "decrement") /\ Go(t, "read")
  /\ count' = [count EXCEPT ![Object(t)] = @ - 1]
  /\ raced' = IF InRelease(Object(t), t) THEN raced \cup {Object(t)} ELSE raced
  /\ UNCHANGED <<ref, references, made, freed, living, owner, lost, misfreed, aborted, steps>>

\* The count is read, from an object that another thread may have destroyed; then the registry.
ReadCount(t) ==
  /\ Releases(t, "read")
  /\ IF count[Object(t)] # 0 THEN Done(t) /\ UNCHANGED aborted
     ELSE IF is_valid_ref(Object(t)) THEN Go(t, "free") /\ UNCHANGED <<ref, aborted>>
     ELSE aborted' = TRUE /\ UNCHANGED <<ref, releasing>>
  /\ UNCHANGED <<count, references, made, freed, living, owner, lost, raced, misfreed, steps>>

Free(t) ==
  /\ Releases(t, "free") /\ Done(t)
  /\ references' = remove_reference(Object(t))
  /\ free(Object(t), SizeOf(releasing[t].slot))
  /\ UNCHANGED <<count, made, owner, lost, raced, aborted, steps>>

-----------------------------------------------------------------------------
(* A buffer has one reference, to its storage. *)

\* resize(): the new storage is assigned by move.
Resize(t, s) ==
  /\ Idles(t) /\ Alive(t, s) /\ s \notin BaseSlots
  /\ \E o \in Objects \ made :
       /\ allocate(o)
       /\ Put(t, s, o) /\ IncRef(o)
  /\ Overwritten(ref[t][s])
  /\ UNCHANGED <<freed, releasing, owner, raced, misfreed, aborted>>

\* The move constructor copies the reference and resets the old one.
MoveBuffer(t, s, v) ==
  /\ Idles(t) /\ Dead(t, s) /\ Alive(t, v) /\ SizeOf(s) = SizeOf(v)
  /\ Put(t, s, ref[t][v]) /\ IncRef(ref[t][v]) /\ Begin(t, v, NoObject)
  /\ UNCHANGED <<made, freed, living, owner, lost, raced, misfreed, aborted>>

\* The move assignment only resets the other one.
MoveAssignBuffer(t, s, v) == Alive(t, s) /\ s # v /\ SizeOf(s) = SizeOf(v) /\ Reset(t, v)

-----------------------------------------------------------------------------
(* owning_ptr, with the allocator of its static type *)

notOwned == <<ref, count, references, releasing, lost, raced, aborted>>

MakeOwner(t) ==
  /\ Idles(t) /\ owner.object = NoObject
  /\ \E o \in Objects \ made :
       /\ owner' = [object |-> o, size |-> Derived]
       /\ allocate(o)
  /\ UNCHANGED <<freed, misfreed, notOwned>>

\* The deleter of the derived class becomes that of the base class.
ToBase(t) ==
  /\ Idles(t) /\ owner.object # NoObject /\ owner' = [owner EXCEPT !.size = Base]
  /\ UNCHANGED <<made, freed, living, misfreed, notOwned>>

\* Fault: the pointer still holds what it deleted.
DeleteOwnedKeeps(t) ==
  /\ Idles(t) /\ owner.object # NoObject /\ owner' = owner
  /\ free(owner.object, owner.size)
  /\ UNCHANGED <<made, notOwned>>

DeleteOwned(t) ==
  /\ Idles(t) /\ owner.object # NoObject
  /\ owner' = [object |-> NoObject, size |-> Derived]
  /\ free(owner.object, owner.size)
  /\ UNCHANGED <<made, notOwned>>

ReferencesNext ==
  \/ \E t \in Threads :
       \/ Decrement(t) \/ ReadCount(t) \/ Free(t)
       \/ MakeOwner(t) \/ ToBase(t) \/ DeleteOwned(t)
       \/ \E s \in Slots :
            \/ Make(t, s) \/ Destroy(t, s) \/ Reset(t, s) \/ Resize(t, s)
            \/ \E u \in Threads, v \in Slots : CopyFrom(t, s, u, v)
            \/ \E v \in Slots :
                 \/ MoveFrom(t, s, v) \/ CopyAssign(t, s, v) \/ MoveAssign(t, s, v)
                 \/ AssignDerived(t, s, v) \/ MoveBuffer(t, s, v) \/ MoveAssignBuffer(t, s, v)

-----------------------------------------------------------------------------
(* Properties *)

\* The references that count for o: those that hold it, but for one whose release has begun to
\* count it off, and the new value of one that is being assigned.
CountedOff(t, s) == releasing[t].at \in {"read", "free"} /\ releasing[t].slot = s
Holding(o) == {h \in Threads \X Slots : ref[h[1]][h[2]] = o /\ ~CountedOff(h[1], h[2])}
Coming(o) == {t \in Threads : releasing[t].at # Idle /\ releasing[t].then = o}
Counted(o) == Cardinality(Holding(o)) + Cardinality(Coming(o))

\* Whatever is assigned, moved and released by whichever thread: an object a reference holds is
\* not destroyed, and its count is the number of references to it and of those assigned over,
\* whose object is never destroyed.
HeldIsAlive ==
  \A o \in Objects :
    /\ count[o] = Counted(o) + lost[o]
    /\ Counted(o) + lost[o] > 0 => freed[o] = 0 /\ o \in references

\* ... it is destroyed at most once, unless two threads were releasing it at the same time; and
\* the arena counts what is not destroyed, and the rest of what was deleted as its base class.
DestroyedOnce ==
  /\ \A o \in Objects \ raced : freed[o] <= 1
  /\ raced = {} =>
       living = Derived * Cardinality({o \in made : freed[o] = 0}) + misfreed
=============================================================================
