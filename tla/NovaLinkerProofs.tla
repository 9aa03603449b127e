-------------------------- MODULE NovaLinkerProofs --------------------------
(***************************************************************************)
(* Proofs about NovaLinker, for every set of files whatever they need,       *)
(* export and import, every search path, every order of opening and closing  *)
(* and any number of objects and handles.                                   *)
(***************************************************************************)
EXTENDS NovaLinker, SequenceTheorems, WellFoundedInduction, TLAPS

\* TypeOK with sets that do not depend on the state.
AnySlot == {None, Zero, Host} \cup {Addr(x) : x \in Nat}
Obj == [file : Files, refcount : Nat, linked : BOOLEAN, done : BOOLEAN,
        lazy : BOOLEAN, deps : SUBSET Nat, slots : [Syms -> AnySlot]]
Callers == {"user", "needed", "lazy"}
Frame == [so : Nat, caller : Callers, next : Nat \ {0}]
LinkTypes ==
  /\ disk \in [Files -> FileRecords] /\ libPath \in LibPaths
  /\ index \in [Syms -> {None} \cup {File(f) : f \in Files}] /\ built \in BOOLEAN
  /\ so \in Seq(Obj) /\ Len(so) <= MaxMaps
  /\ \A x \in Objects : so[x].deps \subseteq Objects
  /\ \A x \in Objects, s \in Syms : so[x].slots[s] \in SlotValues
  /\ stack \in Seq(Frame) /\ \A i \in DOMAIN stack : stack[i].so \in Objects
  /\ handles \in [1..MaxMaps -> Nat]
  /\ opened \in {"none", "handle", "null"} /\ error \in BOOLEAN

\* Something besides the handles of the program counts on x: a relocation opened
\* it, an object needs it, or the bionic_dlopen of the program that mapped it has
\* not returned yet.
Needed(x) == \E y \in Objects : x \in so[y].deps
Opening(x) == \E i \in DOMAIN stack : stack[i].so = x /\ stack[i].caller = "user"

\* Each handle is counted, the one about to be returned too, and one reference
\* more where a relocation or an object counts on x; what is counted is listed.
One(b) == IF b THEN 1 ELSE 0
Counted ==
  /\ \A x \in Objects : so[x].linked <=> so[x].refcount > 0
  /\ \A x \in Objects :
       so[x].refcount >= handles[x] + One(Opening(x)) + One(so[x].lazy \/ Needed(x))
  /\ \A x \in 1..MaxMaps : x \notin Objects => handles[x] = 0

\* The index names a file for a symbol only if the file defines it.
IndexTrue == \A s \in Syms, f \in Files : index[s] = File(f) => s \in disk[f].exports

\* The calls on the stack: the program made the outermost, the others were made
\* by load_needed or by resolve_symbol at the work item their caller is at.
Needs(i) == disk[so[stack[i].so].file].needed
Matches(y, n) == BaseName[so[y].file] \in {n, Clean[n]}
FrameFits(i) ==
  /\ stack[i].next <= Len(WorkOf(stack[i])) + 1
  /\ stack[i].caller = "user" <=> i = 1
  /\ stack[i].caller = "needed" =>
       /\ stack[i - 1].next - 1 \in DOMAIN Needs(i - 1)
       /\ stack[i].so \in so[stack[i - 1].so].deps
       /\ Matches(stack[i].so, Needs(i - 1)[stack[i - 1].next - 1])
  /\ stack[i].caller = "lazy" =>
       /\ stack[i - 1].next > Len(Needs(i - 1))
       /\ stack[i - 1].next <= Len(WorkOf(stack[i - 1]))
StackShape == \A i \in DOMAIN stack : FrameFits(i)

\* Nothing is left half loaded.
DoneOrLoading == \A x \in Objects : so[x].done \/ \E i \in DOMAIN stack : stack[i].so = x

\* A need that has been gone through, and whose load is not the call above, has
\* given an object that is loaded or further out.
Past(i, k) ==
  /\ k \in DOMAIN Needs(i) /\ k < stack[i].next
  /\ ~(i < Len(stack) /\ stack[i + 1].caller = "needed" /\ k = stack[i].next - 1)
NeedMet(i, k) ==
  Loadable(FindNeeded(Needs(i)[k])) =>
    \E y \in so[stack[i].so].deps :
      Matches(y, Needs(i)[k]) /\ (so[y].done \/ \E j \in 1..i : stack[j].so = y)
NeedsMet == \A i \in DOMAIN stack, k \in Nat : Past(i, k) => NeedMet(i, k)

LinkerInv ==
  /\ LinkTypes /\ Counted /\ IndexTrue /\ StackShape /\ DoneOrLoading
  /\ FilesMappedOnce /\ NeedsMet

-----------------------------------------------------------------------------
(* Lemmas about the operators.                                              *)

\* The least of a set of file numbers is one of them.
LEMMA FirstIsMember ==
  ASSUME NEW S \in SUBSET Nat, S # {}
  PROVE  First(S) \in S /\ \A y \in S : First(S) <= y
<1> DEFINE R == OpToRel(<, Nat)
<1>1. PICK x \in S : \A y \in S : <<y, x>> \notin R
  BY NatLessThanWellFounded, WFMin
<1>2. \A y \in S : x <= y
  <2> TAKE y \in S
  <2>1. <<y, x>> \notin R  BY <1>1
  <2>2. ~(y < x)  BY <2>1 DEF OpToRel
  <2> QED  BY <2>2
<1> QED  BY <1>2 DEF First

\* The greatest of a set of objects is one of them.
LEMMA NewestIsMember ==
  ASSUME NEW n \in Nat, NEW S \in SUBSET (1..n), S # {}
  PROVE  Newest(S) \in S
<1> DEFINE T == {k \in 0..n : n - k \in S}
<1>1. PICK x \in S : TRUE  OBVIOUS
<1>2. n - x \in T  BY <1>1
<1>3. First(T) \in T /\ \A k \in T : First(T) <= k
  <2>1. T \in SUBSET Nat  OBVIOUS
  <2> QED  BY <1>2, <2>1, FirstIsMember
<1> DEFINE y == n - First(T)
<1>4. y \in S /\ \A z \in S : z <= y
  <2>1. y \in S  BY <1>3
  <2>2. ASSUME NEW z \in S PROVE z <= y
    <3>1. n - z \in T  OBVIOUS
    <3>2. First(T) <= n - z /\ First(T) \in 0..n  BY <1>3, <3>1
    <3> QED  BY <3>2
  <2> QED  BY <2>1, <2>2
<1> HIDE DEF y
<1> QED  BY <1>4 DEF Newest

\* What is left to do for a file: its needs, then the symbols it imports.
LEMMA WorkFacts ==
  ASSUME LinkTypes, NEW f \in Files
  PROVE  /\ disk[f].needed \in Seq(Names)
         /\ Len(Work(f)) \in Nat /\ Len(disk[f].needed) <= Len(Work(f))
         /\ \A i \in 1..Len(disk[f].needed) : Work(f)[i] = [op |-> "need", arg |-> disk[f].needed[i]]
         /\ \A i \in (Len(disk[f].needed) + 1)..Len(Work(f)) :
               Work(f)[i].op = "rela" /\ Work(f)[i].arg \in Syms
<1> DEFINE d == disk[f]
           A == Applied(f)
           N == [i \in 1..Len(d.needed) |-> [op |-> "need", arg |-> d.needed[i]]]
           M == [i \in 1..Len(A) |-> [op |-> "rela", arg |-> A[i]]]
<1>1. d \in FileRecords  BY DEF LinkTypes
<1>2. d.needed \in Seq(Names) /\ d.dyn \in Seq(Syms) /\ d.plt \in Seq(Syms)  BY <1>1 DEF FileRecords
<1>3. A \in Seq(Syms)  BY <1>2 DEF Applied
<1>4. Work(f) = N \o M  BY DEF Work
<1> HIDE DEF A
<1>5. N \in Seq([op : {"need"}, arg : Names])  BY <1>2
<1>6. M \in Seq([op : {"rela"}, arg : Syms])  BY <1>3
<1> QED  BY SMTT(30), <1>2, <1>3, <1>4, <1>5, <1>6

\* What the search path finds has the name asked for, or its unversioned part.
LEMMA FoundInPath ==
  ASSUME LinkTypes, NEW n \in Names, FindInPath(n) # None
  PROVE  \E f \in Files : FindInPath(n) = File(f) /\ f \in InPath(n)
<1>1. InPath(n) \in SUBSET Nat  BY LinkerAssumption DEF InPath, LinkTypes
<1>2. InPath(n) # {}  BY DEF FindInPath
<1>3. First(InPath(n)) \in InPath(n)  BY <1>1, <1>2, FirstIsMember
<1> QED  BY <1>2, <1>3, LinkerAssumption DEF FindInPath, InPath, LinkTypes

LEMMA FoundNeeded ==
  ASSUME LinkTypes, NEW n \in Names, FindNeeded(n) # None
  PROVE  \E f \in Files :
           /\ FindNeeded(n) = File(f)
           /\ BaseName[f] = n \/ (n # Clean[n] /\ BaseName[f] = Clean[n])
<1>1. Clean[n] \in Names  BY LinkerAssumption
<1>2. CASE InPath(n) # {}
  BY <1>2, FoundInPath DEF FindNeeded, InPath
<1>3. CASE InPath(n) = {}
  <2>1. PICK f \in Files : FindInPath(Clean[n]) = File(f) /\ f \in InPath(Clean[n])
    BY <1>1, <1>3, FoundInPath DEF FindNeeded
  <2> QED  BY <1>3, <2>1 DEF FindNeeded, InPath
<1> QED  BY <1>2, <1>3

\* The index build_sym_index builds names a file that defines the symbol.
LEMMA BuiltIndexTrue ==
  ASSUME LinkTypes
  PROVE  /\ BuiltIndex \in [Syms -> {None} \cup {File(f) : f \in Files}]
         /\ \A s \in Syms, f \in Files : BuiltIndex[s] = File(f) => s \in disk[f].exports
<1>1. ASSUME NEW s \in Syms, Indexable(s) # {}
      PROVE  First(Indexable(s)) \in Indexable(s)
  BY <1>1, FirstIsMember, LinkerAssumption DEF Indexable, LinkTypes
<1>2. \A s \in Syms : Indexable(s) \subseteq Files  BY LinkerAssumption DEF Indexable, LinkTypes
<1>3. \A s \in Syms : BuiltIndex[s] \in {None} \cup {File(f) : f \in Files}
  BY <1>1, <1>2 DEF BuiltIndex
<1>4. ASSUME NEW s \in Syms, NEW f \in Files, BuiltIndex[s] = File(f)
      PROVE  s \in disk[f].exports
  <2>1. Indexable(s) # {} /\ First(Indexable(s)) = f  BY <1>4 DEF BuiltIndex, None, File
  <2> QED  BY <1>1, <2>1 DEF Indexable
<1> QED  BY <1>3, <1>4 DEF BuiltIndex

\* sym_lookup gives an object of the list or nothing.
LEMMA SearchFacts ==
  ASSUME LinkTypes, NEW s \in Syms
  PROVE  Search(s) \in SlotValues
<1>1. Exporters(s) \in SUBSET (1..Len(so))  BY DEF Exporters, Linked, Objects, LinkTypes
<1>2. Exporters(s) # {} => Newest(Exporters(s)) \in Exporters(s)
  BY <1>1, NewestIsMember, LenProperties DEF LinkTypes
<1> QED  BY <1>2 DEF Search, SlotValues, Exporters, Linked

\* A new object and its call, on top of the objects and calls it is given.
LEMMA MapFacts ==
  ASSUME LinkTypes, NEW f \in Files, NEW caller \in Callers,
         NEW objs \in Seq(Obj), Len(objs) = Len(so), NEW st \in Seq(Frame),
         Map(f, caller, objs, st)
  PROVE  LET n == Len(so) + 1 IN
         /\ so' \in Seq(Obj) /\ Len(so') = n /\ n <= MaxMaps
         /\ \A x \in 1..Len(so) : so'[x] = objs[x]
         /\ so'[n].file = f /\ so'[n].refcount = 1 /\ so'[n].linked /\ ~so'[n].done
         /\ so'[n].lazy <=> caller = "lazy"
         /\ so'[n].deps = {} /\ so'[n].slots = [s \in Syms |-> None]
         /\ stack' \in Seq(Frame) /\ Len(stack') = Len(st) + 1
         /\ \A i \in 1..Len(st) : stack'[i] = st[i]
         /\ stack'[Len(st) + 1] = [so |-> n, caller |-> caller, next |-> 1]
<1> DEFINE lazy == caller = "lazy"
           new == [NewObject(f) EXCEPT !.lazy = lazy]
           call == [so |-> Len(objs) + 1, caller |-> caller, next |-> 1]
<1>1. lazy \in BOOLEAN /\ (lazy <=> caller = "lazy")  OBVIOUS
<1>2. so' = Append(objs, new) /\ stack' = Append(st, call) /\ Len(objs) < MaxMaps
  BY DEF Map
<1> HIDE DEF lazy
<1>3. NewObject(f) \in Obj
  <2>1. [s \in Syms |-> None] \in [Syms -> AnySlot]  BY DEF AnySlot
  <2> QED  BY <2>1 DEF NewObject, Obj
<1>4. /\ new \in Obj /\ new.file = f /\ new.refcount = 1 /\ new.linked /\ ~new.done /\ new.lazy = lazy
      /\ new.deps = {} /\ new.slots = [s \in Syms |-> None]
  <2>1. new \in Obj  BY <1>1, <1>3 DEF Obj
  <2>2. new.lazy = lazy  BY <1>3 DEF Obj
  <2>3. \A r \in {"file", "refcount", "linked", "done", "deps", "slots"} : new[r] = NewObject(f)[r]
    BY <1>3 DEF Obj
  <2> QED  BY <2>1, <2>2, <2>3 DEF NewObject
<1>5. call \in Frame  BY DEF Frame, LinkTypes
<1> HIDE DEF new
<1>6. Len(so) \in Nat /\ Len(so) < MaxMaps  BY <1>2 DEF LinkTypes
<1>7. Len(so) + 1 <= MaxMaps  BY <1>6, LinkerAssumption
<1>8. /\ Append(objs, new) \in Seq(Obj) /\ Len(Append(objs, new)) = Len(so) + 1
      /\ \A x \in 1..Len(so) : Append(objs, new)[x] = objs[x]
      /\ Append(objs, new)[Len(so) + 1] = new
  BY <1>4, AppendProperties
<1>9. /\ Append(st, call) \in Seq(Frame) /\ Len(Append(st, call)) = Len(st) + 1
      /\ \A i \in 1..Len(st) : Append(st, call)[i] = st[i]
      /\ Append(st, call)[Len(st) + 1] = call
  BY <1>5, AppendProperties
<1> QED  BY <1>1, <1>2, <1>4, <1>7, <1>8, <1>9

LEMMA AdvanceFacts ==
  ASSUME NEW st \in Seq(Frame), st # <<>>
  PROVE  LET n == Len(st) IN
         /\ n \in Nat \ {0} /\ st[n] \in Frame
         /\ Advance(st) \in Seq(Frame) /\ Len(Advance(st)) = n
         /\ \A i \in 1..(n - 1) : Advance(st)[i] = st[i]
         /\ Advance(st)[n].so = st[n].so /\ Advance(st)[n].caller = st[n].caller
         /\ Advance(st)[n].next = st[n].next + 1
<1> DEFINE n == Len(st)
           top == [st[n] EXCEPT !.next = @ + 1]
<1>1. n \in Nat \ {0} /\ st[n] \in Frame  OBVIOUS
<1>2. top \in Frame /\ top.so = st[n].so /\ top.caller = st[n].caller /\ top.next = st[n].next + 1
  BY SMTT(30), <1>1 DEF Frame
<1>3. Advance(st) = [st EXCEPT ![n] = top]  BY DEF Advance
<1> HIDE DEF top
<1> QED  BY <1>1, <1>2, <1>3, ExceptSeq

-----------------------------------------------------------------------------
(* What the updates of an object change.                                    *)

LEMMA UpdateFacts ==
  ASSUME NEW t \in Seq(Obj), NEW x \in 1..Len(t), NEW r \in Obj
  PROVE  /\ [t EXCEPT ![x] = r] \in Seq(Obj) /\ Len([t EXCEPT ![x] = r]) = Len(t)
         /\ [t EXCEPT ![x] = r][x] = r
         /\ \A y \in 1..Len(t) : y # x => [t EXCEPT ![x] = r][y] = t[y]
BY ExceptSeq


LEMMA RefFacts ==
  ASSUME NEW t \in Seq(Obj), NEW x \in 1..Len(t), NEW v \in Nat
  PROVE  LET u == [t EXCEPT ![x].refcount = v] IN
         /\ u \in Seq(Obj) /\ Len(u) = Len(t) /\ \A y \in 1..Len(t) : y # x => u[y] = t[y]
         /\ u[x].refcount = v
         /\ u[x].file = t[x].file /\ u[x].linked = t[x].linked /\ u[x].done = t[x].done
         /\ u[x].lazy = t[x].lazy /\ u[x].deps = t[x].deps /\ u[x].slots = t[x].slots
<1> DEFINE r == [t[x] EXCEPT !.refcount = v]
<1>1. t[x] \in Obj  OBVIOUS
<1>2. /\ r \in Obj /\ r.refcount = v
      /\ r.file = t[x].file /\ r.linked = t[x].linked /\ r.done = t[x].done
      /\ r.lazy = t[x].lazy /\ r.deps = t[x].deps /\ r.slots = t[x].slots
  BY <1>1 DEF Obj
<1>3. [t EXCEPT ![x].refcount = v] = [t EXCEPT ![x] = r]  OBVIOUS
<1> HIDE DEF r
<1>4. /\ [t EXCEPT ![x] = r] \in Seq(Obj) /\ Len([t EXCEPT ![x] = r]) = Len(t)
      /\ [t EXCEPT ![x] = r][x] = r
      /\ \A y \in 1..Len(t) : y # x => [t EXCEPT ![x] = r][y] = t[y]
  BY <1>2, UpdateFacts
<1> QED  BY <1>2, <1>3, <1>4

WithDeps(t, x, v) == [t EXCEPT ![x].deps = v]
LEMMA DepsFacts ==
  ASSUME NEW t \in Seq(Obj), NEW x \in 1..Len(t), NEW v \in SUBSET Nat
  PROVE  LET u == WithDeps(t, x, v) IN
         /\ u \in Seq(Obj) /\ Len(u) = Len(t) /\ \A y \in 1..Len(t) : y # x => u[y] = t[y]
         /\ u[x].deps = v
         /\ u[x].file = t[x].file /\ u[x].refcount = t[x].refcount /\ u[x].linked = t[x].linked
         /\ u[x].done = t[x].done /\ u[x].lazy = t[x].lazy /\ u[x].slots = t[x].slots
<1> DEFINE r == [t[x] EXCEPT !.deps = v]
<1>1. t[x] \in Obj  OBVIOUS
<1>2. /\ r \in Obj /\ r.deps = v
      /\ r.file = t[x].file /\ r.refcount = t[x].refcount /\ r.linked = t[x].linked
      /\ r.done = t[x].done /\ r.lazy = t[x].lazy /\ r.slots = t[x].slots
  BY <1>1 DEF Obj
<1>3. WithDeps(t, x, v) = [t EXCEPT ![x] = r]  BY DEF WithDeps
<1> HIDE DEF r
<1>4. /\ [t EXCEPT ![x] = r] \in Seq(Obj) /\ Len([t EXCEPT ![x] = r]) = Len(t)
      /\ [t EXCEPT ![x] = r][x] = r
      /\ \A y \in 1..Len(t) : y # x => [t EXCEPT ![x] = r][y] = t[y]
  BY <1>2, UpdateFacts
<1> QED  BY <1>2, <1>3, <1>4

LEMMA DoneFacts ==
  ASSUME NEW t \in Seq(Obj), NEW x \in 1..Len(t)
  PROVE  LET u == [t EXCEPT ![x].done = TRUE] IN
         /\ u \in Seq(Obj) /\ Len(u) = Len(t) /\ \A y \in 1..Len(t) : y # x => u[y] = t[y]
         /\ u[x].done
         /\ u[x].file = t[x].file /\ u[x].refcount = t[x].refcount /\ u[x].linked = t[x].linked
         /\ u[x].lazy = t[x].lazy /\ u[x].deps = t[x].deps /\ u[x].slots = t[x].slots
<1> DEFINE r == [t[x] EXCEPT !.done = TRUE]
<1>1. t[x] \in Obj  OBVIOUS
<1>2. /\ r \in Obj /\ r.done
      /\ r.file = t[x].file /\ r.refcount = t[x].refcount /\ r.linked = t[x].linked
      /\ r.lazy = t[x].lazy /\ r.deps = t[x].deps /\ r.slots = t[x].slots
  BY <1>1 DEF Obj
<1>3. [t EXCEPT ![x].done = TRUE] = [t EXCEPT ![x] = r]  OBVIOUS
<1> HIDE DEF r
<1>4. /\ [t EXCEPT ![x] = r] \in Seq(Obj) /\ Len([t EXCEPT ![x] = r]) = Len(t)
      /\ [t EXCEPT ![x] = r][x] = r
      /\ \A y \in 1..Len(t) : y # x => [t EXCEPT ![x] = r][y] = t[y]
  BY <1>2, UpdateFacts
<1> QED  BY <1>2, <1>3, <1>4

LEMMA LinkedFacts ==
  ASSUME NEW t \in Seq(Obj), NEW x \in 1..Len(t), NEW v \in BOOLEAN
  PROVE  LET u == [t EXCEPT ![x].linked = v] IN
         /\ u \in Seq(Obj) /\ Len(u) = Len(t) /\ \A y \in 1..Len(t) : y # x => u[y] = t[y]
         /\ (u[x].linked <=> v)
         /\ u[x].file = t[x].file /\ u[x].refcount = t[x].refcount /\ u[x].done = t[x].done
         /\ u[x].lazy = t[x].lazy /\ u[x].deps = t[x].deps /\ u[x].slots = t[x].slots
<1> DEFINE r == [t[x] EXCEPT !.linked = v]
<1>1. t[x] \in Obj  OBVIOUS
<1>2. /\ r \in Obj /\ (r.linked <=> v)
      /\ r.file = t[x].file /\ r.refcount = t[x].refcount /\ r.done = t[x].done
      /\ r.lazy = t[x].lazy /\ r.deps = t[x].deps /\ r.slots = t[x].slots
  BY <1>1 DEF Obj
<1>3. [t EXCEPT ![x].linked = v] = [t EXCEPT ![x] = r]  OBVIOUS
<1> HIDE DEF r
<1>4. /\ [t EXCEPT ![x] = r] \in Seq(Obj) /\ Len([t EXCEPT ![x] = r]) = Len(t)
      /\ [t EXCEPT ![x] = r][x] = r
      /\ \A y \in 1..Len(t) : y # x => [t EXCEPT ![x] = r][y] = t[y]
  BY <1>2, UpdateFacts
<1> QED  BY <1>2, <1>3, <1>4

LEMMA BindFacts ==
  ASSUME NEW t \in Seq(Obj), NEW x \in 1..Len(t), NEW s \in Syms, NEW v \in AnySlot
  PROVE  LET u == Bind(t, x, s, v) IN
         /\ u \in Seq(Obj) /\ Len(u) = Len(t) /\ \A y \in 1..Len(t) : y # x => u[y] = t[y]
         /\ u[x].file = t[x].file /\ u[x].refcount = t[x].refcount /\ u[x].linked = t[x].linked
         /\ u[x].done = t[x].done /\ u[x].lazy = t[x].lazy /\ u[x].deps = t[x].deps
         /\ \A z \in Syms : u[x].slots[z] \in {v, t[x].slots[z]}
<1> DEFINE w == [t[x].slots EXCEPT ![s] = v]
           r == [t[x] EXCEPT !.slots = w]
<1>1. t[x] \in Obj  OBVIOUS
<1>2. t[x].slots \in [Syms -> AnySlot]  BY <1>1 DEF Obj
<1>3. w \in [Syms -> AnySlot] /\ \A z \in Syms : w[z] \in {v, t[x].slots[z]}  BY <1>2
<1>4. Bind(t, x, s, v) = [t EXCEPT ![x] = r]  BY DEF Bind
<1> HIDE DEF w
<1>5. /\ r \in Obj /\ r.slots = w
      /\ r.file = t[x].file /\ r.refcount = t[x].refcount /\ r.linked = t[x].linked
      /\ r.done = t[x].done /\ r.lazy = t[x].lazy /\ r.deps = t[x].deps
  BY <1>1, <1>3 DEF Obj
<1> HIDE DEF r
<1> QED  BY <1>3, <1>4, <1>5, UpdateFacts

LEMMA ObjectFields ==
  ASSUME LinkTypes
  PROVE  /\ so \in Seq(Obj) /\ Objects = 1..Len(so) /\ Len(so) \in Nat
         /\ \A z \in Objects : /\ so[z] \in Obj /\ so[z].refcount \in Nat /\ so[z].file \in Files
                               /\ so[z].deps \subseteq Objects
<1>1. so \in Seq(Obj) /\ Objects = 1..Len(so)  BY DEF LinkTypes, Objects
<1>2. \A z \in Objects : so[z] \in Obj  BY <1>1
<1>3. \A z \in Objects : so[z].refcount \in Nat /\ so[z].file \in Files  BY <1>2 DEF Obj
<1> QED  BY <1>1, <1>2, <1>3 DEF LinkTypes

\* What each update of the objects leaves in every object.
LEMMA AddRefFacts ==
  ASSUME LinkTypes, NEW y \in Objects
  PROVE  LET u == AddRef(y) IN
         /\ u \in Seq(Obj) /\ Len(u) = Len(so)
         /\ \A z \in Objects :
              /\ u[z].file = so[z].file /\ u[z].linked = so[z].linked /\ u[z].done = so[z].done
              /\ u[z].lazy = so[z].lazy /\ u[z].deps = so[z].deps /\ u[z].slots = so[z].slots
              /\ u[z].refcount = so[z].refcount + One(z = y)
<1>1. so \in Seq(Obj) /\ y \in 1..Len(so) /\ Objects = 1..Len(so)  BY DEF LinkTypes, Objects
<1>2. so[y] \in Obj  BY <1>1
<1>3. so[y].refcount \in Nat /\ so[y].refcount + 1 \in Nat  BY <1>2 DEF Obj
<1>4. AddRef(y) = [so EXCEPT ![y].refcount = so[y].refcount + 1]  BY DEF AddRef
<1> DEFINE u == AddRef(y)
<1>5. /\ u \in Seq(Obj) /\ Len(u) = Len(so) /\ \A z \in 1..Len(so) : z # y => u[z] = so[z]
      /\ u[y].refcount = so[y].refcount + 1
      /\ u[y].file = so[y].file /\ u[y].linked = so[y].linked /\ u[y].done = so[y].done
      /\ u[y].lazy = so[y].lazy /\ u[y].deps = so[y].deps /\ u[y].slots = so[y].slots
  BY <1>1, <1>3, <1>4, RefFacts
<1>6. \A z \in Objects : so[z].refcount \in Nat  BY ObjectFields
<1> HIDE DEF u
<1>7. ASSUME NEW z \in Objects
      PROVE  /\ u[z].file = so[z].file /\ u[z].linked = so[z].linked /\ u[z].done = so[z].done
             /\ u[z].lazy = so[z].lazy /\ u[z].deps = so[z].deps /\ u[z].slots = so[z].slots
             /\ u[z].refcount = so[z].refcount + One(z = y)
  BY <1>1, <1>5, <1>6 DEF One
<1> QED  BY <1>5, <1>7 DEF u

LEMMA DependFacts ==
  ASSUME LinkTypes, NEW x \in Objects, NEW y \in Objects
  PROVE  LET u == Depend(x, y) IN
         /\ u \in Seq(Obj) /\ Len(u) = Len(so)
         /\ \A z \in Objects :
              /\ u[z].file = so[z].file /\ u[z].linked = so[z].linked /\ u[z].done = so[z].done
              /\ u[z].lazy = so[z].lazy /\ u[z].slots = so[z].slots
              /\ u[z].refcount = so[z].refcount + One(z = y)
              /\ u[z].deps = so[z].deps \cup (IF z = x THEN {y} ELSE {})
<1> DEFINE a == AddRef(y)
           d == a[x].deps \cup {y}
           u == Depend(x, y)
<1>1. so \in Seq(Obj) /\ y \in Nat /\ x \in 1..Len(so) /\ Objects = 1..Len(so)
  BY DEF LinkTypes, Objects
<1>2. /\ a \in Seq(Obj) /\ Len(a) = Len(so)
      /\ \A z \in Objects :
           /\ a[z].file = so[z].file /\ a[z].linked = so[z].linked /\ a[z].done = so[z].done
           /\ a[z].lazy = so[z].lazy /\ a[z].deps = so[z].deps /\ a[z].slots = so[z].slots
           /\ a[z].refcount = so[z].refcount + One(z = y)
  BY AddRefFacts
<1>3. u = WithDeps(a, x, d)  BY DEF Depend, WithDeps
<1> HIDE DEF a
<1>4. a[x] \in Obj  BY <1>1, <1>2
<1>5. d \in SUBSET Nat /\ d = a[x].deps \cup {y}  BY <1>1, <1>4 DEF Obj
<1> HIDE DEF d
<1>6. /\ u \in Seq(Obj) /\ Len(u) = Len(a) /\ \A z \in 1..Len(a) : z # x => u[z] = a[z]
      /\ u[x].deps = d
      /\ u[x].file = a[x].file /\ u[x].refcount = a[x].refcount /\ u[x].linked = a[x].linked
      /\ u[x].done = a[x].done /\ u[x].lazy = a[x].lazy /\ u[x].slots = a[x].slots
  <2>1. a \in Seq(Obj) /\ x \in 1..Len(a)  BY <1>1, <1>2
  <2> HIDE DEF u
  <2> QED  BY SMTT(30), <2>1, <1>3, <1>5, DepsFacts
<1> HIDE DEF u
<1>7. ASSUME NEW z \in Objects
      PROVE  /\ u[z].file = so[z].file /\ u[z].linked = so[z].linked /\ u[z].done = so[z].done
             /\ u[z].lazy = so[z].lazy /\ u[z].slots = so[z].slots
             /\ u[z].refcount = so[z].refcount + One(z = y)
             /\ u[z].deps = so[z].deps \cup (IF z = x THEN {y} ELSE {})
  <2>1. CASE z = x  BY <2>1, <1>1, <1>2, <1>5, <1>6
  <2>2. CASE z # x  BY <2>2, <1>1, <1>2, <1>6
  <2> QED  BY <2>1, <2>2
<1> QED  BY <1>2, <1>6, <1>7 DEF u

LEMMA ReleasedFacts ==
  ASSUME LinkTypes, NEW y \in Objects, so[y].refcount > 0
  PROVE  LET u == Released(y) IN
         /\ u \in Seq(Obj) /\ Len(u) = Len(so)
         /\ \A z \in Objects :
              /\ u[z].file = so[z].file /\ u[z].done = so[z].done /\ u[z].lazy = so[z].lazy
              /\ u[z].deps = so[z].deps /\ u[z].slots = so[z].slots
              /\ u[z].refcount = so[z].refcount - One(z = y)
              /\ u[z].linked <=> so[z].linked /\ (z = y => so[y].refcount # 1)
<1> DEFINE k == so[y].refcount - 1
           b == so[y].linked /\ ~(so[y].refcount = 1)
           a == [so EXCEPT ![y].refcount = k]
           u == [a EXCEPT ![y].linked = b]
<1>1. so \in Seq(Obj) /\ y \in 1..Len(so) /\ Objects = 1..Len(so)  BY DEF LinkTypes, Objects
<1>2. so[y] \in Obj /\ \A z \in Objects : so[z].refcount \in Nat  BY ObjectFields
<1>3. k \in Nat /\ k = so[y].refcount - 1  BY <1>2 DEF Obj
<1>4. b \in BOOLEAN /\ (b <=> so[y].linked /\ so[y].refcount # 1)  OBVIOUS
<1>5. Released(y) = [so EXCEPT ![y].refcount = k, ![y].linked = so[y].linked /\ ~(so[y].refcount = 1)]
  BY DEF Released
<1>6. Released(y) = u
  <2>1. so[y].linked = a[y].linked
    BY <1>1, <1>3, RefFacts
  <2> QED  BY <1>5, <2>1
<1> HIDE DEF k, b
<1>7. /\ a \in Seq(Obj) /\ Len(a) = Len(so) /\ \A z \in 1..Len(so) : z # y => a[z] = so[z]
      /\ a[y].refcount = k
      /\ a[y].file = so[y].file /\ a[y].linked = so[y].linked /\ a[y].done = so[y].done
      /\ a[y].lazy = so[y].lazy /\ a[y].deps = so[y].deps /\ a[y].slots = so[y].slots
  BY <1>1, <1>3, RefFacts
<1> HIDE DEF a
<1>8. /\ u \in Seq(Obj) /\ Len(u) = Len(a) /\ \A z \in 1..Len(a) : z # y => u[z] = a[z]
      /\ (u[y].linked <=> b)
      /\ u[y].file = a[y].file /\ u[y].refcount = a[y].refcount /\ u[y].done = a[y].done
      /\ u[y].lazy = a[y].lazy /\ u[y].deps = a[y].deps /\ u[y].slots = a[y].slots
  BY <1>1, <1>4, <1>7, LinkedFacts
<1> HIDE DEF u
<1>9. ASSUME NEW z \in Objects
      PROVE  /\ u[z].file = so[z].file /\ u[z].done = so[z].done /\ u[z].lazy = so[z].lazy
             /\ u[z].deps = so[z].deps /\ u[z].slots = so[z].slots
             /\ u[z].refcount = so[z].refcount - One(z = y)
             /\ u[z].linked <=> so[z].linked /\ (z = y => so[y].refcount # 1)
  <2>1. CASE z = y  BY <2>1, <1>1, <1>3, <1>4, <1>7, <1>8 DEF One
  <2>2. CASE z # y  BY <2>2, <1>1, <1>2, <1>7, <1>8 DEF One
  <2> QED  BY <2>1, <2>2
<1> QED  BY <1>6, <1>7, <1>8, <1>9

LEMMA FinishedFacts ==
  ASSUME LinkTypes, NEW y \in Objects
  PROVE  LET u == [so EXCEPT ![y].done = TRUE] IN
         /\ u \in Seq(Obj) /\ Len(u) = Len(so)
         /\ \A z \in Objects :
              /\ u[z].file = so[z].file /\ u[z].linked = so[z].linked /\ u[z].lazy = so[z].lazy
              /\ u[z].deps = so[z].deps /\ u[z].slots = so[z].slots
              /\ u[z].refcount = so[z].refcount
              /\ u[z].done <=> so[z].done \/ z = y
<1> DEFINE u == [so EXCEPT ![y].done = TRUE]
<1>1. so \in Seq(Obj) /\ y \in 1..Len(so) /\ Objects = 1..Len(so)  BY DEF LinkTypes, Objects
<1>2. /\ u \in Seq(Obj) /\ Len(u) = Len(so) /\ \A z \in 1..Len(so) : z # y => u[z] = so[z]
      /\ u[y].done
      /\ u[y].file = so[y].file /\ u[y].linked = so[y].linked /\ u[y].refcount = so[y].refcount
      /\ u[y].lazy = so[y].lazy /\ u[y].deps = so[y].deps /\ u[y].slots = so[y].slots
  BY <1>1, DoneFacts
<1> HIDE DEF u
<1>3. ASSUME NEW z \in Objects
      PROVE  /\ u[z].file = so[z].file /\ u[z].linked = so[z].linked /\ u[z].lazy = so[z].lazy
             /\ u[z].deps = so[z].deps /\ u[z].slots = so[z].slots
             /\ u[z].refcount = so[z].refcount
             /\ u[z].done <=> so[z].done \/ z = y
  <2>1. CASE z = y  BY <2>1, <1>1, <1>2
  <2>2. CASE z # y  BY <2>2, <1>1, <1>2
  <2> QED  BY <2>1, <2>2
<1> QED  BY <1>2, <1>3 DEF u

-----------------------------------------------------------------------------
(* What a step leaves of the objects, of the calls and of the files.        *)

Grown ==
  /\ Len(so') >= Len(so)
  /\ \A x \in Objects :
       /\ so'[x].file = so[x].file /\ so[x].deps \subseteq so'[x].deps
       /\ so[x].done => so'[x].done
SameData == disk' = disk /\ libPath' = libPath

LEMMA DataKept ==
  ASSUME SameData
  PROVE  /\ \A f : Work(f)' = Work(f)
         /\ \A n : FindNeeded(n)' = FindNeeded(n)
         /\ \A path : Loadable(path)' <=> Loadable(path)
         /\ Versioned' = Versioned
BY DEF SameData, Work, Applied, FindNeeded, FindInPath, InPath, Loadable, Versioned

\* The calls up to the m-th are kept; only the m-th may have gone on.
KeepsCalls(m) ==
  /\ m <= Len(stack')
  /\ \A i \in 1..m : /\ stack'[i].so = stack[i].so /\ stack'[i].caller = stack[i].caller
                     /\ stack'[i].next <= Len(WorkOf(stack[i])) + 1
  /\ \A i \in 1..(m - 1) : stack'[i] = stack[i]

LEMMA CallsKept ==
  ASSUME LinkerInv, SameData, Grown, so' \in Seq(Obj), stack' \in Seq(Frame),
         NEW m \in 0..Len(stack), KeepsCalls(m)
  PROVE  /\ \A i \in 1..m : FrameFits(i)'
         /\ \A i \in 1..(m - 1), k \in Nat : Past(i, k)' => NeedMet(i, k)'
         /\ \A i \in 1..m : Needs(i)' = Needs(i)
         /\ \A i \in 1..m, k \in Nat : k \in DOMAIN Needs(i) /\ NeedMet(i, k) => NeedMet(i, k)'
<1>1. /\ so \in Seq(Obj) /\ stack \in Seq(Frame) /\ Objects = 1..Len(so)
      /\ \A i \in DOMAIN stack : stack[i].so \in Objects
      /\ \A x \in Objects : so[x].deps \subseteq Objects
  BY DEF LinkerInv, LinkTypes, Objects
<1>2. m \in Nat /\ m <= Len(stack)  BY <1>1
<1>3. \A i \in 1..m : i \in DOMAIN stack /\ stack[i].so \in Objects /\ WorkOf(stack[i])' = WorkOf(stack[i])
  BY SMTT(30), <1>1, <1>2, DataKept DEF WorkOf, Grown, KeepsCalls
<1>4. \A i \in 1..m : WorkOf(stack[i])' = WorkOf(stack[i]) /\ stack'[i].so = stack[i].so
  BY <1>3 DEF KeepsCalls
<1>5. \A i \in 1..m : Needs(i)' = Needs(i)
  BY <1>3 DEF Needs, Grown, KeepsCalls, SameData
<1>6. \A y \in Objects : \A n : Matches(y, n) => Matches(y, n)'
  BY DEF Matches, Grown
<1>7. ASSUME NEW i \in 1..m PROVE FrameFits(i)'
  <2>1. /\ i \in DOMAIN stack /\ FrameFits(i) /\ stack[i] \in Frame
        /\ stack'[i].so = stack[i].so /\ stack'[i].caller = stack[i].caller
        /\ stack'[i].next <= Len(WorkOf(stack[i])) + 1
        /\ WorkOf(stack[i])' = WorkOf(stack[i])
    BY <1>1, <1>2, <1>3 DEF LinkerInv, StackShape, KeepsCalls
  <2>2. (stack[i].next <= Len(WorkOf(stack[i])) + 1)'  BY <2>1
  <2>3. (stack[i].caller = "user" <=> i = 1)'  BY <2>1 DEF FrameFits
  <2>4. CASE i = 1
    BY <2>1, <2>2, <2>3, <2>4 DEF FrameFits
  <2>5. CASE i # 1
    <3>1. i - 1 \in 1..m /\ i - 1 \in 1..(m - 1) /\ stack'[i - 1] = stack[i - 1]
      BY <2>5, <1>2 DEF KeepsCalls
    <3>2. Needs(i - 1)' = Needs(i - 1) /\ WorkOf(stack[i - 1])' = WorkOf(stack[i - 1])
      BY <3>1, <1>3, <1>5
    <3>3. /\ stack[i - 1].so \in Objects /\ stack[i].so \in Objects
          /\ so[stack[i - 1].so].deps \subseteq so'[stack[i - 1].so].deps
      BY <3>1, <1>3 DEF Grown
    <3>4. ASSUME stack[i].caller = "needed"
          PROVE  /\ stack'[i - 1].next - 1 \in DOMAIN Needs(i - 1)'
                 /\ stack'[i].so \in so'[stack'[i - 1].so].deps
                 /\ Matches(stack[i].so, Needs(i - 1)[stack[i - 1].next - 1])'
      <4>1. /\ stack[i - 1].next - 1 \in DOMAIN Needs(i - 1)
            /\ stack[i].so \in so[stack[i - 1].so].deps
            /\ Matches(stack[i].so, Needs(i - 1)[stack[i - 1].next - 1])
        BY <3>4, <2>1 DEF FrameFits
      <4>2. Matches(stack[i].so, Needs(i - 1)[stack[i - 1].next - 1])'
        BY <4>1, <3>1, <3>2, <3>3, <2>1 DEF Matches, Grown
      <4> QED  BY <4>1, <4>2, <3>1, <3>2, <3>3, <2>1
    <3>5. ASSUME stack[i].caller = "lazy"
          PROVE  /\ stack'[i - 1].next > Len(Needs(i - 1)')
                 /\ stack'[i - 1].next <= Len(WorkOf(stack[i - 1])')
      BY <3>5, <3>1, <3>2, <2>1 DEF FrameFits
    <3> QED  BY <2>1, <2>2, <2>3, <3>4, <3>5 DEF FrameFits
  <2> QED  BY <2>4, <2>5
<1>8. ASSUME NEW i \in 1..m, NEW k \in Nat, k \in DOMAIN Needs(i), NeedMet(i, k)
      PROVE  NeedMet(i, k)'
  <2>1. /\ Needs(i)' = Needs(i) /\ stack'[i].so = stack[i].so /\ stack[i].so \in Objects
        /\ \A j \in 1..i : stack'[j].so = stack[j].so
    BY <1>2, <1>3, <1>5 DEF KeepsCalls
  <2>2. Loadable(FindNeeded(Needs(i)[k]))' <=> Loadable(FindNeeded(Needs(i)[k]))
    BY <2>1, DataKept DEF Loadable, SameData
  <2>3. ASSUME Loadable(FindNeeded(Needs(i)[k]))
        PROVE  (\E y \in so[stack[i].so].deps :
                 Matches(y, Needs(i)[k]) /\ (so[y].done \/ \E j \in 1..i : stack[j].so = y))'
    <3>1. PICK y \in so[stack[i].so].deps :
            Matches(y, Needs(i)[k]) /\ (so[y].done \/ \E j \in 1..i : stack[j].so = y)
      BY <2>3, <1>8 DEF NeedMet
    <3>2. y \in Objects /\ y \in so'[stack'[i].so].deps  BY <3>1, <2>1, <1>1 DEF Grown
    <3>3. Matches(y, Needs(i)[k])'  BY <3>1, <3>2, <2>1 DEF Matches, Grown
    <3>4. so'[y].done \/ \E j \in 1..i : stack'[j].so = y  BY <3>1, <3>2, <2>1 DEF Grown
    <3> QED  BY <3>2, <3>3, <3>4
  <2> QED  BY <2>2, <2>3 DEF NeedMet
<1>9. ASSUME NEW i \in 1..(m - 1), NEW k \in Nat, Past(i, k)' PROVE NeedMet(i, k)'
  <2>1. i \in 1..m /\ i + 1 \in 1..m /\ i \in DOMAIN stack  BY <1>1, <1>2
  <2>2. stack'[i] = stack[i] /\ stack'[i + 1].caller = stack[i + 1].caller /\ Needs(i)' = Needs(i)
    BY <2>1, <1>5 DEF KeepsCalls
  <2>3. i < Len(stack) /\ i < Len(stack')  BY <2>1, <1>1, <1>2 DEF KeepsCalls
  <2>4. Past(i, k)  BY <1>9, <2>2, <2>3 DEF Past
  <2>5. NeedMet(i, k) /\ k \in DOMAIN Needs(i)  BY <2>1, <2>4 DEF LinkerInv, NeedsMet, Past
  <2> QED  BY <2>1, <2>5, <1>8
<1> QED  BY <1>5, <1>7, <1>8, <1>9

\* The call in progress and the item it is at.
LEMMA TopFacts ==
  ASSUME LinkTypes, stack # <<>>
  PROVE  LET n == Len(stack) IN
         /\ n \in Nat \ {0} /\ n \in DOMAIN stack /\ Top = stack[n] /\ Top \in Frame
         /\ Top.so \in Objects /\ so[Top.so].file \in Files
         /\ Needs(n) = disk[so[Top.so].file].needed /\ Needs(n) \in Seq(Names)
         /\ Len(WorkOf(Top)) \in Nat /\ Len(Needs(n)) <= Len(WorkOf(Top))
         /\ Pending("need") =>
              /\ Top.next \in DOMAIN Needs(n) /\ Top.next <= Len(WorkOf(Top))
              /\ Arg = Needs(n)[Top.next] /\ Arg \in Names
         /\ Pending("rela") =>
              /\ Top.next > Len(Needs(n)) /\ Top.next <= Len(WorkOf(Top)) /\ Arg \in Syms
<1> DEFINE n == Len(stack)
           f == so[Top.so].file
<1>1. n \in Nat \ {0} /\ n \in DOMAIN stack /\ Top = stack[n] /\ Top \in Frame  BY DEF LinkTypes, Top
<1>2. Top.so \in Objects  BY <1>1 DEF LinkTypes
<1>3. f \in Files  BY <1>2, ObjectFields
<1>4. Needs(n) = disk[f].needed /\ WorkOf(Top) = Work(f)  BY <1>1 DEF Needs, WorkOf
<1> HIDE DEF f
<1>5. Top.next \in Nat \ {0}  BY <1>1 DEF Frame
<1>6. /\ disk[f].needed \in Seq(Names)
      /\ Len(Work(f)) \in Nat /\ Len(disk[f].needed) <= Len(Work(f))
      /\ \A i \in 1..Len(disk[f].needed) : Work(f)[i] = [op |-> "need", arg |-> disk[f].needed[i]]
      /\ \A i \in (Len(disk[f].needed) + 1)..Len(Work(f)) :
            Work(f)[i].op = "rela" /\ Work(f)[i].arg \in Syms
  BY <1>3, WorkFacts
<1>7. ASSUME Top.next \in 1..Len(disk[f].needed)
      PROVE  WorkOf(Top)[Top.next].op = "need" /\ Arg = disk[f].needed[Top.next] /\ Arg \in Names
  <2>1. Work(f)[Top.next] = [op |-> "need", arg |-> disk[f].needed[Top.next]]  BY <1>6, <1>7
  <2>2. disk[f].needed[Top.next] \in Names  BY <1>6, <1>7
  <2> QED  BY <1>4, <2>1, <2>2 DEF Arg
<1>8. ASSUME Top.next \in (Len(disk[f].needed) + 1)..Len(Work(f))
      PROVE  WorkOf(Top)[Top.next].op = "rela" /\ Arg \in Syms
  BY <1>4, <1>6, <1>8 DEF Arg
<1>9. Len(disk[f].needed) \in Nat /\ DOMAIN disk[f].needed = 1..Len(disk[f].needed)  BY <1>6
<1>10. ASSUME Pending("need")
       PROVE  /\ Top.next \in DOMAIN Needs(n) /\ Top.next <= Len(WorkOf(Top))
              /\ Arg = Needs(n)[Top.next] /\ Arg \in Names
  BY <1>4, <1>5, <1>6, <1>7, <1>8, <1>9, <1>10 DEF Pending
<1>11. ASSUME Pending("rela")
       PROVE  Top.next > Len(Needs(n)) /\ Top.next <= Len(WorkOf(Top)) /\ Arg \in Syms
  BY <1>4, <1>5, <1>6, <1>7, <1>8, <1>9, <1>11 DEF Pending
<1> QED  BY <1>1, <1>2, <1>3, <1>4, <1>6, <1>10, <1>11 DEF f

\* A call that goes on to its next item.
LEMMA CallsAdvanced ==
  ASSUME LinkerInv, SameData, Grown, so' \in Seq(Obj), Len(so') = Len(so),
         stack # <<>>, stack' = Advance(stack), Top.next <= Len(WorkOf(Top)),
         NEW n \in Nat, n = Len(stack), NEW at, at = Top.next,
         at \in DOMAIN Needs(n) => NeedMet(n, at)'
  PROVE  /\ stack' \in Seq(Frame) /\ \A i \in DOMAIN stack' : stack'[i].so \in Objects'
         /\ StackShape' /\ NeedsMet' /\ DoneOrLoading'
         /\ \A x : Opening(x)' <=> Opening(x)
<1>1. LinkTypes /\ stack \in Seq(Frame)  BY DEF LinkerInv, LinkTypes
<1>2. /\ n \in Nat \ {0} /\ n \in DOMAIN stack /\ Top = stack[n] /\ DOMAIN stack = 1..n
      /\ stack' \in Seq(Frame) /\ Len(stack') = n /\ DOMAIN stack' = 1..n
      /\ \A i \in 1..(n - 1) : stack'[i] = stack[i]
      /\ stack'[n].so = stack[n].so /\ stack'[n].caller = stack[n].caller
      /\ stack'[n].next = at + 1 /\ at \in Nat \ {0} /\ stack[n].next = at
  <2>1. stack[n] \in Frame => stack[n].next \in Nat \ {0}  BY DEF Frame
  <2>2. n \in Nat \ {0} /\ Top = stack[n]  BY <1>1, TopFacts
  <2> QED  BY <2>1, <2>2, <1>1, AdvanceFacts
<1>3. \A i \in 1..n : stack'[i].so = stack[i].so /\ stack'[i].caller = stack[i].caller
  BY <1>2
<1>4. KeepsCalls(n)
  <2>1. \A i \in 1..n : FrameFits(i)  BY <1>2 DEF LinkerInv, StackShape
  <2>2. \A i \in 1..(n - 1) : stack[i].next <= Len(WorkOf(stack[i])) + 1
    BY <1>2, <2>1 DEF FrameFits
  <2>3. Len(WorkOf(Top)) \in Nat  BY <1>1, TopFacts
  <2>4. stack'[n].next <= Len(WorkOf(stack[n])) + 1  BY <1>2, <2>3
  <2>5. \A i \in 1..n : stack'[i].next <= Len(WorkOf(stack[i])) + 1
    BY <1>2, <2>2, <2>4
  <2> QED  BY <1>2, <1>3, <2>5 DEF KeepsCalls
<1>5. /\ \A i \in 1..n : FrameFits(i)'
      /\ \A i \in 1..(n - 1), k \in Nat : Past(i, k)' => NeedMet(i, k)'
      /\ \A i \in 1..n : Needs(i)' = Needs(i)
      /\ \A i \in 1..n, k \in Nat : k \in DOMAIN Needs(i) /\ NeedMet(i, k) => NeedMet(i, k)'
  BY <1>2, <1>4, CallsKept
<1>6. StackShape'  BY <1>2, <1>5 DEF StackShape
<1>7. ASSUME NEW k \in Nat, Past(n, k)' PROVE NeedMet(n, k)'
  <2>1. k \in DOMAIN Needs(n) /\ k < at + 1  BY <1>2, <1>5, <1>7 DEF Past
  <2>2. CASE k = at
    BY <2>1, <2>2
  <2>3. CASE k < at
    <3>1. Past(n, k)  BY <2>1, <2>3, <1>2 DEF Past
    <3>2. NeedMet(n, k)  BY <3>1, <1>2 DEF LinkerInv, NeedsMet
    <3> QED  BY <3>2, <2>1, <1>2, <1>5
  <2> QED  BY <2>1, <2>2, <2>3, <1>2
<1>8. NeedsMet'
  <2> SUFFICES ASSUME NEW i \in 1..n, NEW k \in Nat, Past(i, k)' PROVE NeedMet(i, k)'
    BY <1>2 DEF NeedsMet
  <2> QED  BY <1>2, <1>5, <1>7
<1>9. Objects' = Objects  BY <1>1 DEF Objects, LinkTypes
<1>10. DoneOrLoading'
  BY <1>2, <1>3, <1>9 DEF LinkerInv, DoneOrLoading, Grown
<1>11. \A x : Opening(x)' <=> Opening(x)
  BY <1>2, <1>3 DEF Opening
<1>12. \A i \in 1..n : stack[i].so \in Objects  BY <1>1, <1>2 DEF LinkTypes
<1> QED  BY <1>2, <1>3, <1>6, <1>8, <1>9, <1>10, <1>11, <1>12

\* A call that maps a file: a new call on top.
LEMMA CallsMapped ==
  ASSUME LinkerInv, SameData, Grown, NEW f \in Files, NEW caller \in Callers,
         NEW objs \in Seq(Obj), Len(objs) = Len(so), NEW st \in Seq(Frame), Len(st) = Len(stack),
         Map(f, caller, objs, st),
         NEW m \in Nat, m = Len(stack), NEW n \in Nat, n = Len(so) + 1,
         KeepsCalls(m), FrameFits(m + 1)',
         m # 0 => \A k \in Nat : Past(m, k)' => Past(m, k)
  PROVE  /\ \A i \in DOMAIN stack' : stack'[i].so \in Objects'
         /\ StackShape' /\ NeedsMet' /\ DoneOrLoading'
         /\ \A x \in Objects : Opening(x)' <=> Opening(x)
         /\ Opening(n)' <=> caller = "user"
<1>1. LinkTypes /\ stack \in Seq(Frame) /\ DOMAIN stack = 1..m  BY DEF LinkerInv, LinkTypes
<1>2. /\ so' \in Seq(Obj) /\ Len(so') = n /\ ~so'[n].done
      /\ stack' \in Seq(Frame) /\ Len(stack') = m + 1 /\ DOMAIN stack' = 1..(m + 1)
      /\ stack'[m + 1] = [so |-> n, caller |-> caller, next |-> 1]
  BY <1>1, MapFacts
<1>3. \A i \in 1..m : stack'[i].so = stack[i].so /\ stack'[i].caller = stack[i].caller
  BY DEF KeepsCalls
<1>4. /\ \A i \in 1..m : FrameFits(i)'
      /\ \A i \in 1..(m - 1), k \in Nat : Past(i, k)' => NeedMet(i, k)'
      /\ \A i \in 1..m : Needs(i)' = Needs(i)
      /\ \A i \in 1..m, k \in Nat : k \in DOMAIN Needs(i) /\ NeedMet(i, k) => NeedMet(i, k)'
  <2>1. m \in 0..Len(stack)  BY <1>1
  <2> QED  BY <2>1, <1>2, CallsKept
<1>5. StackShape'
  <2>1. \A i \in 1..(m + 1) : i \in 1..m \/ i = m + 1  OBVIOUS
  <2> QED  BY <1>2, <1>4, <2>1 DEF StackShape
<1>6. NeedsMet'
  <2> SUFFICES ASSUME NEW i \in 1..(m + 1), NEW k \in Nat, Past(i, k)' PROVE NeedMet(i, k)'
    BY <1>2 DEF NeedsMet
  <2>1. CASE i = m + 1
    <3>1. k < 1 /\ k \in DOMAIN Needs(i)'  BY <2>1, <1>2 DEF Past
    <3>2. Needs(i)' \in Seq(Names)
      <4>1. so'[n].file \in Files  BY <1>1, MapFacts
      <4>2. disk[so'[n].file].needed \in Seq(Names)  BY <4>1, <1>1, WorkFacts
      <4> QED  BY <4>2, <2>1, <1>2 DEF Needs, SameData
    <3> QED  BY <3>1, <3>2
  <2>2. CASE i = m /\ m # 0
    <3>1. i \in DOMAIN stack  BY <2>2, <1>1
    <3>2. Past(i, k)  BY <2>2
    <3>3. NeedMet(i, k) /\ k \in DOMAIN Needs(i)  BY <3>1, <3>2 DEF LinkerInv, NeedsMet, Past
    <3> QED  BY <3>3, <2>2, <1>4
  <2>3. CASE i \in 1..(m - 1)
    BY <2>3, <1>4
  <2> QED  BY <2>1, <2>2, <2>3, <1>1
<1>7. Objects' = Objects \cup {n} /\ n \notin Objects /\ Objects = 1..Len(so)
  BY <1>1, <1>2, ObjectFields DEF Objects
<1>8. DoneOrLoading'
  <2>1. ASSUME NEW x \in Objects PROVE so'[x].done \/ \E i \in 1..(m + 1) : stack'[i].so = x
    BY <1>1, <1>3 DEF LinkerInv, DoneOrLoading, Grown
  <2>2. stack'[m + 1].so = n /\ m + 1 \in 1..(m + 1)  BY <1>1, <1>2
  <2> QED  BY <1>2, <1>7, <2>1, <2>2 DEF DoneOrLoading
<1>9. \A i \in 1..m : stack[i].so \in Objects  BY <1>1 DEF LinkTypes
<1>10. \A i \in 1..(m + 1) : i \in 1..m \/ i = m + 1  OBVIOUS
<1>11. stack'[m + 1].so = n /\ stack'[m + 1].caller = caller /\ m + 1 \in 1..(m + 1)  BY <1>2
<1>12. ASSUME NEW i \in 1..(m + 1) PROVE stack'[i].so \in Objects'
  <2>1. CASE i \in 1..m  BY <2>1, <1>3, <1>7, <1>9
  <2>2. CASE i = m + 1  BY <2>2, <1>7, <1>11
  <2> QED  BY <2>1, <2>2, <1>10
<1>13. ASSUME NEW x \in Objects PROVE Opening(x)' <=> Opening(x)
  <2>1. x # n  BY <1>7
  <2>2. Opening(x)' <=> \E i \in 1..(m + 1) : stack'[i].so = x /\ stack'[i].caller = "user"
    BY <1>2 DEF Opening
  <2>3. Opening(x) <=> \E i \in 1..m : stack[i].so = x /\ stack[i].caller = "user"
    BY <1>1 DEF Opening
  <2>4. \A i \in 1..m : i \in 1..(m + 1)  OBVIOUS
  <2> QED  BY <2>1, <2>2, <2>3, <2>4, <1>3, <1>10, <1>11
<1>14. Opening(n)' <=> caller = "user"
  <2>1. \A i \in 1..m : stack'[i].so # n  BY <1>3, <1>7, <1>9
  <2> QED  BY <1>2, <2>1, <1>10, <1>11 DEF Opening
<1> QED  BY <1>2, <1>5, <1>6, <1>8, <1>12, <1>13, <1>14

\* No file gains an object, or one does that no object was mapped from.
LEMMA OnceKept ==
  ASSUME FilesMappedOnce, SameData, Grown, Objects' = Objects,
         \A x \in Objects : so'[x].refcount > 0 => so[x].refcount > 0
  PROVE  FilesMappedOnce'
<1>1. Mapped' \subseteq Mapped /\ \A x \in Mapped : x \in Objects /\ so'[x].file = so[x].file
  BY DEF Mapped, Grown
<1>2. Versioned' = Versioned /\ disk' = disk  BY DataKept DEF SameData
<1> QED  BY <1>1, <1>2 DEF FilesMappedOnce

LEMMA OnceMapped ==
  ASSUME FilesMappedOnce, SameData, Grown, NEW f, NEW n, Objects' = Objects \cup {n},
         n \notin Objects, so'[n].file = f,
         \A x \in Objects : so'[x].refcount > 0 => so[x].refcount > 0,
         \A x \in Mapped : so[x].file = f =>
            \E p \in Versioned : BaseName[f] = Clean[disk[p[1]].needed[p[2]]]
  PROVE  FilesMappedOnce'
<1>1. /\ \A x \in Mapped' : x # n => x \in Mapped
      /\ \A x \in Mapped : x \in Objects /\ so'[x].file = so[x].file
  BY DEF Mapped, Grown
<1>2. Versioned' = Versioned /\ disk' = disk  BY DataKept DEF SameData
<1>3. ASSUME NEW x \in Mapped', NEW y \in Mapped', so'[x].file = so'[y].file, x # y
      PROVE  \E p \in Versioned : BaseName[so'[x].file] = Clean[disk[p[1]].needed[p[2]]]
  <2>1. CASE x = n  BY <2>1, <1>1, <1>3
  <2>2. CASE y = n  BY <2>2, <1>1, <1>3
  <2>3. CASE x # n /\ y # n  BY <2>3, <1>1, <1>3 DEF FilesMappedOnce
  <2> QED  BY <2>1, <2>2, <2>3
<1> QED  BY <1>2, <1>3 DEF FilesMappedOnce

LEMMA SlotsGrow ==
  ASSUME Objects \subseteq Objects'
  PROVE  SlotValues \subseteq SlotValues'
BY DEF SlotValues

LEMMA SlotsTyped ==
  ASSUME LinkTypes
  PROVE  SlotValues \subseteq AnySlot
BY ObjectFields DEF SlotValues, AnySlot

\* Between calls: what matters is what the objects are and what is counted.
LEMMA IdleKept ==
  ASSUME LinkerInv, stack = <<>>, stack' = stack, disk' = disk, index' = index,
         so' \in Seq(Obj), Len(so') = Len(so),
         \A x \in Objects : so'[x].done <=> so[x].done
  PROVE  StackShape' /\ NeedsMet' /\ DoneOrLoading' /\ IndexTrue'
<1>1. DOMAIN stack = {} /\ DOMAIN stack' = {}  OBVIOUS
<1>2. StackShape' /\ NeedsMet'  BY <1>1 DEF StackShape, NeedsMet
<1>3. Objects' = Objects  BY ObjectFields DEF Objects, LinkerInv
<1>4. DoneOrLoading'  BY <1>1, <1>3 DEF LinkerInv, DoneOrLoading
<1>5. IndexTrue'  BY DEF LinkerInv, IndexTrue
<1> QED  BY <1>2, <1>4, <1>5

-----------------------------------------------------------------------------
(* The steps of the program, between calls.                                 *)

\* A step that touches neither objects, calls nor handles.
LEMMA NothingLoaded ==
  ASSUME LinkerInv, disk' = disk, libPath' = libPath \/ stack = <<>>, libPath' \in LibPaths,
         UNCHANGED <<so, stack, handles>>, index' = index, built' = built,
         opened' \in {"none", "handle", "null"}, error' \in BOOLEAN
  PROVE  LinkerInv'
<1>1. Objects' = Objects /\ SlotValues' = SlotValues /\ Mapped' = Mapped
  BY DEF Objects, SlotValues, Mapped
<1>2. LinkTypes'  BY <1>1 DEF LinkerInv, LinkTypes
<1>3. Counted'  BY <1>1 DEF LinkerInv, Counted, Opening, Needed
<1>4. IndexTrue'  BY DEF LinkerInv, IndexTrue
<1>5. \A f : Work(f)' = Work(f)  BY DEF Work, Applied
<1>6. StackShape'
  BY <1>5 DEF LinkerInv, StackShape, FrameFits, WorkOf, Needs, Matches
<1>7. DoneOrLoading'  BY <1>1 DEF LinkerInv, DoneOrLoading
<1>8. FilesMappedOnce'  BY <1>1 DEF LinkerInv, FilesMappedOnce, Versioned
<1>9. NeedsMet'
  <2>1. CASE stack = <<>>
    <3>1. DOMAIN stack' = {}  BY <2>1
    <3> QED  BY <3>1 DEF NeedsMet
  <2>2. CASE libPath' = libPath
    <3>1. \A i, k : (Past(i, k)' <=> Past(i, k)) /\ (NeedMet(i, k)' <=> NeedMet(i, k))
      BY <2>2 DEF Past, NeedMet, Needs, Matches, Loadable, FindNeeded, FindInPath, InPath
    <3> QED  BY <3>1 DEF LinkerInv, NeedsMet
  <2> QED  BY <2>1, <2>2
<1> QED  BY <1>2, <1>3, <1>4, <1>6, <1>7, <1>8, <1>9 DEF LinkerInv

\* bionic_dlopen of a library that is in the list.
LEMMA OpenedAgain ==
  ASSUME LinkerInv, stack = <<>>, NEW x \in Linked, so' = AddRef(x),
         handles' = [handles EXCEPT ![x] = @ + 1], opened' = "handle",
         UNCHANGED <<stack, error, disk, libPath, index, built>>
  PROVE  LinkerInv'
<1>1. LinkTypes /\ x \in Objects /\ so[x].linked  BY DEF LinkerInv, Linked
<1>2. /\ so' \in Seq(Obj) /\ Len(so') = Len(so)
      /\ \A z \in Objects :
           /\ so'[z].file = so[z].file /\ so'[z].linked = so[z].linked /\ so'[z].done = so[z].done
           /\ so'[z].lazy = so[z].lazy /\ so'[z].deps = so[z].deps /\ so'[z].slots = so[z].slots
           /\ so'[z].refcount = so[z].refcount + One(z = x)
  BY <1>1, AddRefFacts
<1>3. /\ Objects' = Objects /\ Objects = 1..Len(so) /\ Len(so) \in Nat
      /\ \A z \in Objects : so[z].refcount \in Nat
  BY <1>1, <1>2, ObjectFields DEF Objects
<1>4. /\ handles' \in [1..MaxMaps -> Nat] /\ handles \in [1..MaxMaps -> Nat]
      /\ \A z \in 1..MaxMaps : handles'[z] = handles[z] + One(z = x)
  <2>1. handles \in [1..MaxMaps -> Nat] /\ x \in 1..MaxMaps /\ handles[x] + 1 \in Nat
    BY <1>1, <1>3, LinkerAssumption DEF LinkTypes
  <2> QED  BY <2>1 DEF One
<1>5. SlotValues' = SlotValues  BY <1>3 DEF SlotValues
<1>6. LinkTypes'
  BY <1>1, <1>2, <1>3, <1>4, <1>5 DEF LinkTypes
<1>7. so[x].refcount > 0  BY <1>1 DEF LinkerInv, Counted
<1>8. \A z : (Opening(z)' <=> Opening(z)) /\ (Needed(z)' <=> Needed(z))
  BY <1>2, <1>3 DEF Opening, Needed
<1>9. Objects \subseteq 1..MaxMaps  BY <1>1, <1>3, LinkerAssumption DEF LinkTypes
<1>10. Counted'
  <2>1. ASSUME NEW z \in Objects
        PROVE  /\ so'[z].linked <=> so'[z].refcount > 0
               /\ so'[z].refcount >= handles'[z] + One(Opening(z)') + One(so'[z].lazy \/ Needed(z)')
    <3>1. /\ so[z].linked <=> so[z].refcount > 0
          /\ so[z].refcount >= handles[z] + One(Opening(z)) + One(so[z].lazy \/ Needed(z))
      BY DEF LinkerInv, Counted
    <3>2. handles[z] \in Nat /\ z \in 1..MaxMaps  BY <1>4, <1>9
    <3> QED  BY SMTT(30), <3>1, <3>2, <1>2, <1>3, <1>4, <1>7, <1>8 DEF One
  <2>2. \A z \in 1..MaxMaps : z \notin Objects => handles'[z] = 0
    BY <1>1, <1>4, <1>9 DEF LinkerInv, Counted, One
  <2> QED  BY <1>3, <2>1, <2>2 DEF Counted
<1>11. SameData /\ Grown  BY <1>2, <1>3 DEF SameData, Grown
<1>12. FilesMappedOnce'
  <2>1. \A z \in Objects : so'[z].refcount > 0 => so[z].refcount > 0
    BY <1>2, <1>3, <1>7 DEF One
  <2> QED  BY <1>3, <1>11, <2>1, OnceKept DEF LinkerInv
<1> QED  BY <1>2, <1>6, <1>10, <1>12, IdleKept DEF LinkerInv

\* bionic_dlclose.
LEMMA Closed ==
  ASSUME LinkerInv, NEW x \in Objects, Dlclose(x)
  PROVE  LinkerInv'
<1>1. /\ LinkTypes /\ stack = <<>> /\ handles[x] > 0 /\ so' = Released(x)
      /\ handles' = [handles EXCEPT ![x] = @ - 1]
      /\ UNCHANGED <<disk, libPath, index, built, stack, opened, error>>
  BY DEF LinkerInv, Dlclose, Idle
<1>2. /\ Objects = 1..Len(so) /\ Len(so) \in Nat
      /\ \A z \in Objects : so[z].refcount \in Nat
  BY <1>1, ObjectFields
<1>3. Objects \subseteq 1..MaxMaps  BY <1>1, <1>2, LinkerAssumption DEF LinkTypes
<1>4. so[x].refcount > 0
  <2>1. so[x].refcount >= handles[x] + One(Opening(x)) + One(so[x].lazy \/ Needed(x))
    BY DEF LinkerInv, Counted
  <2> QED  BY <2>1, <1>1, <1>2, <1>3 DEF One, LinkTypes
<1>5. /\ so' \in Seq(Obj) /\ Len(so') = Len(so)
      /\ \A z \in Objects :
           /\ so'[z].file = so[z].file /\ so'[z].done = so[z].done /\ so'[z].lazy = so[z].lazy
           /\ so'[z].deps = so[z].deps /\ so'[z].slots = so[z].slots
           /\ so'[z].refcount = so[z].refcount - One(z = x)
           /\ so'[z].linked <=> so[z].linked /\ (z = x => so[x].refcount # 1)
  BY <1>1, <1>4, ReleasedFacts
<1>6. Objects' = Objects  BY <1>2, <1>5 DEF Objects
<1>7. /\ handles' \in [1..MaxMaps -> Nat] /\ handles \in [1..MaxMaps -> Nat]
      /\ \A z \in 1..MaxMaps : handles'[z] = handles[z] - One(z = x)
  <2>1. handles \in [1..MaxMaps -> Nat] /\ x \in 1..MaxMaps /\ handles[x] - 1 \in Nat
    BY <1>1, <1>3 DEF LinkTypes
  <2> QED  BY <1>1, <2>1 DEF One
<1>8. SlotValues' = SlotValues  BY <1>6 DEF SlotValues
<1>9. LinkTypes'
  BY <1>1, <1>5, <1>6, <1>7, <1>8 DEF LinkTypes
<1>10. \A z : (Opening(z)' <=> Opening(z)) /\ (Needed(z)' <=> Needed(z))
  BY <1>1, <1>5, <1>6 DEF Opening, Needed
<1>11. Counted'
  <2>1. ASSUME NEW z \in Objects
        PROVE  /\ so'[z].linked <=> so'[z].refcount > 0
               /\ so'[z].refcount >= handles'[z] + One(Opening(z)') + One(so'[z].lazy \/ Needed(z)')
    <3>1. /\ so[z].linked <=> so[z].refcount > 0
          /\ so[z].refcount >= handles[z] + One(Opening(z)) + One(so[z].lazy \/ Needed(z))
      BY DEF LinkerInv, Counted
    <3>2. handles[z] \in Nat /\ z \in 1..MaxMaps  BY <1>7, <1>3
    <3> QED  BY <3>1, <3>2, <1>2, <1>4, <1>5, <1>7, <1>10 DEF One
  <2>2. \A z \in 1..MaxMaps : z \notin Objects => handles'[z] = 0
    BY <1>7, <1>3 DEF LinkerInv, Counted, One
  <2> QED  BY <1>6, <2>1, <2>2 DEF Counted
<1>12. SameData /\ Grown  BY <1>1, <1>2, <1>5 DEF SameData, Grown
<1>13. FilesMappedOnce'
  <2>1. \A z \in Objects : so'[z].refcount > 0 => so[z].refcount > 0
    BY <1>2, <1>5 DEF One
  <2> QED  BY <1>6, <1>12, <2>1, OnceKept DEF LinkerInv
<1> QED  BY <1>1, <1>5, <1>9, <1>11, <1>13, IdleKept DEF LinkerInv

\* The objects as they are, but for what they need: some may need n too.
DependsOn(objs, n) ==
  \A z \in Objects :
    /\ objs[z].file = so[z].file /\ objs[z].refcount = so[z].refcount
    /\ objs[z].linked = so[z].linked /\ objs[z].done = so[z].done
    /\ objs[z].lazy = so[z].lazy /\ objs[z].slots = so[z].slots
    /\ so[z].deps \subseteq objs[z].deps /\ objs[z].deps \subseteq so[z].deps \cup {n}

\* The object of a file that has just been mapped, after those there were: what
\* mapped it is the one thing that counts on it.
LEMMA ObjectMapped ==
  ASSUME LinkTypes, NEW f \in Files, NEW caller \in Callers,
         NEW objs \in Seq(Obj), Len(objs) = Len(so), NEW st \in Seq(Frame),
         Map(f, caller, objs, st), NEW n \in Nat, n = Len(so) + 1,
         DependsOn(objs, n)
  PROVE  /\ so' \in Seq(Obj) /\ Len(so') <= MaxMaps /\ n \in 1..MaxMaps /\ n \notin Objects
         /\ Objects' = Objects \cup {n} /\ Objects \subseteq 1..MaxMaps
         /\ \A x \in Objects' : so'[x].deps \subseteq Objects'
         /\ \A x \in Objects', s \in Syms : so'[x].slots[s] \in SlotValues'
         /\ \A z \in Objects : so'[z] = objs[z]
         /\ Grown
<1>1. /\ so' \in Seq(Obj) /\ Len(so') = n /\ n <= MaxMaps
      /\ \A x \in 1..Len(so) : so'[x] = objs[x]
      /\ so'[n].deps = {} /\ so'[n].slots = [s \in Syms |-> None]
  <2>1. so' \in Seq(Obj) /\ Len(so') = n /\ n <= MaxMaps  BY MapFacts
  <2>2. \A x \in 1..Len(so) : so'[x] = objs[x]
    <3>1. PICK r : so' = Append(objs, r)  BY DEF Map
    <3> QED  BY <3>1
  <2>3. so'[n].deps = {}  BY MapFacts
  <2>4. so'[n].slots = [s \in Syms |-> None]  BY MapFacts
  <2> QED  BY <2>1, <2>2, <2>3, <2>4
<1>2. Objects = 1..Len(so) /\ Len(so) \in Nat  BY ObjectFields
<1>3. Objects' = Objects \cup {n} /\ n \notin Objects  BY <1>1, <1>2 DEF Objects
<1>4. n \in 1..MaxMaps /\ Objects \subseteq 1..MaxMaps  BY <1>1, <1>2, LinkerAssumption
<1>5. \A x \in Objects : so[x].deps \subseteq Objects /\ \A s \in Syms : so[x].slots[s] \in SlotValues
  BY DEF LinkTypes
<1>6. \A z \in Objects : so'[z] = objs[z]  BY <1>1, <1>2
<1>7. ASSUME NEW x \in Objects' PROVE so'[x].deps \subseteq Objects'
  <2>1. CASE x = n  BY <2>1, <1>1
  <2>2. CASE x # n  BY <2>2, <1>3, <1>5, <1>6 DEF DependsOn
  <2> QED  BY <2>1, <2>2
<1>8. ASSUME NEW x \in Objects', NEW s \in Syms PROVE so'[x].slots[s] \in SlotValues'
  <2>1. CASE x = n  BY <2>1, <1>1 DEF SlotValues
  <2>2. CASE x # n
    <3>1. so'[x].slots[s] \in SlotValues  BY <2>2, <1>3, <1>5, <1>6 DEF DependsOn
    <3> QED  BY <3>1, <1>3, SlotsGrow
  <2> QED  BY <2>1, <2>2
<1>9. Grown  BY <1>1, <1>2, <1>6 DEF Grown, DependsOn
<1> QED  BY <1>1, <1>3, <1>4, <1>6, <1>7, <1>8, <1>9

LEMMA MappedCounted ==
  ASSUME LinkTypes, Counted, UNCHANGED handles, NEW f \in Files, NEW caller \in Callers,
         NEW objs \in Seq(Obj), Len(objs) = Len(so), NEW st \in Seq(Frame),
         Map(f, caller, objs, st), NEW n \in Nat, n = Len(so) + 1,
         DependsOn(objs, n),
         caller = "user" => objs = so,
         \A z \in Objects : Opening(z)' <=> Opening(z), Opening(n)' <=> caller = "user"
  PROVE  Counted'
<1>1. /\ n \in 1..MaxMaps /\ n \notin Objects /\ Objects' = Objects \cup {n}
      /\ Objects \subseteq 1..MaxMaps /\ \A z \in Objects : so'[z] = objs[z]
  BY ObjectMapped
<1>2. /\ so'[n].refcount = 1 /\ so'[n].linked /\ so'[n].deps = {}
      /\ so'[n].lazy <=> caller = "lazy"
  BY MapFacts
<1>3. handles \in [1..MaxMaps -> Nat] /\ handles' = handles /\ handles[n] = 0
  BY <1>1 DEF LinkTypes, Counted
<1>4. \A z \in Objects : so[z].deps \subseteq Objects  BY DEF LinkTypes
<1>5. ASSUME NEW z \in Objects PROVE Needed(z)' <=> Needed(z)
  <2>1. \A y \in Objects : z \in so'[y].deps <=> z \in so[y].deps  BY <1>1 DEF DependsOn
  <2> QED  BY <2>1, <1>1, <1>2 DEF Needed
<1>6. caller = "user" => ~Needed(n)'
  BY <1>1, <1>2, <1>4 DEF Needed
<1>7. ASSUME NEW x \in Objects'
      PROVE  /\ so'[x].linked <=> so'[x].refcount > 0
             /\ so'[x].refcount >= handles'[x] + One(Opening(x)') + One(so'[x].lazy \/ Needed(x)')
  <2>1. CASE x = n  BY <2>1, <1>2, <1>3, <1>6 DEF One
  <2>2. CASE x # n
    <3>1. x \in Objects  BY <2>2, <1>1
    <3>2. /\ so[x].linked <=> so[x].refcount > 0
          /\ so[x].refcount >= handles[x] + One(Opening(x)) + One(so[x].lazy \/ Needed(x))
      BY <3>1 DEF Counted
    <3>3. /\ so'[x].linked <=> so[x].linked
          /\ so'[x].refcount = so[x].refcount
          /\ so'[x].lazy <=> so[x].lazy
      BY <3>1, <1>1 DEF DependsOn
    <3>4. (Opening(x)' <=> Opening(x)) /\ (Needed(x)' <=> Needed(x)) /\ handles'[x] = handles[x]
      BY <3>1, <1>3, <1>5
    <3>5. One(Opening(x)') = One(Opening(x))  BY <3>4 DEF One
    <3>6. One(so'[x].lazy \/ Needed(x)') = One(so[x].lazy \/ Needed(x))  BY <3>3, <3>4 DEF One
    <3> QED  BY <3>2, <3>3, <3>4, <3>5, <3>6
  <2> QED  BY <2>1, <2>2
<1>8. \A x \in 1..MaxMaps : x \notin Objects' => handles'[x] = 0  BY <1>1, <1>3 DEF Counted
<1> QED  BY <1>7, <1>8 DEF Counted

\* bionic_dlopen maps a file.
LEMMA OpenedFacts ==
  ASSUME LinkTypes, NEW f \in Files, NEW n \in Nat, n = Len(so) + 1, Map(f, "user", so, stack)
  PROVE  /\ so' \in Seq(Obj) /\ Len(so') <= MaxMaps /\ n \in 1..MaxMaps /\ n \notin Objects
         /\ Objects' = Objects \cup {n}
         /\ \A x \in Objects' : so'[x].deps \subseteq Objects'
         /\ \A x \in Objects', s \in Syms : so'[x].slots[s] \in SlotValues'
         /\ \A z \in Objects : so'[z] = so[z]
         /\ Grown /\ so'[n].file = f
         /\ stack' \in Seq(Frame) /\ Len(stack') = Len(stack) + 1
         /\ stack'[Len(stack) + 1] = [so |-> n, caller |-> "user", next |-> 1]
<1>1. "user" \in Callers  BY DEF Callers
<1>2. so \in Seq(Obj) /\ stack \in Seq(Frame)  BY DEF LinkTypes
<1>3. DependsOn(so, n)  BY DEF DependsOn
<1>4. /\ so' \in Seq(Obj) /\ Len(so') <= MaxMaps /\ n \in 1..MaxMaps /\ n \notin Objects
      /\ Objects' = Objects \cup {n}
  BY <1>1, <1>2, <1>3, ObjectMapped
<1>5. /\ \A x \in Objects' : so'[x].deps \subseteq Objects'
      /\ \A x \in Objects', s \in Syms : so'[x].slots[s] \in SlotValues'
  BY <1>1, <1>2, <1>3, ObjectMapped
<1>6. Grown /\ \A z \in Objects : so'[z] = so[z]
  BY <1>1, <1>2, <1>3, ObjectMapped
<1>7. /\ stack' \in Seq(Frame) /\ Len(stack') = Len(stack) + 1
      /\ so'[n].file = f
      /\ stack'[Len(stack) + 1] = [so |-> n, caller |-> "user", next |-> 1]
  BY <1>1, <1>2, MapFacts
<1> QED  BY <1>4, <1>5, <1>6, <1>7

LEMMA OpenedNew ==
  ASSUME LinkerInv, NEW m \in Nat, m = Len(stack), m = 0, NEW f \in Files, {x \in Linked : so[x].file = f} = {},
         Map(f, "user", so, stack), opened' \in {"none", "handle", "null"},
         UNCHANGED <<handles, error, disk, libPath, index, built>>
  PROVE  LinkerInv'
<1>1. LinkTypes /\ SameData /\ so \in Seq(Obj) /\ stack \in Seq(Frame)
  BY DEF LinkerInv, LinkTypes, SameData
<1>2. PICK n \in Nat : n = Len(so) + 1  BY <1>1
<1>3. "user" \in Callers  BY DEF Callers
<1>4. DependsOn(so, n)  BY DEF DependsOn
<1>5. /\ so' \in Seq(Obj) /\ Len(so') <= MaxMaps /\ n \in 1..MaxMaps /\ n \notin Objects
      /\ Objects' = Objects \cup {n}
      /\ \A x \in Objects' : so'[x].deps \subseteq Objects'
      /\ \A x \in Objects', s \in Syms : so'[x].slots[s] \in SlotValues'
      /\ \A z \in Objects : so'[z] = so[z]
      /\ Grown /\ so'[n].file = f
      /\ stack' \in Seq(Frame) /\ Len(stack') = m + 1
      /\ stack'[m + 1] = [so |-> n, caller |-> "user", next |-> 1]
  BY <1>1, <1>2, OpenedFacts
<1>6. KeepsCalls(m)  BY <1>5 DEF KeepsCalls
<1>7. FrameFits(m + 1)'
  <2>1. Len(WorkOf(stack[m + 1])') \in Nat
    <3>1. Len(Work(f)) \in Nat  BY <1>1, WorkFacts
    <3> QED  BY <3>1, <1>1, <1>5, DataKept DEF WorkOf
  <2> QED  BY <2>1, <1>5 DEF FrameFits
<1>8. /\ \A i \in DOMAIN stack' : stack'[i].so \in Objects'
      /\ StackShape' /\ NeedsMet' /\ DoneOrLoading'
      /\ \A x \in Objects : Opening(x)' <=> Opening(x)
      /\ Opening(n)' <=> "user" = "user"
  BY ZenonT(60), <1>1, <1>2, <1>3, <1>5, <1>6, <1>7, CallsMapped
<1>9. Counted'
  BY <1>1, <1>2, <1>3, <1>4, <1>8, MappedCounted DEF LinkerInv
<1>10. FilesMappedOnce'
  <2>1. \A x \in Mapped : so[x].file # f
    BY DEF LinkerInv, Counted, Mapped, Linked
  <2>2. \A x \in Objects : so'[x].refcount > 0 => so[x].refcount > 0  BY <1>5
  <2> QED  BY <2>1, <2>2, <1>1, <1>5, OnceMapped DEF LinkerInv
<1>11. LinkTypes'  BY <1>1, <1>5, <1>8 DEF LinkTypes
<1>12. IndexTrue'  BY DEF LinkerInv, IndexTrue
<1> QED  BY <1>8, <1>9, <1>10, <1>11, <1>12 DEF LinkerInv

-----------------------------------------------------------------------------
(* load_needed and the relocations.                                         *)

\* A work item that counts nothing and maps nothing.
LEMMA WentOn ==
  ASSUME LinkerInv, SameData, stack # <<>>, stack' = Advance(stack), Top.next <= Len(WorkOf(Top)),
         NEW n \in Nat, n = Len(stack), NEW at, at = Top.next,
         at \in DOMAIN Needs(n) => NeedMet(n, at)',
         so' \in Seq(Obj), Len(so') = Len(so),
         \A z \in Objects :
           /\ so'[z].file = so[z].file /\ so'[z].refcount = so[z].refcount
           /\ so'[z].linked = so[z].linked /\ so'[z].done = so[z].done
           /\ so'[z].lazy = so[z].lazy /\ so'[z].deps = so[z].deps
           /\ \A s \in Syms : so'[z].slots[s] \in SlotValues,
         index' \in [Syms -> {None} \cup {File(f) : f \in Files}], IndexTrue',
         built' \in BOOLEAN, error' \in BOOLEAN, UNCHANGED <<handles, opened>>
  PROVE  LinkerInv'
<1>1. LinkTypes  BY DEF LinkerInv
<1>2. /\ Objects' = Objects /\ Objects = 1..Len(so)
      /\ \A z \in Objects : so[z].refcount \in Nat
  BY <1>1, ObjectFields DEF Objects
<1>3. Grown  BY DEF Grown
<1>4. /\ stack' \in Seq(Frame) /\ \A i \in DOMAIN stack' : stack'[i].so \in Objects'
      /\ StackShape' /\ NeedsMet' /\ DoneOrLoading'
      /\ \A x : Opening(x)' <=> Opening(x)
  BY <1>3, CallsAdvanced
<1>5. SlotValues' = SlotValues  BY <1>2 DEF SlotValues
<1>6. LinkTypes'
  BY <1>1, <1>2, <1>4, <1>5 DEF LinkTypes, SameData
<1>7. \A z : Needed(z)' <=> Needed(z)  BY <1>2 DEF Needed
<1>8. Counted'
  <2>1. ASSUME NEW z \in Objects
        PROVE  /\ so'[z].linked <=> so'[z].refcount > 0
               /\ so'[z].refcount >= handles'[z] + One(Opening(z)') + One(so'[z].lazy \/ Needed(z)')
    <3>1. /\ so[z].linked <=> so[z].refcount > 0
          /\ so[z].refcount >= handles[z] + One(Opening(z)) + One(so[z].lazy \/ Needed(z))
      BY DEF LinkerInv, Counted
    <3>2. One(Opening(z)') = One(Opening(z))  BY <1>4 DEF One
    <3>3. One(so'[z].lazy \/ Needed(z)') = One(so[z].lazy \/ Needed(z))  BY <1>7 DEF One
    <3> QED  BY <3>1, <3>2, <3>3
  <2>2. \A z \in 1..MaxMaps : z \notin Objects => handles'[z] = 0
    BY DEF LinkerInv, Counted
  <2> QED  BY <1>2, <2>1, <2>2 DEF Counted
<1>9. FilesMappedOnce'
  <2>1. \A z \in Objects : so'[z].refcount > 0 => so[z].refcount > 0  OBVIOUS
  <2> QED  BY <1>2, <1>3, <2>1, OnceKept DEF LinkerInv
<1> QED  BY <1>4, <1>6, <1>8, <1>9 DEF LinkerInv

\* A needed library that cannot be found or mapped.
LEMMA NeedSkipped ==
  ASSUME LinkerInv, SameData, Pending("need"), ~Loadable(FindNeeded(Arg)),
         stack' = Advance(stack), error' \in BOOLEAN,
         UNCHANGED <<so, index, built, handles, opened>>
  PROVE  LinkerInv'
<1>1. LinkTypes /\ stack # <<>>  BY DEF LinkerInv, Pending
<1>2. PICK n \in Nat : n = Len(stack)  BY <1>1, TopFacts
<1>3. PICK at \in Nat : at = Top.next  BY <1>1, TopFacts DEF Frame
<1>4. /\ Top.next <= Len(WorkOf(Top)) /\ Arg = Needs(n)[at] /\ n \in DOMAIN stack /\ Top = stack[n]
  BY <1>1, <1>2, <1>3, TopFacts
<1>5. NeedMet(n, at)'
  <2>1. stack'[n].so = stack[n].so
    <3>1. stack \in Seq(Frame)  BY <1>1 DEF LinkTypes
    <3> QED  BY <3>1, <1>1, <1>2, AdvanceFacts
  <2>2. Needs(n)' = Needs(n)  BY <2>1 DEF Needs, SameData
  <2>3. ~Loadable(FindNeeded(Needs(n)[at]))'
    BY <2>2, <1>4, DataKept DEF Loadable, SameData
  <2> QED  BY <2>3 DEF NeedMet
<1>6. /\ so' \in Seq(Obj) /\ Len(so') = Len(so)
      /\ \A z \in Objects :
           /\ so'[z].file = so[z].file /\ so'[z].refcount = so[z].refcount
           /\ so'[z].linked = so[z].linked /\ so'[z].done = so[z].done
           /\ so'[z].lazy = so[z].lazy /\ so'[z].deps = so[z].deps
           /\ \A s \in Syms : so'[z].slots[s] \in SlotValues
  BY <1>1 DEF LinkTypes
<1>7. index' \in [Syms -> {None} \cup {File(f) : f \in Files}] /\ built' \in BOOLEAN
  BY <1>1 DEF LinkTypes
<1>8. IndexTrue'  BY DEF LinkerInv, IndexTrue, SameData
<1> QED  BY <1>1, <1>2, <1>3, <1>4, <1>5, <1>6, <1>7, <1>8, WentOn

\* A relocation that opens nothing.
LEMMA Bound ==
  ASSUME LinkerInv, SameData, Pending("rela"), NEW v \in SlotValues,
         so' = Bind(so, Top.so, Arg, v), stack' = Advance(stack), error' \in BOOLEAN,
         index' \in [Syms -> {None} \cup {File(f) : f \in Files}], IndexTrue', built' \in BOOLEAN,
         UNCHANGED <<handles, opened>>
  PROVE  LinkerInv'
<1>1. LinkTypes /\ stack # <<>>  BY DEF LinkerInv, Pending
<1>2. PICK n \in Nat : n = Len(stack)  BY <1>1, TopFacts
<1>3. PICK at \in Nat : at = Top.next  BY <1>1, TopFacts DEF Frame
<1>4. /\ Top.next <= Len(WorkOf(Top)) /\ Arg \in Syms /\ Top.so \in Objects
      /\ Top.next > Len(Needs(n)) /\ Needs(n) \in Seq(Names)
  BY <1>1, <1>2, TopFacts
<1>5. at \notin DOMAIN Needs(n)  BY <1>3, <1>4
<1>6. v \in AnySlot /\ so \in Seq(Obj) /\ Top.so \in 1..Len(so) /\ Objects = 1..Len(so)
  BY <1>1, <1>4, SlotsTyped, ObjectFields
<1>7. PICK x \in 1..Len(so), sym \in Syms : x = Top.so /\ so' = Bind(so, x, sym, v)
  BY <1>4, <1>6
<1>8. /\ so' \in Seq(Obj) /\ Len(so') = Len(so) /\ \A y \in 1..Len(so) : y # x => so'[y] = so[y]
      /\ so'[x].file = so[x].file /\ so'[x].refcount = so[x].refcount /\ so'[x].linked = so[x].linked
      /\ so'[x].done = so[x].done /\ so'[x].lazy = so[x].lazy /\ so'[x].deps = so[x].deps
      /\ \A z \in Syms : so'[x].slots[z] \in {v, so[x].slots[z]}
  <2>1. so' \in Seq(Obj) /\ Len(so') = Len(so)  BY <1>6, <1>7, BindFacts
  <2>2. \A y \in 1..Len(so) : y # x => so'[y] = so[y]  BY <1>6, <1>7, BindFacts
  <2>3. so'[x].file = so[x].file /\ so'[x].refcount = so[x].refcount  BY <1>6, <1>7, BindFacts
  <2>4. so'[x].linked = so[x].linked /\ so'[x].lazy = so[x].lazy /\ so'[x].done = so[x].done
    BY <1>6, <1>7, BindFacts
  <2>5. so'[x].deps = so[x].deps  BY <1>6, <1>7, BindFacts
  <2>6. \A z \in Syms : so'[x].slots[z] \in {v, so[x].slots[z]}  BY <1>6, <1>7, BindFacts
  <2> QED  BY <2>1, <2>2, <2>3, <2>4, <2>5, <2>6
<1>9. \A z \in Objects, s \in Syms : so[z].slots[s] \in SlotValues  BY <1>1 DEF LinkTypes
<1>10. ASSUME NEW z \in Objects
       PROVE  /\ so'[z].file = so[z].file /\ so'[z].refcount = so[z].refcount
              /\ so'[z].linked = so[z].linked /\ so'[z].done = so[z].done
              /\ so'[z].lazy = so[z].lazy /\ so'[z].deps = so[z].deps
              /\ \A s \in Syms : so'[z].slots[s] \in SlotValues
  <2>1. CASE z = x
    <3>1. \A s \in Syms : so'[z].slots[s] = v \/ so'[z].slots[s] = so[z].slots[s]  BY <2>1, <1>8
    <3> QED  BY <2>1, <3>1, <1>8, <1>9
  <2>2. CASE z # x  BY <2>2, <1>6, <1>8, <1>9
  <2> QED  BY <2>1, <2>2
<1> QED  BY <1>1, <1>2, <1>3, <1>4, <1>5, <1>8, <1>10, WentOn

\* A needed library that is in the list.
LEMMA NeedFound ==
  ASSUME LinkerInv, SameData, Pending("need"), NEW y \in Linked, BaseName[so[y].file] = Arg,
         so' = Depend(Top.so, y), stack' = Advance(stack),
         UNCHANGED <<index, built, handles, opened, error>>
  PROVE  LinkerInv'
<1>1. LinkTypes /\ stack # <<>> /\ y \in Objects /\ so[y].linked  BY DEF LinkerInv, Pending, Linked
<1>2. PICK n \in Nat : n = Len(stack)  BY <1>1, TopFacts
<1>3. PICK at \in Nat : at = Top.next  BY <1>1, TopFacts DEF Frame
<1>4. PICK x \in Objects : x = Top.so  BY <1>1, TopFacts
<1>5. /\ Top.next <= Len(WorkOf(Top)) /\ Arg = Needs(n)[at] /\ n \in DOMAIN stack /\ stack[n].so = x
  BY <1>1, <1>2, <1>3, <1>4, TopFacts
<1>6. /\ so' \in Seq(Obj) /\ Len(so') = Len(so)
      /\ \A z \in Objects :
           /\ so'[z].file = so[z].file /\ so'[z].linked = so[z].linked /\ so'[z].done = so[z].done
           /\ so'[z].lazy = so[z].lazy /\ so'[z].slots = so[z].slots
           /\ so'[z].refcount = so[z].refcount + One(z = y)
           /\ so'[z].deps = so[z].deps \cup (IF z = x THEN {y} ELSE {})
  BY <1>1, <1>4, DependFacts
<1>7. /\ Objects' = Objects /\ Objects = 1..Len(so)
      /\ \A z \in Objects : so[z].refcount \in Nat
  BY <1>1, <1>6, ObjectFields DEF Objects
<1>8. Grown  BY <1>6 DEF Grown
<1>9. NeedMet(n, at)'
  <2>1. stack \in Seq(Frame)  BY <1>1 DEF LinkTypes
  <2>2. stack'[n].so = x /\ \A i \in 1..n : stack'[i].so = stack[i].so
    <3>1. /\ \A i \in 1..(n - 1) : stack'[i] = stack[i]
          /\ stack'[n].so = stack[n].so
      BY <2>1, <1>1, <1>2, AdvanceFacts
    <3> QED  BY <3>1, <1>2, <1>5
  <2>3. Needs(n)' = Needs(n)  BY <2>2, <1>5, <1>6 DEF Needs, SameData
  <2>4. y \in so'[x].deps  BY <1>6
  <2>5. Matches(y, Needs(n)[at])'  BY <2>3, <1>1, <1>5, <1>6 DEF Matches
  <2>6. DOMAIN stack = 1..n  BY <2>1, <1>2
  <2>7. so'[y].done \/ \E j \in 1..n : stack'[j].so = y
    BY <2>2, <2>6, <1>1, <1>6 DEF LinkerInv, DoneOrLoading
  <2> QED  BY <2>2, <2>4, <2>5, <2>7 DEF NeedMet
<1>10. /\ stack' \in Seq(Frame) /\ \A i \in DOMAIN stack' : stack'[i].so \in Objects'
       /\ StackShape' /\ NeedsMet' /\ DoneOrLoading'
       /\ \A z : Opening(z)' <=> Opening(z)
  BY <1>1, <1>2, <1>3, <1>5, <1>6, <1>8, <1>9, CallsAdvanced
<1>11. SlotValues' = SlotValues  BY <1>7 DEF SlotValues
<1>12. \A z \in Objects : so'[z].deps \subseteq Objects
  BY <1>1, <1>6 DEF LinkTypes
<1>13. LinkTypes'
  BY <1>1, <1>6, <1>7, <1>10, <1>11, <1>12 DEF LinkTypes, SameData
<1>14. \A z \in Objects : z # y => (Needed(z)' <=> Needed(z))  BY <1>6, <1>7 DEF Needed
<1>15. Counted'
  <2>1. ASSUME NEW z \in Objects
        PROVE  /\ so'[z].linked <=> so'[z].refcount > 0
               /\ so'[z].refcount >= handles'[z] + One(Opening(z)') + One(so'[z].lazy \/ Needed(z)')
    <3>1. /\ so[z].linked <=> so[z].refcount > 0
          /\ so[z].refcount >= handles[z] + One(Opening(z)) + One(so[z].lazy \/ Needed(z))
      BY DEF LinkerInv, Counted
    <3>2. One(Opening(z)') = One(Opening(z)) /\ One(Opening(z)) \in Nat  BY <1>10 DEF One
    <3>3. handles[z] \in Nat
      <4>1. z \in 1..MaxMaps  BY <1>1, <1>7, LinkerAssumption DEF LinkTypes
      <4> QED  BY <4>1, <1>1 DEF LinkTypes
    <3>4. CASE z = y
      <4>1. so'[z].refcount = so[z].refcount + 1 /\ so[z].refcount > 0
        BY <3>1, <3>4, <1>1, <1>6 DEF One
      <4>2. /\ One(so'[z].lazy \/ Needed(z)') <= 1 /\ One(so[z].lazy \/ Needed(z)) >= 0
            /\ One(so'[z].lazy \/ Needed(z)') \in Nat /\ One(so[z].lazy \/ Needed(z)) \in Nat
        BY DEF One
      <4>3. so'[z].linked  BY <1>1, <1>6, <3>4
      <4> QED  BY SMTT(30), <3>1, <3>2, <3>3, <4>1, <4>2, <4>3, <1>7
    <3>5. CASE z # y
      <4>1. so'[z].refcount = so[z].refcount  BY <3>5, <1>6, <1>7 DEF One
      <4>2. One(so'[z].lazy \/ Needed(z)') = One(so[z].lazy \/ Needed(z))
        BY <3>5, <1>6, <1>14 DEF One
      <4> QED  BY <3>1, <3>2, <4>1, <4>2, <1>6
    <3> QED  BY <3>4, <3>5
  <2>2. \A z \in 1..MaxMaps : z \notin Objects => handles'[z] = 0
    BY DEF LinkerInv, Counted
  <2> QED  BY <1>7, <2>1, <2>2 DEF Counted
<1>16. FilesMappedOnce'
  <2>1. so[y].refcount > 0  BY <1>1 DEF LinkerInv, Counted
  <2>2. \A z \in Objects : so'[z].refcount > 0 => so[z].refcount > 0
    BY <2>1, <1>6, <1>7 DEF One
  <2> QED  BY <1>7, <1>8, <2>2, OnceKept DEF LinkerInv
<1>17. IndexTrue'  BY DEF LinkerInv, IndexTrue, SameData
<1> QED  BY <1>10, <1>13, <1>15, <1>16, <1>17 DEF LinkerInv

\* A needed library that is mapped: the object depends on what is mapped, and
\* its call waits one item further on.
LEMMA NeedMapped ==
  ASSUME LinkerInv, SameData, Pending("need"), NEW f \in Files, FindNeeded(Arg) = File(f),
         \A y \in Linked : BaseName[so[y].file] # Arg,
         NEW m \in Nat, m = Len(stack), NEW n \in Nat, n = Len(so) + 1,
         NEW at \in Nat, at = Top.next, NEW x \in Objects, x = Top.so,
         NEW objs \in Seq(Obj), Len(objs) = Len(so), n \in objs[x].deps,
         DependsOn(objs, n),
         NEW st \in Seq(Frame), Len(st) = Len(stack), \A i \in 1..(m - 1) : st[i] = stack[i],
         st[m].so = stack[m].so, st[m].caller = stack[m].caller, st[m].next = stack[m].next + 1,
         Map(f, "needed", objs, st),
         UNCHANGED <<index, built, handles, opened, error>>
  PROVE  LinkerInv'
<1>1. /\ LinkTypes /\ stack # <<>> /\ so \in Seq(Obj) /\ stack \in Seq(Frame)
      /\ Objects = 1..Len(so) /\ Len(so) \in Nat
  BY ObjectFields DEF LinkerInv, Pending, LinkTypes
<1>2. /\ m # 0 /\ Top.next <= Len(WorkOf(Top)) /\ m \in DOMAIN stack /\ stack[m].so = x
      /\ stack[m].next = at /\ at \in DOMAIN Needs(m) /\ Arg = Needs(m)[at] /\ Arg \in Names
      /\ so[x].file \in Files /\ Needs(m) = disk[so[x].file].needed
  BY <1>1, TopFacts
<1>3. "needed" \in Callers  BY DEF Callers
<1>4. /\ so' \in Seq(Obj) /\ Len(so') <= MaxMaps /\ n \in 1..MaxMaps /\ n \notin Objects
       /\ Objects' = Objects \cup {n}
  BY <1>1, <1>3, ObjectMapped
<1>5. /\ \A y \in Objects' : so'[y].deps \subseteq Objects'
       /\ \A z \in Objects', s \in Syms : so'[z].slots[s] \in SlotValues'
  BY <1>1, <1>3, ObjectMapped
<1>6. Grown /\ \A z \in Objects : so'[z] = objs[z]
  <2>1. PICK r : so' = Append(objs, r)  BY DEF Map
  <2>2. \A z \in 1..Len(so) : so'[z] = objs[z]  BY <2>1
  <2>3. Grown  BY <1>1, <1>3, ObjectMapped
  <2> QED  BY <2>2, <2>3, <1>1
<1>7. /\ stack' \in Seq(Frame) /\ Len(stack') = m + 1 /\ so'[n].file = f
       /\ stack'[m + 1] = [so |-> n, caller |-> "needed", next |-> 1]
  BY <1>1, <1>3, MapFacts
<1>8. \A i \in 1..m : stack'[i] = st[i]
  <2>1. PICK r : stack' = Append(st, r)  BY DEF Map
  <2> QED  BY <2>1
<1>9. KeepsCalls(m)
  <2>1. ASSUME NEW i \in 1..(m - 1) PROVE i \in DOMAIN stack /\ stack'[i] = stack[i]
    <3>1. i \in DOMAIN stack /\ i \in 1..m  BY <1>1
    <3>2. stack'[i] = st[i]  BY <3>1, <1>8
    <3>3. st[i] = stack[i]  OBVIOUS
    <3> QED  BY <3>1, <3>2, <3>3
  <2>2. \A i \in 1..(m - 1) : stack[i].next <= Len(WorkOf(stack[i])) + 1
    BY <2>1 DEF LinkerInv, StackShape, FrameFits
  <2>30. stack[m] = Top /\ Len(WorkOf(Top)) \in Nat  BY <1>1, TopFacts
  <2>3. stack'[m].next <= Len(WorkOf(stack[m])) + 1
    BY SMTT(30), <1>2, <1>8, <2>30
  <2>4. stack'[m].so = stack[m].so /\ stack'[m].caller = stack[m].caller
    BY SMTT(30), <1>2, <1>8
  <2>5. \A i \in 1..m : i \in 1..(m - 1) \/ i = m  OBVIOUS
  <2>6. \A i \in 1..m : /\ stack'[i].so = stack[i].so /\ stack'[i].caller = stack[i].caller
                        /\ stack'[i].next <= Len(WorkOf(stack[i])) + 1
    BY <2>1, <2>2, <2>3, <2>4, <2>5
  <2>7. m <= Len(stack')  BY <1>7
  <2>8. \A i \in 1..(m - 1) : stack'[i] = stack[i]  BY <2>1
  <2> QED  BY <2>6, <2>7, <2>8 DEF KeepsCalls
<1>10. BaseName[f] = Arg \/ (Arg # Clean[Arg] /\ BaseName[f] = Clean[Arg])
  <2>1. FindNeeded(Arg) # None  BY DEF None, File
  <2>2. PICK g \in Files :
          /\ FindNeeded(Arg) = File(g)
          /\ BaseName[g] = Arg \/ (Arg # Clean[Arg] /\ BaseName[g] = Clean[Arg])
    BY <2>1, <1>1, <1>2, FoundNeeded
  <2>3. f = g
    <3>1. File(f).file = f /\ File(g).file = g  BY DEF File
    <3>2. File(f) = File(g)  BY <2>2
    <3>3. File(f).file = File(g).file  BY <3>2
    <3> QED  BY <3>1, <3>3
  <2> QED  BY <2>2, <2>3
<1>11. FrameFits(m + 1)'
  <2>1. stack'[m].so = x /\ stack'[m].next = at + 1  BY SMTT(30), <1>2, <1>8
  <2>2. Needs(m)' = Needs(m)  BY SMTT(30), <2>1, <1>2, <1>6 DEF Needs, SameData, DependsOn
  <2>3. Matches(n, Needs(m)[at])'  BY <2>2, <1>2, <1>7, <1>10 DEF Matches
  <2>4. n \in so'[x].deps  BY <1>6
  <2>5. Len(WorkOf(stack[m + 1])') \in Nat
    <3>1. Len(Work(f)) \in Nat  BY <1>1, WorkFacts
    <3> QED  BY <3>1, <1>7, DataKept DEF WorkOf
  <2>6. PICK j \in Nat : j = m + 1 /\ j - 1 = m /\ j # 1  BY SMTT(30), <1>2
  <2>7. at + 1 - 1 = at  OBVIOUS
  <2>8. /\ stack'[j].so = n /\ stack'[j].caller = "needed"
        /\ stack'[j].next <= Len(WorkOf(stack[j])') + 1
    BY <2>5, <2>6, <1>7
  <2>9. /\ stack'[m].next - 1 \in DOMAIN Needs(m)'
        /\ stack'[j].so \in so'[stack'[m].so].deps
    BY SMTT(30), <2>1, <2>2, <2>4, <2>7, <2>8, <1>2
  <2>10. Matches(stack[j].so, Needs(m)[stack[m].next - 1])'
    BY <2>1, <2>2, <2>3, <2>7, <2>8
  <2>11. FrameFits(j)'
    BY <2>6, <2>8, <2>9, <2>10 DEF FrameFits
  <2> QED  BY <2>6, <2>11
<1>12. ASSUME NEW k \in Nat, Past(m, k)' PROVE Past(m, k)
  <2>1. stack'[m].so = x /\ stack'[m].next = at + 1  BY SMTT(30), <1>2, <1>8
  <2>2. Needs(m)' = Needs(m)  BY SMTT(30), <2>1, <1>2, <1>6 DEF Needs, SameData, DependsOn
  <2>3. k \in DOMAIN Needs(m) /\ k < at + 1 /\ k # at  BY <2>1, <2>2, <1>7, <1>12 DEF Past
  <2> QED  BY SMTT(30), <2>3, <1>2 DEF Past
<1>13. /\ \A i \in DOMAIN stack' : stack'[i].so \in Objects'
       /\ StackShape' /\ NeedsMet' /\ DoneOrLoading'
       /\ \A y \in Objects : Opening(y)' <=> Opening(y)
       /\ Opening(n)' <=> "needed" = "user"
  BY <1>1, <1>3, <1>6, <1>9, <1>11, <1>12, CallsMapped
<1>14. Counted'
  <2>1. Counted /\ UNCHANGED handles  BY DEF LinkerInv
  <2> QED  BY <2>1, <1>1, <1>3, <1>13, MappedCounted
<1>15. FilesMappedOnce'
  <2>1. ASSUME NEW y \in Mapped, so[y].file = f
        PROVE  \E p \in Versioned : BaseName[f] = Clean[disk[p[1]].needed[p[2]]]
    <3>1. y \in Linked  BY DEF LinkerInv, Counted, Mapped, Linked
    <3>2. BaseName[f] # Arg  BY <2>1, <3>1
    <3>3. PICK g \in Files : g = so[x].file  BY <1>2
    <3>4. at \in DOMAIN disk[g].needed /\ disk[g].needed[at] # Clean[disk[g].needed[at]]
      BY <3>2, <3>3, <1>2, <1>10
    <3>5. <<g, at>> \in Versioned  BY SMTT(30), <3>3, <3>4 DEF Versioned
    <3>6. BaseName[f] = Clean[disk[g].needed[at]]  BY <3>2, <3>3, <1>2, <1>10
    <3> QED  BY <3>5, <3>6
  <2>2. \A y \in Objects : so'[y].refcount > 0 => so[y].refcount > 0  BY <1>6 DEF DependsOn
  <2>3. FilesMappedOnce  BY DEF LinkerInv
  <2> QED  BY ZenonT(60), <2>1, <2>2, <2>3, <1>4, <1>6, <1>7, OnceMapped
<1>16. LinkTypes'  BY <1>1, <1>4, <1>5, <1>7, <1>13 DEF LinkTypes, SameData
<1>17. IndexTrue'  BY DEF LinkerInv, IndexTrue, SameData
<1> QED  BY <1>13, <1>14, <1>15, <1>16, <1>17 DEF LinkerInv

LEMMA NeedMaps ==
  ASSUME LinkerInv, SameData, Pending("need"), NEW f \in Files, FindNeeded(Arg) = File(f),
         {y \in Linked : BaseName[so[y].file] = Arg} = {},
         Map(f, "needed", [so EXCEPT ![Top.so].deps = @ \cup {Len(so) + 1}], Advance(stack)),
         UNCHANGED <<index, built, handles, opened, error>>
  PROVE  LinkerInv'
<1>1. /\ LinkTypes /\ stack # <<>> /\ so \in Seq(Obj) /\ stack \in Seq(Frame)
      /\ Objects = 1..Len(so) /\ Len(so) \in Nat
  BY ObjectFields DEF LinkerInv, Pending, LinkTypes
<1>2. PICK m \in Nat, n \in Nat : m = Len(stack) /\ n = Len(so) + 1  BY <1>1
<1>3. PICK at \in Nat : at = Top.next  BY <1>1, TopFacts DEF Frame
<1>4. PICK x \in Objects : x = Top.so  BY <1>1, TopFacts
<1>5. so[x].deps \cup {n} \in SUBSET Nat /\ so[x].deps \subseteq Objects
  <2>1. so[x].deps \subseteq Objects  BY <1>1 DEF LinkTypes
  <2>2. Objects \subseteq Nat /\ n \in Nat  BY <1>1
  <2> QED  BY <2>1, <2>2
<1>6. PICK d \in SUBSET Nat : d = so[x].deps \cup {n}  BY <1>5
<1>7. x \in 1..Len(so)  BY <1>1
<1>8. PICK objs : objs = WithDeps(so, x, d)  OBVIOUS
<1>9. PICK st : st = Advance(stack)  OBVIOUS
<1>10. Map(f, "needed", objs, st)  BY <1>2, <1>4, <1>6, <1>8, <1>9 DEF WithDeps
<1>11. /\ objs \in Seq(Obj) /\ Len(objs) = Len(so)
       /\ \A z \in 1..Len(so) : z # x => objs[z] = so[z]
       /\ objs[x].deps = d
  BY <1>1, <1>7, <1>8, DepsFacts
<1>12. /\ objs[x].file = so[x].file /\ objs[x].refcount = so[x].refcount
       /\ objs[x].linked = so[x].linked /\ objs[x].done = so[x].done
       /\ objs[x].lazy = so[x].lazy /\ objs[x].slots = so[x].slots
  BY <1>1, <1>7, <1>8, DepsFacts
<1>13. DependsOn(objs, n)
  <2> SUFFICES ASSUME NEW z \in Objects
               PROVE  /\ objs[z].file = so[z].file /\ objs[z].refcount = so[z].refcount
                      /\ objs[z].linked = so[z].linked /\ objs[z].done = so[z].done
                      /\ objs[z].lazy = so[z].lazy /\ objs[z].slots = so[z].slots
                      /\ so[z].deps \subseteq objs[z].deps
                      /\ objs[z].deps \subseteq so[z].deps \cup {n}
    BY DEF DependsOn
  <2>1. CASE z = x  BY <2>1, <1>6, <1>11, <1>12
  <2>2. CASE z # x  BY <2>2, <1>1, <1>11
  <2> QED  BY <2>1, <2>2
<1>14. n \in objs[x].deps  BY <1>6, <1>11
<1>15. /\ st \in Seq(Frame) /\ Len(st) = Len(stack)
       /\ \A i \in 1..(m - 1) : st[i] = stack[i]
       /\ st[m].so = stack[m].so /\ st[m].caller = stack[m].caller
       /\ st[m].next = stack[m].next + 1
  BY <1>1, <1>2, <1>9, AdvanceFacts
<1>16. \A y \in Linked : BaseName[so[y].file] # Arg  OBVIOUS
<1> HIDE DEF WithDeps
<1> QED  BY <1>2, <1>3, <1>4, <1>10, <1>11, <1>13, <1>14, <1>15, <1>16, NeedMapped

\* A library opened for a symbol that nothing in the list defines.
LEMMA LazyMapped ==
  ASSUME LinkerInv, SameData, Pending("rela"), NEW f \in Files, Arg \in disk[f].exports,
         Exporters(Arg) = {}, Map(f, "lazy", so, stack),
         index' \in [Syms -> {None} \cup {File(g) : g \in Files}], IndexTrue', built' \in BOOLEAN,
         UNCHANGED <<handles, opened, error>>
  PROVE  LinkerInv'
<1>1. /\ LinkTypes /\ stack # <<>> /\ so \in Seq(Obj) /\ stack \in Seq(Frame)
      /\ Objects = 1..Len(so) /\ Len(so) \in Nat
  BY ObjectFields DEF LinkerInv, Pending, LinkTypes
<1>2. PICK m \in Nat, n \in Nat : m = Len(stack) /\ n = Len(so) + 1  BY <1>1
<1>3. PICK objs \in Seq(Obj), st \in Seq(Frame) : objs = so /\ st = stack  BY <1>1
<1>4. Map(f, "lazy", objs, st) /\ Len(objs) = Len(so) /\ Len(st) = Len(stack)  BY <1>3
<1>5. DependsOn(objs, n)
  BY <1>3 DEF DependsOn
<1>6. "lazy" \in Callers  BY DEF Callers
<1>7. /\ m # 0 /\ Top.next > Len(Needs(m)) /\ Top.next <= Len(WorkOf(Top))
      /\ m \in DOMAIN stack /\ Top = stack[m]
  BY <1>1, <1>2, TopFacts
<1>8. /\ so' \in Seq(Obj) /\ Len(so') <= MaxMaps /\ n \in 1..MaxMaps /\ n \notin Objects
      /\ Objects' = Objects \cup {n}
  BY <1>1, <1>2, <1>4, <1>5, <1>6, ObjectMapped
<1>9. /\ \A y \in Objects' : so'[y].deps \subseteq Objects'
      /\ \A y \in Objects', s \in Syms : so'[y].slots[s] \in SlotValues'
  BY <1>1, <1>2, <1>4, <1>5, <1>6, ObjectMapped
<1>10. Grown /\ \A z \in Objects : so'[z] = so[z]
  BY <1>1, <1>2, <1>3, <1>4, <1>5, <1>6, ObjectMapped
<1>11. /\ stack' \in Seq(Frame) /\ Len(stack') = m + 1 /\ so'[n].file = f
       /\ stack'[m + 1] = [so |-> n, caller |-> "lazy", next |-> 1]
  BY <1>1, <1>2, <1>4, <1>6, MapFacts
<1>12. \A i \in 1..m : stack'[i] = stack[i]
  <2>1. PICK r : stack' = Append(stack, r)  BY DEF Map
  <2> QED  BY <2>1, <1>1, <1>2
<1>13. KeepsCalls(m)
  <2>1. \A i \in 1..m : i \in DOMAIN stack  BY <1>1, <1>2
  <2>2. \A i \in 1..m : stack[i].next <= Len(WorkOf(stack[i])) + 1
    BY <2>1 DEF LinkerInv, StackShape, FrameFits
  <2> QED  BY <2>2, <1>11, <1>12 DEF KeepsCalls
<1>14. stack'[m] = stack[m] /\ stack[m].so \in Objects  BY <1>1, <1>7, <1>12, TopFacts
<1>15. Needs(m)' = Needs(m) /\ WorkOf(stack[m])' = WorkOf(stack[m])
  BY <1>10, <1>14, DataKept DEF Needs, SameData, WorkOf
<1>16. FrameFits(m + 1)'
  <2>1. Len(WorkOf(stack[m + 1])') \in Nat
    <3>1. Len(Work(f)) \in Nat  BY <1>1, WorkFacts
    <3> QED  BY <3>1, <1>11, DataKept DEF WorkOf
  <2>2. m + 1 - 1 = m /\ m + 1 # 1  BY <1>7
  <2> QED  BY <2>1, <2>2, <1>7, <1>11, <1>14, <1>15 DEF FrameFits
<1>17. ASSUME NEW k \in Nat, Past(m, k)' PROVE Past(m, k)
  BY <1>2, <1>14, <1>15, <1>17 DEF Past
<1>18. /\ \A i \in DOMAIN stack' : stack'[i].so \in Objects'
       /\ StackShape' /\ NeedsMet' /\ DoneOrLoading'
       /\ \A y \in Objects : Opening(y)' <=> Opening(y)
       /\ Opening(n)' <=> "lazy" = "user"
  BY <1>1, <1>2, <1>4, <1>6, <1>10, <1>13, <1>16, <1>17, CallsMapped
<1>19. Counted'
  BY <1>1, <1>2, <1>4, <1>5, <1>6, <1>18, MappedCounted DEF LinkerInv
<1>20. FilesMappedOnce'
  <2>1. \A y \in Mapped : so[y].file # f
    BY DEF LinkerInv, Counted, Mapped, Linked, Exporters
  <2>2. \A y \in Objects : so'[y].refcount > 0 => so[y].refcount > 0  BY <1>10
  <2> QED  BY <2>1, <2>2, <1>8, <1>10, <1>11, OnceMapped DEF LinkerInv
<1>21. LinkTypes'  BY <1>1, <1>8, <1>9, <1>11, <1>18 DEF LinkTypes, SameData
<1> QED  BY <1>18, <1>19, <1>20, <1>21 DEF LinkerInv

-----------------------------------------------------------------------------
(* Calls that return.                                                       *)

\* The object of the innermost call is done and the call is gone.
Finished(objs, x) ==
  \A z \in Objects :
    /\ objs[z].file = so[z].file /\ objs[z].refcount = so[z].refcount
    /\ objs[z].linked = so[z].linked /\ objs[z].lazy = so[z].lazy
    /\ objs[z].deps = so[z].deps /\ (objs[z].done <=> so[z].done \/ z = x)
    /\ \A s \in Syms : objs[z].slots[s] \in SlotValues

LEMMA FinishedGrown ==
  ASSUME NEW x, so' \in Seq(Obj), so \in Seq(Obj), Len(so') = Len(so), Finished(so', x)
  PROVE  Grown
BY DEF Grown, Finished

LEMMA CallReturned ==
  ASSUME LinkerInv, SameData, NEW m \in Nat, m + 1 = Len(stack),
         stack' \in Seq(Frame), Len(stack') = m, KeepsCalls(m),
         NEW x, x = stack[m + 1].so, so' \in Seq(Obj), Len(so') = Len(so), Finished(so', x),
         m # 0 => \A k \in Nat : Past(m, k)' => NeedMet(m, k)',
         handles' \in [1..MaxMaps -> Nat], \A z \in 1..MaxMaps : z \notin Objects => handles'[z] = handles[z],
         \A z \in Objects : handles'[z] + One(Opening(z)') <= handles[z] + One(Opening(z)),
         opened' \in {"none", "handle", "null"}, UNCHANGED <<index, built, error>>
  PROVE  LinkerInv'
<1>1. LinkTypes /\ stack \in Seq(Frame) /\ DOMAIN stack = 1..(m + 1)  BY DEF LinkerInv, LinkTypes
<1>2. /\ Objects' = Objects /\ Objects = 1..Len(so)
      /\ \A z \in Objects : so[z].refcount \in Nat
  BY <1>1, ObjectFields DEF Objects
<1>3. Grown  BY DEF Grown, Finished
<1>4. /\ \A i \in 1..m : FrameFits(i)'
      /\ \A i \in 1..(m - 1), k \in Nat : Past(i, k)' => NeedMet(i, k)'
  <2>1. m \in 0..Len(stack)  BY <1>1
  <2> QED  BY <2>1, <1>3, CallsKept
<1>5. StackShape'  BY <1>4 DEF StackShape
<1>6. NeedsMet'
  <2> SUFFICES ASSUME NEW i \in 1..m, NEW k \in Nat, Past(i, k)' PROVE NeedMet(i, k)'
    BY DEF NeedsMet
  <2>1. CASE i = m  BY <2>1
  <2>2. CASE i \in 1..(m - 1)  BY <2>2, <1>4
  <2> QED  BY <2>1, <2>2
<1>7. \A i \in 1..m : stack'[i].so = stack[i].so  BY DEF KeepsCalls
<1>8. DoneOrLoading'
  <2> SUFFICES ASSUME NEW z \in Objects PROVE so'[z].done \/ \E i \in 1..m : stack'[i].so = z
    BY <1>2 DEF DoneOrLoading
  <2>1. CASE so[z].done \/ z = x  BY <2>1 DEF Finished
  <2>2. CASE ~so[z].done /\ z # x
    <3>1. PICK i \in 1..(m + 1) : stack[i].so = z  BY <2>2, <1>1 DEF LinkerInv, DoneOrLoading
    <3>2. i \in 1..m  BY <2>2, <3>1
    <3> QED  BY <3>1, <3>2, <1>7
  <2> QED  BY <2>1, <2>2
<1>9. ASSUME NEW i \in 1..m PROVE stack'[i].so \in Objects'
  <2>1. i \in DOMAIN stack  BY <1>1
  <2> QED  BY <2>1, <1>1, <1>2, <1>7 DEF LinkTypes
<1>10. SlotValues' = SlotValues  BY <1>2 DEF SlotValues
<1>11. LinkTypes'
  <2>1. \A z \in Objects' : so'[z].deps \subseteq Objects'  BY <1>1, <1>2 DEF LinkTypes, Finished
  <2>2. \A z \in Objects', s \in Syms : so'[z].slots[s] \in SlotValues'
    BY <1>2, <1>10 DEF Finished
  <2>3. DOMAIN stack' = 1..m  OBVIOUS
  <2> QED  BY <2>1, <2>2, <2>3, <1>1, <1>9 DEF LinkTypes, SameData
<1>12. \A z : Needed(z)' <=> Needed(z)  BY <1>2 DEF Needed, Finished
<1>13. Counted'
  <2>1. ASSUME NEW z \in Objects
        PROVE  /\ so'[z].linked <=> so'[z].refcount > 0
               /\ so'[z].refcount >= handles'[z] + One(Opening(z)') + One(so'[z].lazy \/ Needed(z)')
    <3>1. /\ so[z].linked <=> so[z].refcount > 0
          /\ so[z].refcount >= handles[z] + One(Opening(z)) + One(so[z].lazy \/ Needed(z))
      BY DEF LinkerInv, Counted
    <3>2. so'[z].refcount = so[z].refcount /\ so'[z].linked = so[z].linked /\ so'[z].lazy = so[z].lazy
      BY DEF Finished
    <3>3. One(so'[z].lazy \/ Needed(z)') = One(so[z].lazy \/ Needed(z))  BY <3>2, <1>12 DEF One
    <3>4. handles[z] \in Nat /\ handles'[z] \in Nat
      <4>1. z \in 1..MaxMaps  BY <1>1, <1>2, LinkerAssumption DEF LinkTypes
      <4> QED  BY <4>1, <1>1 DEF LinkTypes
    <3>5. /\ One(Opening(z)') \in Nat /\ One(Opening(z)) \in Nat
          /\ One(so[z].lazy \/ Needed(z)) \in Nat
      BY DEF One
    <3>6. handles'[z] + One(Opening(z)') <= handles[z] + One(Opening(z))  OBVIOUS
    <3>7. handles'[z] + One(Opening(z)') + One(so[z].lazy \/ Needed(z)) <= so[z].refcount
      <4>1. PICK a \in Nat, b \in Nat, c \in Nat :
              a = One(Opening(z)') /\ b = One(Opening(z)) /\ c = One(so[z].lazy \/ Needed(z))
        BY <3>5
      <4>2. PICK r \in Nat : r = so[z].refcount  BY <1>2
      <4>3. r >= handles[z] + b + c  BY <3>1, <4>1, <4>2
      <4>4. handles'[z] + a <= handles[z] + b  BY <3>6, <4>1
      <4>5. handles'[z] + a + c <= r  BY SMTT(30), <4>3, <4>4, <3>4
      <4> QED  BY <4>1, <4>2, <4>5
    <3> QED  BY <3>1, <3>2, <3>3, <3>7, <1>2, <3>4, <3>5
  <2>2. \A z \in 1..MaxMaps : z \notin Objects => handles'[z] = 0
    BY DEF LinkerInv, Counted
  <2> QED  BY <1>2, <2>1, <2>2 DEF Counted
<1>14. FilesMappedOnce'
  <2>1. \A z \in Objects : so'[z].refcount > 0 => so[z].refcount > 0  BY DEF Finished
  <2>2. FilesMappedOnce  BY DEF LinkerInv
  <2> QED  BY <1>2, <1>3, <2>1, <2>2, OnceKept
<1>15. IndexTrue'  BY DEF LinkerInv, IndexTrue, SameData
<1> QED  BY <1>5, <1>6, <1>8, <1>11, <1>13, <1>14, <1>15 DEF LinkerInv

\* The calls but the innermost.
LEMMA RestFacts ==
  ASSUME LinkerInv, NEW m \in Nat, m + 1 = Len(stack)
  PROVE  LET rest == SubSeq(stack, 1, m) IN
         /\ rest \in Seq(Frame) /\ Len(rest) = m /\ \A i \in 1..m : rest[i] = stack[i]
         /\ \A i \in 1..m : stack[i].next <= Len(WorkOf(stack[i])) + 1
         /\ stack[m + 1] \in Frame /\ stack[m + 1].so \in Objects /\ FrameFits(m + 1)
         /\ Top = stack[m + 1] /\ so[stack[m + 1].so].file \in Files
<1>1. LinkTypes /\ stack \in Seq(Frame) /\ DOMAIN stack = 1..(m + 1)  BY DEF LinkerInv, LinkTypes
<1>2. /\ SubSeq(stack, 1, m) \in Seq(Frame) /\ Len(SubSeq(stack, 1, m)) = m
      /\ \A i \in 1..m : SubSeq(stack, 1, m)[i] = stack[i]
  BY <1>1
<1>3. \A i \in 1..(m + 1) : FrameFits(i)  BY <1>1 DEF LinkerInv, StackShape
<1>4. \A i \in 1..m : stack[i].next <= Len(WorkOf(stack[i])) + 1
  <2>1. \A i \in 1..m : i \in 1..(m + 1)  OBVIOUS
  <2> QED  BY <2>1, <1>3 DEF FrameFits
<1>5. stack[m + 1].so \in Objects /\ stack[m + 1] \in Frame /\ Top = stack[m + 1]
  BY <1>1 DEF LinkTypes, Top
<1>6. so[stack[m + 1].so].file \in Files  BY <1>1, <1>5, ObjectFields
<1> QED  BY <1>1, <1>2, <1>3, <1>4, <1>5, <1>6

\* bionic_dlopen returns a handle to the program.
LEMMA ReturnedToUser ==
  ASSUME LinkerInv, SameData, NEW m \in Nat, m + 1 = Len(stack), Top.caller = "user",
         so' = [so EXCEPT ![Top.so].done = TRUE], stack' = SubSeq(stack, 1, m),
         handles' = [handles EXCEPT ![Top.so] = @ + 1], opened' = "handle",
         UNCHANGED <<index, built, error>>
  PROVE  LinkerInv'
<1>1. /\ LinkTypes /\ stack' \in Seq(Frame) /\ Len(stack') = m
      /\ stack[m + 1] \in Frame /\ FrameFits(m + 1) /\ Top = stack[m + 1]
  BY RestFacts DEF LinkerInv
<1>2. PICK x \in Objects : x = stack[m + 1].so  BY RestFacts
<1>3. m = 0  BY <1>1 DEF FrameFits
<1>4. KeepsCalls(m)  BY <1>1, <1>3 DEF KeepsCalls
<1>5. so' \in Seq(Obj) /\ Len(so') = Len(so)  BY <1>1, <1>2, FinishedFacts
<1>6. Finished(so', x)  BY <1>1, <1>2, FinishedFacts DEF Finished, LinkTypes
<1>7. x \in 1..MaxMaps /\ Objects \subseteq 1..MaxMaps
  BY <1>1, <1>2, ObjectFields, LinkerAssumption DEF LinkTypes
<1>8. /\ handles' \in [1..MaxMaps -> Nat] /\ handles \in [1..MaxMaps -> Nat]
      /\ \A z \in 1..MaxMaps : handles'[z] = handles[z] + One(z = x)
  <2>1. handles \in [1..MaxMaps -> Nat] /\ handles[x] + 1 \in Nat  BY <1>1, <1>7 DEF LinkTypes
  <2> QED  BY <2>1, <1>1, <1>2, <1>7 DEF One
<1>9. \A z \in 1..MaxMaps : z \notin Objects => handles'[z] = handles[z]
  BY <1>8 DEF One
<1>10. ASSUME NEW z \in Objects
       PROVE  handles'[z] + One(Opening(z)') <= handles[z] + One(Opening(z))
  <2>1. DOMAIN stack' = {}  BY <1>1, <1>3
  <2>2. One(Opening(z)') = 0  BY <2>1 DEF Opening, One
  <2>3. m + 1 \in DOMAIN stack  BY <1>1 DEF LinkTypes
  <2>4. CASE z = x
    <3>1. Opening(z)  BY <2>3, <2>4, <1>1, <1>2 DEF Opening
    <3>2. One(Opening(z)) = 1  BY <3>1 DEF One
    <3>3. handles'[z] = handles[z] + 1 /\ handles[z] \in Nat  BY <2>4, <1>7, <1>8 DEF One
    <3> QED  BY <2>2, <3>2, <3>3
  <2>5. CASE z # x
    <3>1. One(Opening(z)) \in Nat  BY DEF One
    <3>2. handles'[z] = handles[z] /\ handles[z] \in Nat  BY <2>5, <1>7, <1>8 DEF One
    <3> QED  BY <2>2, <3>1, <3>2
  <2> QED  BY <2>4, <2>5
<1> QED  BY <1>1, <1>2, <1>3, <1>4, <1>5, <1>6, <1>8, <1>9, <1>10, CallReturned

\* load_needed returns: the need its caller was at has now been met.
LEMMA ReturnedToNeeded ==
  ASSUME LinkerInv, SameData, NEW m \in Nat, m + 1 = Len(stack), Top.caller = "needed",
         so' = [so EXCEPT ![Top.so].done = TRUE], stack' = SubSeq(stack, 1, m),
         UNCHANGED <<handles, opened, index, built, error>>
  PROVE  LinkerInv'
<1>1. /\ LinkTypes /\ stack' \in Seq(Frame) /\ Len(stack') = m
      /\ \A i \in 1..m : stack'[i] = stack[i]
      /\ \A i \in 1..m : stack[i].next <= Len(WorkOf(stack[i])) + 1
      /\ stack[m + 1] \in Frame /\ FrameFits(m + 1) /\ Top = stack[m + 1]
  BY RestFacts DEF LinkerInv
<1>2. PICK x \in Objects : x = stack[m + 1].so  BY RestFacts
<1>3. PICK p : p = m + 1 /\ p - 1 = m  OBVIOUS
<1>4. /\ m # 0 /\ stack[m].next - 1 \in DOMAIN Needs(m)
      /\ x \in so[stack[m].so].deps /\ Matches(x, Needs(m)[stack[m].next - 1])
  <2>1. FrameFits(p) /\ stack[p].caller = "needed" /\ stack[p].so = x  BY <1>1, <1>2, <1>3
  <2> QED  BY <2>1, <1>3 DEF FrameFits
<1>5. KeepsCalls(m)  BY <1>1 DEF KeepsCalls
<1>6. so' \in Seq(Obj) /\ Len(so') = Len(so)  BY <1>1, <1>2, FinishedFacts
<1>7. Finished(so', x)  BY <1>1, <1>2, FinishedFacts DEF Finished, LinkTypes
<1>8. Grown  BY <1>6, <1>7 DEF Grown, Finished
<1>9. stack \in Seq(Frame) /\ m \in DOMAIN stack /\ stack[m].so \in Objects /\ m \in 0..Len(stack)
  BY <1>1, <1>4 DEF LinkTypes
<1>10. ASSUME NEW k \in Nat, Past(m, k)' PROVE NeedMet(m, k)'
  <2>1. /\ Needs(m)' = Needs(m)
        /\ k \in DOMAIN Needs(m) /\ NeedMet(m, k) => NeedMet(m, k)'
    BY <1>4, <1>5, <1>6, <1>8, <1>9, <1>1, CallsKept
  <2>2. k \in DOMAIN Needs(m) /\ k < stack[m].next /\ stack'[m] = stack[m]
    BY <2>1, <1>1, <1>4, <1>10 DEF Past
  <2>3. CASE k = stack[m].next - 1
    <3>1. Matches(x, Needs(m)[k])'
      BY <2>1, <2>3, <1>4, <1>7 DEF Matches, Finished
    <3>2. x \in so'[stack'[m].so].deps /\ so'[x].done  BY <2>2, <1>4, <1>7, <1>9 DEF Finished
    <3> QED  BY <3>1, <3>2 DEF NeedMet
  <2>4. CASE k # stack[m].next - 1
    <3>1. Past(m, k)  BY <2>2, <2>4 DEF Past
    <3>2. NeedMet(m, k)  BY <3>1, <1>9 DEF LinkerInv, NeedsMet
    <3> QED  BY <3>2, <2>1, <2>2
  <2> QED  BY <2>3, <2>4
<1>11. handles' \in [1..MaxMaps -> Nat] /\ opened' \in {"none", "handle", "null"}
  BY <1>1 DEF LinkTypes
<1>12. ASSUME NEW z \in Objects
       PROVE  handles'[z] + One(Opening(z)') <= handles[z] + One(Opening(z))
  <2>1. Opening(z)' => Opening(z)
    <3>1. DOMAIN stack = 1..(m + 1) /\ DOMAIN stack' = 1..m  BY <1>1, <1>9
    <3>2. \A i \in 1..m : i \in 1..(m + 1)  OBVIOUS
    <3> QED  BY <3>1, <3>2, <1>1 DEF Opening
  <2>2. One(Opening(z)') <= One(Opening(z)) /\ One(Opening(z)') \in Nat /\ One(Opening(z)) \in Nat
    BY <2>1 DEF One
  <2>3. handles[z] \in Nat
    <3>1. z \in 1..MaxMaps  BY <1>1, ObjectFields, LinkerAssumption DEF LinkTypes
    <3> QED  BY <3>1, <1>1 DEF LinkTypes
  <2> QED  BY <2>2, <2>3
<1> QED  BY <1>1, <1>2, <1>5, <1>6, <1>7, <1>10, <1>11, <1>12, CallReturned

LEMMA FinishedBound ==
  ASSUME LinkTypes, NEW x \in Objects, NEW c \in Objects, NEW s \in Syms, NEW v \in SlotValues
  PROVE  LET u == Bind([so EXCEPT ![x].done = TRUE], c, s, v) IN
         u \in Seq(Obj) /\ Len(u) = Len(so) /\ Finished(u, x)
<1>1. PICK objs : objs = [so EXCEPT ![x].done = TRUE]  OBVIOUS
<1>2. /\ objs \in Seq(Obj) /\ Len(objs) = Len(so)
      /\ \A z \in Objects :
           /\ objs[z].file = so[z].file /\ objs[z].linked = so[z].linked /\ objs[z].lazy = so[z].lazy
           /\ objs[z].deps = so[z].deps /\ objs[z].slots = so[z].slots
           /\ objs[z].refcount = so[z].refcount
           /\ objs[z].done <=> so[z].done \/ z = x
  BY <1>1, FinishedFacts
<1>3. Objects = 1..Len(so) /\ c \in 1..Len(objs) /\ v \in AnySlot
  BY <1>2, ObjectFields, SlotsTyped
<1>4. PICK u : u = Bind(objs, c, s, v)  OBVIOUS
<1>5. /\ u \in Seq(Obj) /\ Len(u) = Len(objs) /\ \A y \in 1..Len(objs) : y # c => u[y] = objs[y]
      /\ u[c].file = objs[c].file /\ u[c].refcount = objs[c].refcount
  <2>1. u \in Seq(Obj) /\ Len(u) = Len(objs)  BY <1>2, <1>3, <1>4, BindFacts
  <2>2. \A y \in 1..Len(objs) : y # c => u[y] = objs[y]  BY <1>2, <1>3, <1>4, BindFacts
  <2>3. u[c].file = objs[c].file /\ u[c].refcount = objs[c].refcount
    BY <1>2, <1>3, <1>4, BindFacts
  <2> QED  BY <2>1, <2>2, <2>3
<1>6. u[c].linked = objs[c].linked /\ u[c].done = objs[c].done /\ u[c].lazy = objs[c].lazy
  BY <1>2, <1>3, <1>4, BindFacts
<1>7. u[c].deps = objs[c].deps /\ \A z \in Syms : u[c].slots[z] \in {v, objs[c].slots[z]}
  BY <1>2, <1>3, <1>4, BindFacts
<1>8. ASSUME NEW z \in Objects
      PROVE  /\ u[z].file = so[z].file /\ u[z].refcount = so[z].refcount
             /\ u[z].linked = so[z].linked /\ u[z].lazy = so[z].lazy
             /\ u[z].deps = so[z].deps /\ (u[z].done <=> so[z].done \/ z = x)
             /\ \A sym \in Syms : u[z].slots[sym] \in SlotValues
  <2>1. \A sym \in Syms : so[z].slots[sym] \in SlotValues  BY DEF LinkTypes
  <2>2. CASE z = c
    <3>1. objs[z].slots = so[z].slots  BY <1>2
    <3>2. ASSUME NEW sym \in Syms PROVE u[z].slots[sym] \in SlotValues
      <4>1. u[z].slots[sym] = v \/ u[z].slots[sym] = so[z].slots[sym]  BY <2>2, <3>1, <1>7
      <4> QED  BY <4>1, <2>1
    <3> QED  BY <3>2, <2>2, <1>2, <1>5, <1>6, <1>7
  <2>3. CASE z # c
    <3>1. u[z] = objs[z]  BY <2>3, <1>2, <1>3, <1>5
    <3>2. objs[z].slots = so[z].slots  BY <1>2
    <3>3. \A sym \in Syms : u[z].slots[sym] \in SlotValues  BY <3>1, <3>2, <2>1
    <3> QED  BY <3>1, <3>3, <1>2
  <2> QED  BY <2>2, <2>3
<1>9. Finished(u, x)  BY <1>8 DEF Finished
<1> QED  BY <1>1, <1>2, <1>4, <1>5, <1>9

\* resolve_symbol goes on with the relocation it opened a library for.
LEMMA ReturnedToSymbol ==
  ASSUME LinkerInv, SameData, NEW m \in Nat, m + 1 = Len(stack), Top.caller = "lazy",
         NEW rest, rest = SubSeq(stack, 1, m), NEW wanted, wanted = WorkOf(rest[m])[rest[m].next].arg,
         so' = Bind([so EXCEPT ![Top.so].done = TRUE], rest[m].so, wanted, Search(wanted)),
         stack' = Advance(rest),
         UNCHANGED <<handles, opened, index, built, error>>
  PROVE  LinkerInv'
<1>1. /\ LinkTypes /\ rest \in Seq(Frame) /\ Len(rest) = m
      /\ \A i \in 1..m : rest[i] = stack[i]
      /\ \A i \in 1..m : stack[i].next <= Len(WorkOf(stack[i])) + 1
      /\ stack[m + 1] \in Frame /\ FrameFits(m + 1) /\ Top = stack[m + 1]
  BY RestFacts DEF LinkerInv
<1>2. PICK x \in Objects : x = stack[m + 1].so  BY RestFacts
<1>3. PICK p : p = m + 1 /\ p - 1 = m  BY SMTT(30)
<1>4. /\ m # 0 /\ stack[m].next > Len(Needs(m))
      /\ stack[m].next <= Len(WorkOf(stack[m])) /\ stack[p].caller = "lazy"
  <2>1. FrameFits(p) /\ stack[p].caller = "lazy"  BY <1>1, <1>2, <1>3
  <2> QED  BY SMTT(30), <2>1, <1>3 DEF FrameFits
<1>5. /\ stack \in Seq(Frame) /\ m \in DOMAIN stack /\ m \in 1..m /\ stack[m] \in Frame
      /\ rest[m] = stack[m] /\ m \in 0..Len(stack) /\ DOMAIN stack = 1..(m + 1)
  BY SMTT(30), <1>1, <1>4 DEF LinkTypes
<1>6. PICK c \in Objects : c = stack[m].so  BY <1>1, <1>5 DEF LinkTypes
<1>7. wanted \in Syms
  <2>1. so[c].file \in Files  BY <1>1, ObjectFields
  <2>2. stack[m].next \in Nat  BY <1>5 DEF Frame
  <2>3. Needs(m) = disk[so[c].file].needed /\ WorkOf(stack[m]) = Work(so[c].file)
    BY <1>6 DEF Needs, WorkOf
  <2>4. /\ disk[so[c].file].needed \in Seq(Names) /\ Len(Work(so[c].file)) \in Nat
        /\ \A i \in (Len(disk[so[c].file].needed) + 1)..Len(Work(so[c].file)) :
              Work(so[c].file)[i].arg \in Syms
    BY <1>1, <2>1, WorkFacts
  <2>5. stack[m].next \in (Len(disk[so[c].file].needed) + 1)..Len(Work(so[c].file))
    BY SMTT(30), <2>2, <2>3, <2>4, <1>4
  <2> QED  BY <2>3, <2>4, <2>5, <1>5
<1>8. PICK v \in SlotValues : v = Search(wanted)  BY <1>1, <1>7, SearchFacts
<1>10. /\ so' \in Seq(Obj) /\ Len(so') = Len(so) /\ Finished(so', x)
  <2>1. PICK u : u = Bind([so EXCEPT ![x].done = TRUE], c, wanted, v)  OBVIOUS
  <2>2. u \in Seq(Obj) /\ Len(u) = Len(so) /\ Finished(u, x)
    BY <2>1, <1>1, <1>7, FinishedBound
  <2>3. so' = u  BY <2>1, <1>1, <1>2, <1>5, <1>6, <1>8
  <2> QED  BY <2>2, <2>3
<1>16. /\ stack' \in Seq(Frame) /\ Len(stack') = m
       /\ \A i \in 1..(m - 1) : stack'[i] = stack[i]
       /\ stack'[m].so = stack[m].so /\ stack'[m].caller = stack[m].caller
       /\ stack'[m].next = stack[m].next + 1
  <2>1. rest # <<>>  BY <1>1, <1>4
  <2>2. /\ Advance(rest) \in Seq(Frame) /\ Len(Advance(rest)) = m
        /\ \A i \in 1..(m - 1) : Advance(rest)[i] = rest[i]
        /\ Advance(rest)[m].so = rest[m].so /\ Advance(rest)[m].caller = rest[m].caller
        /\ Advance(rest)[m].next = rest[m].next + 1
    BY <2>1, <1>1, AdvanceFacts
  <2>3. \A i \in 1..(m - 1) : i \in 1..m  OBVIOUS
  <2>4. stack' = Advance(rest)  OBVIOUS
  <2> QED  BY <2>2, <2>3, <2>4, <1>1, <1>5
<1>17. KeepsCalls(m)
  <2>1. stack[m].next \in Nat  BY <1>5 DEF Frame
  <2>2. Len(WorkOf(stack[m])) \in Nat
    <3>1. so[c].file \in Files  BY <1>1, ObjectFields
    <3> QED  BY <3>1, <1>1, <1>6, WorkFacts DEF WorkOf
  <2>3. stack'[m].next <= Len(WorkOf(stack[m])) + 1  BY SMTT(30), <2>1, <2>2, <1>4, <1>16
  <2>4. \A i \in 1..m : i \in 1..(m - 1) \/ i = m  BY SMTT(30)
  <2>5. \A i \in 1..m : /\ stack'[i].so = stack[i].so /\ stack'[i].caller = stack[i].caller
                        /\ stack'[i].next <= Len(WorkOf(stack[i])) + 1
    BY <2>3, <2>4, <1>1, <1>16
  <2> QED  BY SMTT(30), <2>5, <1>16 DEF KeepsCalls
<1>18. Grown  BY <1>1, <1>10, FinishedGrown DEF LinkTypes
<1>19. ASSUME NEW k \in Nat, Past(m, k)' PROVE NeedMet(m, k)'
  <2>1. /\ Needs(m)' = Needs(m)
        /\ k \in DOMAIN Needs(m) /\ NeedMet(m, k) => NeedMet(m, k)'
    BY <1>5, <1>10, <1>16, <1>17, <1>18, CallsKept
  <2>2. k \in DOMAIN Needs(m)  BY <2>1, <1>19 DEF Past
  <2>3. k < stack[m].next
    <3>1. Needs(m) \in Seq(Names)
      <4>1. so[c].file \in Files  BY <1>1, ObjectFields
      <4>2. disk[so[c].file].needed \in Seq(Names)  BY <4>1, <1>1, WorkFacts
      <4> QED  BY <4>2, <1>6 DEF Needs
    <3>2. stack[m].next \in Nat  BY <1>5 DEF Frame
    <3> QED  BY SMTT(30), <3>1, <3>2, <2>2, <1>4
  <2>4. Past(m, k)  BY <2>2, <2>3, <1>3, <1>4 DEF Past
  <2>5. NeedMet(m, k)  BY <2>4, <1>5 DEF LinkerInv, NeedsMet
  <2> QED  BY <2>1, <2>2, <2>5
<1>20. handles' \in [1..MaxMaps -> Nat] /\ opened' \in {"none", "handle", "null"}
  BY <1>1 DEF LinkTypes
<1>21. ASSUME NEW z \in Objects
       PROVE  handles'[z] + One(Opening(z)') <= handles[z] + One(Opening(z))
  <2>1. Opening(z)' => Opening(z)
    <3>1. DOMAIN stack' = 1..m /\ \A i \in 1..m : i \in DOMAIN stack  BY <1>5, <1>16
    <3>2. \A i \in 1..m : stack'[i].so = stack[i].so /\ stack'[i].caller = stack[i].caller
      BY <1>17 DEF KeepsCalls
    <3> QED  BY <3>1, <3>2 DEF Opening
  <2>2. One(Opening(z)') <= One(Opening(z)) /\ One(Opening(z)') \in Nat /\ One(Opening(z)) \in Nat
    BY SMTT(30), <2>1 DEF One
  <2>3. handles[z] \in Nat
    <3>1. z \in 1..MaxMaps  BY SMTT(30), <1>1, ObjectFields, LinkerAssumption DEF LinkTypes
    <3> QED  BY <3>1, <1>1 DEF LinkTypes
  <2> QED  BY SMTT(30), <2>2, <2>3
<1> QED  BY <1>2, <1>10, <1>16, <1>17, <1>19, <1>20, <1>21, CallReturned

-----------------------------------------------------------------------------
(* Every step.                                                              *)

LEMMA DlopenKeeps ==
  ASSUME LinkerInv, stack = <<>>, NEW f \in Files, Dlopen(f)
  PROVE  LinkerInv'
<1> DEFINE same == {x \in Linked : so[x].file = f}
<1>1. LinkTypes  BY DEF LinkerInv
<1>2. same \in SUBSET (1..Len(so)) /\ Len(so) \in Nat
  BY <1>1, ObjectFields DEF Linked
<1>3. UNCHANGED <<disk, libPath, index, built>>  BY DEF Dlopen
<1>4. CASE /\ same # {}
           /\ so' = AddRef(Newest(same))
           /\ handles' = [handles EXCEPT ![Newest(same)] = @ + 1]
           /\ opened' = "handle"
           /\ UNCHANGED <<stack, error>>
  <2>1. Newest(same) \in same  BY <1>2, <1>4, NewestIsMember
  <2>2. PICK x \in Linked : x = Newest(same)  BY <2>1
  <2> HIDE DEF same
  <2>3. so' = AddRef(x) /\ handles' = [handles EXCEPT ![x] = @ + 1] /\ opened' = "handle"
    BY <1>4, <2>2
  <2> QED  BY <2>3, <1>3, <1>4, OpenedAgain
<1>5. CASE /\ same = {} /\ disk[f].state # "good"
           /\ opened' = "null" /\ error' = TRUE
           /\ UNCHANGED <<so, stack, handles>>
  <2>1. libPath' \in LibPaths  BY <1>1, <1>3 DEF LinkTypes
  <2> HIDE DEF same
  <2> QED  BY <2>1, <1>3, <1>5, NothingLoaded
<1>6. CASE /\ same = {} /\ disk[f].state = "good"
           /\ Map(f, "user", so, stack)
           /\ opened' = "none"
           /\ UNCHANGED <<handles, error>>
  <2>1. PICK m \in Nat : m = Len(stack) /\ m = 0  OBVIOUS
  <2> QED  BY <2>1, <1>3, <1>6, OpenedNew
<1> QED  BY <1>4, <1>5, <1>6 DEF Dlopen

LEMMA LoadNeededKeeps ==
  ASSUME LinkerInv, LoadNeeded
  PROVE  LinkerInv'
<1> DEFINE same == {x \in Linked : BaseName[so[x].file] = Arg}
           path == FindNeeded(Arg)
<1>1. LinkTypes /\ Pending("need") /\ SameData /\ UNCHANGED <<index, built, handles, opened>>
  BY DEF LinkerInv, LoadNeeded, SameData
<1>2. stack # <<>> /\ error \in BOOLEAN  BY <1>1 DEF Pending, LinkTypes
<1>3. Arg \in Names  BY <1>1, <1>2, TopFacts
<1>4. same \in SUBSET (1..Len(so)) /\ Len(so) \in Nat
  BY <1>1, ObjectFields DEF Linked
<1>5. CASE /\ same # {}
           /\ so' = Depend(Top.so, Newest(same))
           /\ stack' = Advance(stack)
           /\ error' = error
  <2>1. Newest(same) \in same  BY <1>4, <1>5, NewestIsMember
  <2>2. PICK y \in Linked : y = Newest(same) /\ BaseName[so[y].file] = Arg  BY <2>1
  <2> HIDE DEF same
  <2>3. so' = Depend(Top.so, y)  BY <1>5, <2>2
  <2> QED  BY <2>2, <2>3, <1>1, <1>5, NeedFound
<1>6. CASE /\ same = {} /\ path = None
           /\ stack' = Advance(stack)
           /\ UNCHANGED <<so, error>>
  <2>1. ~Loadable(FindNeeded(Arg))  BY <1>6 DEF Loadable
  <2> QED  BY <2>1, <1>1, <1>2, <1>6, NeedSkipped
<1>7. CASE /\ same = {} /\ path # None
           /\ disk[path.file].state # "good"
           /\ stack' = Advance(stack) /\ error' = TRUE
           /\ UNCHANGED so
  <2>1. ~Loadable(FindNeeded(Arg))  BY <1>7 DEF Loadable
  <2> QED  BY <2>1, <1>1, <1>2, <1>7, NeedSkipped
<1>8. CASE /\ same = {} /\ path # None
           /\ disk[path.file].state = "good"
           /\ Map(path.file, "needed",
                  [so EXCEPT ![Top.so].deps = @ \cup {Len(so) + 1}], Advance(stack))
           /\ error' = error
  <2>1. PICK f \in Files : FindNeeded(Arg) = File(f)  BY <1>1, <1>3, <1>8, FoundNeeded
  <2>2. path.file = f  BY <2>1 DEF File
  <2>3. Map(f, "needed", [so EXCEPT ![Top.so].deps = @ \cup {Len(so) + 1}], Advance(stack))
    BY <2>2, <1>8
  <2> QED  BY <2>1, <2>3, <1>1, <1>8, NeedMaps
<1> QED  BY <1>5, <1>6, <1>7, <1>8 DEF LoadNeeded

LEMMA RelocateKeeps ==
  ASSUME LinkerInv, Relocate
  PROVE  LinkerInv'
<1> DEFINE idx == IF built THEN index ELSE BuiltIndex
           miss == Arg \notin HostSyms /\ Exporters(Arg) = {}
<1>1. LinkTypes /\ Pending("rela") /\ SameData /\ UNCHANGED <<handles, opened>>
  BY DEF LinkerInv, Relocate, SameData
<1>2. stack # <<>> /\ error \in BOOLEAN /\ built \in BOOLEAN  BY <1>1 DEF Pending, LinkTypes
<1>3. Arg \in Syms  BY <1>1, <1>2, TopFacts
<1>4. /\ idx \in [Syms -> {None} \cup {File(f) : f \in Files}]
      /\ \A s \in Syms, f \in Files : idx[s] = File(f) => s \in disk[f].exports
  <2>1. CASE built  BY <2>1, <1>1 DEF LinkTypes, LinkerInv, IndexTrue
  <2>2. CASE ~built  BY <2>2, <1>1, BuiltIndexTrue
  <2> QED  BY <2>1, <2>2
<1> HIDE DEF idx
<1>5. index' = idx => /\ index' \in [Syms -> {None} \cup {File(f) : f \in Files}]
                      /\ IndexTrue'
  BY <1>1, <1>4 DEF IndexTrue, SameData
<1>6. Zero \in SlotValues /\ Host \in SlotValues  BY DEF SlotValues
<1>7. CASE /\ ~miss
           /\ so' = Bind(so, Top.so, Arg, IF Arg \in HostSyms THEN Host ELSE Search(Arg))
           /\ stack' = Advance(stack)
           /\ UNCHANGED <<index, built, error>>
  <2>1. PICK v \in SlotValues : v = IF Arg \in HostSyms THEN Host ELSE Search(Arg)
    BY <1>1, <1>3, <1>6, SearchFacts
  <2>2. so' = Bind(so, Top.so, Arg, v)  BY <2>1, <1>7
  <2>3. index' \in [Syms -> {None} \cup {File(f) : f \in Files}] /\ IndexTrue' /\ built' \in BOOLEAN
    BY <1>1, <1>7 DEF LinkTypes, LinkerInv, IndexTrue, SameData
  <2> QED  BY <2>2, <2>3, <1>1, <1>2, <1>7, Bound
<1>8. CASE /\ miss /\ idx[Arg] = None
           /\ so' = Bind(so, Top.so, Arg, Zero)
           /\ stack' = Advance(stack)
           /\ index' = idx /\ built' = TRUE
           /\ UNCHANGED error
  BY <1>1, <1>2, <1>5, <1>6, <1>8, Bound
<1>9. CASE /\ miss /\ idx[Arg] # None
           /\ disk[idx[Arg].file].state # "good"
           /\ so' = Bind(so, Top.so, Arg, Zero)
           /\ stack' = Advance(stack)
           /\ index' = idx /\ built' = TRUE /\ error' = TRUE
  BY <1>1, <1>2, <1>5, <1>6, <1>9, Bound
<1>10. CASE /\ miss /\ idx[Arg] # None
            /\ disk[idx[Arg].file].state = "good"
            /\ Map(idx[Arg].file, "lazy", so, stack)
            /\ index' = idx /\ built' = TRUE
            /\ UNCHANGED error
  <2>1. PICK f \in Files : idx[Arg] = File(f)  BY <1>3, <1>4, <1>10
  <2>2. idx[Arg].file = f  BY <2>1 DEF File
  <2>3. Arg \in disk[f].exports  BY <2>1, <1>3, <1>4
  <2>4. Map(f, "lazy", so, stack)  BY <2>2, <1>10
  <2> QED  BY <2>3, <2>4, <1>1, <1>5, <1>10, LazyMapped
<1> QED  BY <1>7, <1>8, <1>9, <1>10 DEF Relocate, idx

LEMMA ReturnKeeps ==
  ASSUME LinkerInv, Return
  PROVE  LinkerInv'
<1>1. LinkTypes /\ stack # <<>> /\ SameData /\ UNCHANGED <<index, built, error>>
  BY DEF LinkerInv, Return, SameData
<1>2. PICK m \in Nat : m = Len(stack) - 1 /\ m + 1 = Len(stack)  BY <1>1, TopFacts
<1>3. PICK rest : rest = SubSeq(stack, 1, m)  OBVIOUS
<1>4. Len(rest) = m  BY <1>2, <1>3, RestFacts
<1>5. PICK wanted : wanted = WorkOf(rest[m])[rest[m].next].arg  OBVIOUS
<1>6. \/ /\ Top.caller = "user"
         /\ so' = [so EXCEPT ![Top.so].done = TRUE] /\ stack' = SubSeq(stack, 1, m)
         /\ handles' = [handles EXCEPT ![Top.so] = @ + 1]
         /\ opened' = "handle"
      \/ /\ Top.caller = "needed"
         /\ so' = [so EXCEPT ![Top.so].done = TRUE] /\ stack' = SubSeq(stack, 1, m)
         /\ UNCHANGED <<handles, opened>>
      \/ /\ Top.caller = "lazy"
         /\ so' = Bind([so EXCEPT ![Top.so].done = TRUE], rest[m].so, wanted, Search(wanted))
         /\ stack' = Advance(rest)
         /\ UNCHANGED <<handles, opened>>
  BY <1>2, <1>3, <1>4, <1>5 DEF Return
<1>7. CASE /\ Top.caller = "user"
           /\ so' = [so EXCEPT ![Top.so].done = TRUE] /\ stack' = SubSeq(stack, 1, m)
           /\ handles' = [handles EXCEPT ![Top.so] = @ + 1]
           /\ opened' = "handle"
  BY <1>1, <1>2, <1>7, ReturnedToUser
<1>8. CASE /\ Top.caller = "needed"
           /\ so' = [so EXCEPT ![Top.so].done = TRUE] /\ stack' = SubSeq(stack, 1, m)
           /\ UNCHANGED <<handles, opened>>
  BY <1>1, <1>2, <1>8, ReturnedToNeeded
<1>9. CASE /\ Top.caller = "lazy"
           /\ so' = Bind([so EXCEPT ![Top.so].done = TRUE], rest[m].so, wanted, Search(wanted))
           /\ stack' = Advance(rest)
           /\ UNCHANGED <<handles, opened>>
  BY <1>1, <1>2, <1>3, <1>5, <1>9, ReturnedToSymbol
<1> QED  BY <1>6, <1>7, <1>8, <1>9

LEMMA InitLinker == Init => LinkerInv
<1> SUFFICES ASSUME Init PROVE LinkerInv  OBVIOUS
<1>1. Objects = {} /\ DOMAIN stack = {} /\ Len(so) = 0  BY DEF Init, Objects
<1>2. \A s \in Syms : index[s] = None  BY DEF Init
<1>3. \A f \in Files : None # File(f)  BY DEF None, File
<1>4. LinkTypes
  <2>1. disk \in [Files -> FileRecords] /\ libPath \in LibPaths  BY LinkerAssumption DEF Init
  <2>2. index \in [Syms -> {None} \cup {File(f) : f \in Files}] /\ built \in BOOLEAN  BY DEF Init
  <2>3. so \in Seq(Obj) /\ Len(so) <= MaxMaps /\ stack \in Seq(Frame)
    BY <1>1, LinkerAssumption DEF Init
  <2>4. handles \in [1..MaxMaps -> Nat]  BY DEF Init
  <2>5. opened \in {"none", "handle", "null"} /\ error \in BOOLEAN  BY DEF Init
  <2> QED  BY <1>1, <2>1, <2>2, <2>3, <2>4, <2>5 DEF LinkTypes
<1>5. Counted  BY <1>1 DEF Counted, Init
<1>6. IndexTrue  BY <1>2, <1>3 DEF IndexTrue
<1>7. StackShape /\ DoneOrLoading /\ NeedsMet  BY <1>1 DEF StackShape, DoneOrLoading, NeedsMet
<1>8. FilesMappedOnce  BY <1>1 DEF FilesMappedOnce, Mapped
<1> QED  BY <1>4, <1>5, <1>6, <1>7, <1>8 DEF LinkerInv

LEMMA NextLinker == LinkerInv /\ [Next]_vars => LinkerInv'
<1> SUFFICES ASSUME LinkerInv, [Next]_vars PROVE LinkerInv'  OBVIOUS
<1>1. /\ libPath \in LibPaths /\ opened \in {"none", "handle", "null"} /\ error \in BOOLEAN
  BY DEF LinkerInv, LinkTypes
<1>2. ASSUME NEW f \in Files, OpenPath(f) PROVE LinkerInv'
  BY <1>2, DlopenKeeps DEF OpenPath, MayOpen, Idle
<1>3. ASSUME NEW n \in Names, OpenName(n) PROVE LinkerInv'
  <2>1. stack = <<>>  BY <1>3 DEF OpenName, MayOpen, Idle
  <2>2. CASE \E f \in Files : FindInPath(n) = File(f) /\ Dlopen(f)
    BY <2>1, <2>2, DlopenKeeps
  <2>3. CASE /\ FindInPath(n) = None
             /\ opened' = "null" /\ error' = TRUE
             /\ UNCHANGED <<disk, libPath, index, built, so, stack, handles>>
    BY <2>3, <1>1, NothingLoaded
  <2> QED  BY <1>3, <2>2, <2>3 DEF OpenName
<1>4. ASSUME LoadNeeded PROVE LinkerInv'  BY <1>4, LoadNeededKeeps
<1>5. ASSUME Relocate PROVE LinkerInv'  BY <1>5, RelocateKeeps
<1>6. ASSUME Return PROVE LinkerInv'  BY <1>6, ReturnKeeps
<1>7. ASSUME NEW x \in Objects, Dlclose(x) PROVE LinkerInv'  BY <1>7, Closed
<1>8. ASSUME Dlerror PROVE LinkerInv'
  BY <1>8, <1>1, NothingLoaded DEF Dlerror
<1>9. ASSUME NEW p \in LibPaths, SetLibPath(p) PROVE LinkerInv'
  <2>1. /\ stack = <<>> /\ libPath' \in LibPaths
        /\ UNCHANGED <<disk, index, built, so, stack, handles, opened, error>>
    BY <1>9 DEF SetLibPath, Idle
  <2> QED  BY <2>1, <1>1, NothingLoaded
<1>10. ASSUME UNCHANGED vars PROVE LinkerInv'
  <2>1. UNCHANGED <<disk, libPath, index, built, so, stack, handles, opened, error>>
    BY <1>10 DEF vars
  <2> QED  BY <2>1, <1>1, NothingLoaded
<1> QED  BY <1>2, <1>3, <1>4, <1>5, <1>6, <1>7, <1>8, <1>9, <1>10 DEF Next, Step, Overrun

LEMMA LinkerInvariant == Spec => []LinkerInv
BY InitLinker, NextLinker, PTL DEF Spec

-----------------------------------------------------------------------------
(* The theorems.                                                            *)

\* The loader keeps its types: indices of objects, calls and slots stay within
\* the objects there are (the g_loaded list, the deps arrays, the GOTs).
THEOREM LoaderTypes == Spec => []TypeOK
<1>1. LinkerInv => TypeOK
  <2> SUFFICES ASSUME LinkerInv PROVE TypeOK  OBVIOUS
  <2>1. LinkTypes /\ so \in Seq(Obj) /\ stack \in Seq(Frame)  BY DEF LinkerInv, LinkTypes
  <2> DEFINE Typed == [file : Files, refcount : Nat, linked : BOOLEAN, done : BOOLEAN,
                       lazy : BOOLEAN, deps : SUBSET Objects, slots : [Syms -> SlotValues]]
             Called == [so : Objects, caller : {"user", "needed", "lazy"}, next : Nat \ {0}]
  <2>2. ASSUME NEW x \in 1..Len(so) PROVE so[x] \in Typed
    <3>1. so[x] \in Obj /\ x \in Objects  BY <2>1 DEF Objects
    <3>2. so[x].deps \in SUBSET Objects /\ \A s \in Syms : so[x].slots[s] \in SlotValues
      BY <2>1, <3>1 DEF LinkTypes
    <3>3. so[x].slots \in [Syms -> SlotValues]  BY <3>1, <3>2 DEF Obj
    <3> QED  BY <3>1, <3>2, <3>3 DEF Obj
  <2>3. ASSUME NEW i \in 1..Len(stack) PROVE stack[i] \in Called
    <3>1. stack[i] \in Frame /\ stack[i].so \in Objects  BY <2>1 DEF LinkTypes
    <3> QED  BY <3>1 DEF Frame, Callers
  <2> HIDE DEF Typed, Called
  <2>4. so \in Seq(Typed)  BY <2>1, <2>2, SeqDef
  <2>5. stack \in Seq(Called)  BY <2>1, <2>3, SeqDef
  <2> QED  BY <2>1, <2>4, <2>5 DEF TypeOK, LinkTypes, Typed, Called
<1> QED  BY <1>1, LinkerInvariant, PTL

\* Whatever libraries need and import, in cycles too, bionic_dlopen, load_needed
\* and resolve_symbol never map a file that is mapped, but through a versioned need.
THEOREM OneObjectPerFile == Spec => []FilesMappedOnce
<1>1. LinkerInv => FilesMappedOnce  BY DEF LinkerInv
<1> QED  BY <1>1, LinkerInvariant, PTL

\* bionic_dlclose never unmaps an object the program holds, another object needs
\* or a relocation opened: each of them is counted in refcount.
THEOREM NothingInUseIsUnmapped == Spec => []UsersStayMapped
<1>1. LinkerInv => UsersStayMapped
  <2> SUFFICES ASSUME LinkerInv, NEW x \in Objects,
                      handles[x] > 0 \/ so[x].lazy \/ \E y \in Mapped : x \in so[y].deps
               PROVE  x \in Mapped
    BY DEF UsersStayMapped
  <2>1. /\ so[x].refcount >= handles[x] + One(Opening(x)) + One(so[x].lazy \/ Needed(x))
        /\ so[x].refcount \in Nat /\ handles[x] \in Nat
    <3>1. LinkTypes  BY DEF LinkerInv
    <3>2. x \in 1..MaxMaps  BY <3>1, ObjectFields, LinkerAssumption DEF LinkTypes
    <3> QED  BY <3>1, <3>2, ObjectFields DEF LinkerInv, Counted, LinkTypes
  <2>2. handles[x] > 0 \/ so[x].lazy \/ Needed(x)  BY DEF Needed, Mapped
  <2> QED  BY <2>1, <2>2 DEF One, Mapped
<1> QED  BY <1>1, LinkerInvariant, PTL

\* A symbol reference is the only use that keeps nothing mapped: a slot dangles
\* only into an object that the program opened and that nothing needs.
THEOREM OnlySymbolsDangle == Spec => []DanglingOnlyIfOpened
<1>1. LinkerInv => DanglingOnlyIfOpened
  <2> SUFFICES ASSUME LinkerInv, NEW z \in Objects \ Mapped
               PROVE  ~so[z].lazy /\ \A y \in Objects : z \notin so[y].deps
    BY DEF DanglingOnlyIfOpened
  <2>1. /\ so[z].refcount >= handles[z] + One(Opening(z)) + One(so[z].lazy \/ Needed(z))
        /\ so[z].refcount \in Nat /\ handles[z] \in Nat
    <3>1. LinkTypes  BY DEF LinkerInv
    <3>2. z \in 1..MaxMaps  BY <3>1, ObjectFields, LinkerAssumption DEF LinkTypes
    <3> QED  BY <3>1, <3>2, ObjectFields DEF LinkerInv, Counted, LinkTypes
  <2>2. ~(so[z].refcount > 0)  BY DEF Mapped
  <2>3. ~(so[z].lazy \/ Needed(z))  BY <2>1, <2>2 DEF One
  <2> QED  BY <2>3 DEF Needed
<1> QED  BY <1>1, LinkerInvariant, PTL

\* apply_relocations runs only when every need of the object that can be loaded
\* is loaded, or further out on the same call stack.
THEOREM RelocationsWaitForNeeds == Spec => []NeedsComeFirst
<1>1. LinkerInv => NeedsComeFirst
  <2> SUFFICES ASSUME LinkerInv PROVE NeedsComeFirst  OBVIOUS
  <2>1. stack \in Seq(Frame) /\ LinkTypes  BY DEF LinkerInv, LinkTypes
  <2> SUFFICES ASSUME NEW i \in DOMAIN stack, stack[i].next > Len(Needs(i)),
                      i = Len(stack) \/ stack[i + 1].caller = "lazy",
                      NEW k \in DOMAIN Needs(i), Loadable(FindNeeded(Needs(i)[k]))
               PROVE  \E y \in so[stack[i].so].deps :
                         /\ BaseName[so[y].file] \in {Needs(i)[k], Clean[Needs(i)[k]]}
                         /\ so[y].done \/ \E j \in 1..i : stack[j].so = y
    BY DEF NeedsComeFirst, Needs
  <2>2. Needs(i) \in Seq(Names)
    <3>1. so[stack[i].so].file \in Files  BY <2>1, ObjectFields DEF LinkTypes
    <3> QED  BY <2>1, <3>1, WorkFacts DEF Needs
  <2>3. stack[i].next \in Nat
    <3>1. stack[i] \in Frame  BY <2>1
    <3> QED  BY <3>1 DEF Frame
  <2>4. k \in Nat /\ k < stack[i].next  BY <2>2, <2>3
  <2>5. Past(i, k)  BY <2>1, <2>4 DEF Past
  <2>6. NeedMet(i, k)  BY <2>4, <2>5 DEF LinkerInv, NeedsMet
  <2> QED  BY <2>6 DEF NeedMet, Matches
<1> QED  BY <1>1, LinkerInvariant, PTL
=============================================================================
