----------------------------- MODULE NovaLinker -----------------------------
(* bionic-loader/bionic_loader.c: an ELF loader that opens Android shared   *)
(* libraries from a glibc process.  bionic_dlopen maps a file, links it at  *)
(* the head of the list of loaded objects, loads what it DT_NEEDs, and then *)
(* applies its relocations; each relocation that names a symbol searches    *)
(* the list and may, on a miss, open another library found through a global *)
(* symbol index.  load_needed and bionic_dlopen recurse through each other, *)
(* so a call is a stack of half-loaded objects.                             *)
(*                                                                          *)
(* Objects are numbered in the order they are mapped.  A new object always  *)
(* becomes g_loaded_head and unlinking keeps the order, so walking the list *)
(* is going through the linked objects from the highest number down.        *)
(* File contents are data: what a file needs, exports and imports, and      *)
(* whether it can be mapped.                                                *)
EXTENDS Integers, Sequences, FiniteSets

CONSTANTS
    Files,       \* the .so files on disk: numbers, in library search order
    Names,       \* DT_NEEDED names
    BaseName,    \* [Files -> Names]: the part of a path after the last '/'
    Clean,       \* [Names -> Names]: the name cut at its first '@'
    Syms,        \* symbol names, '@version' stripped
    HostSyms,    \* those glibc's libc or libm defines
    Disks,       \* the possible contents of the files
    LibPaths,    \* the sets of files g_lib_path can make visible
    MaxMaps,     \* bound: objects ever mapped
    MaxHandles   \* bound: handles the program holds at a time

FileRecords ==
    [state : {"good", "notelf", "nomap"},  \* nomap: an ELF file load_so_file refuses
     needed : Seq(Names), exports : SUBSET Syms,
     relative : BOOLEAN,                   \* DT_RELACOUNT > 0
     dyn : Seq(Syms), plt : Seq(Syms)]     \* symbols of .rela.dyn and .rela.plt

ASSUME LinkerAssumption ==
    /\ Files \subseteq Nat /\ IsFiniteSet(Files)
    /\ BaseName \in [Files -> Names]
    /\ Clean \in [Names -> Names]
    /\ HostSyms \subseteq Syms
    /\ Disks \subseteq [Files -> FileRecords]
    /\ LibPaths \subseteq SUBSET Files
    /\ MaxMaps \in Nat /\ MaxHandles \in Nat

None == [kind |-> "none"]            \* a GOT slot not yet relocated, a path not found
Zero == [kind |-> "zero"]            \* a slot zeroed because nothing defines the symbol
Host == [kind |-> "host"]            \* a slot bound into glibc
Addr(x) == [kind |-> "so", so |-> x] \* an address inside object x
File(f) == [kind |-> "file", file |-> f]

VARIABLES
    disk,     \* [Files -> FileRecords], never changes
    libPath,  \* the files g_lib_path makes visible
    index,    \* [Syms -> file]: g_sym_idx, all None until built
    built,    \* g_sym_idx_built
    so,       \* the bionic_so_t objects in mapping order
    stack,    \* active calls, innermost last: object, caller, next work item
    handles,  \* [object -> number of handles the program holds]
    opened,   \* what the last outermost bionic_dlopen returned
    error     \* g_error is not the empty string

vars == <<disk, libPath, index, built, so, stack, handles, opened, error>>

Objects == DOMAIN so
Mapped == {x \in Objects : so[x].refcount > 0}
Linked == {x \in Objects : so[x].linked}
Newest(S) == CHOOSE x \in S : \A y \in S : y <= x
First(S) == CHOOSE f \in S : \A g \in S : f <= g
Top == stack[Len(stack)]

(* find_in_path: the first visible file of that name. *)
InPath(n) == {f \in libPath : BaseName[f] = n}
FindInPath(n) == IF InPath(n) = {} THEN None ELSE File(First(InPath(n)))
(* load_needed retries with the name cut at '@' when the full name is absent. *)
FindNeeded(n) == IF InPath(n) # {} THEN FindInPath(n) ELSE FindInPath(Clean[n])

(* What is left to do once a file is mapped: its DT_NEEDED names in order,  *)
(* then apply_relocations.  With DT_RELACOUNT set only that many leading    *)
(* entries of .rela.dyn are applied, which are the ones without a symbol.   *)
Applied(f) == (IF disk[f].relative THEN <<>> ELSE disk[f].dyn) \o disk[f].plt
(* Mutant: relocations are applied before the needed libraries are loaded.  *)
RelocateFirst(f) ==
    [i \in 1..Len(Applied(f)) |-> [op |-> "rela", arg |-> Applied(f)[i]]]
    \o [i \in 1..Len(disk[f].needed) |-> [op |-> "need", arg |-> disk[f].needed[i]]]
Work(f) == [i \in 1..Len(disk[f].needed) |-> [op |-> "need", arg |-> disk[f].needed[i]]]
           \o [i \in 1..Len(Applied(f)) |-> [op |-> "rela", arg |-> Applied(f)[i]]]
WorkOf(frame) == Work(so[frame.so].file)
Pending(op) == stack # <<>> /\ Top.next <= Len(WorkOf(Top)) /\ WorkOf(Top)[Top.next].op = op
Arg == WorkOf(Top)[Top.next].arg

(* sym_lookup over the list: the newest linked object defining s. *)
Exporters(s) == {x \in Linked : s \in disk[so[x].file].exports}
Search(s) == IF Exporters(s) = {} THEN Zero ELSE Addr(Newest(Exporters(s)))

(* build_sym_index: every readable ELF file on the path, the first one wins. *)
Indexable(s) == {f \in libPath : disk[f].state # "notelf" /\ s \in disk[f].exports}
BuiltIndex == [s \in Syms |-> IF Indexable(s) = {} THEN None ELSE File(First(Indexable(s)))]

Advance(st) == [st EXCEPT ![Len(st)].next = @ + 1]
AddRef(x) == [so EXCEPT ![x].refcount = @ + 1]
(* Mutant: the object is linked into the list after it has been loaded.     *)
LinkedLate(f) == [file |-> f, refcount |-> 1, linked |-> FALSE, done |-> FALSE,
                  lazy |-> FALSE, deps |-> {}, slots |-> [s \in Syms |-> None]]
(* Mutant: the first reference is not counted.                              *)
UncountedObject(f) == [file |-> f, refcount |-> 0, linked |-> TRUE, done |-> FALSE,
                       lazy |-> FALSE, deps |-> {}, slots |-> [s \in Syms |-> None]]
NewObject(f) == [file |-> f, refcount |-> 1, linked |-> TRUE, done |-> FALSE,
                 lazy |-> FALSE, deps |-> {}, slots |-> [s \in Syms |-> None]]

Init ==
    /\ disk \in Disks
    /\ libPath \in LibPaths
    /\ index = [s \in Syms |-> None] /\ built = FALSE
    /\ so = <<>> /\ stack = <<>>
    /\ handles = [x \in 1..MaxMaps |-> 0]
    /\ opened = "none" /\ error = FALSE

-----------------------------------------------------------------------------
(* load_so_file succeeded: the object is linked at the head with one        *)
(* reference, and its work starts.  objs and st are the objects and the     *)
(* calls as the caller leaves them.                                         *)
Map(f, caller, objs, st) ==
    /\ Len(objs) < MaxMaps
    /\ so' = Append(objs, [NewObject(f) EXCEPT !.lazy = caller = "lazy"])
    /\ stack' = Append(st, [so |-> Len(objs) + 1, caller |-> caller, next |-> 1])

(* bionic_dlopen called by the program with a path that exists. *)
Dlopen(f) ==
    LET same == {x \in Linked : so[x].file = f} IN
    /\ \/ /\ same # {}
          /\ so' = AddRef(Newest(same))
          /\ handles' = [handles EXCEPT ![Newest(same)] = @ + 1]
          /\ opened' = "handle"
          /\ UNCHANGED <<stack, error>>
       \/ /\ same = {} /\ disk[f].state # "good"
          /\ opened' = "null" /\ error' = TRUE
          /\ UNCHANGED <<so, stack, handles>>
       \/ /\ same = {} /\ disk[f].state = "good"
          /\ Map(f, "user", so, stack)
          /\ opened' = "none"
          /\ UNCHANGED <<handles, error>>
    /\ UNCHANGED <<disk, libPath, index, built>>

(* Needs that name a version: the list is searched by the whole name, so     *)
(* each of them may map a file of its own.                                   *)
Versioned ==
    {p \in UNION {{f} \X DOMAIN disk[f].needed : f \in Files} :
        LET n == disk[p[1]].needed[p[2]] IN n # Clean[n]}

(* Such a need that no object answers maps the file its cut name finds once  *)
(* more, and that file's needs are looked at again: from the files of Endless *)
(* needs of this kind lead on without end.                                   *)
Remaps(f, g) ==
    \E k \in DOMAIN disk[f].needed :
        LET n == disk[f].needed[k] IN
        FindNeeded(n) = File(g) /\ BaseName[g] # n /\ disk[g].state = "good"
Endless ==
    UNION {S \in SUBSET {p[1] : p \in Versioned} : \A f \in S : \E g \in S : Remaps(f, g)}
ReachedEndless == \E i \in DOMAIN stack : so[stack[i].so].file \in Endless

(* The program is between calls; the bounds leave room for a whole load that *)
(* ends.                                                                     *)
Idle == stack = <<>>
MayOpen ==
    /\ Idle
    /\ \A x \in Objects : handles[x] < MaxHandles
    /\ Len(so) + Cardinality(Files \ {so[x].file : x \in Mapped})
        + Cardinality({p \in Versioned : p[1] \notin Endless}) <= MaxMaps

OpenPath(f) == MayOpen /\ Dlopen(f)

OpenName(n) ==
    /\ MayOpen
    /\ \/ \E f \in Files : FindInPath(n) = File(f) /\ Dlopen(f)
       \/ /\ FindInPath(n) = None
          /\ opened' = "null" /\ error' = TRUE
          /\ UNCHANGED <<disk, libPath, index, built, so, stack, handles>>

-----------------------------------------------------------------------------
(* One turn of "for (...) load_needed(so->needed_names[i])".  The library   *)
(* is looked up in the list by base name; deps records what was counted.    *)
(* Mutant: a needed library found in the list is not counted.               *)
DependUncounted(x, y) == [so EXCEPT ![x].deps = @ \cup {y}]
Depend(x, y) == [AddRef(y) EXCEPT ![x].deps = @ \cup {y}]

LoadNeeded ==
    /\ Pending("need")
    /\ LET same == {x \in Linked : BaseName[so[x].file] = Arg}
           path == FindNeeded(Arg)
       IN  \/ /\ same # {}
              /\ so' = Depend(Top.so, Newest(same))
              /\ stack' = Advance(stack)
              /\ error' = error
           \/ /\ same = {} /\ path = None
              /\ stack' = Advance(stack)
              /\ UNCHANGED <<so, error>>
           \/ /\ same = {} /\ path # None
              /\ disk[path.file].state # "good"
              /\ stack' = Advance(stack) /\ error' = TRUE
              /\ UNCHANGED so
           \/ /\ same = {} /\ path # None
              /\ disk[path.file].state = "good"
              /\ Map(path.file, "needed",
                     [so EXCEPT ![Top.so].deps = @ \cup {Len(so) + 1}], Advance(stack))
              /\ error' = error
    /\ UNCHANGED <<disk, libPath, index, built, handles, opened>>

(* One apply_rela with a symbol: resolve_symbol and the store into the GOT. *)
Bind(objs, x, s, value) == [objs EXCEPT ![x].slots[s] = value]

Relocate ==
    /\ Pending("rela")
    /\ LET x == Top.so
           idx == IF built THEN index ELSE BuiltIndex
           miss == Arg \notin HostSyms /\ Exporters(Arg) = {}
       IN  \/ /\ ~miss
              /\ so' = Bind(so, x, Arg, IF Arg \in HostSyms THEN Host ELSE Search(Arg))
              /\ stack' = Advance(stack)
              /\ UNCHANGED <<index, built, error>>
           \/ /\ miss /\ idx[Arg] = None
              /\ so' = Bind(so, x, Arg, Zero)
              /\ stack' = Advance(stack)
              /\ index' = idx /\ built' = TRUE
              /\ UNCHANGED error
           \/ /\ miss /\ idx[Arg] # None
              /\ disk[idx[Arg].file].state # "good"
              /\ so' = Bind(so, x, Arg, Zero)
              /\ stack' = Advance(stack)
              /\ index' = idx /\ built' = TRUE /\ error' = TRUE
           \/ /\ miss /\ idx[Arg] # None
              /\ disk[idx[Arg].file].state = "good"
              /\ Map(idx[Arg].file, "lazy", so, stack)
              /\ index' = idx /\ built' = TRUE
              /\ UNCHANGED error
    /\ UNCHANGED <<disk, libPath, handles, opened>>

(* All work done: load_needed or bionic_dlopen returns.  The program gets a *)
(* handle; resolve_symbol, which opened a library lazily, drops its handle  *)
(* and searches the list again for the symbol it was after.                 *)
Return ==
    /\ stack # <<>> /\ Top.next > Len(WorkOf(Top))
    /\ LET rest == SubSeq(stack, 1, Len(stack) - 1)
           caller == rest[Len(rest)]
           finished == [so EXCEPT ![Top.so].done = TRUE]
           wanted == WorkOf(caller)[caller.next].arg
       IN  \/ /\ Top.caller = "user"
              /\ so' = finished /\ stack' = rest
              /\ handles' = [handles EXCEPT ![Top.so] = @ + 1]
              /\ opened' = "handle"
           \/ /\ Top.caller = "needed"
              /\ so' = finished /\ stack' = rest
              /\ UNCHANGED <<handles, opened>>
           \/ /\ Top.caller = "lazy"
              /\ so' = Bind(finished, caller.so, wanted, Search(wanted))
              /\ stack' = Advance(rest)
              /\ UNCHANGED <<handles, opened>>
    /\ UNCHANGED <<disk, libPath, index, built, error>>

-----------------------------------------------------------------------------
(* bionic_dlclose of a handle the program holds.  Only the object itself is *)
(* released: the references it took on what it needs are never given back.  *)
(* Mutant: the last close also gives back what the object needed.           *)
ReleasedWithNeeds(x) ==
    [y \in Objects |->
        IF y = x \/ (so[x].refcount = 1 /\ y \in so[x].deps)
        THEN [so[y] EXCEPT !.refcount = @ - 1, !.linked = so[y].refcount > 1]
        ELSE so[y]]
Released(x) ==
    LET last == so[x].refcount = 1 IN
    [so EXCEPT ![x].refcount = @ - 1, ![x].linked = @ /\ ~last]

Dlclose(x) ==
    /\ Idle /\ handles[x] > 0
    /\ so' = Released(x)
    /\ handles' = [handles EXCEPT ![x] = @ - 1]
    /\ UNCHANGED <<disk, libPath, index, built, stack, opened, error>>

(* bionic_dlerror empties the buffer and returns the buffer itself. *)
Dlerror ==
    /\ Idle
    /\ error' = FALSE
    /\ UNCHANGED <<disk, libPath, index, built, so, stack, handles, opened>>

SetLibPath(p) ==
    /\ Idle
    /\ libPath' = p
    /\ UNCHANGED <<disk, index, built, so, stack, handles, opened, error>>

(* A recursion that maps the same files again and again ends with the C     *)
(* stack; the model stands still at its bound of mapped objects.            *)
Overrun == Len(so) = MaxMaps /\ ReachedEndless /\ UNCHANGED vars

Step == LoadNeeded \/ Relocate \/ Return
Next ==
    \/ Overrun
    \/ \E f \in Files : OpenPath(f)
    \/ \E n \in Names : OpenName(n)
    \/ Step
    \/ \E x \in Objects : Dlclose(x)
    \/ Dlerror
    \/ \E p \in LibPaths : SetLibPath(p)

Spec == Init /\ [][Next]_vars
(* A call in progress runs: the loader never waits for anything. *)
FairSpec == Spec /\ WF_vars(Step)
-----------------------------------------------------------------------------
SlotValues == {None, Zero, Host} \cup {Addr(x) : x \in Objects}

TypeOK ==
    /\ disk \in [Files -> FileRecords] /\ libPath \in LibPaths
    /\ index \in [Syms -> {None} \cup {File(f) : f \in Files}] /\ built \in BOOLEAN
    /\ Len(so) <= MaxMaps
    /\ so \in Seq([file : Files, refcount : Nat, linked : BOOLEAN, done : BOOLEAN,
                   lazy : BOOLEAN, deps : SUBSET Objects, slots : [Syms -> SlotValues]])
    /\ stack \in Seq([so : Objects, caller : {"user", "needed", "lazy"}, next : Nat \ {0}])
    /\ handles \in [1..MaxMaps -> Nat]
    /\ opened \in {"none", "handle", "null"} /\ error \in BOOLEAN

(* However libraries need each other, in cycles too, no file is mapped      *)
(* twice: dlopen compares whole paths, load_needed base names, and an       *)
(* object is in the list before anything it needs is looked at.  Only a     *)
(* need that names a version may find its file by the name without it, and  *)
(* then maps it whether it is there or not.                                 *)
FilesMappedOnce ==
    \A x, y \in Mapped : so[x].file = so[y].file =>
        x = y \/ \E p \in Versioned : BaseName[so[x].file] = Clean[disk[p[1]].needed[p[2]]]

(* Nothing in use is unmapped: not an object the program holds a handle on, *)
(* not one a loaded object needs, not one opened behind a relocation.       *)
UsersStayMapped ==
    \A x \in Objects :
        (handles[x] > 0 \/ so[x].lazy \/ \E y \in Mapped : x \in so[y].deps) => x \in Mapped

(* A GOT slot is left pointing into an unmapped object only when its        *)
(* provider was opened by the program itself and no library ever needed it: *)
(* a symbol reference alone keeps nothing mapped.                           *)
DanglingOnlyIfOpened ==
    \A x \in Mapped, z \in Objects \ Mapped :
        (\E s \in Syms : so[x].slots[s] = Addr(z)) =>
            ~so[z].lazy /\ \A y \in Objects : z \notin so[y].deps

(* Relocations of an object start only when everything it needs that can be *)
(* found and mapped is there and relocated itself, or is being loaded       *)
(* further out on the same call stack (a cycle).                            *)
Loadable(path) == path # None /\ disk[path.file].state = "good"
NeedsComeFirst ==
    \A i \in DOMAIN stack :
        LET x == stack[i].so
            needed == disk[so[x].file].needed
            relocating == /\ stack[i].next > Len(needed)
                          /\ i = Len(stack) \/ stack[i + 1].caller = "lazy"
        IN  relocating =>
                \A k \in DOMAIN needed : Loadable(FindNeeded(needed[k])) =>
                    \E y \in so[x].deps :
                        /\ BaseName[so[y].file] \in {needed[k], Clean[needed[k]]}
                        /\ so[y].done \/ \E j \in 1..i : stack[j].so = y

(* The mutual recursion of load_needed, resolve_symbol and bionic_dlopen    *)
(* ends for every shape of needs and imports, cycles of both included, but  *)
(* for one: when the load comes to a file from which needs that name a      *)
(* version, and find a file by the cut name, lead on without end.           *)
LoadReturns == stack # <<>> ~> (stack = <<>> \/ ReachedEndless)
=============================================================================
