----------------------------- MODULE NovaProps ------------------------------
(***************************************************************************)
(* The property table of android_os_SystemProperties.c: an array of pairs   *)
(* and its count, appended to by native_set and searched by the getters, on  *)
(* any thread and without a lock.                                           *)
(*                                                                          *)
(* Keys and values are model values: parsing of numbers and booleans, and    *)
(* the cut of long strings, are left out.  The stores of native_set are       *)
(* taken in the order of the source; a count that two threads increment may  *)
(* lose one.                                                                *)
(***************************************************************************)
EXTENDS Naturals, Sequences, SequencesExt

CONSTANTS
  Writers, Readers,  \* threads that set, threads that get
  Keys, Vals,
  Seed,              \* the pairs init_props puts in
  MaxProps           \* MAX_PROPS

Empty == "empty"
None == "none"

VARIABLES
  table,    \* prop_table: MaxProps pairs of key and value, and the memory after it
  count,    \* prop_count
  wr,       \* native_set of each writer: pc, key, val, and the count it has read
  rd,       \* a getter of each reader: pc, key, the row it is at, its result,
            \* and what the key's first set had given it when the getter was called
  first,    \* what the first set of each key gave it, once that set was over
  overrun,  \* a pair was written behind the table
  raced     \* two sets have been under way at once

vars == <<table, count, wr, rd, first, overrun, raced>>

Idle == [pc |-> "out", key |-> Empty, val |-> Empty, n |-> 0]
Resting == [pc |-> "out", key |-> Empty, i |-> 1, result |-> None, known |-> None]

\* init_props, a constructor: before any thread.
Init ==
  /\ table = [i \in 1..(MaxProps + 1) |-> IF i <= Len(Seed) THEN Seed[i] ELSE <<Empty, Empty>>]
  /\ count = Len(Seed)
  /\ wr = [t \in Writers |-> Idle] /\ rd = [t \in Readers |-> Resting]
  /\ first = [k \in Keys |->
       LET rows == {i \in 1..Len(Seed) : Seed[i][1] = k} IN IF rows = {} THEN None ELSE Seed[Min(rows)][2]]
  /\ overrun = FALSE /\ raced = FALSE

-----------------------------------------------------------------------------
(* native_set.                                                              *)

\* Mutant: no test of the count.
MutantSet(t, k, v) ==
  /\ wr[t].pc = "out"
  /\ wr' = [wr EXCEPT ![t] = [pc |-> "key", key |-> k, val |-> v, n |-> 0]]
  /\ raced' = (raced \/ \E u \in Writers \ {t} : wr[u].pc # "out")
  /\ count <= MaxProps
  /\ UNCHANGED <<table, count, rd, first, overrun>>

\* There is room, or the call returns.
Set(t, k, v) ==
  /\ wr[t].pc = "out" /\ count < MaxProps
  /\ wr' = [wr EXCEPT ![t] = [pc |-> "key", key |-> k, val |-> v, n |-> 0]]
  /\ raced' = (raced \/ \E u \in Writers \ {t} : wr[u].pc # "out")
  /\ UNCHANGED <<table, count, rd, first, overrun>>

\* Each copy reads the count again.
Copy(t, pc, field, next) ==
  /\ wr[t].pc = pc
  /\ IF count + 1 \in DOMAIN table
     THEN /\ table' = [table EXCEPT ![count + 1][field] = IF field = 1 THEN wr[t].key ELSE wr[t].val]
          /\ overrun' = (overrun \/ count = MaxProps)
     ELSE overrun' = TRUE /\ UNCHANGED table
  /\ wr' = [wr EXCEPT ![t].pc = next] /\ UNCHANGED <<count, rd, first, raced>>
CopyKey(t) == Copy(t, "key", 1, "val")
CopyVal(t) == Copy(t, "val", 2, "load")

\* prop_count++.
LoadCount(t) ==
  /\ wr[t].pc = "load" /\ wr' = [wr EXCEPT ![t].pc = "store", ![t].n = count]
  /\ UNCHANGED <<table, count, rd, first, overrun, raced>>
StoreCount(t) ==
  /\ wr[t].pc = "store" /\ count' = wr[t].n + 1 /\ wr' = [wr EXCEPT ![t] = Idle]
  /\ first' = [first EXCEPT ![wr[t].key] = IF @ = None THEN wr[t].val ELSE @]
  /\ UNCHANGED <<table, rd, overrun, raced>>

-----------------------------------------------------------------------------
(* native_get, and the getters of numbers and booleans: find_prop.          *)

Get(t, k) ==
  /\ rd[t].pc = "out"
  /\ rd' = [rd EXCEPT ![t] = [pc |-> "scan", key |-> k, i |-> 1, result |-> None, known |-> first[k]]]
  /\ UNCHANGED <<table, count, wr, first, overrun, raced>>

\* Mutant: the search begins at the end.
MutantScan(t) ==
  LET r == rd[t] at == SelectLastInSeq(SubSeq(table, 1, count), LAMBDA p : p[1] = r.key) IN
  /\ r.pc = "scan"
  /\ rd' = [rd EXCEPT ![t].pc = "back", ![t].result = IF at = 0 THEN None ELSE table[at][2]]
  /\ UNCHANGED <<table, count, wr, first, overrun, raced>>

\* One round of the loop: the count is read, a row is compared.
Scan(t) ==
  LET r == rd[t] IN
  /\ r.pc = "scan"
  /\ rd' = [rd EXCEPT ![t] =
       IF r.i > count \/ r.i \notin DOMAIN table THEN [r EXCEPT !.pc = "back"]
       ELSE IF table[r.i][1] = r.key THEN [r EXCEPT !.pc = "back", !.result = table[r.i][2]]
       ELSE [r EXCEPT !.i = @ + 1]]
  /\ UNCHANGED <<table, count, wr, first, overrun, raced>>

\* The value found, or the caller's default.
Back(t) ==
  /\ rd[t].pc = "back" /\ rd' = [rd EXCEPT ![t] = Resting]
  /\ UNCHANGED <<table, count, wr, first, overrun, raced>>

Next ==
  \/ \E t \in Writers :
       \/ \E k \in Keys, v \in Vals : Set(t, k, v)
       \/ CopyKey(t) \/ CopyVal(t) \/ LoadCount(t) \/ StoreCount(t)
  \/ \E t \in Readers : (\E k \in Keys : Get(t, k)) \/ Scan(t) \/ Back(t)

Spec == Init /\ [][Next]_vars

-----------------------------------------------------------------------------
(* Properties.                                                              *)

\* As long as sets do not overlap each other, however they overlap with gets,
\* the table is a map in which the first set of a key stands: a get gives that
\* value, or the default if that set was not over when the get was called, and
\* nothing is written behind the table.
WriteOnceMap ==
  raced \/
    /\ ~overrun
    /\ \A t \in Readers :
         rd[t].pc = "back" => \/ rd[t].result = first[rd[t].key]
                              \/ rd[t].result = None /\ rd[t].known = None
=============================================================================
