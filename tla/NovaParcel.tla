----------------------------- MODULE NovaParcel -----------------------------
(***************************************************************************)
(* nova_parcel of nova_ipc.c: the buffer of a request or a reply, written at *)
(* its end and read at a cursor, with 32-bit lengths that wrap.              *)
(*                                                                          *)
(* Scaled: a byte is one of 0..Base-1 and a word has WordBytes of them, so    *)
(* lengths are taken modulo Word; the first allocation is MinCap.             *)
(* The reader asks for what was written in the order of the writes, as every  *)
(* handler does; the sockets carry the bytes unchanged.                      *)
(***************************************************************************)
EXTENDS Integers, Sequences

CONSTANTS
  Base, WordBytes,  \* values of a byte, bytes of a word
  MinCap,           \* the first allocation: 64 bytes in the code
  Numbers, Contents, \* words and byte sequences that are written
  BufSizes,         \* sizes of the buffers strings are read into
  MaxItems          \* bound on the writes to a parcel

\* The powers of b.
Power(b) == LET p[k \in Nat] == IF k = 0 THEN 1 ELSE b * p[k - 1] IN p
Word == Power(Base)[WordBytes]
U(n) == n % Word
Junk == Base  \* what realloc leaves in a new cell

VARIABLES
  data,    \* the allocated cells; Len(data) is cap
  len, pos,
  todo,    \* the pieces the write that is running has still to append
  items,   \* what was written
  taken,   \* how many of the items were read since the cursor was at the start
  hung,    \* the loop in parcel_grow does not end
  failed,  \* a realloc has failed
  agree    \* every read has given what was written

vars == <<data, len, pos, todo, items, taken, hung, failed, agree>>

\* nova_parcel_init.
Init ==
  /\ data = <<>> /\ len = 0 /\ pos = 0 /\ todo = <<>> /\ items = <<>> /\ taken = 0
  /\ hung = FALSE /\ failed = FALSE /\ agree = TRUE

\* The bytes of a word, lowest first, and back.
WordOf(n) == [i \in 1..WordBytes |-> (n \div Power(Base)[i - 1]) % Base]
Value(s) ==
  LET v[i \in 0..WordBytes] == IF i = 0 THEN 0 ELSE s[WordBytes + 1 - i] + Base * v[i - 1]
  IN v[WordBytes]

-----------------------------------------------------------------------------
(* Writing.                                                                 *)

\* The capacity before the loop of parcel_grow and after each of its rounds; it
\* stays at 0 once a product wraps.
FirstCap == IF data = <<>> THEN MinCap ELSE U(2 * Len(data))
Doubled(c) == LET d[k \in Nat] == IF k = 0 THEN c ELSE U(2 * d[k - 1]) IN d

\* What parcel_grow reallocates to: the first that is enough, 0 if none is.
NewCap(needed) ==
  LET cap == Doubled(FirstCap)
      enough == {k \in 0..Word : cap[k] >= U(len + needed)}
  IN IF enough = {} THEN 0 ELSE cap[CHOOSE k \in enough : \A j \in enough : k <= j]

Copied(d, s) == [i \in 1..Len(d) |-> IF i \in (len + 1)..(len + Len(s)) THEN s[i - len] ELSE d[i]]

Fits(needed) == U(len + needed) <= Len(data)
Put(s, d) == data' = Copied(d, s) /\ len' = U(len + Len(s)) /\ todo' = Tail(todo)

\* The next piece: there is room, or parcel_grow makes it, loops for ever, or
\* fails, when the piece is dropped and the pieces after it are not.
AppendPiece ==
  /\ todo # <<>> /\ ~hung
  /\ LET s == Head(todo) n == Len(s) IN
       \/ Fits(n) /\ Put(s, data) /\ UNCHANGED <<hung, failed>>
       \/ /\ ~Fits(n) /\ NewCap(n) # 0
          /\ Put(s, data \o [i \in 1..(NewCap(n) - Len(data)) |-> Junk]) /\ UNCHANGED <<hung, failed>>
       \/ ~Fits(n) /\ NewCap(n) = 0 /\ hung' = TRUE /\ UNCHANGED <<data, len, todo, failed>>
       \/ ~Fits(n) /\ NewCap(n) # 0 /\ failed' = TRUE /\ todo' = Tail(todo) /\ UNCHANGED <<data, len, hung>>
  /\ UNCHANGED <<pos, items, taken, agree>>

\* A write of one kind: nova_parcel_write_u32, _str (a length, then the body if
\* there is one) and _bytes (nothing at all for no bytes).
Write(item, pieces) ==
  /\ todo = <<>> /\ ~hung /\ Len(items) < MaxItems
  /\ items' = Append(items, item) /\ todo' = pieces
  /\ UNCHANGED <<data, len, pos, taken, hung, failed, agree>>

Item(k, v) == [kind |-> k, value |-> v]
WriteU32 == \E n \in Numbers : Write(Item("u32", WordOf(n)), <<WordOf(n)>>)
WriteStr == \E s \in Contents :
  Write(Item("str", s), IF s = <<>> THEN <<WordOf(0)>> ELSE <<WordOf(Len(s)), s>>)
WriteBytes == \E s \in Contents : Write(Item("bytes", s), IF s = <<>> THEN <<>> ELSE <<s>>)

-----------------------------------------------------------------------------
(* Reading.                                                                 *)

Readable(p, n) == U(p + n) <= len
\* n cells from p on; a cell that is not allocated reads as junk.
Cells(p, n) == [i \in 1..n |-> IF p + i \in DOMAIN data THEN data[p + i] ELSE Junk]
\* Less than a buffer of b: one place is for the terminator.
Prefix(s, b) == SubSeq(s, 1, IF Len(s) < b - 1 THEN Len(s) ELSE b - 1)

Wanted == items[taken + 1]

\* The next item is asked for: a read that fails, or gives something else,
\* disagrees.
Read(kind) ==
  /\ todo = <<>> /\ ~hung /\ taken < Len(items) /\ Wanted.kind = kind
  /\ taken' = taken + 1 /\ UNCHANGED <<data, len, todo, items, hung, failed>>
Answer(ok, got, p) == agree' = (agree /\ ok /\ got) /\ pos' = p

ReadWord == Value(Cells(pos, WordBytes))

\* nova_parcel_read_u32.
ReadU32 ==
  /\ Read("u32")
  /\ IF Readable(pos, WordBytes)
     THEN Answer(TRUE, Cells(pos, WordBytes) = Wanted.value, U(pos + WordBytes))
     ELSE Answer(FALSE, FALSE, pos)

\* Mutant: the cursor goes on by what was copied, not by what was sent.
MutantReadStr ==
  /\ Read("str")
  /\ LET p == U(pos + WordBytes) n == ReadWord IN
       IF ~Readable(pos, WordBytes) THEN Answer(FALSE, FALSE, pos)
       ELSE IF ~Readable(p, n) THEN Answer(FALSE, FALSE, p)
       ELSE \E b \in BufSizes :
              Answer(TRUE, Prefix(Cells(p, n), b) = Prefix(Wanted.value, b), U(p + Len(Prefix(Cells(p, n), b))))

\* nova_parcel_read_str: the length, which stays read when the body is not
\* there; a string that is too long for the buffer is cut, and skipped whole.
ReadStr ==
  /\ Read("str")
  /\ LET p == U(pos + WordBytes) n == ReadWord IN
       IF ~Readable(pos, WordBytes) THEN Answer(FALSE, FALSE, pos)
       ELSE IF ~Readable(p, n) THEN Answer(FALSE, FALSE, p)
       ELSE \E b \in BufSizes :
              Answer(TRUE, Prefix(Cells(p, n), b) = Prefix(Wanted.value, b), U(p + n))

\* nova_parcel_read_bytes.
ReadBytes ==
  /\ Read("bytes")
  /\ LET n == Len(Wanted.value) IN
       IF Readable(pos, n) THEN Answer(TRUE, Cells(pos, n) = Wanted.value, U(pos + n))
       ELSE Answer(FALSE, FALSE, pos)

\* nova_parcel_reset_read: all is read from the start again.
ResetRead ==
  /\ todo = <<>> /\ ~hung /\ pos' = 0 /\ taken' = 0
  /\ UNCHANGED <<data, len, todo, items, hung, failed, agree>>

\* nova_parcel_free and a new start.
Free ==
  /\ todo = <<>> /\ ~hung /\ data' = <<>> /\ len' = 0 /\ pos' = 0
  /\ items' = <<>> /\ taken' = 0 /\ failed' = FALSE /\ agree' = TRUE /\ UNCHANGED <<todo, hung>>

Next ==
  \/ AppendPiece \/ WriteU32 \/ WriteStr \/ WriteBytes
  \/ ReadU32 \/ ReadStr \/ ReadBytes \/ ResetRead \/ Free

Spec == Init /\ [][Next]_vars

-----------------------------------------------------------------------------
(* Properties.                                                              *)

\* Lengths stay inside the allocation and do not wrap, the cursor stays inside
\* what was written, whether or not an allocation failed.
TypeOK ==
  /\ data \in Seq(0..Base) /\ len \in 0..Len(data) /\ Len(data) < Word
  /\ {hung, failed, agree} \subseteq BOOLEAN
  /\ pos \in 0..len /\ taken \in 0..Len(items)

\* What was written is read back, once and again, across reallocations, strings
\* cut to a buffer and items of all kinds, unless an allocation failed while
\* writing; and parcel_grow ends as long as half the range of lengths is enough.
ReadsBack ==
  /\ ~agree => failed
  /\ hung => len + Len(Head(todo)) > Word \div 2
=============================================================================
