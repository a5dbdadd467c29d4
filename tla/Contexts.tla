------------------------------ MODULE Contexts ------------------------------
(***************************************************************************)
(* Context manager (xlib/xorg/Context.c): a display's table of pointers by *)
(* XID and context, a hash table whose size follows its entries.           *)
(***************************************************************************)
EXTENDS Naturals, SequencesExt

CONSTANTS Keys,                 \* [rid, context], two numbers
          Pointers, NoPointer,
          INITHASHMASK

(* The mask of a hash is a remainder, for as long as sizes are powers of   *)
(* two: INITHASHMASK is 63 in the code.                                    *)
ASSUME ContextsAssumption ==
  /\ Keys \subseteq [rid : Nat, context : Nat]
  /\ NoPointer \notin Pointers
  /\ INITHASHMASK \in Nat

VARIABLES table,        \* db->table: chains, from 0 to db->mask
          numentries,
          saved         \* history: what was saved last for each key

contextVars == <<table, numentries, saved>>

Mask == Len(table) - 1          \* a chain i of the code is i + 1 here
HashTo(k, size) == ((2 * k.rid + k.context) % size) + 1
ContextHash(k) == HashTo(k, Len(table))
Where(k) == SelectInSeq(table[ContextHash(k)], LAMBDA e : e.key = k)

(* The first size to be doubled no more, after which i stays as it is.     *)
Doubled(n) ==
  LET Next_(size) == IF 2 * size < n THEN 2 * size ELSE size
      i[times \in 0 .. n] == IF times = 0 THEN INITHASHMASK + 1 ELSE Next_(i[times - 1])
  IN i[n]

(* Each entry goes to the head of its new chain.                           *)
ResizeTable(t, n) ==
  LET size == Doubled(n)
      entries == FlattenSeq(t)
      Move(u, e) == [u EXCEPT ![HashTo(e.key, size)] = <<e>> \o @]
      moved[i \in 0 .. Len(entries)] ==
        IF i = 0 THEN [h \in 1 .. size |-> <<>>] ELSE Move(moved[i - 1], entries[i])
  IN moved[Len(entries)]

XSaveContext(k, data) ==
  LET h == ContextHash(k)
      new == [table EXCEPT ![h] = <<[key |-> k, data |-> data]>> \o @]
      n == numentries + 1
  IN /\ saved' = [saved EXCEPT ![k] = data]
     /\ IF Where(k) # 0
        THEN /\ table' = [table EXCEPT ![h][Where(k)].data = data]
             /\ UNCHANGED numentries
        ELSE /\ table' = IF n > 4 * Mask THEN ResizeTable(new, n) ELSE new
             /\ numentries' = n

XFindContext(k) == IF Where(k) = 0 THEN NoPointer ELSE table[ContextHash(k)][Where(k)].data

XDeleteContext(k) ==
  LET h == ContextHash(k)
      new == [table EXCEPT ![h] = RemoveAt(@, Where(k))]
      n == numentries - 1
  IN /\ Where(k) # 0
     /\ saved' = [saved EXCEPT ![k] = NoPointer]
     /\ numentries' = n
     /\ table' = IF n < Mask /\ Mask > INITHASHMASK THEN ResizeTable(new, n) ELSE new

ContextsInit ==
  /\ table = [h \in 1 .. INITHASHMASK + 1 |-> <<>>]
  /\ numentries = 0
  /\ saved = [k \in Keys |-> NoPointer]

ContextsNext ==
  \/ \E k \in Keys, data \in Pointers : XSaveContext(k, data)
  \/ \E k \in Keys : XDeleteContext(k)

ContextsSpec == ContextsInit /\ [][ContextsNext]_contextVars

-----------------------------------------------------------------------------
(* A pointer that was saved is found until it is deleted, and no other,    *)
(* whatever the table was resized to in between.                           *)
FindsWhatWasSaved ==
  /\ \A k \in Keys : XFindContext(k) = saved[k]
  /\ numentries = Len(FlattenSeq(table))
=============================================================================
