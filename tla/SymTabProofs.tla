----------------------------- MODULE SymTabProofs -----------------------------
(***************************************************************************)
(* SymTab keeps its tables well formed for every heap, set of names, hash  *)
(* function and number of buckets, and implements the scoped map the       *)
(* passes take its tables for.                                             *)
(***************************************************************************)
EXTENDS SymTabRefinement, FiniteSetTheorems, Induction

\* What lets an address be used again: no entry outlives its table, and a table
\* that is not allocated has given out no temporary.
HeapClean ==
    /\ \A e \in EntryIds : entries[e] # NULL => Live(entries[e].table)
    /\ \A st \in TableIds : temps[st] # {} => Live(st)

\* What process_file frees is never the scope new_temp takes its slots from.
CurrentLive ==
    currentFunctionSymtab # NULL =>
        Live(currentFunctionSymtab) /\ currentFunctionSymtab \notin {globalSymtab, packageSymtab}

\* The tables of the file under way lie inside each other, and none of them inside
\* a table of an earlier file.
FileInv ==
    /\ \A st \in LiveTables : tables[st].file <= file
    /\ packageSymtab # NULL => /\ {globalSymtab, packageSymtab} \subseteq FileTables
                              /\ globalSymtab # packageSymtab
    /\ \A st \in FileTables : tables[st].parent \in FileTables \cup {NULL}
    /\ Inner # {} => currentFunctionSymtab \in Inner

IInv ==
    /\ TypeOK
    /\ HeapClean
    /\ CurrentLive
    /\ FileInv
    /\ ChainsSound
    /\ ChainsComplete
    /\ UniqueNames
    /\ SlotsDisjoint

-----------------------------------------------------------------------------
\* Lemmas on the operators

\* Pushing on a list.
LEMMA ConsFacts ==
    ASSUME NEW S, NEW c \in Seq(S), NEW e \in S
    PROVE  /\ <<e>> \o c \in Seq(S)
           /\ Len(<<e>> \o c) = Len(c) + 1
           /\ DOMAIN (<<e>> \o c) = 1 .. Len(c) + 1
           /\ (<<e>> \o c)[1] = e
           /\ \A i \in 1 .. Len(c) : (<<e>> \o c)[i + 1] = c[i]
  OBVIOUS

\* A new table is a table, and is empty.
LEMMA MksymtabFacts ==
    ASSUME NEW parent \in TableIds \cup {NULL}, NEW f \in Nat
    PROVE  /\ mksymtab(parent, f) \in sym_table
           /\ mksymtab(parent, f) # NULL
           /\ \A b \in Buckets : mksymtab(parent, f).tbl[b] = <<>>
           /\ mksymtab(parent, f).nextOffset = 8
           /\ mksymtab(parent, f).parent = parent /\ mksymtab(parent, f).file = f
<1>1. <<>> \in Seq(EntryIds)
  OBVIOUS
<1>2. mksymtab(parent, f) \in sym_table
  BY <1>1 DEF mksymtab, sym_table
<1>3. mksymtab(parent, f) # NULL
  BY <1>2, NullIsNoBlock
<1>4. QED
  BY <1>2, <1>3 DEF mksymtab

\* A table with a new entry is a table: one bucket has the entry in front, the
\* others are as they were.
LEMMA LinkedFacts ==
    ASSUME TypeOK,
           NEW st \in LiveTables, NEW n \in Names, NEW e \in EntryIds
    PROVE  /\ Linked(st, n, e) \in sym_table
           /\ Linked(st, n, e) # NULL
           /\ Linked(st, n, e).parent = tables[st].parent
           /\ Linked(st, n, e).file = tables[st].file
           /\ Linked(st, n, e).nextOffset = tables[st].nextOffset + 8
           /\ Linked(st, n, e).tbl[Hash[n]] = <<e>> \o tables[st].tbl[Hash[n]]
           /\ \A b \in Buckets : b # Hash[n] => Linked(st, n, e).tbl[b] = tables[st].tbl[b]
<1>1. tables[st] \in sym_table
  BY DEF TypeOK, LiveTables, Live
<1>2. Hash[n] \in Buckets
  BY SymTabAssumption
<1>3. tables[st].tbl \in [Buckets -> Seq(EntryIds)] /\ tables[st].nextOffset \in Nat
      /\ tables[st].nEntries \in Nat
  BY <1>1 DEF sym_table
<1>4. <<e>> \o tables[st].tbl[Hash[n]] \in Seq(EntryIds)
  BY <1>2, <1>3, ConsFacts
<1> DEFINE tbl == [tables[st].tbl EXCEPT ![Hash[n]] = <<e>> \o @]
<1>5. tbl \in [Buckets -> Seq(EntryIds)]
  BY <1>2, <1>3, <1>4
<1>6. Linked(st, n, e) \in sym_table
  BY <1>1, <1>3, <1>5 DEF Linked, sym_table
<1>7. Linked(st, n, e) # NULL
  BY <1>6, NullIsNoBlock
<1>8. QED
  BY <1>2, <1>3, <1>6, <1>7 DEF Linked

\* While the invariant holds, the bucket walk finds the one entry of that name,
\* and says NULL only when the table has none.
LEMMA LookupCurrent ==
    ASSUME IInv, NEW st \in LiveTables, NEW n \in Names
    PROVE  /\ \A e \in EntriesOf(st) : entries[e].s = n => lookup_symbol_current_scope(st, n) = e
           /\ Declared(st, n) => /\ lookup_symbol_current_scope(st, n) \in EntriesOf(st)
                               /\ entries[lookup_symbol_current_scope(st, n)].s = n
<1> DEFINE chain == tables[st].tbl[Hash[n]]
<1>1. Hash[n] \in Buckets
  BY SymTabAssumption
<1>2. chain \in Seq(EntryIds)
  BY <1>1 DEF IInv, TypeOK, LiveTables, Live, sym_table
<1>3. \A i, j \in DOMAIN chain : entries[chain[i]].s = n /\ entries[chain[j]].s = n => i = j
  BY <1>1, <1>2 DEF IInv, ChainsSound, UniqueNames, EntriesOf
<1>4. ASSUME NEW i \in DOMAIN chain, entries[chain[i]].s = n
      PROVE  lookup_symbol_current_scope(st, n) = chain[i]
  <2>1. Hits(st, n) = {i}
    BY <1>3, <1>4 DEF Hits
  <2>2. i \in Int
    BY <1>2
  <2>3. (CHOOSE k \in Hits(st, n) : \A j \in Hits(st, n) : k <= j) = i
    BY <2>1, <2>2
  <2>4. QED
    BY <2>1, <2>3 DEF lookup_symbol_current_scope
<1>5. ASSUME NEW e \in EntriesOf(st), entries[e].s = n
      PROVE  lookup_symbol_current_scope(st, n) = e
  <2>1. PICK i \in DOMAIN chain : chain[i] = e
    BY <1>5 DEF IInv, ChainsComplete
  <2>2. QED
    BY <1>4, <1>5, <2>1
<1>6. ASSUME Declared(st, n)
      PROVE  /\ lookup_symbol_current_scope(st, n) \in EntriesOf(st)
             /\ entries[lookup_symbol_current_scope(st, n)].s = n
  <2>1. PICK i \in DOMAIN chain : entries[chain[i]].s = n
    BY <1>6 DEF Declared, lookup_symbol_current_scope, Hits
  <2>2. lookup_symbol_current_scope(st, n) = chain[i]
    BY <1>4, <2>1
  <2>3. chain[i] \in EntriesOf(st)
    BY <1>1 DEF IInv, ChainsSound
  <2>4. QED
    BY <2>1, <2>2, <2>3
<1>7. QED
  BY <1>5, <1>6

-----------------------------------------------------------------------------
\* Lemmas on the state changes

Shape == ChainsSound /\ ChainsComplete /\ UniqueNames /\ SlotsDisjoint /\ HeapClean

EmptyTable(t) == /\ t \in sym_table
                 /\ \A b \in Buckets : t.tbl[b] = <<>>
                 /\ t.nextOffset = 8

KeptOrOpened(t) == \/ tables'[t] = tables[t]
                   \/ tables[t] = NULL /\ EmptyTable(tables'[t])

KeptButSig(e) == /\ entries'[e] = NULL <=> entries[e] = NULL
                 /\ entries[e] # NULL => /\ entries'[e].s = entries[e].s
                                        /\ entries'[e].table = entries[e].table
                                        /\ entries'[e].offset = entries[e].offset

\* Opening tables and rewriting signatures leaves the tables' shape alone.
LEMMA OpenPreserves ==
    ASSUME IInv,
           \A t \in TableIds : KeptOrOpened(t),
           \A e \in EntryIds : KeptButSig(e),
           temps' = temps
    PROVE  Shape'
<1>1. \A t \in TableIds : EmptyTable(tables'[t]) => tables'[t] # NULL
  BY NullIsNoBlock DEF EmptyTable
<1>2. \A t \in LiveTables : t \in LiveTables' /\ tables'[t] = tables[t]
  BY DEF LiveTables, Live, KeptOrOpened
<1>3. \A t \in LiveTables' : t \notin LiveTables => EmptyTable(tables'[t]) /\ tables[t] = NULL
  BY DEF LiveTables, Live, KeptOrOpened
<1>4. \A t \in TableIds : EntriesOf(t)' = EntriesOf(t)
  BY DEF EntriesOf, KeptButSig
<1>5. \A t \in LiveTables' : t \notin LiveTables => EntriesOf(t) = {} /\ temps[t] = {}
  BY DEF EntriesOf, LiveTables, Live, IInv, HeapClean
<1>6. HeapClean'
  BY <1>2, <1>4 DEF IInv, HeapClean, KeptButSig, LiveTables, Live, TypeOK, sym_entry
<1>7. ChainsSound'
  <2> SUFFICES ASSUME NEW t \in LiveTables', NEW b \in Buckets,
                      NEW i \in DOMAIN tables'[t].tbl[b]
               PROVE  /\ tables'[t].tbl[b][i] \in EntriesOf(t)'
                      /\ Hash[entries'[tables'[t].tbl[b][i]].s] = b
                      /\ \A j \in DOMAIN tables'[t].tbl[b] :
                            tables'[t].tbl[b][j] = tables'[t].tbl[b][i] => i = j
    BY DEF ChainsSound
  <2>1. t \in LiveTables
    BY <1>3 DEF EmptyTable
  <2>2. tables[t].tbl[b][i] \in EntriesOf(t)
    BY <1>2, <2>1 DEF IInv, ChainsSound
  <2>3. QED
    BY <1>2, <1>4, <2>1, <2>2 DEF IInv, ChainsSound, KeptButSig, EntriesOf, LiveTables
<1>8. ChainsComplete'
  <2> SUFFICES ASSUME NEW t \in LiveTables', NEW e \in EntriesOf(t)'
               PROVE  \E i \in DOMAIN tables'[t].tbl[Hash[entries'[e].s]] :
                         tables'[t].tbl[Hash[entries'[e].s]][i] = e
    BY DEF ChainsComplete
  <2>1. t \in LiveTables /\ e \in EntriesOf(t)
    BY <1>4, <1>5 DEF LiveTables
  <2>2. entries'[e].s = entries[e].s
    BY <2>1 DEF KeptButSig, EntriesOf
  <2>3. QED
    BY <1>2, <2>1, <2>2 DEF IInv, ChainsComplete
<1>9. UniqueNames'
  BY DEF IInv, UniqueNames, KeptButSig
<1>10. SlotsDisjoint'
  <2> SUFFICES ASSUME NEW t \in LiveTables'
               PROVE  /\ \A e, f \in EntriesOf(t) : entries'[e].offset = entries'[f].offset => e = f
                      /\ \A e \in EntriesOf(t) : /\ entries'[e].offset \notin temps[t]
                                                /\ entries'[e].offset < tables'[t].nextOffset
                                                /\ entries'[e].offset % 8 = 0
                      /\ \A o \in temps[t] : o < tables'[t].nextOffset /\ o % 8 = 0
                      /\ tables'[t].nextOffset >= 8 /\ tables'[t].nextOffset % 8 = 0
    BY <1>4 DEF SlotsDisjoint, LiveTables
  <2>1. CASE t \in LiveTables
    <3>1. \A e \in EntriesOf(t) : entries'[e].offset = entries[e].offset
      BY DEF KeptButSig, EntriesOf
    <3>2. QED
      BY <1>2, <2>1, <3>1 DEF IInv, SlotsDisjoint
  <2>2. CASE t \notin LiveTables
    BY <1>3, <1>5, <2>2 DEF EmptyTable
  <2>3. QED
    BY <2>1, <2>2
<1>11. QED
  BY <1>6, <1>7, <1>8, <1>9, <1>10 DEF Shape

\* So does pushing an entry for a name the table does not have.
LEMMA PushPreserves ==
    ASSUME IInv,
           NEW st \in LiveTables, NEW n \in Names, NEW e \in EntryIds, NEW rec \in sym_entry,
           ~Declared(st, n), entries[e] = NULL,
           rec.s = n, rec.table = st, rec.offset = tables[st].nextOffset,
           entries' = [entries EXCEPT ![e] = rec],
           tables'[st] = Linked(st, n, e),
           \A t \in TableIds \ {st} : KeptOrOpened(t),
           temps' = temps
    PROVE  Shape'
<1> USE SymTabAssumption
<1>1. rec # NULL /\ Hash[n] \in Buckets
  BY NullIsNoBlock
<1>2. /\ entries'[e] = rec
      /\ \A f \in EntryIds : f # e => entries'[f] = entries[f]
  BY DEF IInv, TypeOK
<1>3. \A t \in TableIds : EmptyTable(tables'[t]) => tables'[t] # NULL
  BY NullIsNoBlock DEF EmptyTable
<1>a. TypeOK
  BY DEF IInv
<1>b. /\ Linked(st, n, e) # NULL
      /\ Linked(st, n, e).nextOffset = tables[st].nextOffset + 8
      /\ Linked(st, n, e).tbl[Hash[n]] = <<e>> \o tables[st].tbl[Hash[n]]
      /\ \A b \in Buckets : b # Hash[n] => Linked(st, n, e).tbl[b] = tables[st].tbl[b]
  BY <1>a, LinkedFacts
<1>4. st \in LiveTables'
  BY <1>b DEF LiveTables, Live
<1>5. \A t \in LiveTables : t # st => t \in LiveTables' /\ tables'[t] = tables[t]
  BY DEF LiveTables, Live, KeptOrOpened
<1>6. \A t \in LiveTables' : t \notin LiveTables =>
         t # st /\ EmptyTable(tables'[t]) /\ tables[t] = NULL
  BY DEF LiveTables, Live, KeptOrOpened
<1>7. e \notin EntriesOf(st) /\ EntriesOf(st)' = EntriesOf(st) \cup {e}
  BY <1>1, <1>2 DEF EntriesOf
<1>8. \A t \in TableIds : t # st => EntriesOf(t)' = EntriesOf(t) /\ e \notin EntriesOf(t)
  BY <1>1, <1>2 DEF EntriesOf
<1>9. \A t \in LiveTables' : t \notin LiveTables => EntriesOf(t)' = {} /\ temps[t] = {}
  BY <1>6, <1>8 DEF EntriesOf, LiveTables, Live, IInv, HeapClean
<1>10. \A f \in EntriesOf(st) : entries[f].s # n
  BY LookupCurrent, NullIsNoBlock DEF Declared, EntriesOf, IInv, TypeOK
<1> DEFINE chain == tables[st].tbl[Hash[n]]
           new   == tables'[st].tbl[Hash[n]]
<1>11. /\ chain \in Seq(EntryIds)
       /\ new = <<e>> \o chain
       /\ \A b \in Buckets : b # Hash[n] => tables'[st].tbl[b] = tables[st].tbl[b]
  BY <1>1, <1>a, <1>b DEF TypeOK, LiveTables, Live, sym_table
<1>12. /\ DOMAIN new = 1 .. Len(chain) + 1
       /\ new[1] = e
       /\ \A i \in 1 .. Len(chain) : new[i + 1] = chain[i]
       /\ DOMAIN chain = 1 .. Len(chain)
       /\ Len(chain) \in Nat
  <2> HIDE DEF chain, new
  <2> QED
    BY <1>11, ConsFacts
<1> HIDE DEF chain, new
<1>13. HeapClean'
  <2>1. ASSUME NEW f \in EntryIds, entries'[f] # NULL
        PROVE  Live(entries[f].table)'
    <3>1. CASE f = e
      BY <1>2, <1>4, <3>1 DEF LiveTables
    <3>2. CASE f # e
      <4>1. entries'[f] = entries[f] /\ entries[f] \in sym_entry /\ Live(entries[f].table)
        BY <1>2, <1>a, <2>1, <3>2 DEF IInv, HeapClean, TypeOK
      <4>2. entries[f].table \in LiveTables
        BY <4>1 DEF LiveTables, sym_entry
      <4>3. QED
        BY <1>4, <1>5, <4>1, <4>2 DEF LiveTables
    <3>3. QED
      BY <3>1, <3>2
  <2>2. ASSUME NEW t \in TableIds, temps[t] # {}
        PROVE  Live(t)'
    <3>1. Live(t)
      BY <2>2 DEF IInv, HeapClean
    <3>2. QED
      BY <1>4, <1>5, <1>b, <3>1 DEF LiveTables
  <2>3. QED
    BY <2>1, <2>2 DEF HeapClean
<1>14. ChainsSound'
  <2> SUFFICES ASSUME NEW t \in LiveTables', NEW b \in Buckets,
                      NEW i \in DOMAIN tables'[t].tbl[b]
               PROVE  /\ tables'[t].tbl[b][i] \in EntriesOf(t)'
                      /\ Hash[entries'[tables'[t].tbl[b][i]].s] = b
                      /\ \A j \in DOMAIN tables'[t].tbl[b] :
                            tables'[t].tbl[b][j] = tables'[t].tbl[b][i] => i = j
    BY DEF ChainsSound
  <2>1. t \in LiveTables
    BY <1>6 DEF EmptyTable
  <2>2. CASE t # st \/ b # Hash[n]
    <3>1. tables'[t].tbl[b] = tables[t].tbl[b]
      BY <1>5, <1>11, <2>1, <2>2
    <3>2. tables[t].tbl[b][i] \in EntriesOf(t)
      BY <2>1, <3>1 DEF IInv, ChainsSound
    <3>3. /\ tables[t].tbl[b][i] \in EntryIds
          /\ tables[t].tbl[b][i] \in EntriesOf(t)'
          /\ entries'[tables[t].tbl[b][i]] = entries[tables[t].tbl[b][i]]
      BY <1>2, <1>7, <1>8, <2>1, <3>2 DEF LiveTables, EntriesOf
    <3>4. QED
      BY <2>1, <3>1, <3>3, SMTT(30) DEF IInv, ChainsSound
  <2>3. CASE t = st /\ b = Hash[n]
    <3>1. \A k \in DOMAIN chain : /\ chain[k] \in EntriesOf(st)
                                 /\ chain[k] # e
                                 /\ Hash[entries[chain[k]].s] = Hash[n]
                                 /\ \A l \in DOMAIN chain : chain[l] = chain[k] => k = l
      BY <1>1, <1>7, SMTT(30) DEF IInv, ChainsSound, chain
    <3>2. \A k \in DOMAIN new : k = 1 \/ (k - 1 \in DOMAIN chain /\ new[k] = chain[k - 1])
      BY <1>12
    <3>3. i = 1 \/ (i - 1 \in DOMAIN chain /\ new[i] = chain[i - 1])
      BY <2>3, <3>2 DEF new
    <3>4. new[i] \in EntriesOf(t)'
      BY <1>7, <1>12, <2>3, <3>1, <3>3
    <3>5. Hash[entries'[new[i]].s] = b
      BY <1>2, <1>12, <2>3, <3>1, <3>3 DEF EntriesOf
    <3>6. ASSUME NEW j \in DOMAIN new, new[j] = new[i]
          PROVE  i = j
      <4>1. j = 1 \/ (j - 1 \in DOMAIN chain /\ new[j] = chain[j - 1])
        BY <3>2
      <4>2. i = 1 <=> j = 1
        BY <1>12, <3>1, <3>3, <3>6, <4>1
      <4>3. i # 1 /\ j # 1 => i - 1 = j - 1
        BY <3>1, <3>3, <3>6, <4>1
      <4>4. i \in Int /\ j \in Int
        BY <1>12, <2>3 DEF new
      <4>5. QED
        BY <4>2, <4>3, <4>4
    <3>7. QED
      BY <2>3, <3>4, <3>5, <3>6 DEF new
  <2>4. QED
    BY <2>2, <2>3
<1>15. ChainsComplete'
  <2> SUFFICES ASSUME NEW t \in LiveTables', NEW f \in EntriesOf(t)'
               PROVE  \E i \in DOMAIN tables'[t].tbl[Hash[entries'[f].s]] :
                         tables'[t].tbl[Hash[entries'[f].s]][i] = f
    BY DEF ChainsComplete
  <2>1. t \in LiveTables
    BY <1>9 DEF LiveTables
  <2>2. CASE f = e
    BY <1>2, <1>7, <1>8, <1>12, <2>1, <2>2 DEF new, LiveTables
  <2>3. CASE f # e
    <3>1. f \in EntriesOf(t) /\ entries'[f] = entries[f] /\ f \in EntryIds
      BY <1>2, <1>7, <1>8, <2>1, <2>3 DEF EntriesOf, LiveTables
    <3>2. PICK i \in DOMAIN tables[t].tbl[Hash[entries[f].s]] :
                 tables[t].tbl[Hash[entries[f].s]][i] = f
      BY <2>1, <3>1 DEF IInv, ChainsComplete
    <3>3. CASE t = st /\ Hash[entries[f].s] = Hash[n]
      <4>1. i \in DOMAIN chain /\ chain[i] = f
        BY <3>2, <3>3 DEF chain
      <4>2. i + 1 \in DOMAIN new /\ new[i + 1] = f
        BY <1>12, <4>1
      <4>3. QED
        BY <3>1, <3>3, <4>2 DEF new
    <3>4. CASE t # st \/ Hash[entries[f].s] # Hash[n]
      <4>1. Hash[entries[f].s] \in Buckets
        BY <1>a, <3>1 DEF TypeOK, EntriesOf, sym_entry
      <4>2. tables'[t].tbl[Hash[entries[f].s]] = tables[t].tbl[Hash[entries[f].s]]
        BY <1>5, <1>11, <2>1, <3>4, <4>1
      <4>3. QED
        BY <3>1, <3>2, <4>2
    <3>5. QED
      BY <3>3, <3>4
  <2>4. QED
    BY <2>2, <2>3
<1>16. UniqueNames'
  <2> SUFFICES ASSUME NEW f \in EntryIds, NEW g \in EntryIds,
                      entries'[f] # NULL, entries'[g] # NULL,
                      entries'[f].table = entries'[g].table, entries'[f].s = entries'[g].s
               PROVE  f = g
    BY DEF UniqueNames
  <2>1. f # e /\ g # e => f = g
    BY <1>2 DEF IInv, UniqueNames
  <2>2. f # e => entries[f].s # n \/ entries[f].table # st
    BY <1>2, <1>10 DEF EntriesOf
  <2>3. g # e => entries[g].s # n \/ entries[g].table # st
    BY <1>2, <1>10 DEF EntriesOf
  <2>4. QED
    BY <1>2, <2>1, <2>2, <2>3
<1>17. SlotsDisjoint'
  <2> SUFFICES ASSUME NEW t \in LiveTables'
               PROVE  /\ \A f, g \in EntriesOf(t)' : entries'[f].offset = entries'[g].offset => f = g
                      /\ \A f \in EntriesOf(t)' : /\ entries'[f].offset \notin temps[t]
                                                 /\ entries'[f].offset < tables'[t].nextOffset
                                                 /\ entries'[f].offset % 8 = 0
                      /\ \A o \in temps[t] : o < tables'[t].nextOffset /\ o % 8 = 0
                      /\ tables'[t].nextOffset >= 8 /\ tables'[t].nextOffset % 8 = 0
    BY DEF SlotsDisjoint, LiveTables
  <2>1. CASE t \notin LiveTables
    BY <1>6, <1>9, <2>1 DEF EmptyTable
  <2>2. CASE t \in LiveTables /\ t # st
    <3>1. EntriesOf(t)' = EntriesOf(t) /\ \A f \in EntriesOf(t) : entries'[f] = entries[f]
      BY <1>2, <1>8, <2>2 DEF LiveTables, EntriesOf
    <3>2. QED
      BY <1>5, <2>2, <3>1 DEF IInv, SlotsDisjoint
  <2>3. CASE t = st
    <3> DEFINE top == tables[st].nextOffset
    <3>1. /\ top \in Nat /\ tables'[st].nextOffset = top + 8
          /\ temps[st] \in SUBSET Nat
          /\ \A f \in EntriesOf(st) : entries[f].offset \in Nat
      BY <1>a, <1>b DEF TypeOK, LiveTables, Live, sym_table, sym_entry, EntriesOf
    <3>2. /\ \A f, g \in EntriesOf(st) : entries[f].offset = entries[g].offset => f = g
          /\ \A f \in EntriesOf(st) : /\ entries[f].offset \notin temps[st]
                                      /\ entries[f].offset < top
                                      /\ entries[f].offset % 8 = 0
          /\ \A o \in temps[st] : o < top /\ o % 8 = 0
          /\ top >= 8 /\ top % 8 = 0
      BY DEF IInv, SlotsDisjoint
    <3>3. /\ entries'[e].offset = top
          /\ \A f \in EntriesOf(st) : entries'[f] = entries[f] /\ f # e
      BY <1>2, <1>7 DEF EntriesOf
    <3> HIDE DEF top
    <3>4. (top + 8) % 8 = 0 /\ top + 8 >= 8
      BY <3>1, <3>2
    <3>5. \A f, g \in EntriesOf(t)' : entries'[f].offset = entries'[g].offset => f = g
      BY <1>7, <2>3, <3>1, <3>2, <3>3
    <3>6. \A f \in EntriesOf(t)' : /\ entries'[f].offset \notin temps[t]
                                  /\ entries'[f].offset < tables'[t].nextOffset
                                  /\ entries'[f].offset % 8 = 0
      BY <1>7, <2>3, <3>1, <3>2, <3>3
    <3>7. \A o \in temps[t] : o < tables'[t].nextOffset /\ o % 8 = 0
      BY <2>3, <3>1, <3>2
    <3>8. QED
      BY <2>3, <3>1, <3>4, <3>5, <3>6, <3>7
  <2>4. QED
    BY <2>1, <2>2, <2>3
<1>18. QED
  BY <1>13, <1>14, <1>15, <1>16, <1>17 DEF Shape

\* A table with its nextOffset moved differs in that field alone.
LEMMA BumpedFacts ==
    ASSUME NEW t \in sym_table, NEW o \in Nat
    PROVE  LET u == [t EXCEPT !.nextOffset = o]
           IN  /\ u \in sym_table /\ u.tbl = t.tbl /\ u.nextOffset = o
               /\ u.parent = t.parent /\ u.file = t.file
  BY DEF sym_table

\* A table that stays where it is among the tables.
KeepsPlace(t) ==
    /\ Live(t)' <=> Live(t)
    /\ Live(t) => tables'[t].parent = tables[t].parent /\ tables'[t].file = tables[t].file

\* Without a table made or freed the tables of the file stay what they are.
LEMMA SameFile ==
    ASSUME CurrentLive, FileInv, \A t \in TableIds : KeepsPlace(t), UNCHANGED scopes, TypeOK
    PROVE  CurrentLive' /\ FileInv'
<1>1. /\ UNCHANGED <<globalSymtab, packageSymtab, currentFunctionSymtab, file>>
      /\ LiveTables' = LiveTables
  BY DEF scopes, KeepsPlace, LiveTables
<1>2. \A t \in LiveTables : tables'[t].parent = tables[t].parent /\ tables'[t].file = tables[t].file
  BY DEF KeepsPlace, LiveTables
<1>3. FileTables' = FileTables /\ Inner' = Inner /\ FileTables \subseteq LiveTables
  BY <1>1, <1>2 DEF FileTables, Inner
<1>4. CurrentLive'
  BY <1>1 DEF CurrentLive, LiveTables, TypeOK
<1>5. QED
  BY <1>1, <1>2, <1>3, <1>4 DEF FileInv

\* A scope made inside a table of the file is one of the file's, and the current one.
LEMMA InnerMade ==
    ASSUME TypeOK, CurrentLive, FileInv, NEW s \in TableIds, NEW p \in FileTables,
           ~Live(s), Live(s)', tables'[s].parent = p, tables'[s].file = file,
           \A t \in TableIds \ {s} : KeepsPlace(t),
           currentFunctionSymtab' = s, UNCHANGED <<globalSymtab, packageSymtab, file>>
    PROVE  CurrentLive' /\ FileInv'
<1>1. LiveTables' = LiveTables \cup {s} /\ s \notin LiveTables
  BY DEF LiveTables, KeepsPlace
<1>2. \A t \in LiveTables : tables'[t].parent = tables[t].parent /\ tables'[t].file = tables[t].file
  BY <1>1 DEF KeepsPlace, LiveTables
<1>3. packageSymtab # NULL /\ {globalSymtab, packageSymtab} \subseteq FileTables
  BY DEF FileTables, FileInv
<1>4. FileTables' = FileTables \cup {s} /\ s \notin FileTables
  BY <1>1, <1>2, <1>3 DEF FileTables
<1>5. s \in Inner' /\ s \notin {globalSymtab, packageSymtab} /\ s # NULL
  BY <1>3, <1>4, SymTabAssumption DEF Inner
<1>6. \A t \in FileTables' : tables'[t].parent \in FileTables' \cup {NULL}
  BY <1>2, <1>4 DEF FileInv, FileTables
<1>7. \A t \in LiveTables' : tables'[t].file <= file'
  <2>1. file <= file
    BY DEF TypeOK
  <2>2. QED
    BY <1>1, <1>2, <2>1 DEF FileInv
<1>8. CurrentLive'
  BY <1>5 DEF CurrentLive
<1>9. QED
  BY <1>3, <1>4, <1>5, <1>6, <1>7, <1>8 DEF FileInv

\* new_temp moves nextOffset and nothing else of its table.
LEMMA TempPreserves ==
    ASSUME IInv, new_temp
    PROVE  IInv'
<1> DEFINE st == currentFunctionSymtab
           top == tables[st].nextOffset
<1>1. /\ st \in TableIds /\ tables[st] \in sym_table
      /\ top \in Nat /\ st \in LiveTables
  BY DEF IInv, TypeOK, CurrentLive, new_temp, Live, LiveTables, sym_table
<1>2. /\ tables' = [tables EXCEPT ![st] = [@ EXCEPT !.nextOffset = top + 8]]
      /\ temps' = [temps EXCEPT ![st] = @ \cup {top}]
      /\ UNCHANGED <<entries, scopes, error_count>>
  BY DEF new_temp
<1>3. /\ tables'[st] \in sym_table /\ tables'[st] # NULL
      /\ tables'[st].tbl = tables[st].tbl /\ tables'[st].nextOffset = top + 8
      /\ tables'[st].parent = tables[st].parent /\ tables'[st].file = tables[st].file
  <2>1. tables'[st] = [tables[st] EXCEPT !.nextOffset = top + 8]
    BY <1>1, <1>2 DEF IInv, TypeOK
  <2>2. top + 8 \in Nat
    BY <1>1
  <2> HIDE DEF st, top
  <2>3. QED
    BY <1>1, <2>1, <2>2, BumpedFacts, NullIsNoBlock
<1>4. /\ \A t \in TableIds : t # st => tables'[t] = tables[t] /\ temps'[t] = temps[t]
      /\ temps'[st] = temps[st] \cup {top}
  BY <1>1, <1>2 DEF IInv, TypeOK
<1>5. LiveTables' = LiveTables
  BY <1>1, <1>3, <1>4 DEF LiveTables, Live
<1>6. \A t \in TableIds : EntriesOf(t)' = EntriesOf(t)
  BY <1>2 DEF EntriesOf
<1>7. TypeOK'
  <2>1. tables' \in [TableIds -> sym_table \cup {NULL}]
    BY <1>2, <1>3, <1>4 DEF IInv, TypeOK
  <2>2. temps' \in [TableIds -> SUBSET Nat]
    BY <1>1, <1>2, <1>4 DEF IInv, TypeOK
  <2>3. QED
    BY <1>2, <2>1, <2>2 DEF IInv, TypeOK, scopes
<1>8. HeapClean'
  <2>1. \A e \in EntryIds : entries[e] # NULL => entries[e].table \in LiveTables
    BY DEF IInv, HeapClean, TypeOK, LiveTables, sym_entry
  <2>2. \A t \in LiveTables : Live(t)'
    BY <1>5 DEF LiveTables
  <2>3. QED
    BY <1>1, <1>2, <1>3, <1>4, <2>1, <2>2 DEF IInv, HeapClean, LiveTables
<1>9. CurrentLive' /\ FileInv'
  <2>1. \A t \in TableIds : KeepsPlace(t)
    BY <1>1, <1>3, <1>4 DEF KeepsPlace, Live, LiveTables
  <2>2. QED
    BY <1>2, <2>1, SameFile DEF IInv
<1>10. \A t \in TableIds : tables'[t] # NULL => tables'[t].tbl = tables[t].tbl
  BY <1>3, <1>4
<1>11. ChainsSound' /\ ChainsComplete' /\ UniqueNames'
  <2>1. \A t \in LiveTables : t \in TableIds /\ tables'[t].tbl = tables[t].tbl
    BY <1>5, <1>10 DEF LiveTables, Live
  <2>2. entries' = entries
    BY <1>2
  <2>3. ChainsSound'
    BY <1>5, <1>6, <2>1, <2>2 DEF IInv, ChainsSound
  <2>4. ChainsComplete'
    BY <1>5, <1>6, <2>1, <2>2 DEF IInv, ChainsComplete
  <2>5. QED
    BY <2>2, <2>3, <2>4 DEF IInv, UniqueNames
<1>12. SlotsDisjoint'
  <2> SUFFICES ASSUME NEW t \in LiveTables
               PROVE  /\ \A f, g \in EntriesOf(t) : entries[f].offset = entries[g].offset => f = g
                      /\ \A f \in EntriesOf(t) : /\ entries[f].offset \notin temps'[t]
                                                /\ entries[f].offset < tables'[t].nextOffset
                                                /\ entries[f].offset % 8 = 0
                      /\ \A o \in temps'[t] : o < tables'[t].nextOffset /\ o % 8 = 0
                      /\ tables'[t].nextOffset >= 8 /\ tables'[t].nextOffset % 8 = 0
    BY <1>2, <1>5, <1>6 DEF SlotsDisjoint, LiveTables
  <2>1. CASE t # st
    BY <1>4, <2>1 DEF IInv, SlotsDisjoint, LiveTables
  <2>2. CASE t = st
    <3>1. /\ \A f, g \in EntriesOf(st) : entries[f].offset = entries[g].offset => f = g
          /\ \A f \in EntriesOf(st) : /\ entries[f].offset \notin temps[st]
                                      /\ entries[f].offset < top
                                      /\ entries[f].offset % 8 = 0
                                      /\ entries[f].offset \in Nat
          /\ \A o \in temps[st] : o < top /\ o % 8 = 0 /\ o \in Nat
          /\ top >= 8 /\ top % 8 = 0
      BY <1>1 DEF IInv, SlotsDisjoint, TypeOK, EntriesOf, sym_entry
    <3> HIDE DEF st, top
    <3>2. (top + 8) % 8 = 0 /\ top + 8 >= 8
      BY <1>1, <3>1
    <3>3. QED
      BY <1>1, <1>3, <1>4, <2>2, <3>1, <3>2
  <2>3. QED
    BY <2>1, <2>2
<1>13. QED
  BY <1>7, <1>8, <1>9, <1>11, <1>12 DEF IInv

\* Freeing a table takes its entries with it.
LEMMA FreePreserves ==
    ASSUME IInv, NEW st \in TableIds, free_symbol_table(st)
    PROVE  IInv'
<1>1. /\ st \in LiveTables /\ st \in {globalSymtab, packageSymtab}
      /\ tables'[st] = NULL /\ \A t \in TableIds : t # st => tables'[t] = tables[t]
      /\ temps'[st] = {} /\ \A t \in TableIds : t # st => temps'[t] = temps[t]
      /\ packageSymtab' = NULL
      /\ UNCHANGED <<globalSymtab, currentFunctionSymtab, file, error_count>>
  BY DEF IInv, TypeOK, free_symbol_table, LiveTables
<1>2. \A e \in EntryIds : entries'[e] = IF e \in EntriesOf(st) THEN NULL ELSE entries[e]
  BY DEF free_symbol_table
<1>3. LiveTables' = LiveTables \ {st}
  BY <1>1 DEF LiveTables, Live
<1>4. \A t \in LiveTables' : EntriesOf(t)' = EntriesOf(t)
  BY <1>2, <1>3 DEF EntriesOf
<1>5. \A t \in LiveTables' : \A e \in EntriesOf(t) : entries'[e] = entries[e]
  BY <1>2, <1>3 DEF EntriesOf
<1>6. TypeOK'
  <2>1. entries' \in [EntryIds -> sym_entry \cup {NULL}]
    BY DEF IInv, TypeOK, free_symbol_table
  <2>2. tables' \in [TableIds -> sym_table \cup {NULL}]
    BY DEF IInv, TypeOK, free_symbol_table
  <2>3. temps' \in [TableIds -> SUBSET Nat]
    BY DEF IInv, TypeOK, free_symbol_table
  <2>4. QED
    BY <1>1, <2>1, <2>2, <2>3 DEF IInv, TypeOK
<1>7. HeapClean'
  <2>1. ASSUME NEW e \in EntryIds, entries'[e] # NULL
        PROVE  entries'[e] = entries[e] /\ entries[e].table \in LiveTables'
    BY <1>2, <1>3, <2>1 DEF IInv, HeapClean, TypeOK, sym_entry, EntriesOf, LiveTables
  <2>2. \A t \in LiveTables' : Live(t)'
    BY DEF LiveTables
  <2>3. QED
    BY <1>1, <2>1, <2>2 DEF IInv, HeapClean, Live
<1>8. CurrentLive' /\ FileInv'
  <2>1. currentFunctionSymtab # NULL => /\ currentFunctionSymtab # st
                                        /\ currentFunctionSymtab \in TableIds
    BY <1>1 DEF IInv, CurrentLive, TypeOK
  <2>2. CurrentLive'
    BY <1>1, <2>1 DEF IInv, CurrentLive, Live
  <2>3. FileTables' = {} /\ Inner' = {}
    BY <1>1 DEF FileTables, Inner
  <2>4. \A t \in LiveTables' : tables'[t].file <= file'
    BY <1>1, <1>3 DEF IInv, FileInv, LiveTables
  <2>5. QED
    BY <1>1, <2>2, <2>3, <2>4 DEF FileInv
<1>9. ChainsSound' /\ ChainsComplete'
  BY <1>1, <1>3, <1>4, <1>5, SMTT(30) DEF IInv, ChainsSound, ChainsComplete, LiveTables
<1>10. UniqueNames'
  BY <1>2 DEF IInv, UniqueNames
<1>11. SlotsDisjoint'
  BY <1>1, <1>3, <1>4, <1>5 DEF IInv, SlotsDisjoint, LiveTables
<1>12. QED
  BY <1>6, <1>7, <1>8, <1>9, <1>10, <1>11 DEF IInv

\* newEntry makes an entry, with the name and the table it was asked for.
LEMMA EntryFacts ==
    ASSUME TypeOK, NEW st \in LiveTables, NEW n \in Names, NEW d \in Decls, NEW sig \in Sigs
    PROVE  /\ newEntry(st, n, d) \in sym_entry
           /\ [newEntry(st, n, d) EXCEPT !.sig = sig] \in sym_entry
           /\ \A r \in {newEntry(st, n, d), [newEntry(st, n, d) EXCEPT !.sig = sig]} :
                 r.s = n /\ r.table = st /\ r.offset = tables[st].nextOffset
<1>1. tables[st].nextOffset \in Nat /\ st \in TableIds
  BY DEF TypeOK, LiveTables, Live, sym_table
<1>2. newEntry(st, n, d) \in sym_entry
  BY <1>1 DEF newEntry, sym_entry, Regions
<1>3. QED
  BY <1>1, <1>2 DEF newEntry, sym_entry

\* The part of the invariant that a push does not settle by its shape alone.
LEMMA PushTyped ==
    ASSUME TypeOK, CurrentLive, FileInv,
           NEW st \in LiveTables, NEW n \in Names, NEW e \in EntryIds, NEW rec \in sym_entry,
           entries' = [entries EXCEPT ![e] = rec],
           tables' = [tables EXCEPT ![st] = Linked(st, n, e)],
           UNCHANGED <<scopes, error_count, temps>>
    PROVE  TypeOK' /\ CurrentLive' /\ FileInv'
<1>1. /\ Linked(st, n, e) \in sym_table /\ Linked(st, n, e) # NULL
      /\ Linked(st, n, e).parent = tables[st].parent
      /\ Linked(st, n, e).file = tables[st].file
  BY LinkedFacts
<1>2. TypeOK'
  BY <1>1 DEF TypeOK, LiveTables, Live, scopes
<1>3. \A t \in TableIds : KeepsPlace(t)
  BY <1>1 DEF TypeOK, KeepsPlace, LiveTables, Live
<1>4. QED
  BY <1>2, <1>3, SameFile

\* A signature written to an entry changes no other field.
LEMMA SigFacts ==
    ASSUME TypeOK, NEW e \in EntryIds, entries[e] # NULL, NEW sig \in Sigs,
           entries' = [entries EXCEPT ![e].sig = sig]
    PROVE  /\ entries' \in [EntryIds -> sym_entry \cup {NULL}]
           /\ \A f \in EntryIds : KeptButSig(f)
<1>1. entries[e] \in sym_entry
  BY DEF TypeOK
<1> DEFINE r == [entries[e] EXCEPT !.sig = sig]
<1>2. /\ r \in sym_entry /\ r.s = entries[e].s
      /\ r.table = entries[e].table /\ r.offset = entries[e].offset
  BY <1>1 DEF sym_entry
<1>3. r # NULL
  BY <1>2, NullIsNoBlock
<1>4. entries' = [entries EXCEPT ![e] = r]
  OBVIOUS
<1> HIDE DEF r
<1>5. QED
  BY <1>2, <1>3, <1>4 DEF TypeOK, KeptButSig

\* A table as mksymtab makes it is well formed, and empty.
LEMMA FreshTable ==
    ASSUME NEW parent \in TableIds \cup {NULL}, NEW f \in Nat
    PROVE  mksymtab(parent, f) \in sym_table /\ EmptyTable(mksymtab(parent, f))
  BY MksymtabFacts DEF EmptyTable

-----------------------------------------------------------------------------
\* One lemma per operation

\* process_file makes the global table and the package table inside it.
LEMMA StartFilePreserves ==
    ASSUME IInv, NEW global \in TableIds, NEW package \in TableIds, StartFile(global, package)
    PROVE  IInv'
<1> DEFINE outer == mksymtab(NULL, file + 1)
           inner == mksymtab(global, file + 1)
<1>1. /\ ~Live(global) /\ ~Live(package) /\ global # package
      /\ tables' = [tables EXCEPT ![global] = outer, ![package] = inner]
      /\ globalSymtab' = global /\ packageSymtab' = package /\ file' = file + 1
      /\ file < MaxFiles /\ error_count' = 0
      /\ UNCHANGED <<entries, currentFunctionSymtab, temps>>
  BY DEF StartFile, Fresh
<1>2. file \in Nat /\ file + 1 \in 0 .. MaxFiles /\ file + 1 \in Nat
  BY <1>1, SymTabAssumption DEF IInv, TypeOK
<1>3. /\ outer \in sym_table /\ EmptyTable(outer) /\ outer # NULL
      /\ outer.parent = NULL /\ outer.file = file + 1
      /\ inner \in sym_table /\ EmptyTable(inner) /\ inner # NULL
      /\ inner.parent = global /\ inner.file = file + 1
  BY <1>2, FreshTable, MksymtabFacts
<1> HIDE DEF outer, inner
<1>4. /\ tables'[global] = outer /\ tables'[package] = inner
      /\ \A t \in TableIds \ {global, package} : tables'[t] = tables[t]
  BY <1>1 DEF IInv, TypeOK
<1>5. \A t \in TableIds : KeptOrOpened(t)
  BY <1>1, <1>3, <1>4 DEF KeptOrOpened, Live
<1>6. Shape'
  BY <1>1, <1>5, OpenPreserves DEF KeptButSig
<1>7. TypeOK'
  <2>1. tables' \in [TableIds -> sym_table \cup {NULL}]
    BY <1>1, <1>3 DEF IInv, TypeOK
  <2>2. QED
    BY <1>1, <1>2, <2>1, SymTabAssumption DEF IInv, TypeOK
<1>8. LiveTables' = LiveTables \cup {global, package} /\ LiveTables \cap {global, package} = {}
  BY <1>1, <1>3, <1>4 DEF LiveTables, Live
<1>9. \A t \in LiveTables : tables'[t] = tables[t] /\ tables[t].file <= file /\ tables[t].file \in Nat
  BY <1>4, <1>8 DEF IInv, FileInv, TypeOK, LiveTables, Live, sym_table
<1>10. global # NULL /\ package # NULL
  BY SymTabAssumption
<1>a. /\ file + 1 <= file + 1
      /\ \A t \in LiveTables : tables[t].file # file + 1 /\ tables[t].file <= file + 1
  BY <1>2, <1>9
<1>b. \A t \in LiveTables : t \in TableIds \ {global, package}
  BY <1>8 DEF LiveTables
<1>11. FileTables' = {global, package} /\ Inner' = {}
  <2>1. \A t \in LiveTables : tables'[t].file # file'
    BY <1>1, <1>4, <1>a, <1>b
  <2>2. FileTables' = {global, package}
    BY <1>1, <1>3, <1>4, <1>8, <1>10, <2>1 DEF FileTables
  <2>3. QED
    BY <1>1, <2>2 DEF Inner
<1>12. \A t \in LiveTables' : tables'[t].file <= file'
  BY <1>1, <1>3, <1>4, <1>8, <1>a, <1>b
<1>13. FileInv'
  <2>1. \A t \in FileTables' : tables'[t].parent \in FileTables' \cup {NULL}
    BY <1>3, <1>4, <1>11
  <2>2. /\ {globalSymtab', packageSymtab'} \subseteq FileTables'
        /\ globalSymtab' # packageSymtab'
    BY <1>1, <1>11
  <2>3. QED
    BY <1>11, <1>12, <2>1, <2>2 DEF FileInv
<1>14. CurrentLive'
  <2>1. currentFunctionSymtab # NULL => currentFunctionSymtab \in LiveTables
    BY DEF IInv, CurrentLive, TypeOK, LiveTables
  <2>2. QED
    BY <1>1, <1>8, <2>1 DEF CurrentLive, LiveTables
<1>15. QED
  BY <1>6, <1>7, <1>13, <1>14 DEF IInv, Shape

\* A table of the file under way is allocated, and packageSymtab is too.
LEMMA InFile ==
    ASSUME NEW st \in FileTables
    PROVE  st \in LiveTables /\ st \in TableIds /\ Live(st) /\ packageSymtab # NULL
  BY DEF FileTables, LiveTables

\* create_function_scope makes a table under the one it is given.
LEMMA CreateFunctionScopePreserves ==
    ASSUME IInv, NEW st \in TableIds, NEW parent \in TableIds, create_function_scope(st, parent)
    PROVE  IInv'
<1>1. /\ ~Live(st) /\ parent \in FileTables
      /\ tables' = [tables EXCEPT ![st] = mksymtab(parent, file)]
      /\ currentFunctionSymtab' = st
      /\ UNCHANGED <<entries, globalSymtab, packageSymtab, file, error_count, temps>>
  BY DEF create_function_scope, Fresh, Inner
<1>2. file \in Nat
  BY DEF IInv, TypeOK
<1>3. /\ mksymtab(parent, file) \in sym_table /\ EmptyTable(mksymtab(parent, file))
      /\ mksymtab(parent, file) # NULL
      /\ mksymtab(parent, file).parent = parent /\ mksymtab(parent, file).file = file
  BY <1>2, FreshTable, MksymtabFacts
<1>4. /\ tables'[st] = mksymtab(parent, file)
      /\ \A t \in TableIds \ {st} : tables'[t] = tables[t]
  BY <1>1 DEF IInv, TypeOK
<1>5. \A t \in TableIds : KeptOrOpened(t)
  BY <1>1, <1>3, <1>4 DEF KeptOrOpened, Live
<1>6. Shape'
  BY <1>1, <1>5, OpenPreserves DEF KeptButSig
<1>7. TypeOK'
  BY <1>1, <1>3 DEF IInv, TypeOK
<1>8. CurrentLive' /\ FileInv'
  <2>1. \A t \in TableIds \ {st} : KeepsPlace(t)
    BY <1>4 DEF KeepsPlace, Live
  <2>2. Live(st)' /\ tables'[st].parent = parent /\ tables'[st].file = file
    BY <1>3, <1>4 DEF Live
  <2>3. QED
    BY <1>1, <2>1, <2>2, InnerMade DEF IInv
<1>9. QED
  BY <1>6, <1>7, <1>8 DEF IInv, Shape

\* insert_symbol, whether the name is new or declared already.
LEMMA InsertSymbolPreserves ==
    ASSUME IInv, NEW st \in TableIds, NEW n \in Names, NEW d \in Decls, insert_symbol(st, n, d)
    PROVE  IInv'
<1>1. CASE Redeclaration(st, n) /\ UNCHANGED <<tables, entries, scopes, temps>>
  <2>1. error_count' \in 0 .. MaxErrors
    BY <1>1, SymTabAssumption DEF IInv, TypeOK, Redeclaration
  <2>2. Shape'
    BY <1>1, OpenPreserves DEF KeptOrOpened, KeptButSig
  <2>3. CurrentLive' /\ FileInv'
    BY <1>1, SameFile DEF IInv, KeepsPlace, Live
  <2>4. QED
    BY <1>1, <2>1, <2>2, <2>3 DEF IInv, Shape, TypeOK, scopes
<1>2. CASE /\ CanPush(st, n)
           /\ \E e \in EntryIds :
                 /\ entries[e] = NULL
                 /\ entries' = [entries EXCEPT ![e] = newEntry(st, n, d)]
                 /\ tables' = [tables EXCEPT ![st] = Linked(st, n, e)]
           /\ UNCHANGED <<scopes, error_count, temps>>
  <2>1. PICK e \in EntryIds : /\ entries[e] = NULL
                              /\ entries' = [entries EXCEPT ![e] = newEntry(st, n, d)]
                              /\ tables' = [tables EXCEPT ![st] = Linked(st, n, e)]
    BY <1>2
  <2>2. st \in LiveTables /\ ~Declared(st, n)
    BY <1>2 DEF CanPush, LiveTables
  <2>3. /\ newEntry(st, n, d) \in sym_entry
        /\ newEntry(st, n, d).s = n /\ newEntry(st, n, d).table = st
        /\ newEntry(st, n, d).offset = tables[st].nextOffset
    BY <2>2, SymTabAssumption DEF IInv, TypeOK, LiveTables, Live, newEntry, sym_entry, sym_table, Regions
  <2>4. tables'[st] = Linked(st, n, e) /\ \A t \in TableIds \ {st} : KeptOrOpened(t)
    BY <2>1 DEF IInv, TypeOK, KeptOrOpened
  <2>5. Shape'
    BY <1>2, <2>1, <2>2, <2>3, <2>4, PushPreserves
  <2>6. TypeOK' /\ CurrentLive' /\ FileInv'
    BY <1>2, <2>1, <2>2, <2>3, PushTyped DEF IInv
  <2>7. QED
    BY <2>5, <2>6 DEF IInv, Shape
<1>3. QED
  BY <1>1, <1>2 DEF insert_symbol

\* insert_method_symbol, whether the name is new or declared already.
LEMMA InsertMethodSymbolPreserves ==
    ASSUME IInv, NEW st \in TableIds, NEW n \in Names, NEW d \in Decls, NEW sig \in Sigs,
           insert_method_symbol(st, n, d, sig)
    PROVE  IInv'
<1>1. CASE /\ Redeclaration(st, n)
           /\ entries' = [entries EXCEPT ![lookup_symbol_current_scope(st, n)].sig = sig]
           /\ UNCHANGED <<tables, scopes, temps>>
  <2>1. error_count' \in 0 .. MaxErrors
    BY <1>1, SymTabAssumption DEF IInv, TypeOK, Redeclaration
  <2>2. lookup_symbol_current_scope(st, n) \in EntriesOf(st)
    BY <1>1, LookupCurrent DEF Redeclaration, LiveTables
  <2>3. /\ entries' \in [EntryIds -> sym_entry \cup {NULL}]
        /\ \A f \in EntryIds : KeptButSig(f)
    BY <1>1, <2>2, SigFacts DEF IInv, EntriesOf
  <2>4. Shape'
    BY <1>1, <2>3, OpenPreserves DEF KeptOrOpened
  <2>5. CurrentLive' /\ FileInv'
    BY <1>1, SameFile DEF IInv, KeepsPlace, Live
  <2>6. QED
    BY <1>1, <2>1, <2>3, <2>4, <2>5 DEF IInv, Shape, TypeOK, scopes
<1>2. CASE /\ CanPush(st, n)
           /\ \E e \in EntryIds :
                 /\ entries[e] = NULL
                 /\ entries' = [entries EXCEPT ![e] = [newEntry(st, n, d) EXCEPT !.sig = sig]]
                 /\ tables' = [tables EXCEPT ![st] = Linked(st, n, e)]
           /\ UNCHANGED <<scopes, error_count, temps>>
  <2> DEFINE rec == [newEntry(st, n, d) EXCEPT !.sig = sig]
  <2>1. PICK e \in EntryIds : /\ entries[e] = NULL
                              /\ entries' = [entries EXCEPT ![e] = rec]
                              /\ tables' = [tables EXCEPT ![st] = Linked(st, n, e)]
    BY <1>2
  <2>2. st \in LiveTables /\ ~Declared(st, n)
    BY <1>2 DEF CanPush, LiveTables
  <2>3. /\ rec \in sym_entry /\ rec.s = n /\ rec.table = st
        /\ rec.offset = tables[st].nextOffset
    BY <2>2, EntryFacts DEF IInv
  <2>4. tables'[st] = Linked(st, n, e) /\ \A t \in TableIds \ {st} : KeptOrOpened(t)
    BY <2>1 DEF IInv, TypeOK, KeptOrOpened
  <2> HIDE DEF rec
  <2>5. Shape'
    BY <1>2, <2>1, <2>2, <2>3, <2>4, PushPreserves, ZenonT(30)
  <2>6. TypeOK' /\ CurrentLive' /\ FileInv'
    BY <1>2, <2>1, <2>2, <2>3, PushTyped DEF IInv
  <2>7. QED
    BY <2>5, <2>6 DEF IInv, Shape
<1>3. QED
  BY <1>1, <1>2 DEF insert_method_symbol

\* printsyms declares a function and opens its scope.
LEMMA DeclareFunctionPreserves ==
    ASSUME IInv, NEW st \in TableIds, NEW n \in Names, NEW d \in Decls, NEW sig \in Sigs,
           NEW scope \in TableIds, DeclareFunction(st, n, d, sig, scope)
    PROVE  IInv'
<1> DEFINE new == mksymtab(st, file)
<1>1. /\ tables[scope] = NULL /\ ~Live(scope) /\ st \in FileTables
      /\ currentFunctionSymtab' = scope
      /\ UNCHANGED <<globalSymtab, packageSymtab, file, temps>>
  BY DEF DeclareFunction, Fresh, Live
<1>2. /\ new \in sym_table /\ EmptyTable(new) /\ new # NULL
      /\ new.parent = st /\ new.file = file
  <2>1. file \in Nat
    BY DEF IInv, TypeOK
  <2>2. QED
    BY <2>1, FreshTable, MksymtabFacts
<1> HIDE DEF new
<1>3. CASE /\ Redeclaration(st, n)
           /\ entries' = [entries EXCEPT ![lookup_symbol_current_scope(st, n)].sig = sig]
           /\ tables' = [tables EXCEPT ![scope] = new]
  <2>1. error_count' \in 0 .. MaxErrors
    BY <1>3, SymTabAssumption DEF IInv, TypeOK, Redeclaration
  <2>2. lookup_symbol_current_scope(st, n) \in EntriesOf(st)
    BY <1>3, LookupCurrent DEF Redeclaration, LiveTables
  <2>3. /\ entries' \in [EntryIds -> sym_entry \cup {NULL}]
        /\ \A f \in EntryIds : KeptButSig(f)
    BY <1>3, <2>2, SigFacts DEF IInv, EntriesOf
  <2>4. \A t \in TableIds : KeptOrOpened(t)
    BY <1>1, <1>2, <1>3 DEF IInv, TypeOK, KeptOrOpened
  <2>5. Shape'
    BY <1>1, <2>3, <2>4, OpenPreserves
  <2>6. TypeOK'
    BY <1>1, <1>2, <1>3, <2>1, <2>3 DEF IInv, TypeOK
  <2>7. tables'[scope] = new /\ \A t \in TableIds \ {scope} : KeepsPlace(t)
    BY <1>3 DEF IInv, TypeOK, KeepsPlace, Live
  <2>8. CurrentLive' /\ FileInv'
    BY <1>1, <1>2, <2>7, InnerMade DEF IInv, Live
  <2>9. QED
    BY <2>5, <2>6, <2>8 DEF IInv, Shape
<1>4. CASE /\ CanPush(st, n)
           /\ \E e \in EntryIds :
                 /\ entries[e] = NULL
                 /\ entries' = [entries EXCEPT ![e] = [newEntry(st, n, d) EXCEPT !.sig = sig]]
                 /\ tables' = [tables EXCEPT ![st] = Linked(st, n, e), ![scope] = new]
           /\ UNCHANGED error_count
  <2> DEFINE rec == [newEntry(st, n, d) EXCEPT !.sig = sig]
  <2>1. PICK e \in EntryIds :
                 /\ entries[e] = NULL
                 /\ entries' = [entries EXCEPT ![e] = rec]
                 /\ tables' = [tables EXCEPT ![st] = Linked(st, n, e), ![scope] = new]
    BY <1>4
  <2>2. st \in LiveTables /\ ~Declared(st, n) /\ st # scope
    BY <1>1, <1>4 DEF CanPush, LiveTables, Live
  <2>3. /\ rec \in sym_entry /\ rec.s = n /\ rec.table = st
        /\ rec.offset = tables[st].nextOffset
    BY <2>2, EntryFacts DEF IInv
  <2>4. /\ tables'[st] = Linked(st, n, e)
        /\ tables'[scope] = new
        /\ \A t \in TableIds : t # st /\ t # scope => tables'[t] = tables[t]
    BY <2>1, <2>2 DEF IInv, TypeOK
  <2>5. \A t \in TableIds \ {st} : KeptOrOpened(t)
    BY <1>1, <1>2, <2>4 DEF KeptOrOpened
  <2> HIDE DEF rec
  <2>6. Shape'
    BY <1>1, <2>1, <2>2, <2>3, <2>4, <2>5, PushPreserves
  <2>7. /\ Linked(st, n, e) \in sym_table /\ Linked(st, n, e) # NULL
        /\ Linked(st, n, e).parent = tables[st].parent
        /\ Linked(st, n, e).file = tables[st].file
    BY <2>2, LinkedFacts DEF IInv
  <2>8. TypeOK'
    BY <1>1, <1>2, <1>4, <2>1, <2>2, <2>3, <2>4, <2>7 DEF IInv, TypeOK, Live, LiveTables
  <2>a. \A t \in TableIds \ {scope} : KeepsPlace(t)
    BY <2>2, <2>4, <2>7 DEF KeepsPlace, Live, LiveTables
  <2>9. CurrentLive' /\ FileInv'
    BY <1>1, <1>2, <2>4, <2>a, InnerMade DEF IInv, Live
  <2>10. QED
    BY <2>6, <2>8, <2>9 DEF IInv, Shape
<1>5. QED
  BY <1>3, <1>4 DEF DeclareFunction, new

-----------------------------------------------------------------------------
\* The count of entries

\* The entries of a table are finitely many, and nEntries is their number.
CountOK(t) == /\ IsFiniteSet(EntriesOf(t))
              /\ Live(t) => tables[t].nEntries = Cardinality(EntriesOf(t))

Counted == \A t \in TableIds : CountOK(t)

\* A table that stays allocated with its entries and its count.
LEMMA CountStays ==
    ASSUME NEW t \in TableIds, CountOK(t), EntriesOf(t)' = EntriesOf(t),
           Live(t)' => Live(t) /\ tables'[t].nEntries = tables[t].nEntries
    PROVE  CountOK(t)'
  BY DEF CountOK

\* A table without entries: one just made, one freed, one not allocated.
LEMMA CountNone ==
    ASSUME NEW t \in TableIds, EntriesOf(t)' = {}, Live(t)' => tables'[t].nEntries = 0
    PROVE  CountOK(t)'
  BY FS_EmptySet DEF CountOK

\* A push adds one to the entries and to the count.
LEMMA CountPush ==
    ASSUME IInv, Counted, NEW st \in LiveTables, NEW n \in Names, NEW e \in EntryIds,
           NEW rec \in sym_entry, rec.table = st,
           entries[e] = NULL, entries' = [entries EXCEPT ![e] = rec],
           tables'[st] = Linked(st, n, e)
    PROVE  /\ CountOK(st)' /\ \A t \in TableIds \ {st} : EntriesOf(t)' = EntriesOf(t)
<1>1. entries'[e] = rec /\ rec # NULL /\ \A f \in EntryIds \ {e} : entries'[f] = entries[f]
  BY NullIsNoBlock DEF IInv, TypeOK
<1>2. /\ EntriesOf(st)' = EntriesOf(st) \cup {e} /\ e \notin EntriesOf(st)
      /\ \A t \in TableIds \ {st} : EntriesOf(t)' = EntriesOf(t)
  BY <1>1 DEF EntriesOf
<1>3. IsFiniteSet(EntriesOf(st)) /\ tables[st].nEntries = Cardinality(EntriesOf(st))
  BY DEF Counted, CountOK, LiveTables
<1>4. /\ IsFiniteSet(EntriesOf(st) \cup {e})
      /\ Cardinality(EntriesOf(st) \cup {e}) = Cardinality(EntriesOf(st)) + 1
  BY <1>2, <1>3, FS_AddElement
<1>5. tables'[st].nEntries = tables[st].nEntries + 1
  BY DEF Linked
<1>6. QED
  BY <1>2, <1>3, <1>4, <1>5 DEF CountOK

\* Only the written table can lose its count.
LEMMA CountOthers ==
    ASSUME Counted, NEW t \in TableIds, EntriesOf(t)' = EntriesOf(t), tables'[t] = tables[t]
    PROVE  CountOK(t)'
  BY CountStays DEF Counted, Live

\* A table made where none was has no entries.
LEMMA CountMade ==
    ASSUME IInv, NEW t \in TableIds, Fresh(t), NEW p, NEW f, tables'[t] = mksymtab(p, f),
           EntriesOf(t)' = EntriesOf(t)
    PROVE  CountOK(t)'
<1>1. EntriesOf(t)' = {}
  BY DEF EntriesOf, Fresh, IInv, HeapClean
<1>2. tables'[t].nEntries = 0
  BY DEF mksymtab
<1>3. QED
  BY <1>1, <1>2, CountNone

\* insert_symbol, insert_method_symbol and the function case of printsyms count
\* what they push, and nothing when they only write a signature.
LEMMA InsertCounts ==
    ASSUME IInv, Counted, NEW st \in TableIds, NEW n \in Names, NEW d \in Decls,
           \/ insert_symbol(st, n, d)
           \/ \E sig \in Sigs : insert_method_symbol(st, n, d, sig)
    PROVE  Counted'
<1>1. CASE UNCHANGED tables /\ \A f \in EntryIds : KeptButSig(f)
  <2>1. \A t \in TableIds : EntriesOf(t)' = EntriesOf(t)
    BY <1>1 DEF EntriesOf, KeptButSig
  <2>2. QED
    BY <1>1, <2>1, CountOthers DEF Counted
<1>2. CASE \E e \in EntryIds, rec \in sym_entry :
              /\ CanPush(st, n) /\ rec.table = st /\ entries[e] = NULL
              /\ entries' = [entries EXCEPT ![e] = rec]
              /\ tables' = [tables EXCEPT ![st] = Linked(st, n, e)]
  <2>1. PICK e \in EntryIds, rec \in sym_entry :
              /\ CanPush(st, n) /\ rec.table = st /\ entries[e] = NULL
              /\ entries' = [entries EXCEPT ![e] = rec]
              /\ tables' = [tables EXCEPT ![st] = Linked(st, n, e)]
    BY <1>2
  <2>2. tables'[st] = Linked(st, n, e) /\ \A t \in TableIds \ {st} : tables'[t] = tables[t]
    BY <2>1 DEF IInv, TypeOK
  <2>3. st \in LiveTables
    BY <2>1 DEF CanPush, LiveTables
  <2>4. CountOK(st)' /\ \A t \in TableIds \ {st} : EntriesOf(t)' = EntriesOf(t)
    BY <2>1, <2>2, <2>3, CountPush
  <2>5. QED
    BY <2>2, <2>4, CountOthers DEF Counted
<1>3. CASE insert_symbol(st, n, d)
  <2>1. CanPush(st, n) => newEntry(st, n, d) \in sym_entry /\ newEntry(st, n, d).table = st
    BY SymTabAssumption
       DEF CanPush, IInv, TypeOK, Live, newEntry, sym_entry, sym_table, Regions
  <2>2. QED
    BY <1>1, <1>2, <1>3, <2>1 DEF insert_symbol, KeptButSig
<1>4. ASSUME NEW sig \in Sigs, insert_method_symbol(st, n, d, sig) PROVE Counted'
  <2>1. Redeclaration(st, n) => lookup_symbol_current_scope(st, n) \in EntriesOf(st)
    BY LookupCurrent DEF Redeclaration, LiveTables
  <2>2. CASE /\ Redeclaration(st, n)
             /\ entries' = [entries EXCEPT ![lookup_symbol_current_scope(st, n)].sig = sig]
             /\ UNCHANGED tables
    BY <1>1, <2>1, <2>2, SigFacts DEF IInv, EntriesOf
  <2>3. CanPush(st, n) => /\ [newEntry(st, n, d) EXCEPT !.sig = sig] \in sym_entry
                          /\ [newEntry(st, n, d) EXCEPT !.sig = sig].table = st
    BY EntryFacts DEF CanPush, LiveTables, IInv
  <2>4. QED
    BY <1>2, <1>4, <2>2, <2>3 DEF insert_method_symbol
<1>5. QED
  BY <1>3, <1>4

\* printsyms pushes the function's entry, if its name is new, and makes a table.
LEMMA DeclareFunctionCounts ==
    ASSUME IInv, Counted, NEW st \in TableIds, NEW n \in Names, NEW d \in Decls, NEW sig \in Sigs,
           NEW scope \in TableIds, DeclareFunction(st, n, d, sig, scope)
    PROVE  Counted'
<1> DEFINE new == mksymtab(st, file)
<1>1. Fresh(scope)
  BY DEF DeclareFunction
<1>2. CASE /\ Redeclaration(st, n)
           /\ entries' = [entries EXCEPT ![lookup_symbol_current_scope(st, n)].sig = sig]
           /\ tables' = [tables EXCEPT ![scope] = new]
  <2>1. lookup_symbol_current_scope(st, n) \in EntriesOf(st)
    BY <1>2, LookupCurrent DEF Redeclaration, LiveTables
  <2>2. \A f \in EntryIds : KeptButSig(f)
    BY <1>2, <2>1, SigFacts DEF IInv, EntriesOf
  <2>3. \A t \in TableIds : EntriesOf(t)' = EntriesOf(t)
    BY <2>2 DEF EntriesOf, KeptButSig
  <2>4. tables'[scope] = new /\ \A t \in TableIds \ {scope} : tables'[t] = tables[t]
    BY <1>2 DEF IInv, TypeOK
  <2>5. QED
    BY <1>1, <2>3, <2>4, CountMade, CountOthers DEF Counted
<1>3. CASE \E e \in EntryIds :
              /\ CanPush(st, n) /\ entries[e] = NULL
              /\ entries' = [entries EXCEPT ![e] = [newEntry(st, n, d) EXCEPT !.sig = sig]]
              /\ tables' = [tables EXCEPT ![st] = Linked(st, n, e), ![scope] = new]
  <2> DEFINE rec == [newEntry(st, n, d) EXCEPT !.sig = sig]
  <2>1. PICK e \in EntryIds :
              /\ CanPush(st, n) /\ entries[e] = NULL
              /\ entries' = [entries EXCEPT ![e] = rec]
              /\ tables' = [tables EXCEPT ![st] = Linked(st, n, e), ![scope] = new]
    BY <1>3
  <2>2. st \in LiveTables /\ st # scope
    BY <1>1, <2>1 DEF CanPush, LiveTables, Fresh
  <2>3. rec \in sym_entry /\ rec.table = st
    BY <2>2, EntryFacts DEF IInv
  <2> HIDE DEF rec, new
  <2>4. /\ tables'[st] = Linked(st, n, e)
        /\ tables'[scope] = new
        /\ \A t \in TableIds : t # st /\ t # scope => tables'[t] = tables[t]
    BY <2>1, <2>2 DEF IInv, TypeOK
  <2>5. CountOK(st)' /\ \A t \in TableIds \ {st} : EntriesOf(t)' = EntriesOf(t)
    BY <2>1, <2>2, <2>3, <2>4, CountPush
  <2>6. CountOK(scope)'
    BY <1>1, <2>2, <2>4, <2>5, CountMade DEF new
  <2>7. \A t \in TableIds : t # st /\ t # scope => CountOK(t)'
    BY <2>4, <2>5, CountOthers
  <2>8. QED
    BY <2>5, <2>6, <2>7 DEF Counted
<1>4. QED
  BY <1>2, <1>3 DEF DeclareFunction

\* free_symbol_table takes the table with all its entries.
LEMMA FreeCounts ==
    ASSUME IInv, Counted, NEW st \in TableIds, free_symbol_table(st)
    PROVE  Counted'
<1>1. /\ entries' = [e \in EntryIds |-> IF e \in EntriesOf(st) THEN NULL ELSE entries[e]]
      /\ tables' = [tables EXCEPT ![st] = NULL]
  BY DEF free_symbol_table
<1>2. tables'[st] = NULL /\ \A t \in TableIds \ {st} : tables'[t] = tables[t]
  BY <1>1 DEF IInv, TypeOK
<1>3. EntriesOf(st)' = {} /\ \A t \in TableIds \ {st} : EntriesOf(t)' = EntriesOf(t)
  BY <1>1 DEF EntriesOf
<1>4. CountOK(st)'
  BY <1>2, <1>3, CountNone DEF Live
<1>5. QED
  BY <1>2, <1>3, <1>4, CountOthers DEF Counted

\* Every operation on the tables keeps the count.
LEMMA CountInv == IInv /\ Counted /\ [Next]_vars => Counted'
<1> SUFFICES ASSUME IInv, Counted, [Next]_vars PROVE Counted'
  OBVIOUS
<1>1. ASSUME NEW st \in TableIds, NEW p \in TableIds, create_function_scope(st, p)
      PROVE  Counted'
  <2>1. \A t \in TableIds : EntriesOf(t)' = EntriesOf(t)
    BY <1>1 DEF EntriesOf, create_function_scope
  <2>2. Fresh(st) /\ tables'[st] = mksymtab(p, file)
        /\ \A t \in TableIds \ {st} : tables'[t] = tables[t]
    BY <1>1 DEF IInv, TypeOK, create_function_scope
  <2>3. QED
    BY <2>1, <2>2, CountMade, CountOthers DEF Counted
<1>2. ASSUME NEW global \in TableIds, NEW package \in TableIds, StartFile(global, package)
      PROVE  Counted'
  <2>1. \A t \in TableIds : EntriesOf(t)' = EntriesOf(t)
    BY <1>2 DEF EntriesOf, StartFile
  <2>2. /\ Fresh(global) /\ tables'[global] = mksymtab(NULL, file + 1)
        /\ Fresh(package) /\ tables'[package] = mksymtab(global, file + 1)
        /\ \A t \in TableIds \ {global, package} : tables'[t] = tables[t]
    BY <1>2 DEF IInv, TypeOK, StartFile
  <2>3. QED
    BY <2>1, <2>2, CountMade, CountOthers DEF Counted
<1>3. CASE new_temp
  <2> DEFINE st == currentFunctionSymtab
             top == tables[st].nextOffset
  <2>1. /\ st \in TableIds /\ tables[st] \in sym_table /\ Live(st)
        /\ tables' = [tables EXCEPT ![st] = [@ EXCEPT !.nextOffset = top + 8]]
        /\ UNCHANGED entries
    BY <1>3 DEF new_temp, IInv, TypeOK, CurrentLive, Live
  <2>2. \A t \in TableIds : EntriesOf(t)' = EntriesOf(t)
    BY <2>1 DEF EntriesOf
  <2>3. \A t \in TableIds :
           tables'[t] # NULL => tables[t] # NULL /\ tables'[t].nEntries = tables[t].nEntries
    BY <2>1 DEF IInv, TypeOK, sym_table, Live
  <2>4. QED
    BY <2>2, <2>3, CountStays DEF Counted, Live
<1>4. CASE UNCHANGED <<tables, entries>>
  BY <1>4, CountOthers DEF Counted, EntriesOf
<1>5. QED
  BY <1>1, <1>2, <1>3, <1>4, InsertCounts, DeclareFunctionCounts, FreeCounts
     DEF Next, vars, SwitchFunction

\* At the start no table is allocated.
LEMMA CountInit == Init => Counted
  BY FS_EmptySet DEF Init, Counted, CountOK, EntriesOf, Live

-----------------------------------------------------------------------------
\* The theorems

\* The tables process_file starts from satisfy the invariant.
LEMMA InitInv == Init => IInv
<1> SUFFICES ASSUME Init PROVE IInv
  OBVIOUS
<1> USE SymTabAssumption DEF Init
<1>1. TypeOK
  BY DEF TypeOK
<1>2. LiveTables = {} /\ \A st \in TableIds : EntriesOf(st) = {}
  BY DEF LiveTables, Live, EntriesOf
<1>3. ChainsSound /\ ChainsComplete /\ UniqueNames /\ SlotsDisjoint
  BY <1>2 DEF ChainsSound, ChainsComplete, UniqueNames, SlotsDisjoint
<1>4. HeapClean /\ CurrentLive /\ FileInv
  BY <1>2 DEF HeapClean, CurrentLive, FileInv, FileTables, Inner
<1>5. QED
  BY <1>1, <1>3, <1>4 DEF IInv

\* Every operation on the tables keeps the invariant.
LEMMA NextInv == IInv /\ [Next]_vars => IInv'
<1> SUFFICES ASSUME IInv, [Next]_vars PROVE IInv'
  OBVIOUS
<1>1. ASSUME NEW st \in TableIds, NEW t \in TableIds,
             StartFile(st, t) \/ create_function_scope(st, t)
      PROVE  IInv'
  BY <1>1, StartFilePreserves, CreateFunctionScopePreserves
<1>2. ASSUME NEW st \in TableIds, NEW n \in Names, NEW d \in Decls, insert_symbol(st, n, d)
      PROVE  IInv'
  BY <1>2, InsertSymbolPreserves
<1>3. ASSUME NEW st \in TableIds, NEW n \in Names, NEW d \in Decls, NEW sig \in Sigs,
             insert_method_symbol(st, n, d, sig)
      PROVE  IInv'
  BY <1>3, InsertMethodSymbolPreserves
<1>4. ASSUME NEW st \in TableIds, NEW scope \in TableIds, NEW n \in Names,
             NEW d \in Decls, NEW sig \in Sigs, DeclareFunction(st, n, d, sig, scope)
      PROVE  IInv'
  BY <1>4, DeclareFunctionPreserves
<1>5. CASE new_temp
  BY <1>5, TempPreserves
<1>6. ASSUME NEW st \in TableIds, SwitchFunction(st)
      PROVE  IInv'
  <2>1. /\ st \in Inner /\ currentFunctionSymtab' = st
        /\ UNCHANGED <<tables, entries, globalSymtab, packageSymtab, file, error_count, temps>>
    BY <1>6 DEF SwitchFunction
  <2>2. Shape'
    BY <2>1, OpenPreserves DEF KeptOrOpened, KeptButSig
  <2>3. FileTables' = FileTables /\ Inner' = Inner /\ LiveTables' = LiveTables
    BY <2>1 DEF FileTables, Inner, LiveTables, Live
  <2>4. TypeOK' /\ CurrentLive'
    BY <2>1, InFile DEF IInv, TypeOK, CurrentLive, Inner, Live
  <2>5. FileInv'
    BY <2>1, <2>3 DEF IInv, FileInv
  <2>6. QED
    BY <2>2, <2>4, <2>5 DEF IInv, Shape
<1>7. ASSUME NEW st \in TableIds, free_symbol_table(st)
      PROVE  IInv'
  BY <1>7, FreePreserves
<1>8. CASE UNCHANGED vars
  <2>1. Shape'
    BY <1>8, OpenPreserves DEF vars, KeptOrOpened, KeptButSig
  <2>2. TypeOK'
    BY <1>8 DEF vars, scopes, IInv, TypeOK
  <2>3. CurrentLive' /\ FileInv'
    BY <1>8, SameFile DEF vars, IInv, KeepsPlace, Live
  <2>4. QED
    BY <2>1, <2>2, <2>3 DEF IInv, Shape
<1>9. QED
  BY <1>1, <1>2, <1>3, <1>4, <1>5, <1>6, <1>7, <1>8 DEF Next

\* The invariant of the tables holds whatever the order of the operations.
THEOREM Invariance == Spec => []IInv
  BY InitInv, NextInv, PTL DEF Spec

\* Every field keeps its C type, whatever the order of the operations.
THEOREM TypeCorrect == Spec => []TypeOK
  BY Invariance, PTL DEF IInv

\* The redeclaration check of insert_symbol keeps the names of a scope distinct,
\* for every hash function and every number of buckets.
THEOREM NamesUnique == Spec => []UniqueNames
  BY Invariance, PTL DEF IInv

\* The chains of a table hold exactly its entries, and nEntries is their number:
\* a lookup that walks one bucket misses nothing.
THEOREM ChainsHoldEntries == Spec => []ChainsExact
<1>1. Spec => []Counted
  BY Invariance, CountInit, CountInv, PTL DEF Spec
<1>2. IInv /\ Counted => ChainsExact
  BY DEF IInv, Counted, CountOK, ChainsExact, EntriesCounted, LiveTables
<1>3. QED
  BY Invariance, <1>1, <1>2, PTL

\* No two variables or temporaries of a function share a stack slot.
THEOREM SlotsNeverShared == Spec => []SlotsDisjoint
  BY Invariance, PTL DEF IInv

\* A declaration that stands is only touched by a step that reports an error.
THEOREM FirstDeclarationStands == Spec => FirstDeclarationWins
<1> DEFINE Stands == \A e \in EntryIds :
                        entries[e] # NULL /\ entries'[e] # NULL /\ entries'[e] # entries[e]
                        => error_count' > error_count
<1>1. ASSUME IInv, Next PROVE Stands
  <2> SUFFICES ASSUME NEW e \in EntryIds, entries[e] # NULL, entries'[e] # NULL,
                      entries'[e] # entries[e]
               PROVE  error_count' > error_count
    OBVIOUS
  <2>1. error_count \in Nat
    BY <1>1 DEF IInv, TypeOK
  <2>2. entries' # entries /\ \A r : \A f \in EntryIds :
           entries[f] = NULL => entries' # [entries EXCEPT ![f] = r]
    BY <1>1 DEF IInv, TypeOK
  <2>3. \A st, n : Redeclaration(st, n) => error_count' > error_count
    BY <2>1 DEF Redeclaration
  <2>4. \A st, t \in TableIds : ~StartFile(st, t) /\ ~create_function_scope(st, t)
    BY <2>2 DEF StartFile, create_function_scope
  <2>5. \A st \in TableIds, n \in Names, d \in Decls : ~insert_symbol(st, n, d)
    BY <2>2 DEF insert_symbol
  <2>6. \A st \in TableIds, n \in Names, d \in Decls, sig \in Sigs :
           insert_method_symbol(st, n, d, sig) => error_count' > error_count
    BY <2>2, <2>3 DEF insert_method_symbol
  <2>7. \A st, scope \in TableIds, n \in Names, d \in Decls, sig \in Sigs :
           DeclareFunction(st, n, d, sig, scope) => error_count' > error_count
    BY <2>2, <2>3 DEF DeclareFunction
  <2>8. ~new_temp /\ \A st \in TableIds : ~SwitchFunction(st)
    BY <2>2 DEF new_temp, SwitchFunction
  <2>9. \A st \in TableIds : ~free_symbol_table(st)
    BY <1>1 DEF free_symbol_table
  <2>10. QED
    BY <1>1, <2>4, <2>5, <2>6, <2>7, <2>8, <2>9 DEF Next
<1>2. ASSUME IInv, Next PROVE [Stands]_vars
  BY <1>1, <1>2
<1>3. IInv /\ [Next]_vars => [Stands]_vars
  BY <1>2
<1>4. QED
  BY Invariance, <1>3, PTL DEF Spec, FirstDeclarationWins

-----------------------------------------------------------------------------
\* The tables as a scoped map

Bound(e) == [decl |-> entries[e].decl, slot |-> entries[e].offset]

\* What a bucket walk finds, said of the entries of the table alone.
BindingsMean ==
    \A st \in LiveTables, n \in Names :
        /\ \A e \in EntriesOf(st) : entries[e].s = n => MapBinds[st][n] = Bound(e)
        /\ (\A e \in EntriesOf(st) : entries[e].s # n) => MapBinds[st][n] = NULL

-----------------------------------------------------------------------------
\* Lemmas on functions

\* A function that differs in one place.
LEMMA OnePlace ==
    ASSUME NEW T, NEW f, NEW g, f = [t \in T |-> f[t]], g = [t \in T |-> g[t]],
           NEW s \in T, NEW v, g[s] = v, \A t \in T : t # s => g[t] = f[t]
    PROVE  g = [f EXCEPT ![s] = v]
  OBVIOUS

\* In two.
LEMMA TwoPlaces ==
    ASSUME NEW T, NEW f, NEW g, f = [t \in T |-> f[t]], g = [t \in T |-> g[t]],
           NEW s \in T, NEW v, NEW r \in T, NEW w, s # r, g[s] = v, g[r] = w,
           \A t \in T : t # s /\ t # r => g[t] = f[t]
    PROVE  g = [f EXCEPT ![s] = v, ![r] = w]
  OBVIOUS

\* One that differs nowhere.
LEMMA NoPlace ==
    ASSUME NEW T, NEW f, NEW g, f = [t \in T |-> f[t]], g = [t \in T |-> g[t]],
           \A t \in T : g[t] = f[t]
    PROVE  g = f
  OBVIOUS

FunctionViews ==
    /\ MapUp = [t \in TableIds |-> MapUp[t]]
    /\ MapState = [t \in TableIds |-> MapState[t]]
    /\ MapBinds = [t \in TableIds |-> MapBinds[t]]
    /\ MapUsed = [t \in TableIds |-> MapUsed[t]]
    /\ \A t \in TableIds : MapBinds[t] = [n \in Names |-> MapBinds[t][n]]

\* The views of the map are functions of the tables, before a step and after.
LEMMA MapsAreFunctions == FunctionViews /\ FunctionViews'
  BY DEF FunctionViews, MapUp, MapState, MapBinds, MapUsed

-----------------------------------------------------------------------------
\* Lemmas on the mapping

\* The binding of a name is the one entry of the table that has it.
LEMMA MappedBindings == IInv => BindingsMean
<1> SUFFICES ASSUME IInv, NEW st \in LiveTables, NEW n \in Names
             PROVE  /\ \A e \in EntriesOf(st) : entries[e].s = n => MapBinds[st][n] = Bound(e)
                    /\ (\A e \in EntriesOf(st) : entries[e].s # n) => MapBinds[st][n] = NULL
  BY DEF BindingsMean
<1>1. st \in TableIds /\ Live(st) /\ MapBinds[st][n] = Binding(st, n)
  BY DEF LiveTables, MapBinds
<1>2. ASSUME NEW e \in EntriesOf(st), entries[e].s = n PROVE MapBinds[st][n] = Bound(e)
  <2>1. lookup_symbol_current_scope(st, n) = e
    BY <1>2, LookupCurrent
  <2>2. e # NULL
    BY SymTabAssumption DEF EntriesOf, SymTabAssumption
  <2>3. QED
    BY <1>1, <2>1, <2>2 DEF Binding, Declared, Bound
<1>3. ASSUME \A e \in EntriesOf(st) : entries[e].s # n PROVE MapBinds[st][n] = NULL
  BY <1>1, <1>3, LookupCurrent DEF Binding
<1>4. QED
  BY <1>2, <1>3

\* A declared name has a binding, and one that is not has none.
LEMMA DeclaredMeans ==
    ASSUME IInv, NEW st \in LiveTables, NEW n \in Names
    PROVE  Declared(st, n) <=> MapBinds[st][n] # NULL
<1>1. MapBinds[st][n] = Binding(st, n)
  BY DEF LiveTables, MapBinds
<1>2. CASE Declared(st, n)
  <2> DEFINE e == lookup_symbol_current_scope(st, n)
  <2>1. e \in EntryIds /\ entries[e] \in sym_entry
    BY <1>2, LookupCurrent DEF EntriesOf, IInv, TypeOK
  <2>2. [decl |-> entries[e].decl, slot |-> entries[e].offset] \in [decl : Decls, slot : Nat]
    BY <2>1 DEF sym_entry
  <2>3. QED
    BY <1>1, <1>2, <2>2, NullIsNoBinding DEF Binding, NullIsNoBinding
<1>3. CASE ~Declared(st, n)
  BY <1>1, <1>3 DEF Binding
<1>4. QED
  BY <1>2, <1>3

SameTable(t) ==
    /\ Live(t)' <=> Live(t)
    /\ EntriesOf(t)' = EntriesOf(t)
    /\ \A e \in EntriesOf(t) : /\ entries'[e].s = entries[e].s
                              /\ entries'[e].decl = entries[e].decl
                              /\ entries'[e].offset = entries[e].offset
    /\ temps'[t] = temps[t]

SameContents(t) == /\ MapState'[t] = MapState[t]
                   /\ MapBinds'[t] = MapBinds[t] /\ MapUsed'[t] = MapUsed[t]

SameView(t) == MapUp'[t] = MapUp[t] /\ SameContents(t)

\* No table freed or moved, and those made are of the file under way or of the next.
StaysOrNew(t) ==
    /\ Live(t) => /\ Live(t)' /\ tables'[t].parent = tables[t].parent
                  /\ tables'[t].file = tables[t].file
    /\ Live(t)' /\ ~Live(t) =>
          /\ tables'[t].file = file'
          /\ file' = file + 1 \/ (file' = file /\ packageSymtab # NULL)

\* Then a table whose parent was freed has none afterwards, though its parent's
\* address may be that of a new table, and the others are inside what they were in.
LEMMA PlaceStays ==
    ASSUME TypeOK, FileInv, \A t \in TableIds : StaysOrNew(t),
           NEW t \in TableIds, Live(t)
    PROVE  MapUp'[t] = MapUp[t]
<1> DEFINE p == tables[t].parent
<1>1. /\ tables[t].file \in Nat /\ tables[t].file <= file /\ file \in Nat
      /\ p \in TableIds \cup {NULL}
  BY DEF TypeOK, FileInv, Live, LiveTables, sym_table
<1>2. Live(t)' /\ tables'[t].parent = p /\ tables'[t].file = tables[t].file
  BY DEF StaysOrNew
<1>3. Adrift(t)' <=> Adrift(t)
  <2>1. CASE p = NULL
    BY <1>2, <2>1 DEF Adrift
  <2>2. CASE p # NULL /\ Live(p)
    <3>1. Live(p)' /\ tables'[p].file = tables[p].file
      BY <1>1, <2>2 DEF StaysOrNew
    <3>2. QED
      BY <1>2, <2>2, <3>1 DEF Adrift
  <2>3. CASE p # NULL /\ ~Live(p)
    <3>1. Adrift(t)
      BY <2>3 DEF Adrift
    <3>2. ASSUME Live(p)' PROVE tables'[p].file # tables[t].file
      <4>1. p \in TableIds /\ tables'[p].file = file'
            /\ (file' = file + 1 \/ (file' = file /\ packageSymtab # NULL))
        BY <1>1, <2>3, <3>2 DEF StaysOrNew
      <4>2. CASE file' = file + 1
        BY <1>1, <4>1, <4>2
      <4>3. CASE file' = file /\ packageSymtab # NULL
        <5>1. tables[t].file = file => t \in FileTables
          BY <4>3 DEF FileTables, LiveTables
        <5>2. t \in FileTables => p \in FileTables
          BY <2>3 DEF FileInv
        <5>3. p \notin FileTables
          BY <2>3 DEF FileTables, LiveTables
        <5>4. QED
          BY <4>1, <4>3, <5>1, <5>2, <5>3
      <4>4. QED
        BY <4>1, <4>2, <4>3
    <3>3. QED
      BY <1>2, <2>3, <3>1, <3>2 DEF Adrift
  <2>4. QED
    BY <2>1, <2>2, <2>3
<1>4. QED
  BY <1>2, <1>3 DEF MapUp

\* A table not allocated, before and after, is inside nothing.
LEMMA NoPlaceStays ==
    ASSUME NEW t \in TableIds, ~Live(t), ~Live(t)'
    PROVE  MapUp'[t] = MapUp[t]
  BY DEF MapUp

\* A table that stays as it is, but for signatures, is the same scope.
LEMMA SameScope ==
    ASSUME IInv, IInv', NEW t \in TableIds, SameTable(t)
    PROVE  SameContents(t)
<1>1. BindingsMean /\ BindingsMean'
  BY MappedBindings, PTL
<1>2. MapState'[t] = MapState[t]
  BY DEF MapState, SameTable
<1>3. MapUsed'[t] = MapUsed[t]
  <2>1. {entries'[e].offset : e \in EntriesOf(t)} = {entries[e].offset : e \in EntriesOf(t)}
    BY DEF SameTable
  <2>2. QED
    BY <2>1 DEF MapUsed, SameTable
<1>4. CASE Live(t)
  <2>1. t \in LiveTables /\ t \in LiveTables'
    BY <1>4 DEF LiveTables, SameTable
  <2>2. ASSUME NEW n \in Names PROVE MapBinds'[t][n] = MapBinds[t][n]
    <3>1. CASE \E e \in EntriesOf(t) : entries[e].s = n
      <4>1. PICK e \in EntriesOf(t) : entries[e].s = n
        BY <3>1
      <4>2. MapBinds[t][n] = Bound(e)
        BY <1>1, <2>1, <4>1 DEF BindingsMean
      <4>3. e \in EntriesOf(t)' /\ entries'[e].s = n
        BY <4>1 DEF SameTable
      <4>4. MapBinds'[t][n] = Bound(e)'
        BY <1>1, <2>1, <4>3 DEF BindingsMean
      <4>5. QED
        BY <4>2, <4>4 DEF Bound, SameTable
    <3>2. CASE \A e \in EntriesOf(t) : entries[e].s # n
      <4>1. \A e \in EntriesOf(t)' : entries'[e].s # n
        BY <3>2 DEF SameTable
      <4>2. QED
        BY <1>1, <2>1, <3>2, <4>1 DEF BindingsMean
    <3>3. QED
      BY <3>1, <3>2
  <2>3. MapBinds[t] = [n \in Names |-> MapBinds[t][n]]
        /\ MapBinds'[t] = [n \in Names |-> MapBinds'[t][n]]
    BY DEF MapBinds
  <2>4. QED
    BY <1>2, <1>3, <2>2, <2>3, NoPlace DEF SameContents
<1>5. CASE ~Live(t)
  BY <1>2, <1>3, <1>5 DEF MapBinds, SameTable, SameContents
<1>6. QED
  BY <1>4, <1>5

NewView(t, p) == /\ MapState[t] = "new" /\ MapState'[t] = "open" /\ MapUp'[t] = p
                 /\ MapBinds'[t] = MapBinds[t] /\ MapUsed'[t] = MapUsed[t]

\* A table that mksymtab has just made is an open scope that binds nothing.
LEMMA NewScope ==
    ASSUME IInv, IInv', NEW t \in TableIds, NEW p \in TableIds \cup {NULL}, NEW f \in Nat,
           Fresh(t), tables'[t] = mksymtab(p, f), EntriesOf(t)' = {}, temps' = temps,
           p # NULL => Live(p)' /\ tables'[p].file = f
    PROVE  NewView(t, p)
<1>1. ~Live(t) /\ Live(t)' /\ tables'[t].parent = p /\ tables'[t].file = f
  BY MksymtabFacts DEF Fresh, Live
<1>2. BindingsMean'
  BY MappedBindings, PTL
<1>3. MapState[t] = "new" /\ MapState'[t] = "open" /\ MapUp'[t] = p
  BY <1>1 DEF MapState, MapUp, Adrift
<1>4. temps[t] = {}
  BY <1>1 DEF IInv, HeapClean
<1>5. MapUsed[t] = {} /\ MapUsed'[t] = {}
  BY <1>1, <1>4 DEF MapUsed
<1>6. \A n \in Names : MapBinds'[t][n] = NULL
  BY <1>1, <1>2 DEF BindingsMean, LiveTables
<1>7. MapBinds[t] = [n \in Names |-> NULL]
  BY <1>1 DEF MapBinds
<1>8. MapBinds'[t] = [n \in Names |-> MapBinds'[t][n]]
  BY DEF MapBinds
<1>9. MapBinds'[t] = MapBinds[t]
  BY <1>6, <1>7, <1>8
<1>10. QED
  BY <1>3, <1>5, <1>9 DEF NewView

Pushed(st, n, e, rec) ==
    /\ CanPush(st, n) /\ entries[e] = NULL
    /\ rec \in sym_entry /\ rec.s = n /\ rec.table = st /\ rec.offset = tables[st].nextOffset
    /\ entries' = [entries EXCEPT ![e] = rec]
    /\ tables'[st] = Linked(st, n, e)
    /\ UNCHANGED <<file, temps>>

\* What a push does to the entries of the tables.
LEMMA PushedEntries ==
    ASSUME IInv, NEW st \in TableIds, NEW n \in Names, NEW e \in EntryIds, NEW rec,
           Pushed(st, n, e, rec)
    PROVE  /\ entries'[e] = rec /\ \A f \in EntryIds \ {e} : entries'[f] = entries[f]
           /\ EntriesOf(st)' = EntriesOf(st) \cup {e} /\ e \notin EntriesOf(st)
           /\ \A t \in TableIds \ {st} : EntriesOf(t)' = EntriesOf(t) /\ e \notin EntriesOf(t)
<1>1. entries'[e] = rec /\ \A f \in EntryIds \ {e} : entries'[f] = entries[f]
  BY DEF IInv, TypeOK, Pushed
<1>2. rec # NULL /\ rec.table = st /\ entries[e] = NULL
  BY NullIsNoBlock DEF Pushed
<1>3. QED
  BY <1>1, <1>2 DEF EntriesOf

PushedView(st, n, rec) ==
    LET slot == tables[st].nextOffset
    IN  /\ MapUp'[st] = MapUp[st] /\ MapState[st] = "open" /\ MapState'[st] = "open"
        /\ MapBinds[st][n] = NULL /\ slot \notin MapUsed[st] /\ slot \in Slots
        /\ MapBinds'[st] = [MapBinds[st] EXCEPT ![n] = [decl |-> rec.decl, slot |-> slot]]
        /\ MapUsed'[st] = MapUsed[st] \cup {slot}

\* There is a slot for a push.
LEMMA NextSlot ==
    ASSUME IInv, NEW st \in TableIds, NEW n \in Names, NEW e \in EntryIds, NEW rec,
           Pushed(st, n, e, rec)
    PROVE  tables[st].nextOffset \in Slots
<1> DEFINE slot == tables[st].nextOffset
<1>1. st \in LiveTables /\ Live(st) /\ slot + 8 <= MaxOffset
  BY DEF Pushed, CanPush, LiveTables
<1>2. slot \in Nat /\ MaxOffset \in Nat
  BY <1>1, SymTabAssumption DEF IInv, TypeOK, Live, sym_table
<1>3. slot >= 8 /\ slot % 8 = 0
  BY <1>1 DEF IInv, SlotsDisjoint
<1>4. QED
  BY <1>1, <1>2, <1>3 DEF Slots

\* A push binds its name to the next slot, which was not in use.
LEMMA PushedScope ==
    ASSUME IInv, IInv', NEW st \in TableIds, NEW n \in Names, NEW e \in EntryIds, NEW rec,
           Pushed(st, n, e, rec), \A t \in TableIds : StaysOrNew(t)
    PROVE  PushedView(st, n, rec)
<1> DEFINE slot == tables[st].nextOffset
<1>1. st \in LiveTables /\ Live(st) /\ ~Declared(st, n) /\ slot + 8 <= MaxOffset
  BY DEF Pushed, CanPush, LiveTables
<1>2. tables'[st] = Linked(st, n, e) /\ Linked(st, n, e) # NULL
  BY <1>1, LinkedFacts DEF IInv, Pushed
<1>3. Live(st)' /\ st \in LiveTables' /\ MapUp'[st] = MapUp[st]
  BY <1>1, <1>2, PlaceStays DEF IInv, Live, LiveTables
<1>4. MapState[st] = "open" /\ MapState'[st] = "open"
  BY <1>1, <1>3 DEF MapState
<1>5. MapBinds[st][n] = NULL
  BY <1>1, DeclaredMeans
<1>6. /\ entries'[e] = rec /\ \A f \in EntryIds \ {e} : entries'[f] = entries[f]
      /\ EntriesOf(st)' = EntriesOf(st) \cup {e} /\ e \notin EntriesOf(st)
  BY PushedEntries
<1>7. rec.offset = slot /\ rec.s = n /\ temps'[st] = temps[st]
  BY DEF Pushed
<1>8. slot \in Slots
  BY NextSlot
<1>9. slot \notin MapUsed[st]
  <2>1. MapUsed[st] = {entries[f].offset : f \in EntriesOf(st)} \cup temps[st]
    BY <1>1 DEF MapUsed
  <2>2. /\ \A f \in EntriesOf(st) : entries[f].offset < slot
        /\ \A o \in temps[st] : o < slot
    BY <1>1 DEF IInv, SlotsDisjoint
  <2>3. ~(slot < slot)
    BY <1>8 DEF Slots
  <2>4. QED
    BY <2>1, <2>2, <2>3
<1>10. MapUsed'[st] = MapUsed[st] \cup {slot}
  <2>1. MapUsed[st] = {entries[f].offset : f \in EntriesOf(st)} \cup temps[st]
    BY <1>1 DEF MapUsed
  <2>2. MapUsed'[st] = {entries'[f].offset : f \in EntriesOf(st)'} \cup temps'[st]
    BY <1>3 DEF MapUsed
  <2>3. EntriesOf(st) \subseteq EntryIds
    BY DEF EntriesOf
  <2>4. {entries'[f].offset : f \in EntriesOf(st)'}
           = {entries[f].offset : f \in EntriesOf(st)} \cup {slot}
    BY <1>6, <1>7, <2>3
  <2>5. QED
    BY <1>7, <2>1, <2>2, <2>4
<1>11. BindingsMean /\ BindingsMean'
  BY MappedBindings, PTL
<1>12. MapBinds'[st][n] = [decl |-> rec.decl, slot |-> slot]
  BY <1>3, <1>6, <1>7, <1>11 DEF BindingsMean, Bound
<1>13. ASSUME NEW m \in Names \ {n} PROVE MapBinds'[st][m] = MapBinds[st][m]
  <2>1. CASE \E f \in EntriesOf(st) : entries[f].s = m
    <3>1. PICK f \in EntriesOf(st) : entries[f].s = m
      BY <2>1
    <3>2. f \in EntriesOf(st)' /\ entries'[f] = entries[f]
      BY <1>6, <3>1 DEF EntriesOf
    <3>3. MapBinds[st][m] = Bound(f) /\ MapBinds'[st][m] = Bound(f)'
      BY <1>1, <1>3, <1>11, <3>1, <3>2 DEF BindingsMean
    <3>4. QED
      BY <3>2, <3>3 DEF Bound
  <2>2. CASE \A f \in EntriesOf(st) : entries[f].s # m
    <3>1. \A f \in EntriesOf(st)' : entries'[f].s # m
      BY <1>6, <1>7, <1>13, <2>2 DEF EntriesOf
    <3>2. QED
      BY <1>1, <1>3, <1>11, <2>2, <3>1 DEF BindingsMean
  <2>3. QED
    BY <2>1, <2>2
<1>14. MapBinds[st] = [m \in Names |-> MapBinds[st][m]]
       /\ MapBinds'[st] = [m \in Names |-> MapBinds'[st][m]]
  BY DEF MapBinds
<1> HIDE DEF slot
<1>15. MapBinds'[st] = [MapBinds[st] EXCEPT ![n] = [decl |-> rec.decl, slot |-> slot]]
  BY <1>12, <1>13, <1>14, OnePlace
<1>16. QED
  BY <1>3, <1>4, <1>5, <1>8, <1>9, <1>10, <1>15 DEF PushedView, slot

-----------------------------------------------------------------------------
\* The steps of the map

\* Every table the same: nothing happens to the map.
LEMMA NothingChanges ==
    ASSUME \A t \in TableIds : SameView(t)
    PROVE  UNCHANGED <<MapUp, MapState, MapBinds, MapUsed>>
<1>1. MapUp' = MapUp
  BY MapsAreFunctions, NoPlace DEF FunctionViews, SameView, SameContents
<1>2. MapState' = MapState
  BY MapsAreFunctions, NoPlace DEF FunctionViews, SameView, SameContents
<1>3. MapBinds' = MapBinds
  BY MapsAreFunctions, NoPlace DEF FunctionViews, SameView, SameContents
<1>4. MapUsed' = MapUsed
  BY MapsAreFunctions, NoPlace DEF FunctionViews, SameView, SameContents
<1>5. QED
  BY <1>1, <1>2, <1>3, <1>4

\* One table new, the others the same: a scope opens.
LEMMA ScopeOpens ==
    ASSUME NEW s \in TableIds, NEW p \in TableIds \cup {NULL}, NewView(s, p),
           \A t \in TableIds \ {s} : SameView(t)
    PROVE  /\ MapUp' = [MapUp EXCEPT ![s] = p] /\ MapState' = [MapState EXCEPT ![s] = "open"]
           /\ MapBinds' = MapBinds /\ MapUsed' = MapUsed
<1>1. \A t \in TableIds : t # s => SameView(t)
  OBVIOUS
<1>2. MapUp' = [MapUp EXCEPT ![s] = p]
  BY <1>1, MapsAreFunctions, OnePlace DEF FunctionViews, SameView, SameContents, NewView
<1>3. MapState' = [MapState EXCEPT ![s] = "open"]
  BY <1>1, MapsAreFunctions, OnePlace DEF FunctionViews, SameView, SameContents, NewView
<1>4. MapBinds' = MapBinds
  BY <1>1, MapsAreFunctions, NoPlace DEF FunctionViews, SameView, SameContents, NewView
<1>5. MapUsed' = MapUsed
  BY <1>1, MapsAreFunctions, NoPlace DEF FunctionViews, SameView, SameContents, NewView
<1>6. QED
  BY <1>2, <1>3, <1>4, <1>5

\* One table pushed on, the others with the bindings they had: a name is bound.
LEMMA NameBound ==
    ASSUME NEW s \in TableIds, NEW n \in Names, NEW rec, PushedView(s, n, rec),
           \A t \in TableIds \ {s} : MapBinds'[t] = MapBinds[t] /\ MapUsed'[t] = MapUsed[t]
    PROVE  Map!Bind(s, n, rec.decl, tables[s].nextOffset)
<1> DEFINE slot == tables[s].nextOffset
           b == [decl |-> rec.decl, slot |-> slot]
<1>1. /\ MapState[s] = "open" /\ MapBinds[s][n] = NULL /\ slot \notin MapUsed[s]
      /\ MapBinds'[s] = [MapBinds[s] EXCEPT ![n] = b]
      /\ MapUsed'[s] = MapUsed[s] \cup {slot}
  BY DEF PushedView
<1> HIDE DEF b, slot
<1>2. MapBinds' = [MapBinds EXCEPT ![s] = [MapBinds[s] EXCEPT ![n] = b]]
  BY <1>1, MapsAreFunctions, OnePlace DEF FunctionViews
<1>3. MapUsed' = [MapUsed EXCEPT ![s] = MapUsed[s] \cup {slot}]
  BY <1>1, MapsAreFunctions, OnePlace DEF FunctionViews
<1>4. MapBinds' = [MapBinds EXCEPT ![s][n] = b]
  BY <1>2
<1>5. MapUsed' = [MapUsed EXCEPT ![s] = @ \cup {slot}]
  BY <1>3
<1>6. QED
  BY <1>1, <1>4, <1>5 DEF Map!Bind, b, slot

-----------------------------------------------------------------------------
\* The operations

KeptDecl(e) == KeptButSig(e) /\ (entries[e] # NULL => entries'[e].decl = entries[e].decl)

\* A table not written to, whose entries lose no more than a signature, is the same.
LEMMA Untouched ==
    ASSUME IInv, IInv', NEW t \in TableIds, tables'[t] = tables[t],
           \A e \in EntryIds : KeptDecl(e), temps' = temps,
           \A u \in TableIds : StaysOrNew(u)
    PROVE  SameView(t)
<1>1. EntriesOf(t)' = EntriesOf(t)
  BY DEF EntriesOf, KeptDecl, KeptButSig
<1>2. SameTable(t)
  BY <1>1 DEF SameTable, Live, EntriesOf, KeptDecl, KeptButSig
<1>3. MapUp'[t] = MapUp[t]
  BY PlaceStays, NoPlaceStays DEF IInv, Live
<1>4. QED
  BY <1>2, <1>3, SameScope DEF SameView

\* A signature written to an entry leaves its declaration alone.
LEMMA SignatureOnly ==
    ASSUME TypeOK, NEW e \in EntryIds, entries[e] # NULL, NEW sig \in Sigs,
           entries' = [entries EXCEPT ![e].sig = sig]
    PROVE  \A f \in EntryIds : KeptDecl(f)
<1>1. \A f \in EntryIds : KeptButSig(f)
  BY SigFacts
<1>2. entries[e] \in sym_entry
  BY DEF TypeOK
<1>3. [entries[e] EXCEPT !.sig = sig].decl = entries[e].decl
  BY <1>2 DEF sym_entry
<1>4. /\ entries'[e] = [entries[e] EXCEPT !.sig = sig]
      /\ \A f \in EntryIds \ {e} : entries'[f] = entries[f]
  BY DEF TypeOK
<1>5. QED
  BY <1>1, <1>3, <1>4 DEF KeptDecl

\* A second declaration changes no scope and is counted.
LEMMA RedeclarationRefines ==
    ASSUME IInv, NEW st \in TableIds, NEW n \in Names, Redeclaration(st, n),
           \A t \in TableIds : SameView(t)
    PROVE  Map!Redeclare(st, n)
<1>1. st \in LiveTables /\ Declared(st, n) /\ error_count' = error_count + 1
  BY DEF Redeclaration, LiveTables
<1>2. MapBinds[st][n] # NULL
  BY <1>1, DeclaredMeans
<1>3. MapState[st] = "open"
  BY <1>1 DEF MapState, LiveTables
<1>4. QED
  BY <1>1, <1>2, <1>3, NothingChanges DEF Map!Redeclare

\* The tables a push does not write to are the same scopes.
LEMMA PushKeeps ==
    ASSUME IInv, IInv', NEW st \in TableIds, NEW n \in Names, NEW e \in EntryIds, NEW rec,
           Pushed(st, n, e, rec), NEW t \in TableIds \ {st}, tables'[t] = tables[t],
           \A u \in TableIds : StaysOrNew(u)
    PROVE  SameView(t)
<1>1. /\ \A f \in EntryIds \ {e} : entries'[f] = entries[f]
      /\ EntriesOf(t)' = EntriesOf(t) /\ e \notin EntriesOf(t)
  BY PushedEntries
<1>2. SameTable(t)
  BY <1>1 DEF SameTable, Live, EntriesOf, Pushed
<1>3. MapUp'[t] = MapUp[t]
  BY PlaceStays, NoPlaceStays DEF IInv, Live
<1>4. QED
  BY <1>2, <1>3, SameScope DEF SameView

\* A first declaration binds the name.
LEMMA PushRefines ==
    ASSUME IInv, IInv', NEW st \in TableIds, NEW n \in Names, NEW e \in EntryIds, NEW rec,
           Pushed(st, n, e, rec), tables' = [tables EXCEPT ![st] = Linked(st, n, e)],
           error_count' = error_count
    PROVE  Map!Declare(st, n, rec.decl, tables[st].nextOffset)
<1>0. \A t \in TableIds : StaysOrNew(t)
  <2>1. /\ st \in LiveTables /\ tables'[st] = Linked(st, n, e)
        /\ \A t \in TableIds \ {st} : tables'[t] = tables[t]
    BY DEF IInv, TypeOK, Pushed, CanPush, LiveTables
  <2>2. /\ Linked(st, n, e) # NULL /\ Linked(st, n, e).parent = tables[st].parent
        /\ Linked(st, n, e).file = tables[st].file
    BY <2>1, LinkedFacts DEF IInv
  <2>3. QED
    BY <2>1, <2>2 DEF StaysOrNew, Live, LiveTables
<1>1. \A t \in TableIds \ {st} : SameView(t)
  BY <1>0, PushKeeps DEF IInv, TypeOK
<1>2. PushedView(st, n, rec)
  BY <1>0, PushedScope
<1>3. Map!Bind(st, n, rec.decl, tables[st].nextOffset)
  BY <1>1, <1>2, NameBound DEF SameView, SameContents
<1>4. \A t \in TableIds : MapUp'[t] = MapUp[t] /\ MapState'[t] = MapState[t]
  BY <1>1, <1>2 DEF SameView, SameContents, PushedView
<1>5. MapUp' = MapUp
  BY <1>4, MapsAreFunctions, NoPlace DEF FunctionViews
<1>6. MapState' = MapState
  BY <1>4, MapsAreFunctions, NoPlace DEF FunctionViews
<1>7. QED
  BY <1>3, <1>5, <1>6 DEF Map!Declare

\* The scope create_function_scope makes opens inside the one it is given.
LEMMA OpenRefines ==
    ASSUME IInv, IInv', NEW st \in TableIds, NEW p \in TableIds, create_function_scope(st, p)
    PROVE  Map!ANext
<1>1. /\ Fresh(st) /\ p \in FileTables
      /\ UNCHANGED <<entries, globalSymtab, packageSymtab, file, error_count, temps>>
  BY DEF create_function_scope, Inner
<1>2. /\ tables'[st] = mksymtab(p, file) /\ \A t \in TableIds \ {st} : tables'[t] = tables[t]
      /\ file \in Nat
  BY DEF IInv, TypeOK, create_function_scope
<1>3. Live(p) /\ packageSymtab # NULL /\ p # st /\ tables[p].file = file
  BY <1>1 DEF Fresh, FileTables, LiveTables
<1>4. \A t \in TableIds : StaysOrNew(t)
  <2>1. mksymtab(p, file).file = file
    BY DEF mksymtab
  <2>2. QED
    BY <1>1, <1>2, <1>3, <2>1 DEF StaysOrNew, Fresh, Live
<1>5. EntriesOf(st)' = {}
  BY <1>1 DEF EntriesOf, Fresh, IInv, HeapClean
<1>6. Live(p)' /\ tables'[p].file = file
  BY <1>2, <1>3 DEF Live
<1>7. NewView(st, p)
  BY <1>1, <1>2, <1>5, <1>6, NewScope
<1>8. \A t \in TableIds \ {st} : SameView(t)
  BY <1>1, <1>2, <1>4, Untouched DEF KeptDecl, KeptButSig
<1>9. MapState[p] = "open"
  BY <1>3 DEF MapState
<1>10. Map!Open(st, p)
  BY <1>1, <1>7, <1>8, <1>9, ScopeOpens DEF Map!Open, NewView
<1>11. QED
  BY <1>10 DEF Map!ANext

\* The two tables of a file open its outermost scopes.
LEMMA FileRefines ==
    ASSUME IInv, IInv', NEW global \in TableIds, NEW package \in TableIds,
           StartFile(global, package)
    PROVE  Map!ANext
<1>1. /\ Fresh(global) /\ Fresh(package) /\ global # package
      /\ file' = file + 1 /\ error_count' = 0
      /\ UNCHANGED <<entries, temps>>
  BY DEF StartFile
<1>2. file \in Nat /\ file + 1 \in Nat /\ global # NULL
  BY SymTabAssumption DEF IInv, TypeOK
<1>3. /\ tables'[global] = mksymtab(NULL, file + 1) /\ tables'[package] = mksymtab(global, file + 1)
      /\ \A t \in TableIds : t # global /\ t # package => tables'[t] = tables[t]
  BY DEF IInv, TypeOK, StartFile
<1>4. /\ mksymtab(NULL, file + 1) # NULL /\ mksymtab(NULL, file + 1).file = file + 1
      /\ mksymtab(global, file + 1) # NULL /\ mksymtab(global, file + 1).file = file + 1
  BY <1>2, MksymtabFacts
<1>5. \A t \in TableIds : StaysOrNew(t)
  BY <1>1, <1>3, <1>4 DEF StaysOrNew, Fresh, Live
<1>6. EntriesOf(global)' = {} /\ EntriesOf(package)' = {}
  BY <1>1 DEF EntriesOf, Fresh, IInv, HeapClean
<1>7. NewView(global, NULL)
  BY <1>1, <1>2, <1>3, <1>6, NewScope
<1>8. NewView(package, global)
  <2>1. Live(global)' /\ tables'[global].file = file + 1
    BY <1>3, <1>4 DEF Live
  <2>2. QED
    BY <1>1, <1>2, <1>3, <1>6, <2>1, NewScope
<1>9. \A t \in TableIds : t # global /\ t # package => SameView(t)
  BY <1>1, <1>3, <1>5, Untouched DEF KeptDecl, KeptButSig
<1>10. MapUp' = [MapUp EXCEPT ![global] = NULL, ![package] = global]
  <2>1. /\ MapUp'[global] = NULL /\ MapUp'[package] = global
        /\ \A t \in TableIds : t # global /\ t # package => MapUp'[t] = MapUp[t]
    BY <1>7, <1>8, <1>9 DEF NewView, SameView
  <2>2. QED
    BY <1>1, <2>1, MapsAreFunctions, TwoPlaces DEF FunctionViews
<1>11. MapState' = [MapState EXCEPT ![global] = "open", ![package] = "open"]
  <2>1. /\ MapState'[global] = "open" /\ MapState'[package] = "open"
        /\ \A t \in TableIds : t # global /\ t # package => MapState'[t] = MapState[t]
    BY <1>7, <1>8, <1>9 DEF NewView, SameView, SameContents
  <2>2. QED
    BY <1>1, <2>1, MapsAreFunctions, TwoPlaces DEF FunctionViews
<1>12. \A t \in TableIds : MapBinds'[t] = MapBinds[t] /\ MapUsed'[t] = MapUsed[t]
  BY <1>7, <1>8, <1>9 DEF NewView, SameView, SameContents
<1>13. MapBinds' = MapBinds
  BY <1>12, MapsAreFunctions, NoPlace DEF FunctionViews
<1>14. MapUsed' = MapUsed
  BY <1>12, MapsAreFunctions, NoPlace DEF FunctionViews
<1>15. Map!OpenFile(global, package)
  BY <1>1, <1>7, <1>8, <1>10, <1>11, <1>13, <1>14 DEF Map!OpenFile, NewView
<1>16. QED
  BY <1>15 DEF Map!ANext

\* insert_symbol declares the name or counts an error.
LEMMA InsertSymbolRefines ==
    ASSUME IInv, IInv', NEW st \in TableIds, NEW n \in Names, NEW d \in Decls,
           insert_symbol(st, n, d)
    PROVE  Map!ANext
<1>1. CASE Redeclaration(st, n) /\ UNCHANGED <<tables, entries, scopes, temps>>
  <2>1. \A t \in TableIds : SameView(t)
    BY <1>1, Untouched DEF KeptDecl, KeptButSig, StaysOrNew, Live
  <2>2. Map!Redeclare(st, n)
    BY <1>1, <2>1, RedeclarationRefines
  <2>3. QED
    BY <2>2 DEF Map!ANext
<1>2. CASE /\ CanPush(st, n)
           /\ \E e \in EntryIds :
                 /\ entries[e] = NULL
                 /\ entries' = [entries EXCEPT ![e] = newEntry(st, n, d)]
                 /\ tables' = [tables EXCEPT ![st] = Linked(st, n, e)]
           /\ UNCHANGED <<scopes, error_count, temps>>
  <2> DEFINE rec == newEntry(st, n, d)
  <2>1. PICK e \in EntryIds : /\ entries[e] = NULL
                              /\ entries' = [entries EXCEPT ![e] = rec]
                              /\ tables' = [tables EXCEPT ![st] = Linked(st, n, e)]
    BY <1>2
  <2>2. st \in LiveTables
    BY <1>2 DEF CanPush, LiveTables
  <2>3. /\ rec \in sym_entry /\ rec.s = n /\ rec.table = st
        /\ rec.offset = tables[st].nextOffset /\ rec.decl = d
    BY <2>2, SymTabAssumption DEF IInv, TypeOK, LiveTables, Live, newEntry, sym_entry, sym_table, Regions
  <2> HIDE DEF rec
  <2>4. Pushed(st, n, e, rec)
    BY <1>2, <2>1, <2>3 DEF Pushed, IInv, TypeOK, scopes
  <2>5. Map!Declare(st, n, d, tables[st].nextOffset)
    BY <1>2, <2>1, <2>3, <2>4, PushRefines
  <2>6. tables[st].nextOffset \in Slots
    BY <2>4, NextSlot
  <2>7. QED
    BY <2>5, <2>6 DEF Map!ANext
<1>3. QED
  BY <1>1, <1>2 DEF insert_symbol

\* insert_method_symbol does too: its signature is no part of the map.
LEMMA InsertMethodSymbolRefines ==
    ASSUME IInv, IInv', NEW st \in TableIds, NEW n \in Names, NEW d \in Decls, NEW sig \in Sigs,
           insert_method_symbol(st, n, d, sig)
    PROVE  Map!ANext
<1>1. CASE /\ Redeclaration(st, n)
           /\ entries' = [entries EXCEPT ![lookup_symbol_current_scope(st, n)].sig = sig]
           /\ UNCHANGED <<tables, scopes, temps>>
  <2>1. lookup_symbol_current_scope(st, n) \in EntriesOf(st)
    BY <1>1, LookupCurrent DEF Redeclaration, LiveTables
  <2>2. \A f \in EntryIds : KeptDecl(f)
    BY <1>1, <2>1, SignatureOnly DEF IInv, EntriesOf
  <2>3. \A t \in TableIds : SameView(t)
    BY <1>1, <2>2, Untouched DEF StaysOrNew, Live
  <2>4. Map!Redeclare(st, n)
    BY <1>1, <2>3, RedeclarationRefines
  <2>5. QED
    BY <2>4 DEF Map!ANext
<1>2. CASE /\ CanPush(st, n)
           /\ \E e \in EntryIds :
                 /\ entries[e] = NULL
                 /\ entries' = [entries EXCEPT ![e] = [newEntry(st, n, d) EXCEPT !.sig = sig]]
                 /\ tables' = [tables EXCEPT ![st] = Linked(st, n, e)]
           /\ UNCHANGED <<scopes, error_count, temps>>
  <2> DEFINE rec == [newEntry(st, n, d) EXCEPT !.sig = sig]
  <2>1. PICK e \in EntryIds : /\ entries[e] = NULL
                              /\ entries' = [entries EXCEPT ![e] = rec]
                              /\ tables' = [tables EXCEPT ![st] = Linked(st, n, e)]
    BY <1>2
  <2>2. st \in LiveTables
    BY <1>2 DEF CanPush, LiveTables
  <2>3. /\ rec \in sym_entry /\ rec.s = n /\ rec.table = st
        /\ rec.offset = tables[st].nextOffset
    BY <2>2, EntryFacts DEF IInv
  <2>4. rec.decl = d
    BY DEF newEntry
  <2> HIDE DEF rec
  <2>5. Pushed(st, n, e, rec)
    BY <1>2, <2>1, <2>3 DEF Pushed, IInv, TypeOK, scopes
  <2>6. Map!Declare(st, n, d, tables[st].nextOffset)
    BY <1>2, <2>1, <2>4, <2>5, PushRefines
  <2>7. tables[st].nextOffset \in Slots
    BY <2>5, NextSlot
  <2>8. QED
    BY <2>6, <2>7 DEF Map!ANext
<1>3. QED
  BY <1>1, <1>2 DEF insert_method_symbol

\* The function case of printsyms declares the name, or counts an error, and
\* opens the function's scope in the same step.
LEMMA DeclareFunctionRefines ==
    ASSUME IInv, IInv', NEW st \in TableIds, NEW scope \in TableIds, NEW n \in Names,
           NEW d \in Decls, NEW sig \in Sigs, DeclareFunction(st, n, d, sig, scope)
    PROVE  Map!ANext
<1> DEFINE new == mksymtab(st, file)
<1>1. /\ Fresh(scope) /\ st \in LiveTables /\ packageSymtab # NULL /\ tables[st].file = file
      /\ UNCHANGED <<globalSymtab, packageSymtab, file, temps>>
  BY DEF DeclareFunction, FileTables
<1>a. st # scope /\ file \in Nat
  BY <1>1 DEF LiveTables, Fresh, IInv, TypeOK
<1>b. new # NULL /\ new.file = file
  BY <1>a, MksymtabFacts
<1>2. EntriesOf(scope) = {}
  BY <1>1 DEF EntriesOf, Fresh, IInv, HeapClean
<1>3. CASE /\ Redeclaration(st, n)
           /\ entries' = [entries EXCEPT ![lookup_symbol_current_scope(st, n)].sig = sig]
           /\ tables' = [tables EXCEPT ![scope] = new]
  <2>1. st \in LiveTables /\ Declared(st, n) /\ error_count' = error_count + 1
    BY <1>3 DEF Redeclaration, LiveTables
  <2>2. lookup_symbol_current_scope(st, n) \in EntriesOf(st)
    BY <2>1, LookupCurrent
  <2>3. \A f \in EntryIds : KeptDecl(f)
    BY <1>3, <2>2, SignatureOnly DEF IInv, EntriesOf
  <2>4. tables'[scope] = new /\ \A t \in TableIds \ {scope} : tables'[t] = tables[t]
    BY <1>3 DEF IInv, TypeOK
  <2>a. \A t \in TableIds : StaysOrNew(t)
    BY <1>1, <1>b, <2>4 DEF StaysOrNew, Fresh, Live
  <2>5. \A t \in TableIds \ {scope} : SameView(t)
    BY <1>1, <2>3, <2>4, <2>a, Untouched
  <2>6. EntriesOf(scope)' = {}
    BY <1>2, <2>3 DEF EntriesOf, KeptDecl, KeptButSig
  <2>b. Live(st)' /\ tables'[st].file = file
    BY <1>1, <1>a, <2>4 DEF LiveTables, Live
  <2>7. NewView(scope, st)
    BY <1>1, <1>a, <2>4, <2>6, <2>b, NewScope
  <2>8. MapBinds[st][n] # NULL /\ MapState[st] = "open"
    BY <2>1, DeclaredMeans DEF MapState, LiveTables
  <2>9. Map!DeclareWithScope(st, n, d, 8, scope)
    BY <2>1, <2>5, <2>7, <2>8, ScopeOpens DEF Map!DeclareWithScope, NewView
  <2>10. 8 \in Slots
    BY RoomForOne, SymTabAssumption DEF Slots
  <2>11. QED
    BY <2>9, <2>10 DEF Map!ANext
<1>4. CASE /\ CanPush(st, n)
           /\ \E e \in EntryIds :
                 /\ entries[e] = NULL
                 /\ entries' = [entries EXCEPT ![e] = [newEntry(st, n, d) EXCEPT !.sig = sig]]
                 /\ tables' = [tables EXCEPT ![st] = Linked(st, n, e), ![scope] = new]
           /\ UNCHANGED error_count
  <2> DEFINE rec == [newEntry(st, n, d) EXCEPT !.sig = sig]
  <2>1. PICK e \in EntryIds :
                 /\ entries[e] = NULL
                 /\ entries' = [entries EXCEPT ![e] = rec]
                 /\ tables' = [tables EXCEPT ![st] = Linked(st, n, e), ![scope] = new]
    BY <1>4
  <2>2. st \in LiveTables /\ st # scope
    BY <1>1, <1>4 DEF CanPush, LiveTables, Fresh
  <2>3. /\ rec \in sym_entry /\ rec.s = n /\ rec.table = st
        /\ rec.offset = tables[st].nextOffset
    BY <2>2, EntryFacts DEF IInv
  <2>4. rec.decl = d
    BY DEF newEntry
  <2> HIDE DEF rec
  <2>5. /\ tables'[st] = Linked(st, n, e)
        /\ tables'[scope] = new
        /\ \A t \in TableIds : t # st /\ t # scope => tables'[t] = tables[t]
    BY <2>1, <2>2 DEF IInv, TypeOK
  <2>6. Pushed(st, n, e, rec)
    BY <1>1, <1>4, <2>1, <2>3, <2>5 DEF Pushed
  <2>a. /\ Linked(st, n, e) # NULL /\ Linked(st, n, e).parent = tables[st].parent
        /\ Linked(st, n, e).file = tables[st].file
    BY <1>1, LinkedFacts DEF IInv
  <2>b. \A t \in TableIds : StaysOrNew(t)
    BY <1>1, <1>b, <2>5, <2>a DEF StaysOrNew, Fresh, Live, LiveTables
  <2>7. PushedView(st, n, rec)
    BY <2>6, <2>b, PushedScope
  <2>8. \A t \in TableIds : t # st /\ t # scope => SameView(t)
    BY <2>5, <2>6, <2>b, PushKeeps
  <2>9. EntriesOf(scope)' = {}
    BY <1>2, <2>2, <2>6, PushedEntries
  <2>c. Live(st)' /\ tables'[st].file = file
    BY <1>1, <2>5, <2>a DEF Live
  <2>10. NewView(scope, st)
    BY <1>1, <1>a, <2>5, <2>9, <2>c, NewScope
  <2>11. Map!Bind(st, n, d, tables[st].nextOffset)
    <3>1. \A t \in TableIds \ {st} : MapBinds'[t] = MapBinds[t] /\ MapUsed'[t] = MapUsed[t]
      BY <2>8, <2>10 DEF SameView, SameContents, NewView
    <3>2. QED
      BY <2>4, <2>7, <3>1, NameBound
  <2>12. MapUp' = [MapUp EXCEPT ![scope] = st]
    <3>1. MapUp'[scope] = st /\ \A t \in TableIds : t # scope => MapUp'[t] = MapUp[t]
      BY <2>7, <2>8, <2>10 DEF SameView, SameContents, NewView, PushedView
    <3>2. QED
      BY <3>1, MapsAreFunctions, OnePlace DEF FunctionViews
  <2>13. MapState' = [MapState EXCEPT ![scope] = "open"]
    <3>1. MapState'[scope] = "open" /\ \A t \in TableIds : t # scope => MapState'[t] = MapState[t]
      BY <2>7, <2>8, <2>10 DEF SameView, SameContents, NewView, PushedView
    <3>2. QED
      BY <3>1, MapsAreFunctions, OnePlace DEF FunctionViews
  <2>14. tables[st].nextOffset \in Slots
    BY <2>7 DEF PushedView
  <2>15. Map!DeclareWithScope(st, n, d, tables[st].nextOffset, scope)
    BY <1>4, <2>10, <2>11, <2>12, <2>13 DEF Map!DeclareWithScope, NewView
  <2>16. QED
    BY <2>14, <2>15 DEF Map!ANext
<1>5. QED
  BY <1>3, <1>4 DEF DeclareFunction, new

\* new_temp takes the next slot of the current table.
LEMMA NewTempRefines ==
    ASSUME IInv, IInv', new_temp
    PROVE  Map!ANext
<1>0. PICK st \in TableIds, slot \in Nat :
          st = currentFunctionSymtab /\ slot = tables[st].nextOffset
  BY DEF new_temp, IInv, TypeOK, CurrentLive, Live, sym_table
<1>1. Live(st) /\ tables[st] \in sym_table
  BY <1>0 DEF new_temp, IInv, TypeOK, CurrentLive, Live, sym_table
<1>2. /\ slot + 8 <= MaxOffset
      /\ temps' = [temps EXCEPT ![st] = @ \cup {slot}]
      /\ tables' = [tables EXCEPT ![st] = [@ EXCEPT !.nextOffset = slot + 8]]
      /\ UNCHANGED <<entries, scopes, error_count>>
  BY <1>0 DEF new_temp
<1>3. /\ tables'[st] = [tables[st] EXCEPT !.nextOffset = slot + 8]
      /\ \A t \in TableIds \ {st} : tables'[t] = tables[t]
  BY <1>1, <1>2 DEF IInv, TypeOK
<1>4. /\ tables'[st] \in sym_table /\ tables'[st].parent = tables[st].parent
      /\ tables'[st].file = tables[st].file
  BY <1>1, <1>3 DEF sym_table
<1>5. Live(st)'
  BY <1>4, NullIsNoBlock DEF Live
<1>6. /\ temps'[st] = temps[st] \cup {slot}
      /\ \A t \in TableIds \ {st} : temps'[t] = temps[t]
  BY <1>1, <1>2 DEF IInv, TypeOK
<1>7. \A t \in TableIds : EntriesOf(t)' = EntriesOf(t)
  BY <1>2 DEF EntriesOf
<1>a. \A t \in TableIds : StaysOrNew(t)
  BY <1>1, <1>3, <1>4, <1>5 DEF StaysOrNew, Live
<1>8. \A t \in TableIds \ {st} : SameView(t)
  <2> SUFFICES ASSUME NEW t \in TableIds \ {st} PROVE SameView(t)
    OBVIOUS
  <2>1. SameTable(t)
    BY <1>2, <1>3, <1>6, <1>7 DEF SameTable, Live
  <2>2. MapUp'[t] = MapUp[t]
    BY <1>3, <1>a, PlaceStays, NoPlaceStays DEF IInv, Live
  <2>3. QED
    BY <2>1, <2>2, SameScope DEF SameView
<1>9. MapUp'[st] = MapUp[st] /\ MapState[st] = "open" /\ MapState'[st] = "open"
  BY <1>1, <1>5, <1>a, PlaceStays DEF IInv, MapState
<1>10. MapBinds'[st] = MapBinds[st]
  <2>1. BindingsMean /\ BindingsMean'
    BY MappedBindings, PTL
  <2>2. st \in LiveTables /\ st \in LiveTables'
    BY <1>1, <1>5 DEF LiveTables
  <2>3. ASSUME NEW n \in Names PROVE MapBinds'[st][n] = MapBinds[st][n]
    <3>1. CASE \E e \in EntriesOf(st) : entries[e].s = n
      <4>1. PICK e \in EntriesOf(st) : entries[e].s = n
        BY <3>1
      <4>2. MapBinds[st][n] = Bound(e) /\ MapBinds'[st][n] = Bound(e)'
        BY <1>1, <1>2, <1>7, <2>1, <2>2, <4>1 DEF BindingsMean
      <4>3. QED
        BY <1>2, <4>2 DEF Bound
    <3>2. CASE \A e \in EntriesOf(st) : entries[e].s # n
      BY <1>1, <1>2, <1>7, <2>1, <2>2, <3>2 DEF BindingsMean
    <3>3. QED
      BY <3>1, <3>2
  <2>4. QED
    BY <1>1, <2>3, MapsAreFunctions, NoPlace DEF FunctionViews
<1>11. MapUsed[st] = {entries[e].offset : e \in EntriesOf(st)} \cup temps[st]
  BY <1>1 DEF MapUsed
<1>12. MapUsed'[st] = {entries'[e].offset : e \in EntriesOf(st)'} \cup temps'[st]
  BY <1>1, <1>5 DEF MapUsed
<1>13. MapUsed'[st] = MapUsed[st] \cup {slot}
  BY <1>1, <1>2, <1>6, <1>7, <1>11, <1>12
<1>14. slot \notin MapUsed[st] /\ slot \in Slots
  <2>1. /\ \A e \in EntriesOf(st) : entries[e].offset < slot
        /\ \A o \in temps[st] : o < slot
        /\ slot >= 8 /\ slot % 8 = 0
    BY <1>0, <1>1 DEF IInv, SlotsDisjoint, LiveTables
  <2>2. ~(slot < slot)
    BY <1>1
  <2>3. slot \notin MapUsed[st]
    BY <1>11, <2>1, <2>2
  <2>4. QED
    BY <1>1, <1>2, <2>1, <2>3, SymTabAssumption DEF Slots
<1>15. MapUp' = MapUp
  BY <1>8, <1>9, MapsAreFunctions, NoPlace DEF FunctionViews, SameView, SameContents
<1>16. MapState' = MapState
  BY <1>8, <1>9, MapsAreFunctions, NoPlace DEF FunctionViews, SameView, SameContents
<1>17. MapBinds' = MapBinds
  BY <1>8, <1>10, MapsAreFunctions, NoPlace DEF FunctionViews, SameView, SameContents
<1>18. MapUsed' = [MapUsed EXCEPT ![st] = @ \cup {slot}]
  <2>1. \A t \in TableIds : t # st => MapUsed'[t] = MapUsed[t]
    BY <1>8 DEF SameView, SameContents
  <2>2. MapUsed' = [MapUsed EXCEPT ![st] = MapUsed[st] \cup {slot}]
    BY <1>1, <1>13, <2>1, MapsAreFunctions, OnePlace DEF FunctionViews
  <2>3. QED
    BY <2>2
<1>19. Map!TakeSlot(st, slot)
  BY <1>2, <1>9, <1>14, <1>15, <1>16, <1>17, <1>18 DEF Map!TakeSlot
<1>20. QED
  BY <1>1, <1>14, <1>19 DEF Map!ANext

\* free_symbol_table closes the scope: its bindings and slots are gone.
LEMMA FreeRefines ==
    ASSUME IInv, IInv', NEW st \in TableIds, free_symbol_table(st)
    PROVE  Map!ANext
<1>1. /\ Live(st) /\ tables' = [tables EXCEPT ![st] = NULL]
      /\ entries' = [e \in EntryIds |-> IF e \in EntriesOf(st) THEN NULL ELSE entries[e]]
      /\ temps' = [temps EXCEPT ![st] = {}] /\ UNCHANGED error_count
  BY DEF free_symbol_table
<1>2. /\ tables'[st] = NULL /\ \A t \in TableIds \ {st} : tables'[t] = tables[t]
      /\ \A t \in TableIds \ {st} : temps'[t] = temps[t]
  BY <1>1 DEF IInv, TypeOK
<1>3. \A t \in TableIds \ {st} : SameContents(t)
  <2> SUFFICES ASSUME NEW t \in TableIds \ {st} PROVE SameContents(t)
    OBVIOUS
  <2>1. \A e \in EntriesOf(t) : e \notin EntriesOf(st) /\ entries'[e] = entries[e]
    BY <1>1 DEF EntriesOf
  <2>2. EntriesOf(t)' = EntriesOf(t)
    BY <1>1 DEF EntriesOf
  <2>3. SameTable(t)
    BY <1>1, <1>2, <2>1, <2>2 DEF SameTable, Live
  <2>4. QED
    BY <2>3, SameScope
<1>4. ~Live(st)'
  BY <1>1, <1>2 DEF Live
<1>5. MapState[st] = "open" /\ MapState'[st] = "new" /\ MapUp'[st] = NULL
      /\ MapBinds'[st] = [n \in Names |-> NULL] /\ MapUsed'[st] = {}
  BY <1>1, <1>4 DEF MapUp, MapState, MapBinds, MapUsed
<1>6. MapState' = [MapState EXCEPT ![st] = "new"]
  BY <1>3, <1>5, MapsAreFunctions, OnePlace DEF FunctionViews, SameContents
<1>7. MapUp' = [t \in TableIds |-> IF t = st \/ MapUp[t] = st THEN NULL ELSE MapUp[t]]
  <2>1. ASSUME NEW t \in TableIds \ {st}
        PROVE  MapUp'[t] = IF MapUp[t] = st THEN NULL ELSE MapUp[t]
    <3> DEFINE p == tables[t].parent
    <3>1. st # NULL /\ (Live(t)' <=> Live(t))
      BY <1>2, SymTabAssumption DEF Live
    <3>2. CASE ~Live(t)
      BY <3>1, <3>2 DEF MapUp
    <3>3. CASE Live(t) /\ p = st
      <4>1. Adrift(t)'
        BY <1>2, <1>4, <3>1, <3>3 DEF Adrift
      <4>2. MapUp'[t] = NULL /\ MapUp[t] \in {st, NULL}
        BY <3>1, <3>3, <4>1 DEF MapUp
      <4>3. QED
        BY <4>2
    <3>4. CASE Live(t) /\ p # st
      <4>1. p \in TableIds \cup {NULL}
        BY <3>4 DEF IInv, TypeOK, Live, sym_table
      <4>2. Adrift(t)' <=> Adrift(t)
        BY <1>2, <3>4, <4>1 DEF Adrift, Live
      <4>3. QED
        BY <1>2, <3>1, <3>4, <4>2 DEF MapUp
    <3>5. QED
      BY <3>2, <3>3, <3>4
  <2>2. \A t \in TableIds : MapUp'[t] = IF t = st \/ MapUp[t] = st THEN NULL ELSE MapUp[t]
    BY <1>5, <2>1
  <2>3. MapUp' = [t \in TableIds |-> MapUp'[t]]
    BY MapsAreFunctions DEF FunctionViews
  <2>4. QED
    BY <2>2, <2>3
<1>8. MapBinds' = [MapBinds EXCEPT ![st] = Map!Unbound]
  BY <1>3, <1>5, MapsAreFunctions, OnePlace DEF FunctionViews, SameContents, Map!Unbound
<1>9. MapUsed' = [MapUsed EXCEPT ![st] = {}]
  BY <1>3, <1>5, MapsAreFunctions, OnePlace DEF FunctionViews, SameContents
<1>10. Map!Close(st)
  BY <1>1, <1>5, <1>6, <1>7, <1>8, <1>9 DEF Map!Close
<1>11. QED
  BY <1>10 DEF Map!ANext

-----------------------------------------------------------------------------
\* The refinement

\* Every step of the tables is a step of the map, or changes no scope.
LEMMA StepRefines == IInv /\ IInv' /\ [Next]_vars => [Map!ANext]_(Map!avars)
<1> SUFFICES ASSUME IInv, IInv', [Next]_vars PROVE Map!ANext \/ UNCHANGED Map!avars
  BY DEF Map!avars
<1>1. ASSUME UNCHANGED <<tables, entries, file, error_count, temps>>
      PROVE  UNCHANGED Map!avars
  <2>1. \A t \in TableIds : SameView(t)
    BY <1>1, Untouched DEF KeptDecl, KeptButSig, StaysOrNew, Live
  <2>2. QED
    BY <1>1, <2>1, NothingChanges DEF Map!avars
<1>2. QED
  BY <1>1, OpenRefines, FileRefines, InsertSymbolRefines, InsertMethodSymbolRefines, DeclareFunctionRefines,
     NewTempRefines, FreeRefines DEF Next, vars, scopes, SwitchFunction

\* No table is allocated, and no scope open.
LEMMA InitRefines == Init => Map!AInit
  BY DEF Init, Map!AInit, Map!Unbound, MapUp, MapState, MapBinds, MapUsed, Live

\* The symbol table is the scoped map the passes take it for, for every heap and
\* hash function: bucket walks, freed tables and shared slot counters included.
THEOREM TablesImplementScopes == Spec => ImplementsScopeMap
<1>1. Spec => [][Map!ANext]_(Map!avars)
  BY Invariance, StepRefines, PTL DEF Spec
<1>2. Spec => Map!AInit
  BY InitRefines, PTL DEF Spec
<1>3. QED
  BY <1>1, <1>2, PTL DEF ImplementsScopeMap, Map!AbstractSpec
-----------------------------------------------------------------------------
\* Lookups from the inside out

\* Scopes are nested: each is deeper than the one around it, which is open too.
\* There is no way round in a circle.
NestedBy(depth) ==
    \A t \in TableIds : MapState[t] = "open" /\ MapUp[t] # NULL =>
        /\ MapUp[t] \in TableIds
        /\ MapState[MapUp[t]] = "open"
        /\ depth[MapUp[t]] < depth[t]

Nested == \E bottom \in Nat : \E depth \in [TableIds -> 0 .. bottom] : NestedBy(depth)

\* Scopes opened in open ones are the deepest.
LEMMA DeeperNested ==
    ASSUME NEW depth, NestedBy(depth),
           NEW New, \A t \in TableIds \cap New : MapState[t] = "new",
           \A t \in TableIds \ New : MapState'[t] = MapState[t] /\ MapUp'[t] = MapUp[t],
           NEW deeper, \A t \in TableIds \ New : deeper[t] = depth[t],
           \A t \in TableIds \cap New : MapUp'[t] # NULL =>
                /\ MapUp'[t] \in TableIds /\ MapState'[MapUp'[t]] = "open"
                /\ deeper[MapUp'[t]] < deeper[t]
    PROVE  NestedBy(deeper)'
<1>1. ASSUME NEW t \in TableIds, MapState'[t] = "open", MapUp'[t] # NULL
      PROVE  /\ MapUp'[t] \in TableIds
             /\ MapState'[MapUp'[t]] = "open"
             /\ deeper[MapUp'[t]] < deeper[t]
  <2>1. CASE t \in New
    BY <1>1, <2>1
  <2>2. CASE t \notin New
    <3>1. MapUp[t] \in TableIds /\ MapState[MapUp[t]] = "open" /\ depth[MapUp[t]] < depth[t]
      BY <1>1, <2>2 DEF NestedBy
    <3>2. MapUp[t] \notin New
      BY <3>1
    <3>3. QED
      BY <2>2, <3>1, <3>2
  <2>3. QED
    BY <2>1, <2>2
<1>2. QED
  BY <1>1 DEF NestedBy

\* A scope opened in an open one.
LEMMA OpenNested ==
    ASSUME Nested, NEW s \in TableIds, NEW p \in TableIds,
           MapState[s] = "new", MapState[p] = "open",
           MapUp' = [MapUp EXCEPT ![s] = p], MapState' = [MapState EXCEPT ![s] = "open"]
    PROVE  Nested'
<1>1. PICK bottom \in Nat : \E depth \in [TableIds -> 0 .. bottom] : NestedBy(depth)
  BY DEF Nested
<1>2. PICK depth \in [TableIds -> 0 .. bottom] : NestedBy(depth)
  BY <1>1
<1> DEFINE deeper == [depth EXCEPT ![s] = depth[p] + 1]
           New == {s}
<1>3. /\ deeper \in [TableIds -> 0 .. bottom + 1] /\ bottom + 1 \in Nat
      /\ \A t \in TableIds \ New : deeper[t] = depth[t]
      /\ deeper[s] = depth[p] + 1 /\ p # s /\ deeper[p] < deeper[s]
  OBVIOUS
<1>4. /\ MapState'[s] = "open" /\ MapUp'[s] = p
      /\ \A t \in TableIds \ New : MapState'[t] = MapState[t] /\ MapUp'[t] = MapUp[t]
  BY MapsAreFunctions DEF FunctionViews
<1>5. \A t \in New : t = s
  OBVIOUS
<1> HIDE DEF deeper, New
<1>6. \A t \in TableIds \cap New : MapUp'[t] # NULL =>
         /\ MapUp'[t] \in TableIds /\ MapState'[MapUp'[t]] = "open"
         /\ deeper[MapUp'[t]] < deeper[t]
  BY <1>3, <1>4, <1>5
<1>7. \A t \in TableIds \cap New : MapState[t] = "new"
  BY <1>5
<1>8. NestedBy(deeper)'
  BY <1>2, <1>3, <1>4, <1>6, <1>7, DeeperNested
<1>9. QED
  BY <1>3, <1>8 DEF Nested

\* Two, one inside the other and the outer one inside none.
LEMMA FileNested ==
    ASSUME Nested, NEW s \in TableIds, NEW r \in TableIds, Map!OpenFile(s, r)
    PROVE  Nested'
<1>1. PICK bottom \in Nat : \E depth \in [TableIds -> 0 .. bottom] : NestedBy(depth)
  BY DEF Nested
<1>2. PICK depth \in [TableIds -> 0 .. bottom] : NestedBy(depth)
  BY <1>1
<1> DEFINE deeper == [depth EXCEPT ![s] = 0, ![r] = 1]
<1>0. s # r /\ MapState[s] = "new" /\ MapState[r] = "new"
  BY DEF Map!OpenFile
<1>3. /\ deeper \in [TableIds -> 0 .. bottom + 1] /\ bottom + 1 \in Nat
      /\ \A t \in TableIds \ {s, r} : deeper[t] = depth[t]
      /\ deeper[s] < deeper[r]
  BY <1>0
<1>4. /\ MapState'[s] = "open" /\ MapUp'[s] = NULL /\ MapUp'[r] = s
      /\ \A t \in TableIds \ {s, r} : MapState'[t] = MapState[t] /\ MapUp'[t] = MapUp[t]
  BY <1>0, MapsAreFunctions DEF FunctionViews, Map!OpenFile
<1> HIDE DEF deeper
<1>5. \A t \in TableIds \cap {s, r} : MapUp'[t] # NULL =>
         /\ MapUp'[t] \in TableIds /\ MapState'[MapUp'[t]] = "open"
         /\ deeper[MapUp'[t]] < deeper[t]
  BY <1>3, <1>4
<1>6. \A t \in TableIds \cap {s, r} : MapState[t] = "new"
  BY <1>0
<1>7. NestedBy(deeper)'
  BY <1>2, <1>3, <1>4, <1>5, <1>6, DeeperNested
<1>8. QED
  BY <1>3, <1>7 DEF Nested

\* No operation on scopes makes a circle of them.
LEMMA NestedStep == Nested /\ [Map!ANext]_(Map!avars) => Nested'
<1> SUFFICES ASSUME Nested, Map!ANext \/ UNCHANGED Map!avars PROVE Nested'
  BY DEF Map!avars
<1>1. ASSUME NEW s \in TableIds, NEW p \in TableIds, Map!Open(s, p) PROVE Nested'
  BY <1>1, OpenNested DEF Map!Open
<1>2. ASSUME NEW s \in TableIds, NEW f \in TableIds, NEW n \in Names, NEW d \in Decls,
             NEW slot \in Slots, Map!DeclareWithScope(s, n, d, slot, f)
      PROVE  Nested'
  BY <1>2, OpenNested DEF Map!DeclareWithScope, Map!Bind
<1>3. ASSUME NEW s \in TableIds, Map!Close(s) PROVE Nested'
  <2>1. /\ \A t \in TableIds : MapState'[t] = IF t = s THEN "new" ELSE MapState[t]
        /\ \A t \in TableIds : MapUp'[t] = IF t = s \/ MapUp[t] = s THEN NULL ELSE MapUp[t]
    BY <1>3, MapsAreFunctions DEF FunctionViews, Map!Close
  <2>2. ASSUME NEW depth, NestedBy(depth) PROVE NestedBy(depth)'
    BY <2>1, <2>2 DEF NestedBy
  <2>3. QED
    BY <2>2 DEF Nested
<1>4. CASE UNCHANGED <<MapUp, MapState>>
  BY <1>4 DEF Nested, NestedBy
<1>5. QED
  BY <1>1, <1>2, <1>3, <1>4, FileNested
     DEF Map!ANext, Map!avars, Map!Declare, Map!Bind, Map!Redeclare, Map!TakeSlot

\* lookup_symbol asks a table, and if that has no such name the one around it.
LEMMA LookupUnfolds ==
    ASSUME TypeOK, NEW n \in Names
    PROVE  \A t \in TableIds \cup {NULL} :
              lookup_symbol(t, n) =
                 IF t = NULL THEN NULL
                 ELSE IF ~Live(t) THEN Undefined
                 ELSE IF Declared(t, n) THEN lookup_symbol_current_scope(t, n)
                 ELSE lookup_symbol(tables[t].parent, n)
<1> DEFINE D == TableIds \cup {NULL}
           out == [t \in D |-> IF t # NULL /\ Live(t) THEN tables[t].parent ELSE NULL]
           stop == {t \in D : t = NULL \/ ~Live(t) \/ Declared(t, n)}
           val == [t \in D |-> IF t = NULL THEN NULL
                               ELSE IF ~Live(t) THEN Undefined
                               ELSE lookup_symbol_current_scope(t, n)]
           walk == CHOOSE w : w = [t \in D |->
                      IF t = NULL THEN NULL
                      ELSE IF ~Live(t) THEN Undefined
                      ELSE IF Declared(t, n) THEN lookup_symbol_current_scope(t, n)
                      ELSE w[tables[t].parent]]
<1>1. out \in [D -> D]
  BY DEF TypeOK, Live, sym_table
<1>2. PICK w : Walks(w, D, out, stop, val)
  <2> HIDE DEF D, out, stop, val, walk
  <2>1. QED
    BY <1>1, WalkExists
<1>3. \A t \in D : (IF t \in stop THEN val[t] ELSE w[out[t]])
                  = IF t = NULL THEN NULL
                    ELSE IF ~Live(t) THEN Undefined
                    ELSE IF Declared(t, n) THEN lookup_symbol_current_scope(t, n)
                    ELSE w[tables[t].parent]
  OBVIOUS
<1>4. w = [t \in D |->
              IF t = NULL THEN NULL
              ELSE IF ~Live(t) THEN Undefined
              ELSE IF Declared(t, n) THEN lookup_symbol_current_scope(t, n)
              ELSE w[tables[t].parent]]
  <2> HIDE DEF D, out, stop, val
  <2>1. QED
    BY <1>2, <1>3 DEF Walks
<1>5. walk = [t \in D |->
                 IF t = NULL THEN NULL
                 ELSE IF ~Live(t) THEN Undefined
                 ELSE IF Declared(t, n) THEN lookup_symbol_current_scope(t, n)
                 ELSE walk[tables[t].parent]]
  BY <1>4, Zenon
<1>6. \A t : lookup_symbol(t, n) = walk[t]
  BY DEF lookup_symbol
<1> HIDE DEF walk
<1>7. QED
  BY <1>5, <1>6

\* The scopes around s, one after the other.
LEMMA AroundUnfolds ==
    ASSUME TypeOK, NEW s \in TableIds
    PROVE  /\ Map!Around(s)[0] = s
           /\ \A k \in Nat :
                 /\ Map!Around(s)[k] \in TableIds \cup {NULL}
                 /\ Map!Around(s)[k + 1] =
                       IF Map!Around(s)[k] = NULL THEN NULL ELSE MapUp[Map!Around(s)[k]]
<1> DEFINE D == TableIds \cup {NULL}
           out == [t \in D |-> IF t = NULL THEN NULL ELSE MapUp[t]]
           around == CHOOSE at : at = [k \in Nat |->
                        IF k = 0 THEN s
                        ELSE IF at[k - 1] = NULL THEN NULL ELSE MapUp[at[k - 1]]]
<1>1. out \in [D -> D]
  BY DEF TypeOK, MapUp, Live, sym_table
<1>2. PICK at : Orbit(at, D, out, s)
  <2>1. s \in D
    OBVIOUS
  <2> HIDE DEF D, out
  <2>2. QED
    BY <1>1, <2>1, Iteration
<1>3. \A k \in Nat : at[k] = IF k = 0 THEN s
                             ELSE IF at[k - 1] = NULL THEN NULL ELSE MapUp[at[k - 1]]
  <2>1. ASSUME NEW k \in Nat, k # 0
        PROVE  at[k] = IF at[k - 1] = NULL THEN NULL ELSE MapUp[at[k - 1]]
    <3>1. k - 1 \in Nat /\ k = (k - 1) + 1
      BY <2>1
    <3>2. at[k] = out[at[k - 1]] /\ at[k - 1] \in D
      BY <1>2, <3>1 DEF Orbit
    <3>3. QED
      BY <3>2
  <2>2. QED
    BY <1>2, <2>1 DEF Orbit
<1>4. at = [k \in Nat |-> IF k = 0 THEN s
                          ELSE IF at[k - 1] = NULL THEN NULL ELSE MapUp[at[k - 1]]]
  <2>1. at = [k \in Nat |-> at[k]]
    BY <1>2 DEF Orbit
  <2>2. QED
    BY <1>3, <2>1
<1>5. around = [k \in Nat |-> IF k = 0 THEN s
                  ELSE IF around[k - 1] = NULL THEN NULL ELSE MapUp[around[k - 1]]]
  BY <1>4, Zenon
<1>6. Map!Around(s) = around
  BY DEF Map!Around
<1> HIDE DEF around
<1>7. around[0] = s /\ \A k \in Nat : around[k + 1] =
                          IF around[k] = NULL THEN NULL ELSE MapUp[around[k]]
  BY <1>5
<1>8. \A k \in Nat : around[k] \in D
  <2> DEFINE Right == {k \in Nat : around[k] \in D}
  <2>1. 0 \in Right
    BY <1>7
  <2>2. ASSUME NEW k \in Nat, k \in Right PROVE k + 1 \in Right
    BY <1>1, <1>7, <2>2
  <2>3. \A k \in Nat : k \in Right
    <3> HIDE DEF Right
    <3>1. QED
      BY <2>1, <2>2, InductionOnNat
  <2>4. QED
    BY <2>3
<1>9. QED
  BY <1>6, <1>7, <1>8

\* A table of the file under way is inside one of the file, or inside none.
LEMMA UpInFile ==
    ASSUME FileInv, NEW t \in FileTables
    PROVE  MapUp[t] = tables[t].parent /\ MapUp[t] \in FileTables \cup {NULL}
<1>1. /\ tables[t].parent \in FileTables \cup {NULL}
      /\ \A u \in FileTables : u \in TableIds /\ Live(u) /\ tables[u].file = file
  BY DEF FileInv, FileTables, LiveTables
<1>2. ~Adrift(t)
  BY <1>1 DEF Adrift
<1>3. QED
  BY <1>1, <1>2 DEF MapUp

\* So the scopes around it are all of the file.
LEMMA ChainInFile ==
    ASSUME IInv, NEW st \in FileTables
    PROVE  \A k \in Nat : Map!Around(st)[k] \in FileTables \cup {NULL}
<1> DEFINE around == Map!Around(st)
           Mine == {k \in Nat : around[k] \in FileTables \cup {NULL}}
<1>1. st \in TableIds /\ TypeOK
  BY InFile DEF IInv
<1>2. /\ around[0] = st
      /\ \A k \in Nat : around[k + 1] = IF around[k] = NULL THEN NULL ELSE MapUp[around[k]]
  BY <1>1, AroundUnfolds
<1>3. NULL \notin FileTables
  BY SymTabAssumption DEF FileTables, LiveTables
<1>4. \A t \in FileTables : MapUp[t] \in FileTables \cup {NULL}
  BY UpInFile DEF IInv
<1> HIDE DEF around
<1>5. 0 \in Mine
  BY <1>2
<1>6. ASSUME NEW k \in Nat, k \in Mine PROVE k + 1 \in Mine
  BY <1>2, <1>3, <1>4, <1>6
<1>7. \A k \in Nat : k \in Mine
  <2> HIDE DEF Mine
  <2>1. QED
    BY <1>5, <1>6, InductionOnNat
<1>8. QED
  BY <1>7 DEF around

\* The chain of scopes around st gets less deep outwards, so it has an end before
\* it is longer than there are tables.
LEMMA ChainEnds ==
    ASSUME IInv, Nested, NEW st \in FileTables
    PROVE  Map!Around(st)[Cardinality(TableIds)] = NULL
<1> DEFINE last == Cardinality(TableIds)
           around == Map!Around(st)
<1>1. last \in Nat
  BY FiniteHeap, FS_CardinalityType DEF FiniteHeap
<1>2. /\ \A k \in Nat : around[k] \in TableIds \cup {NULL}
      /\ \A k \in Nat : around[k + 1] = IF around[k] = NULL THEN NULL ELSE MapUp[around[k]]
      /\ \A k \in 0 .. last : around[k] # NULL => Live(around[k])
  <2>1. st \in TableIds /\ TypeOK
    BY InFile DEF IInv
  <2>2. \A t \in FileTables : Live(t)
    BY InFile
  <2>3. QED
    BY <1>1, <2>1, <2>2, AroundUnfolds, ChainInFile
<1> HIDE DEF last, around
<1>3. PICK bottom \in Nat : \E depth \in [TableIds -> 0 .. bottom] : NestedBy(depth)
  BY DEF Nested
<1>4. PICK depth \in [TableIds -> 0 .. bottom] : NestedBy(depth)
  BY <1>3
<1>5. SUFFICES ASSUME around[last] # NULL PROVE FALSE
  BY DEF last, around
<1>6. \A k \in 0 .. last : around[k] # NULL
  <2> DEFINE Inside == {k \in Nat : k <= last /\ around[last - k] # NULL}
  <2>1. 0 \in Inside
    BY <1>1, <1>5
  <2>2. ASSUME NEW k \in 0 .. last - 1, k \in Inside PROVE k + 1 \in Inside
    <3>1. last - (k + 1) \in Nat /\ (last - (k + 1)) + 1 = last - k /\ k + 1 <= last
      BY <1>1
    <3>2. around[last - (k + 1)] # NULL
      BY <1>2, <2>2, <3>1
    <3>3. QED
      BY <3>1, <3>2
  <2>3. \A k \in 0 .. last : k \in Inside
    <3> HIDE DEF Inside
    <3>1. QED
      BY <1>1, <2>1, <2>2, InductionUpTo
  <2>4. ASSUME NEW k \in 0 .. last PROVE around[k] # NULL
    <3>1. last - k \in 0 .. last /\ last - (last - k) = k
      BY <1>1
    <3>2. QED
      BY <2>3, <3>1
  <2>5. QED
    BY <2>4
<1>7. ASSUME NEW k \in 0 .. last - 1
      PROVE  /\ depth[around[k + 1]] < depth[around[k]]
             /\ depth[around[k]] \in Nat /\ depth[around[k + 1]] \in Nat
  <2>1. k \in 0 .. last /\ k + 1 \in 0 .. last /\ k \in Nat
    BY <1>1
  <2>2. around[k] \in TableIds /\ around[k + 1] \in TableIds /\ Live(around[k])
    BY <1>2, <1>6, <2>1
  <2>3. MapState[around[k]] = "open" /\ MapUp[around[k]] = around[k + 1]
    BY <1>2, <1>6, <2>1, <2>2 DEF MapState
  <2>4. around[k + 1] # NULL
    BY <1>6, <2>1
  <2>5. QED
    BY <1>4, <2>2, <2>3, <2>4 DEF NestedBy
<1>8. ASSUME NEW j \in 0 .. last, NEW k \in 0 .. last, j < k
      PROVE  depth[around[k]] < depth[around[j]]
  <2> DEFINE Deeper == {i \in Nat : j + 1 + i <= last
                                       => depth[around[j + 1 + i]] < depth[around[j]]}
  <2>1. 0 \in Deeper
    <3>1. j \in 0 .. last - 1 /\ j + 1 + 0 = j + 1
      BY <1>1, <1>8
    <3>2. QED
      BY <1>7, <3>1
  <2>2. ASSUME NEW i \in Nat, i \in Deeper PROVE i + 1 \in Deeper
    <3>1. SUFFICES ASSUME j + 1 + (i + 1) <= last
                   PROVE  depth[around[j + 1 + (i + 1)]] < depth[around[j]]
      OBVIOUS
    <3>2. /\ j + 1 + i \in 0 .. last - 1 /\ (j + 1 + i) + 1 = j + 1 + (i + 1) /\ j \in 0 .. last - 1
          /\ j + 1 + i <= last
      BY <1>1, <3>1
    <3>3. depth[around[j + 1 + i]] < depth[around[j]]
      BY <2>2, <3>2
    <3>4. /\ depth[around[(j + 1 + i) + 1]] < depth[around[j + 1 + i]]
          /\ depth[around[(j + 1 + i) + 1]] \in Nat /\ depth[around[j + 1 + i]] \in Nat
          /\ depth[around[j]] \in Nat
      BY <1>7, <3>2
    <3>5. QED
      BY <3>2, <3>3, <3>4
  <2>3. \A i \in Nat : i \in Deeper
    <3> HIDE DEF Deeper
    <3>1. QED
      BY <2>1, <2>2, InductionOnNat
  <2>4. k - j - 1 \in Nat /\ j + 1 + (k - j - 1) = k /\ k <= last
    BY <1>1, <1>8
  <2>5. QED
    BY <2>3, <2>4
<1>9. \A j, k \in 0 .. last : j # k => around[j] # around[k]
  <2>1. SUFFICES ASSUME NEW j \in 0 .. last, NEW k \in 0 .. last, j # k PROVE around[j] # around[k]
    OBVIOUS
  <2>2. j \in Int /\ k \in Int /\ (j < k \/ k < j)
    BY <1>1, <2>1
  <2>3. depth[around[j]] \in Nat /\ depth[around[k]] \in Nat
    BY <1>2, <1>6
  <2>4. depth[around[j]] < depth[around[k]] \/ depth[around[k]] < depth[around[j]]
    BY <1>8, <2>2
  <2>5. QED
    BY <2>3, <2>4
<1> DEFINE path == [k \in 0 .. last |-> around[k]]
<1>10. path \in [0 .. last -> TableIds]
  BY <1>2, <1>6
<1>11. IsFiniteSet(0 .. last) /\ Cardinality(0 .. last) = last + 1
  <2>1. 0 \in Int /\ last \in Int /\ ~ (0 > last) /\ last - 0 + 1 = last + 1
    BY <1>1
  <2>2. IsFiniteSet(0 .. last) /\ Cardinality(0 .. last) = IF 0 > last THEN 0 ELSE last - 0 + 1
    BY <2>1, FS_Interval
  <2>3. QED
    BY <2>1, <2>2
<1>12. IsFiniteSet(TableIds) /\ Cardinality(TableIds) = last
  BY FiniteHeap DEF FiniteHeap, last
<1>13. \E x, y \in 0 .. last : x # y /\ path[x] = path[y]
  <2> HIDE DEF path
  <2>1. Cardinality(TableIds) < Cardinality(0 .. last)
    BY <1>1, <1>11, <1>12
  <2>2. QED
    BY <1>10, <1>11, <1>12, <2>1, FS_PigeonHole, ZenonT(30)
<1>14. QED
  BY <1>9, <1>13

\* In a state with the invariant, the walk finds what the scopes around st say.
LEMMA WalkFinds ==
    ASSUME IInv, Nested, NEW st \in FileTables, NEW n \in Names
    PROVE  /\ lookup_symbol(st, n) \in EntryIds \cup {NULL}
           /\ Map!Resolve(st, n) =
                 IF lookup_symbol(st, n) = NULL THEN NULL ELSE Bound(lookup_symbol(st, n))
<1> DEFINE last == Cardinality(TableIds)
           around == Map!Around(st)
           Ends == {k \in Nat : k <= last /\ (around[k] = NULL \/ Declared(around[k], n))}
<1>1. last \in Nat
  BY FiniteHeap, FS_CardinalityType DEF FiniteHeap
<1>2. TypeOK /\ st \in TableIds
  BY InFile DEF IInv
<1>3. /\ around[0] = st
      /\ \A k \in Nat : around[k] \in TableIds \cup {NULL}
      /\ \A k \in Nat : around[k + 1] = IF around[k] = NULL THEN NULL ELSE MapUp[around[k]]
      /\ \A k \in Nat : around[k] # NULL => around[k] \in FileTables
  BY <1>2, AroundUnfolds, ChainInFile
<1>4. around[last] = NULL
  BY ChainEnds
<1>5. Map!Resolve(st, n) = IF Map!Home(st, n) = NULL THEN NULL ELSE MapBinds[Map!Home(st, n)][n]
  BY DEF Map!Resolve
<1> DEFINE hits == {k \in 0 .. last : around[k] # NULL /\ MapBinds[around[k]][n] # NULL}
<1>6. Map!Home(st, n) = IF hits = {} THEN NULL
                        ELSE around[CHOOSE k \in hits : \A j \in hits : k <= j]
  <2>1. Map!Cardinality(TableIds) = last
    BY DEF Map!Cardinality, Cardinality
  <2>2. QED
    BY <2>1 DEF Map!Home
<1> HIDE DEF last, around
<1>7. \A k \in 0 .. last : around[k] # NULL =>
         /\ around[k] \in LiveTables
         /\ Declared(around[k], n) <=> MapBinds[around[k]][n] # NULL
  <2>1. SUFFICES ASSUME NEW k \in 0 .. last, around[k] # NULL
                 PROVE  /\ around[k] \in LiveTables
                        /\ Declared(around[k], n) <=> MapBinds[around[k]][n] # NULL
    OBVIOUS
  <2>2. around[k] \in LiveTables
    BY <1>1, <1>3, <2>1, InFile
  <2>3. QED
    BY <2>2, DeclaredMeans
<1>8. PICK m \in Ends : \A k \in Ends : m <= k
  <2>1. last \in Ends /\ Ends \subseteq Nat
    BY <1>1, <1>4
  <2> HIDE DEF Ends
  <2>2. QED
    BY <2>1, LeastNatural
<1>9. /\ m \in 0 .. last
      /\ around[m] = NULL \/ Declared(around[m], n)
      /\ \A k \in 0 .. m - 1 : around[k] # NULL /\ ~Declared(around[k], n)
  BY <1>1, <1>8
<1> HIDE DEF Ends
<1>10. lookup_symbol(st, n) = lookup_symbol(around[m], n)
  <2> DEFINE Same == {k \in Nat : lookup_symbol(around[k], n) = lookup_symbol(st, n)}
  <2>1. 0 \in Same
    BY <1>3
  <2>2. ASSUME NEW k \in 0 .. m - 1, k \in Same PROVE k + 1 \in Same
    <3>1. k \in 0 .. last /\ k \in Nat /\ k + 1 \in Nat
      BY <1>1, <1>9
    <3>2. around[k] # NULL /\ ~Declared(around[k], n) /\ around[k] \in LiveTables
      BY <1>7, <1>9, <3>1
    <3>3. around[k + 1] = tables[around[k]].parent
      BY <1>3, <3>1, <3>2, UpInFile DEF IInv
    <3>4. lookup_symbol(around[k], n) = lookup_symbol(tables[around[k]].parent, n)
      BY <1>2, <1>3, <3>1, <3>2, LookupUnfolds DEF LiveTables
    <3>5. QED
      BY <2>2, <3>1, <3>3, <3>4
  <2>3. \A k \in 0 .. m : k \in Same
    <3> HIDE DEF Same
    <3>1. QED
      BY <1>9, <2>1, <2>2, InductionUpTo
  <2>4. m \in 0 .. m
    BY <1>1, <1>9
  <2>5. QED
    BY <2>3, <2>4
<1>11. lookup_symbol(around[m], n) =
          IF around[m] = NULL THEN NULL
          ELSE IF ~Live(around[m]) THEN Undefined
          ELSE IF Declared(around[m], n) THEN lookup_symbol_current_scope(around[m], n)
          ELSE lookup_symbol(tables[around[m]].parent, n)
  BY <1>1, <1>2, <1>3, <1>9, LookupUnfolds
<1>12. CASE around[m] = NULL
  <2>1. \A k \in m .. last : around[k] = NULL
    <3> DEFINE Out == {k \in Nat : m + k <= last => around[m + k] = NULL}
    <3>1. 0 \in Out
      BY <1>1, <1>9, <1>12
    <3>2. ASSUME NEW k \in Nat, k \in Out PROVE k + 1 \in Out
      <4>1. m + k \in Nat /\ m + (k + 1) = (m + k) + 1 /\ m \in Nat /\ last \in Nat
        BY <1>1, <1>9
      <4>2. m + (k + 1) <= last => around[m + (k + 1)] = NULL
        BY <1>3, <3>2, <4>1
      <4>3. QED
        BY <4>2
    <3>3. \A k \in Nat : k \in Out
      <4> HIDE DEF Out
      <4>1. QED
        BY <3>1, <3>2, InductionOnNat
    <3>4. ASSUME NEW k \in m .. last PROVE around[k] = NULL
      <4>1. k - m \in Nat /\ m + (k - m) = k /\ k <= last
        BY <1>1, <1>9
      <4>2. QED
        BY <3>3, <4>1
    <3>5. QED
      BY <3>4
  <2>2. ASSUME NEW k \in 0 .. last PROVE k \notin hits
    <3>1. CASE k < m
      <4>1. k \in 0 .. m - 1
        BY <1>1, <1>9, <3>1
      <4>2. QED
        BY <1>7, <1>9, <4>1
    <3>2. CASE ~ (k < m)
      <4>1. k \in m .. last
        BY <1>1, <1>9, <3>2
      <4>2. QED
        BY <2>1, <4>1
    <3>3. QED
      BY <3>1, <3>2
  <2>3. hits = {}
    BY <2>2
  <2>4. QED
    BY <1>5, <1>6, <1>10, <1>11, <1>12, <2>3
<1>13. CASE around[m] # NULL
  <2>1. around[m] \in LiveTables /\ Declared(around[m], n) /\ MapBinds[around[m]][n] # NULL
    BY <1>7, <1>9, <1>13
  <2>2. m \in hits
    BY <1>9, <2>1, <1>13
  <2>3. \A j \in hits : m <= j
    <3>1. SUFFICES ASSUME NEW j \in hits, ~ (m <= j) PROVE FALSE
      OBVIOUS
    <3>2. j \in 0 .. last /\ j \in 0 .. m - 1
      BY <1>1, <1>9, <3>1
    <3>3. QED
      BY <1>7, <1>9, <3>1, <3>2
  <2>4. (CHOOSE k \in hits : \A j \in hits : k <= j) = m
    <3>1. \A k \in hits : (\A j \in hits : k <= j) => k = m
      <4>1. \A k \in hits : k \in Int
        BY <1>1
      <4>2. QED
        BY <2>2, <2>3, <4>1
    <3> HIDE DEF hits
    <3>2. QED
      BY <2>2, <2>3, <3>1
  <2>5. Map!Home(st, n) = around[m]
    BY <1>6, <2>2, <2>4
  <2>6. Map!Resolve(st, n) = MapBinds[around[m]][n]
    BY <1>5, <1>13, <2>5
  <2>7. lookup_symbol(st, n) = lookup_symbol_current_scope(around[m], n)
    BY <1>10, <1>11, <1>13, <2>1 DEF LiveTables
  <2>8. MapBinds[around[m]][n] = Binding(around[m], n)
    BY <2>1 DEF MapBinds, LiveTables
  <2>9. lookup_symbol(st, n) \in EntryIds
    BY <2>1, <2>7, LookupCurrent DEF EntriesOf
  <2>10. QED
    BY <2>1, <2>6, <2>7, <2>8, <2>9 DEF Binding, Declared, Bound
<1>14. QED
  BY <1>12, <1>13

\* At the start no scope is open.
LEMMA NestedInit == Map!AInit => Nested
<1> SUFFICES ASSUME Map!AInit PROVE Nested
  OBVIOUS
<1> DEFINE depth == [t \in TableIds |-> 0]
<1>1. depth \in [TableIds -> 0 .. 0] /\ 0 \in Nat
  OBVIOUS
<1>2. \A t \in TableIds : MapState[t] # "open"
  BY DEF Map!AInit
<1> HIDE DEF depth
<1>3. QED
  BY <1>1, <1>2 DEF Nested, NestedBy

\* lookup_symbol, by buckets and parents, finds the declaration of the nearest
\* enclosing scope that has the name and says NULL only when there is none, for
\* every number of files whose tables were freed and addresses used again.
THEOREM LookupIsInnermost == Spec => []LookupFindsInnermost
<1>1. Spec => []Nested
  <2>1. Spec => [][Map!ANext]_(Map!avars)
    BY Invariance, StepRefines, PTL DEF Spec
  <2>2. Spec => Map!AInit
    BY InitRefines, PTL DEF Spec
  <2>3. QED
    BY <2>1, <2>2, NestedInit, NestedStep, PTL
<1>2. IInv => Lookups \subseteq FileTables
  BY DEF IInv, FileInv, Lookups, Inner
<1>3. IInv /\ Nested => LookupFindsInnermost
  BY <1>2, WalkFinds DEF LookupFindsInnermost, Bound
<1>4. QED
  BY <1>1, <1>3, Invariance, PTL
=============================================================================
