--------------------------- MODULE SymTabRefinement ---------------------------
(***************************************************************************)
(* The tables of SymTab implement the scoped map of ScopeMap.              *)
(***************************************************************************)
EXTENDS SymTab

Slots == {o \in 8 .. MaxOffset : o % 8 = 0}

\* The binding a bucket walk finds for n in table st.
Binding(st, n) ==
    IF Declared(st, n)
    THEN LET e == lookup_symbol_current_scope(st, n)
         IN  [decl |-> entries[e].decl, slot |-> entries[e].offset]
    ELSE NULL

\* A table has room for one slot at least.
ASSUME RoomForOne == 8 <= MaxOffset

\* There are finitely many addresses.
ASSUME FiniteHeap == IsFiniteSet(TableIds)

\* A binding is no null pointer.
ASSUME NullIsNoBinding == NULL \notin [decl : Decls, slot : Nat]

\* The table st was made in has been freed; another may have its address.
Adrift(st) ==
    LET p == tables[st].parent
    IN  p # NULL /\ (~Live(p) \/ tables[p].file # tables[st].file)

MapUp == [st \in TableIds |-> IF Live(st) /\ ~Adrift(st) THEN tables[st].parent ELSE NULL]

MapState == [st \in TableIds |-> IF Live(st) THEN "open" ELSE "new"]

MapBinds == [st \in TableIds |-> [n \in Names |-> IF Live(st) THEN Binding(st, n) ELSE NULL]]

MapUsed == [st \in TableIds |-> IF Live(st)
                                THEN {entries[e].offset : e \in EntriesOf(st)} \cup temps[st]
                                ELSE {}]

Map == INSTANCE ScopeMap WITH
    Scopes <- TableIds, None <- NULL,
    up <- MapUp, state <- MapState, binds <- MapBinds, used <- MapUsed,
    errors <- error_count

\* Every operation of symtab.c, and new_temp, does to the tables what one
\* operation of the scoped map does to the bindings: the first declaration of a
\* name stays, a second is counted, every slot handed out is a new one.
ImplementsScopeMap == Map!AbstractSpec

\* The scopes the passes of a file look names up in: the tables made for it, and
\* currentFunctionSymtab once there is a function.
Lookups == FileTables \cup (IF Inner = {} THEN {} ELSE {currentFunctionSymtab})

\* The walk of lookup_symbol over buckets and parents finds the declaration of
\* the nearest enclosing scope that has one, and NULL when none has.  It gets to no
\* table freed at the end of a file before, though tables of that file point to
\* it still, nor to one that has its address.
LookupFindsInnermost ==
    \A st \in Lookups, n \in Names :
        LET e == lookup_symbol(st, n)
        IN  /\ e \in EntryIds \cup {NULL}
            /\ Map!Resolve(st, n) =
                  IF e = NULL THEN NULL
                  ELSE [decl |-> entries[e].decl, slot |-> entries[e].offset]
=============================================================================
