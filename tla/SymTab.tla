------------------------------- MODULE SymTab -------------------------------
(***************************************************************************)
(* The scope tables of the k0 compiler (symtab.c), with the two callers    *)
(* that reach into an entry after inserting it (insert_method_symbol and   *)
(* the function case of printsyms) and new_temp (tac.c), which takes stack *)
(* slots from the same counter as insert_symbol; and process_file (main.c) *)
(* so far as it makes and frees tables, for any number of files.           *)
(*                                                                         *)
(* Pointers are addresses: TableIds and EntryIds are what malloc may       *)
(* return, a freed address included, and their sizes bound the heap.  A    *)
(* bucket's linked list is the sequence of its entries, head first.        *)
(* MaxOffset bounds the slots of one table, MaxErrors the number of errors *)
(* counted in a file and MaxFiles the number of files.                     *)
(***************************************************************************)
EXTENDS Integers, Sequences, FiniteSets

CONSTANTS TableIds,    \* addresses of sym_table blocks
          EntryIds,    \* addresses of sym_entry blocks
          Names,       \* identifiers
          Decls,       \* kind, type, mutable and nullable of a declaration
          Sigs,        \* parameter count and types of a function
          NBuckets,    \* 50 in every call of the program
          Hash,        \* the bucket hash() computes for a name
          MaxOffset,   \* bound: largest nextOffset of a table
          MaxErrors,   \* bound: largest error_count
          MaxFiles,    \* bound: files given to process_file
          NULL,        \* the null pointer
          Undefined,   \* what reading a freed table yields
          Uninit       \* a field malloc left unset

Buckets == 0 .. NBuckets - 1

ASSUME SymTabAssumption ==
    /\ NBuckets \in Nat \ {0}
    /\ Hash \in [Names -> Buckets]
    /\ MaxOffset \in Nat
    /\ MaxErrors \in Nat
    /\ MaxFiles \in Nat
    /\ NULL \notin TableIds \cup EntryIds
    /\ Undefined \notin EntryIds \cup {NULL}
    /\ Uninit \notin Sigs

VARIABLES
    tables,                \* address -> struct sym_table, NULL when not allocated
    entries,               \* address -> struct sym_entry, NULL when not allocated
    globalSymtab,          \* the global of main.c, left dangling after a file
    packageSymtab,         \* the local of process_file, NULL outside of it
    currentFunctionSymtab, \* the global of symtab.c
    file,                  \* bookkeeping: files started so far
    error_count,           \* the global of main.c
    temps                  \* slots new_temp handed out, by the table they came from

scopes == <<globalSymtab, packageSymtab, currentFunctionSymtab, file>>

vars == <<tables, entries, scopes, error_count, temps>>

Regions == {"R_GLOBAL", "R_LOCAL"}

\* file is bookkeeping: the file a table was made for.
sym_table == [parent : TableIds \cup {NULL}, tbl : [Buckets -> Seq(EntryIds)],
              nEntries : Nat, nextOffset : Nat, file : Nat]

sym_entry == [s : Names, decl : Decls, sig : Sigs \cup {Uninit}, table : TableIds,
              region : Regions, offset : Nat]

ASSUME NullIsNoBlock == NULL \notin sym_table \cup sym_entry

Live(st) == tables[st] # NULL
LiveTables == {st \in TableIds : Live(st)}
EntriesOf(st) == {e \in EntryIds : entries[e] # NULL /\ entries[e].table = st}

\* The tables made for the file under way, and those of its functions and loops.
FileTables == IF packageSymtab = NULL THEN {}
              ELSE {st \in LiveTables : tables[st].file = file}
Inner == FileTables \ {globalSymtab, packageSymtab}

-----------------------------------------------------------------------------
\* Lookups

Hits(st, n) == LET chain == tables[st].tbl[Hash[n]]
               IN  {i \in DOMAIN chain : entries[chain[i]].s = n}

\* The walk of one bucket stops at the first entry with the name.
lookup_symbol_current_scope(st, n) ==
    IF Hits(st, n) = {}
    THEN NULL
    ELSE tables[st].tbl[Hash[n]][CHOOSE i \in Hits(st, n) : \A j \in Hits(st, n) : i <= j]

Declared(st, n) == lookup_symbol_current_scope(st, n) # NULL

\* Fault: the walk that forgets the parents.
NoParents(st, n) == lookup_symbol_current_scope(st, n)

\* The same in every table from st outwards.  A parent that was freed since is read
\* all the same: as Undefined, or as the table that has its address now.
lookup_symbol(st, n) ==
    LET walk[t \in TableIds \cup {NULL}] ==
            IF t = NULL THEN NULL
            ELSE IF ~Live(t) THEN Undefined
            ELSE IF Declared(t, n) THEN lookup_symbol_current_scope(t, n)
            ELSE walk[tables[t].parent]
    IN  walk[st]

-----------------------------------------------------------------------------
\* State changes that several operations share

mksymtab(parent, f) ==
    [parent |-> parent, tbl |-> [b \in Buckets |-> <<>>],
     nEntries |-> 0, nextOffset |-> 8, file |-> f]

newEntry(st, n, d) ==
    [s |-> n, decl |-> d, sig |-> Uninit, table |-> st,
     region |-> IF tables[st].parent = NULL THEN "R_GLOBAL" ELSE "R_LOCAL",
     offset |-> tables[st].nextOffset]

\* Faults: the slot counter left alone, the wrong bucket, the count going down.
LinkedSameSlot(st, n, e) ==
    [tables[st] EXCEPT !.tbl[Hash[n]] = <<e>> \o @, !.nEntries = @ + 1]
LinkedFirstBucket(st, n, e) ==
    [tables[st] EXCEPT !.tbl[0] = <<e>> \o @, !.nEntries = @ + 1, !.nextOffset = @ + 8]
LinkedCountDown(st, n, e) ==
    [tables[st] EXCEPT !.tbl[Hash[n]] = <<e>> \o @, !.nEntries = @ - 1, !.nextOffset = @ + 8]

\* The table after entry e with name n is pushed on its bucket.
Linked(st, n, e) ==
    LET t == tables[st]
    IN  [parent     |-> t.parent,
         tbl        |-> [t.tbl EXCEPT ![Hash[n]] = <<e>> \o @],
         nEntries   |-> t.nEntries + 1,
         nextOffset |-> t.nextOffset + 8,
         file       |-> t.file]

\* Fault: the early return that forgets to count.
SilentRedeclaration(st, n) ==
    Live(st) /\ Declared(st, n) /\ UNCHANGED error_count

\* The early return of insert_symbol: an error, and no new entry.
Redeclaration(st, n) ==
    /\ Live(st) /\ Declared(st, n)
    /\ error_count < MaxErrors
    /\ error_count' = error_count + 1

\* Fault: no check for an earlier declaration.
CanPushAnyway(st, n) == Live(st) /\ tables[st].nextOffset + 8 <= MaxOffset

CanPush(st, n) ==
    /\ Live(st) /\ ~Declared(st, n)
    /\ tables[st].nextOffset + 8 <= MaxOffset

-----------------------------------------------------------------------------
\* The operations

Init ==
    /\ tables = [st \in TableIds |-> NULL]
    /\ entries = [e \in EntryIds |-> NULL]
    /\ globalSymtab = NULL /\ packageSymtab = NULL
    /\ currentFunctionSymtab = NULL
    /\ file = 0
    /\ error_count = 0
    /\ temps = [st \in TableIds |-> {}]

\* malloc gives any address not in use.
Fresh(st) == ~Live(st)

\* process_file: the global table, the package table inside it, and no errors so
\* far.  currentFunctionSymtab stays what the file before left it.
StartFile(global, package) ==
    /\ packageSymtab = NULL /\ globalSymtab \notin LiveTables /\ file < MaxFiles
    /\ Fresh(global) /\ Fresh(package) /\ global # package
    /\ tables' = [tables EXCEPT ![global] = mksymtab(NULL, file + 1),
                                ![package] = mksymtab(global, file + 1)]
    /\ globalSymtab' = global /\ packageSymtab' = package
    /\ file' = file + 1 /\ error_count' = 0
    /\ UNCHANGED <<entries, currentFunctionSymtab, temps>>

\* A loop's scope: check_semantics_helper nests it in the scope it is in, that of
\* a function or of a loop.
create_function_scope(st, parent) ==
    /\ Fresh(st) /\ parent \in Inner
    /\ tables' = [tables EXCEPT ![st] = mksymtab(parent, file)]
    /\ currentFunctionSymtab' = st
    /\ UNCHANGED <<entries, globalSymtab, packageSymtab, file, error_count, temps>>

insert_symbol(st, n, d) ==
    \/ /\ Redeclaration(st, n)
       /\ UNCHANGED <<tables, entries, scopes, temps>>
    \/ /\ CanPush(st, n)
       /\ \E e \in EntryIds :
            /\ entries[e] = NULL
            /\ entries' = [entries EXCEPT ![e] = newEntry(st, n, d)]
            /\ tables' = [tables EXCEPT ![st] = Linked(st, n, e)]
       /\ UNCHANGED <<scopes, error_count, temps>>

\* The signature is written to whatever entry the name has after the insert,
\* the one of an earlier declaration included.
insert_method_symbol(st, n, d, sig) ==
    \/ /\ Redeclaration(st, n)
       /\ entries' = [entries EXCEPT ![lookup_symbol_current_scope(st, n)].sig = sig]
       /\ UNCHANGED <<tables, scopes, temps>>
    \/ /\ CanPush(st, n)
       /\ \E e \in EntryIds :
            /\ entries[e] = NULL
            /\ entries' = [entries EXCEPT ![e] = [newEntry(st, n, d) EXCEPT !.sig = sig]]
            /\ tables' = [tables EXCEPT ![st] = Linked(st, n, e)]
       /\ UNCHANGED <<scopes, error_count, temps>>

\* The function case of printsyms: the same writes, then the function's own scope.
DeclareFunction(st, n, d, sig, scope) ==
    /\ Fresh(scope) /\ st \in FileTables
    /\ currentFunctionSymtab' = scope
    /\ \/ /\ Redeclaration(st, n)
          /\ entries' = [entries EXCEPT ![lookup_symbol_current_scope(st, n)].sig = sig]
          /\ tables' = [tables EXCEPT ![scope] = mksymtab(st, file)]
       \/ /\ CanPush(st, n)
          /\ \E e \in EntryIds :
               /\ entries[e] = NULL
               /\ entries' = [entries EXCEPT ![e] = [newEntry(st, n, d) EXCEPT !.sig = sig]]
               /\ tables' = [tables EXCEPT ![st] = Linked(st, n, e),
                                           ![scope] = mksymtab(st, file)]
          /\ UNCHANGED error_count
    /\ UNCHANGED <<globalSymtab, packageSymtab, file, temps>>

\* tac.c: the next slot of the current function's table.
new_temp ==
    LET st == currentFunctionSymtab
    IN  /\ st # NULL
        /\ tables[st].nextOffset + 8 <= MaxOffset
        /\ temps' = [temps EXCEPT ![st] = @ \cup {tables[st].nextOffset}]
        /\ tables' = [tables EXCEPT ![st].nextOffset = @ + 8]
        /\ UNCHANGED <<entries, scopes, error_count>>

\* Fault: the scope of a function of an earlier file.
SwitchToAny(st) ==
    /\ packageSymtab # NULL /\ st \in LiveTables \ {globalSymtab, packageSymtab}
    /\ currentFunctionSymtab' = st
    /\ UNCHANGED <<tables, entries, globalSymtab, packageSymtab, file, error_count, temps>>

\* generate_code works in the scope printsyms gave the function, and puts the
\* previous scope back afterwards.
SwitchFunction(st) ==
    /\ st \in Inner
    /\ currentFunctionSymtab' = st
    /\ UNCHANGED <<tables, entries, globalSymtab, packageSymtab, file, error_count, temps>>

\* process_file frees the package table, then the global one, and no function's.
free_symbol_table(st) ==
    /\ Live(st)
    /\ st = IF packageSymtab # NULL THEN packageSymtab ELSE globalSymtab
    /\ entries' = [e \in EntryIds |-> IF e \in EntriesOf(st) THEN NULL ELSE entries[e]]
    /\ tables' = [tables EXCEPT ![st] = NULL]
    /\ temps' = [temps EXCEPT ![st] = {}]
    /\ packageSymtab' = NULL
    /\ UNCHANGED <<globalSymtab, currentFunctionSymtab, file, error_count>>

Next ==
    \/ \E global, package \in TableIds : StartFile(global, package)
    \/ \E st, parent \in TableIds :
          create_function_scope(st, parent)
    \/ \E st \in TableIds, n \in Names, d \in Decls : insert_symbol(st, n, d)
    \/ \E st \in TableIds, n \in Names, d \in Decls, sig \in Sigs :
          insert_method_symbol(st, n, d, sig)
    \/ \E st, scope \in TableIds, n \in Names, d \in Decls, sig \in Sigs :
          DeclareFunction(st, n, d, sig, scope)
    \/ new_temp
    \/ \E st \in TableIds : SwitchFunction(st) \/ free_symbol_table(st)

Spec == Init /\ [][Next]_vars

-----------------------------------------------------------------------------
\* Properties

\* Every field has its C type.
TypeOK ==
    /\ tables \in [TableIds -> sym_table \cup {NULL}]
    /\ entries \in [EntryIds -> sym_entry \cup {NULL}]
    /\ {globalSymtab, packageSymtab, currentFunctionSymtab} \subseteq TableIds \cup {NULL}
    /\ file \in 0 .. MaxFiles
    /\ error_count \in 0 .. MaxErrors
    /\ temps \in [TableIds -> SUBSET Nat]

\* The chains hold exactly the table's entries: each in the bucket of its name,
\* once, none of another table's, none freed; nEntries counts them.  A lookup
\* that walks one bucket therefore misses nothing.
ChainsSound ==
    \A st \in LiveTables : \A b \in Buckets : \A i \in DOMAIN tables[st].tbl[b] :
        LET e == tables[st].tbl[b][i]
        IN  /\ e \in EntriesOf(st)
            /\ Hash[entries[e].s] = b
            /\ \A j \in DOMAIN tables[st].tbl[b] : tables[st].tbl[b][j] = e => i = j

ChainsComplete ==
    \A st \in LiveTables : \A e \in EntriesOf(st) :
        LET chain == tables[st].tbl[Hash[entries[e].s]]
        IN  \E i \in DOMAIN chain : chain[i] = e

EntriesCounted ==
    \A st \in LiveTables : tables[st].nEntries = Cardinality(EntriesOf(st))

ChainsExact == ChainsSound /\ ChainsComplete /\ EntriesCounted

\* No scope declares a name twice, whatever names share a bucket with it: what
\* the redeclaration check of insert_symbol is for.
UniqueNames ==
    \A e, f \in EntryIds :
        /\ entries[e] # NULL /\ entries[f] # NULL
        /\ entries[e].table = entries[f].table /\ entries[e].s = entries[f].s
        => e = f

\* Variables and temporaries of one table are given different eight-byte slots,
\* all of them below nextOffset: insert_symbol and new_temp share the counter.
SlotsDisjoint ==
    \A st \in LiveTables :
        /\ \A e, f \in EntriesOf(st) : entries[e].offset = entries[f].offset => e = f
        /\ \A e \in EntriesOf(st) : /\ entries[e].offset \notin temps[st]
                                   /\ entries[e].offset < tables[st].nextOffset
                                   /\ entries[e].offset % 8 = 0
        /\ \A o \in temps[st] : o < tables[st].nextOffset /\ o % 8 = 0
        /\ tables[st].nextOffset >= 8 /\ tables[st].nextOffset % 8 = 0

\* An entry that exists is only ever changed by a step that reports an error, so
\* in a file without errors a name means its first declaration throughout.
FirstDeclarationWins ==
    [][\A e \in EntryIds :
          entries[e] # NULL /\ entries'[e] # NULL /\ entries'[e] # entries[e]
          => error_count' > error_count]_vars
=============================================================================
