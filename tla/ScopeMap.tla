------------------------------ MODULE ScopeMap ------------------------------
(***************************************************************************)
(* What the symbol table promises the passes that use it: nested scopes,   *)
(* each a map from names to a declaration and the stack slot it lives in.  *)
(* The first declaration of a name in a scope stays; a second is an error. *)
(* A slot is given out once per scope, to a name or to a temporary.        *)
(***************************************************************************)
EXTENDS Integers, FiniteSets

CONSTANTS Scopes, Names, Decls, Slots, None

VARIABLES up,      \* the enclosing scope, None for the outermost
          state,   \* "open", or "new" before and after
          binds,   \* scope -> name -> [decl, slot], None when unbound
          used,    \* slots of the scope given out so far
          errors   \* redeclarations reported in the file under way

avars == <<up, state, binds, used, errors>>

Unbound == [n \in Names |-> None]

AInit ==
    /\ up = [s \in Scopes |-> None]
    /\ state = [s \in Scopes |-> "new"]
    /\ binds = [s \in Scopes |-> Unbound]
    /\ used = [s \in Scopes |-> {}]
    /\ errors = 0

\* A file: its outermost scope, and one inside it.
OpenFile(outer, inner) ==
    /\ state[outer] = "new" /\ state[inner] = "new" /\ outer # inner
    /\ up' = [up EXCEPT ![outer] = None, ![inner] = outer]
    /\ state' = [state EXCEPT ![outer] = "open", ![inner] = "open"]
    /\ errors' = 0
    /\ UNCHANGED <<binds, used>>

Open(s, p) ==
    /\ state[s] = "new" /\ state[p] = "open"
    /\ up' = [up EXCEPT ![s] = p]
    /\ state' = [state EXCEPT ![s] = "open"]
    /\ UNCHANGED <<binds, used, errors>>

Bind(s, n, d, slot) ==
    /\ state[s] = "open" /\ binds[s][n] = None /\ slot \notin used[s]
    /\ binds' = [binds EXCEPT ![s][n] = [decl |-> d, slot |-> slot]]
    /\ used' = [used EXCEPT ![s] = @ \cup {slot}]

Declare(s, n, d, slot) == Bind(s, n, d, slot) /\ UNCHANGED <<up, state, errors>>

Redeclare(s, n) ==
    /\ state[s] = "open" /\ binds[s][n] # None
    /\ errors' = errors + 1
    /\ UNCHANGED <<up, state, binds, used>>

\* A function: its name is declared in s and its own scope f opened inside s,
\* also when the name was taken.
DeclareWithScope(s, n, d, slot, f) ==
    /\ state[f] = "new"
    /\ up' = [up EXCEPT ![f] = s]
    /\ state' = [state EXCEPT ![f] = "open"]
    /\ \/ Bind(s, n, d, slot) /\ UNCHANGED errors
       \/ /\ state[s] = "open" /\ binds[s][n] # None
          /\ errors' = errors + 1 /\ UNCHANGED <<binds, used>>

TakeSlot(s, slot) ==
    /\ state[s] = "open" /\ slot \notin used[s]
    /\ used' = [used EXCEPT ![s] = @ \cup {slot}]
    /\ UNCHANGED <<up, state, binds, errors>>

\* Scopes inside s stay open, with none around them.
Close(s) ==
    /\ state[s] = "open"
    /\ state' = [state EXCEPT ![s] = "new"]
    /\ up' = [t \in Scopes |-> IF t = s \/ up[t] = s THEN None ELSE up[t]]
    /\ binds' = [binds EXCEPT ![s] = Unbound]
    /\ used' = [used EXCEPT ![s] = {}]
    /\ UNCHANGED errors

ANext ==
    \/ \E s, p \in Scopes : OpenFile(s, p) \/ Open(s, p)
    \/ \E s \in Scopes, n \in Names, d \in Decls, slot \in Slots : Declare(s, n, d, slot)
    \/ \E s \in Scopes, n \in Names : Redeclare(s, n)
    \/ \E s, f \in Scopes, n \in Names, d \in Decls, slot \in Slots :
          DeclareWithScope(s, n, d, slot, f)
    \/ \E s \in Scopes, slot \in Slots : TakeSlot(s, slot)
    \/ \E s \in Scopes : Close(s)

AbstractSpec == AInit /\ [][ANext]_avars

\* The k-th scope around s, s itself for k = 0.
Around(s) ==
    LET at[k \in Nat] ==
            IF k = 0 THEN s ELSE IF at[k-1] = None THEN None ELSE up[at[k-1]]
    IN  at

\* The nearest scope around s that binds n, None when none does.
Home(s, n) ==
    LET hits == {k \in 0 .. Cardinality(Scopes) :
                    Around(s)[k] # None /\ binds[Around(s)[k]][n] # None}
    IN  IF hits = {} THEN None ELSE Around(s)[CHOOSE k \in hits : \A j \in hits : k <= j]

\* What a use of name n in scope s means.
Resolve(s, n) == IF Home(s, n) = None THEN None ELSE binds[Home(s, n)][n]
=============================================================================
