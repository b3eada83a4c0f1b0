------------------------------ MODULE NameProofs ------------------------------
(***************************************************************************)
(* For any scopes, names and bounds: the scopes of NameAnalysis stay well  *)
(* formed, what the three passes make of a name of an accepted file fits   *)
(* together, and the files they accept are those the rules admit.          *)
(*                                                                         *)
(* The invariant is said with the help of three functions nothing in the   *)
(* code keeps: how many constructs are open after each event, the function *)
(* each event leaves the text in, and how deep each scope lies.            *)
(***************************************************************************)
EXTENDS NameRules, Induction, FiniteSetTheorems

-----------------------------------------------------------------------------
\* Scopes

Slot == [decl : Declaration, slot : Nat]
Opened == {s \in Scopes : state[s] = "open"}

\* The scopes are a tree under the package's.
Tree ==
    /\ state \in [Scopes -> {"new", "open"}]
    /\ up \in [Scopes -> Scopes \cup {None}]
    /\ state[Package] = "open" /\ up[Package] = None
    /\ \A s \in Scopes : state[s] = "open" /\ s # Package => up[s] \in Opened

\* Each has finitely many slots, one for every name; the unused ones are empty.
Store ==
    /\ binds \in [Scopes -> [Names -> Slot \cup {None}]]
    /\ used \in [Scopes -> SUBSET Nat]
    /\ \A s \in Scopes : IsFiniteSet(used[s])
    /\ \A s \in Scopes, n \in Names : binds[s][n] # None => binds[s][n].slot \in used[s]
    /\ \A s \in Scopes : state[s] = "new" => binds[s] = Unbound

ScopesOK == Tree /\ Store /\ errors \in Nat

\* There are more open scopes than a scope has around it.
Ranked(r) ==
    /\ r \in [Scopes -> Nat]
    /\ \A s \in Opened : r[s] < Cardinality(Opened)
    /\ \A s \in Opened : s # Package => r[up[s]] < r[s]

-----------------------------------------------------------------------------
\* The text: h[i] constructs are open after i events, g[i] is the function the
\* text is in then, 0 for none.

Moves(e, i, h0, h1, g0, g1) ==
    /\ e.op # "end" => e.name \in Names
    /\ \/ e.op = "fun" /\ h0 = 1 /\ h1 = 2 /\ g1 = i
       \/ e.op = "for" /\ h0 > 1 /\ h1 = h0 + 1 /\ g1 = g0
       \/ e.op = "end" /\ h0 > 1 /\ h1 = h0 - 1 /\ g1 = IF h1 = 1 THEN 0 ELSE g0
       \/ e.op \in Declarators /\ h1 = h0 /\ g1 = g0
       \/ e.op \in {"param", "assign", "use", "call", "elem"} /\ h0 > 1 /\ h1 = h0 /\ g1 = g0

InFunction(p, h, g, i) ==
    /\ g[i] = 0 <=> h[i] = 1
    /\ g[i] # 0 => g[i] \in 1 .. i /\ p[g[i]].op = "fun" /\ \A k \in g[i] .. i : h[k] > 1

Text(p, h, g) ==
    /\ p \in Seq(Event)
    /\ h \in [0 .. Len(p) -> Nat \ {0}] /\ g \in [0 .. Len(p) -> Nat]
    /\ h[0] = 1 /\ g[0] = 0
    /\ \A i \in 1 .. Len(p) : Moves(p[i], i, h[i - 1], h[i], g[i - 1], g[i])
    /\ \A i \in 0 .. Len(p) : InFunction(p, h, g, i)

Functions == Of({"fun"})
For == Of({"for"})

\* The file gets complete within its bound.
Budget ==
    /\ Len(prog) <= MaxLoopLen
    /\ pc \in 0 .. Len(prog)
    /\ pass = "collect" =>
          /\ pc = Len(prog)
          /\ Lacking \in Nat /\ (Lacking > 0 => Len(nest) = 2)
          /\ Len(prog) + Lacking + Len(nest) - 1 <= MaxLoopLen

\* Every function has a scope of its own in the package's, and every loop the
\* checker has come to has one too.
OwnScopes ==
    /\ scopeOf \in [1 .. MaxLoopLen -> Scopes \cup {None}]
    /\ \A i \in 1 .. MaxLoopLen : scopeOf[i] # None =>
          /\ i \in Functions \cup For
          /\ scopeOf[i] \in Opened \ {Package}
          /\ i \in For => pass # "collect" /\ (pass = "check" => i <= pc)
    /\ \A i, j \in 1 .. MaxLoopLen : scopeOf[i] = scopeOf[j] /\ scopeOf[i] # None => i = j
    /\ \A i \in Functions : scopeOf[i] # None /\ up[scopeOf[i]] = Package

\* s is the scope of the last function, None if there is none.
LastScope(s) ==
    \/ Functions = {} /\ s = None
    \/ \E l \in Functions : (\A j \in Functions : j <= l) /\ s = scopeOf[l]

\* s is a scope of the file, None if the file has no functions.
SomeScope(s) == IF Functions = {} THEN s = None ELSE s \in Opened

\* The open constructs and the scopes the passes work in.
Level == [op : {"file", "fun", "for"}, scope : Scopes \cup {None}]

Nested(q, m) ==
    /\ q \in Seq(Level) /\ Len(q) = m
    /\ \A k \in 1 .. m : q[k].op = IF k = 1 THEN "file" ELSE IF k = 2 THEN "fun" ELSE "for"

CollectNest(g) ==
    /\ nest[1].scope = Package /\ LastScope(current)
    /\ \A k \in 2 .. Len(nest) : nest[k].scope = scopeOf[g[pc]]

LoopLevel(k) ==
    /\ nest[k].scope \in LoopScopes \cap Opened
    /\ up[nest[k].scope] = nest[k - 1].scope

CheckNest(g) ==
    /\ LastScope(nest[1].scope) /\ SomeScope(current)
    /\ Len(nest) > 1 => nest[2].scope = scopeOf[g[pc]]
    /\ \A k \in 3 .. Len(nest) : LoopLevel(k)

GenerateNest(g) ==
    /\ SomeScope(nest[1].scope)
    /\ Len(nest) > 1 => nest[2].scope = nest[1].scope
    /\ current = IF g[pc] = 0 THEN nest[1].scope ELSE scopeOf[g[pc]]

Nesting(h, g) ==
    /\ current \in Scopes \cup {None}
    /\ pass \in Passes \cup Ends
    /\ pass \in Passes => Nested(nest, h[pc])
    /\ pass = "collect" => CollectNest(g)
    /\ pass = "check" => CheckNest(g)
    /\ pass = "generate" => GenerateNest(g)

Records ==
    /\ res \in [Passes -> Seq(Scopes \cup {None})]
    /\ Len(res.collect) = Len(prog)
    /\ Len(res.check) <= Len(prog) /\ Len(res.generate) <= Len(prog)
    /\ pass = "collect" => res.check = <<>>
    /\ pass = "check" => Len(res.check) = pc
    /\ pass \in {"collect", "check"} => res.generate = <<>>
    /\ pass = "generate" => Len(res.check) = Len(prog) /\ Len(res.generate) = pc
    /\ pass = "compiled" => Len(res.check) = Len(prog) /\ Len(res.generate) = Len(prog)
    /\ pass \in {"generate", "compiled"} => errors = 0

-----------------------------------------------------------------------------
\* What is known of the names as long as there is no error

DeclareOps == Declarators \cup {"fun", "param"}

\* The scope declarations after event i belong to.
At(g, i) == IF g[i] = 0 THEN Package ELSE scopeOf[g[i]]

\* The scope the last pass finds name n in after event i, inside a function.
Near(g, i, n) == IF binds[scopeOf[g[i]]][n] # None THEN scopeOf[g[i]] ELSE Package

Names_ == {i \in DOMAIN prog : prog[i].op # "end"}

\* Every name is bound in its function's scope or the package's.
Found(g) ==
    \A i \in Names_ :
        /\ res.collect[i] \in {Package, At(g, i - 1)}
        /\ binds[res.collect[i]][prog[i].name] # None
        /\ prog[i].op \in DeclareOps \cup {"assign"} => res.collect[i] = At(g, i - 1)

\* A declaration is what its scope has for the name.
Stands(g) ==
    \A i \in Names_ : prog[i].op \in DeclareOps =>
        binds[At(g, i - 1)][prog[i].name].decl = Declares(prog[i])

\* What is found in the package is not declared there later.
NoLater(g) ==
    \A i \in Names_, j \in Names_ :
        res.collect[i] = Package /\ i < j /\ g[j - 1] = 0 => prog[j].name # prog[i].name

\* A name that the function has after all is one it declares later, or an array
\* of the package that the checker has declared in it.
Captures(g) ==
    \A i \in Names_ :
        res.collect[i] = Package /\ g[i - 1] # 0 /\ binds[scopeOf[g[i - 1]]][prog[i].name] # None =>
            \/ \E j \in Names_ : /\ i < j /\ g[j - 1] = g[i - 1] /\ prog[j].name = prog[i].name
                                 /\ prog[j].op \in DeclareOps \cup {"assign"}
            \/ /\ pass # "collect" /\ \A f \in Functions : f <= g[i - 1]
               /\ \E j \in Names_ : /\ g[j - 1] = 0 /\ prog[j].name = prog[i].name
                                    /\ prog[j].op = "array"

\* The scopes of the loops the checker has come to.
LoopTables == LoopScopes \ {None}

\* What the checker has found.
Checked(g) ==
    \A i \in Names_ : i <= Len(res.check) /\ g[i - 1] # 0 =>
        res.check[i] \in LoopTables \cup {Near(g, i - 1, prog[i].name)}

\* Elements are of mutable arrays.
ElementsChecked(g) ==
    \A i \in Names_ : i <= Len(res.check) /\ prog[i].op = "elem" =>
        LET d == binds[Near(g, i - 1, prog[i].name)][prog[i].name].decl
        IN  d.kind = "array" /\ d.mut

\* An array a loop has is one its function has.
LoopArrays(g) ==
    pass = "check" =>
        \A k \in 3 .. Len(nest), n \in Names :
            LET b == binds[nest[k].scope][n]
            IN  b # None /\ b.decl.kind = "array" =>
                  /\ binds[scopeOf[g[pc]]][n] # None
                  /\ binds[scopeOf[g[pc]]][n].decl = b.decl

\* What the generator has found.
Generated(g) ==
    \A i \in Names_ : i <= Len(res.generate) /\ g[i - 1] # 0 =>
        res.generate[i] = Near(g, i - 1, prog[i].name)

GeneratedAll ==
    Functions # {} => \A i \in Names_ : i <= Len(res.generate) => res.generate[i] # None

Flawless(g) ==
    /\ Found(g) /\ Stands(g) /\ NoLater(g) /\ Captures(g)
    /\ Checked(g) /\ ElementsChecked(g) /\ LoopArrays(g)

Inv(h, g, r) ==
    /\ ScopesOK /\ Ranked(r)
    /\ Text(prog, h, g) /\ Budget
    /\ OwnScopes /\ Nesting(h, g) /\ Records
    /\ errors = 0 => Flawless(g)
    /\ pass \in {"generate", "compiled"} => Generated(g)
    /\ GeneratedAll

IInv == \E h, g, r : Inv(h, g, r)

-----------------------------------------------------------------------------
\* Lookup

\* The scopes around s, one after the other.
LEMMA AroundUnfolds ==
    ASSUME up \in [Scopes -> Scopes \cup {None}], NEW s \in Scopes \cup {None}
    PROVE  /\ Around(s)[0] = s
           /\ \A k \in Nat :
                 /\ Around(s)[k] \in Scopes \cup {None}
                 /\ Around(s)[k + 1] = IF Around(s)[k] = None THEN None ELSE up[Around(s)[k]]
<1> DEFINE D == Scopes \cup {None}
           out == [t \in D |-> IF t = None THEN None ELSE up[t]]
           around == CHOOSE at : at = [k \in Nat |->
                        IF k = 0 THEN s
                        ELSE IF at[k - 1] = None THEN None ELSE up[at[k - 1]]]
<1>1. out \in [D -> D]
  OBVIOUS
<1>2. PICK at : Orbit(at, D, out, s)
  <2>1. s \in D
    OBVIOUS
  <2> HIDE DEF D, out
  <2>2. QED
    BY <1>1, <2>1, Iteration
<1>3. \A k \in Nat : at[k] = IF k = 0 THEN s
                             ELSE IF at[k - 1] = None THEN None ELSE up[at[k - 1]]
  <2>1. ASSUME NEW k \in Nat, k # 0
        PROVE  at[k] = IF at[k - 1] = None THEN None ELSE up[at[k - 1]]
    <3>1. k - 1 \in Nat /\ k = (k - 1) + 1
      BY <2>1
    <3>2. at[k] = out[at[k - 1]] /\ at[k - 1] \in D
      BY <1>2, <3>1 DEF Orbit
    <3>3. QED
      BY <3>2
  <2>2. QED
    BY <1>2, <2>1 DEF Orbit
<1>4. at = [k \in Nat |-> IF k = 0 THEN s
                          ELSE IF at[k - 1] = None THEN None ELSE up[at[k - 1]]]
  <2>1. at = [k \in Nat |-> at[k]]
    BY <1>2 DEF Orbit
  <2>2. QED
    BY <1>3, <2>1
<1>5. around = [k \in Nat |-> IF k = 0 THEN s
                  ELSE IF around[k - 1] = None THEN None ELSE up[around[k - 1]]]
  BY <1>4, Zenon
<1>6. Around(s) = around
  BY DEF Around
<1> HIDE DEF around
<1>7. around[0] = s /\ \A k \in Nat : around[k + 1] =
                          IF around[k] = None THEN None ELSE up[around[k]]
  BY <1>5
<1>8. \A k \in Nat : around[k] \in D
  <2> DEFINE Right == {k \in Nat : around[k] \in D}
  <2>1. 0 \in Right
    BY <1>7
  <2>2. ASSUME NEW k \in Nat, k \in Right PROVE k + 1 \in Right
    BY <1>1, <1>7, <2>2
  <2>3. \A k \in Nat : k \in Right
    <3> HIDE DEF Right
    <3>1. QED
      BY <2>1, <2>2, InductionOnNat
  <2>4. QED
    BY <2>3
<1>9. QED
  BY <1>6, <1>7, <1>8

\* There are finitely many open scopes, and no more than scopes.
LEMMA OpenedFinite ==
    /\ IsFiniteSet(Opened) /\ Cardinality(Opened) \in Nat
    /\ Cardinality(Scopes) \in Nat /\ Cardinality(Opened) <= Cardinality(Scopes)
<1>1. IsFiniteSet(Scopes) /\ Opened \subseteq Scopes
  BY NamesAssumption DEF Opened, NamesAssumption
<1>2. QED
  BY <1>1, FS_Subset, FS_CardinalityType

\* The scopes around an open scope are open, and fewer than there are.
LEMMA AroundEnds ==
    ASSUME ScopesOK, NEW r, Ranked(r), NEW s \in Opened, NEW k \in Nat, Around(s)[k] # None
    PROVE  Around(s)[k] \in Opened /\ k < Cardinality(Scopes)
<1> DEFINE a == Around(s)
           Right == {j \in Nat : a[j] # None => a[j] \in Opened /\ r[a[j]] + j <= r[s]}
<1>1. s \in Scopes /\ None \notin Scopes /\ Opened \subseteq Scopes
  BY NamesAssumption DEF Opened, NamesAssumption
<1>2. /\ a[0] = s
      /\ \A j \in Nat : a[j] \in Scopes \cup {None}
      /\ \A j \in Nat : a[j + 1] = IF a[j] = None THEN None ELSE up[a[j]]
  BY <1>1, AroundUnfolds DEF ScopesOK, Tree
<1>3. r[s] \in Nat /\ r[s] < Cardinality(Opened)
  BY <1>1 DEF Ranked
<1> HIDE DEF a
<1>4. 0 \in Right
  BY <1>2, <1>3
<1>5. ASSUME NEW j \in Nat, j \in Right PROVE j + 1 \in Right
  <2>1. SUFFICES ASSUME a[j + 1] # None PROVE a[j + 1] \in Opened /\ r[a[j + 1]] + (j + 1) <= r[s]
    OBVIOUS
  <2>2. a[j] # None /\ a[j + 1] = up[a[j]] /\ a[j] \in Opened /\ r[a[j]] + j <= r[s]
    BY <1>2, <1>5, <2>1
  <2>3. a[j] # Package /\ a[j] \in Scopes /\ state[a[j]] = "open"
    BY <2>1, <2>2 DEF ScopesOK, Tree, Opened
  <2>4. a[j + 1] \in Opened
    BY <2>2, <2>3 DEF ScopesOK, Tree
  <2>5. r[a[j + 1]] < r[a[j]] /\ r[a[j + 1]] \in Nat /\ r[a[j]] \in Nat
    BY <1>1, <2>2, <2>3, <2>4 DEF Ranked
  <2>6. QED
    BY <1>3, <2>2, <2>4, <2>5
<1>6. \A j \in Nat : j \in Right
  <2> HIDE DEF Right
  <2>1. QED
    BY <1>4, <1>5, InductionOnNat
<1>7. a[k] \in Opened /\ r[a[k]] + k <= r[s] /\ r[a[k]] \in Nat
  BY <1>1, <1>6 DEF Ranked, a
<1>8. QED
  BY <1>3, <1>7, OpenedFinite DEF a

\* The scopes a lookup of n from s may stop at, by their distance.
Hits(s, n) == {k \in 0 .. Cardinality(Scopes) :
                  Around(s)[k] # None /\ binds[Around(s)[k]][n] # None}

\* Home is at the least distance.
LEMMA HomeIsNearest ==
    ASSUME NEW s, NEW n
    PROVE  /\ Hits(s, n) = {} => Home(s, n) = None
           /\ Hits(s, n) # {} =>
                 \E m \in Hits(s, n) : /\ \A j \in Hits(s, n) : m <= j
                                       /\ Home(s, n) = Around(s)[m]
<1> DEFINE hits == Hits(s, n)
           m == CHOOSE k \in hits : \A j \in hits : k <= j
<1>1. Home(s, n) = IF hits = {} THEN None ELSE Around(s)[m]
  BY DEF Home, Hits
<1>2. hits \subseteq Nat
  BY OpenedFinite DEF Hits
<1>3. CASE hits = {}
  BY <1>1, <1>3
<1>4. CASE hits # {}
  <2> HIDE DEF hits
  <2>1. \E k \in hits : \A j \in hits : k <= j
    BY <1>2, <1>4, LeastNatural
  <2>2. m \in hits /\ \A j \in hits : m <= j
    BY <2>1
  <2> HIDE DEF m
  <2>3. Home(s, n) = Around(s)[m]
    BY <1>1, <1>4
  <2>4. QED
    BY <1>4, <2>2, <2>3 DEF hits
<1>5. QED
  BY <1>3, <1>4

\* A name that is not found is bound nowhere around.
LEMMA HomeOfNone ==
    ASSUME ScopesOK, NEW n
    PROVE  Home(None, n) = None
<1> DEFINE a == Around(None)
           Right == {j \in Nat : a[j] = None}
<1>1. /\ a[0] = None
      /\ \A j \in Nat : a[j + 1] = IF a[j] = None THEN None ELSE up[a[j]]
  BY AroundUnfolds DEF ScopesOK, Tree
<1> HIDE DEF a
<1>2. 0 \in Right /\ \A j \in Nat : j \in Right => j + 1 \in Right
  BY <1>1
<1>3. \A j \in Nat : j \in Right
  <2> HIDE DEF Right
  <2>1. QED
    BY <1>2, InductionOnNat
<1>4. Hits(None, n) = {}
  BY <1>3, OpenedFinite DEF Hits, a
<1>5. QED
  BY <1>4, HomeIsNearest

\* The scopes around s but for s are those around the scope above it.
LEMMA AroundShifts ==
    ASSUME ScopesOK, NEW s \in Opened
    PROVE  \A k \in Nat : Around(up[s])[k] = Around(s)[k + 1]
<1> DEFINE a == Around(s)
           b == Around(up[s])
           Right == {j \in Nat : b[j] = a[j + 1]}
<1>1. s \in Scopes /\ s # None /\ up[s] \in Scopes \cup {None}
  BY NamesAssumption DEF Opened, NamesAssumption, ScopesOK, Tree
<1>2. /\ a[0] = s
      /\ \A j \in Nat : a[j + 1] = IF a[j] = None THEN None ELSE up[a[j]]
  BY <1>1, AroundUnfolds DEF ScopesOK, Tree
<1>3. /\ b[0] = up[s]
      /\ \A j \in Nat : b[j + 1] = IF b[j] = None THEN None ELSE up[b[j]]
  BY <1>1, AroundUnfolds DEF ScopesOK, Tree
<1> HIDE DEF a, b
<1>4. 0 \in Right
  <2>1. a[0 + 1] = up[s]
    BY <1>1, <1>2
  <2>2. QED
    BY <1>3, <2>1
<1>5. ASSUME NEW j \in Nat, j \in Right PROVE j + 1 \in Right
  <2>1. j + 1 \in Nat /\ b[j] = a[j + 1]
    BY <1>5
  <2>2. a[(j + 1) + 1] = IF a[j + 1] = None THEN None ELSE up[a[j + 1]]
    BY <1>2, <2>1
  <2>3. b[j + 1] = a[(j + 1) + 1]
    BY <1>3, <2>1, <2>2
  <2>4. QED
    BY <2>1, <2>3
<1>6. \A j \in Nat : j \in Right
  <2> HIDE DEF Right
  <2>1. QED
    BY <1>4, <1>5, InductionOnNat
<1>7. QED
  BY <1>6 DEF a, b

\* A name means what the nearest scope has for it, from the inside out.
LEMMA HomeUnfolds ==
    ASSUME ScopesOK, NEW r, Ranked(r), NEW s \in Opened, NEW n
    PROVE  Home(s, n) = IF binds[s][n] # None THEN s ELSE Home(up[s], n)
<1> DEFINE C == Cardinality(Scopes)
           a == Around(s)
           b == Around(up[s])
<1>1. s \in Scopes /\ s # None /\ C \in Nat /\ up[s] \in Scopes \cup {None}
  BY NamesAssumption, OpenedFinite DEF Opened, NamesAssumption, ScopesOK, Tree
<1>2. a[0] = s /\ \A k \in Nat : b[k] = a[k + 1]
  BY <1>1, AroundUnfolds, AroundShifts DEF ScopesOK, Tree
<1>3. \A k \in Nat : a[k] # None => k < C
  BY AroundEnds
<1>4. \A k \in Nat : k \in Hits(s, n) <=> a[k] # None /\ binds[a[k]][n] # None
  BY <1>1, <1>3 DEF Hits
<1>5. \A k \in Nat : k \in Hits(up[s], n) <=> b[k] # None /\ binds[b[k]][n] # None
  <2>1. \A k \in Nat : b[k] # None => k <= C
    BY <1>1, <1>2, <1>3
  <2>2. QED
    BY <1>1, <2>1 DEF Hits
<1>6. Hits(s, n) \subseteq Nat /\ Hits(up[s], n) \subseteq Nat
  BY <1>1 DEF Hits
<1>7. /\ Hits(s, n) = {} => Home(s, n) = None
      /\ Hits(s, n) # {} =>
            \E m \in Hits(s, n) : (\A j \in Hits(s, n) : m <= j) /\ Home(s, n) = a[m]
  BY HomeIsNearest
<1>8. /\ Hits(up[s], n) = {} => Home(up[s], n) = None
      /\ Hits(up[s], n) # {} =>
            \E m \in Hits(up[s], n) : (\A j \in Hits(up[s], n) : m <= j) /\ Home(up[s], n) = b[m]
  BY HomeIsNearest
<1> HIDE DEF a, b, C
<1>9. CASE binds[s][n] # None
  <2>1. 0 \in Hits(s, n)
    BY <1>1, <1>2, <1>4, <1>9
  <2>2. PICK m \in Hits(s, n) : (\A j \in Hits(s, n) : m <= j) /\ Home(s, n) = a[m]
    BY <1>7, <2>1
  <2>3. m \in Nat /\ m <= 0
    BY <1>6, <2>1, <2>2
  <2>4. m = 0
    BY <2>3
  <2>5. QED
    BY <1>2, <1>9, <2>2, <2>4
<1>10. CASE binds[s][n] = None
  <2>1. 0 \notin Hits(s, n)
    BY <1>2, <1>4, <1>10
  <2>2. \A k \in Nat : k \in Hits(up[s], n) <=> k + 1 \in Hits(s, n)
    BY <1>2, <1>4, <1>5
  <2>3. \A k \in Hits(s, n) : k - 1 \in Hits(up[s], n) /\ k \in Nat /\ k - 1 \in Nat
    <3>1. SUFFICES ASSUME NEW k \in Hits(s, n)
                   PROVE  k - 1 \in Hits(up[s], n) /\ k \in Nat /\ k - 1 \in Nat
      OBVIOUS
    <3>2. k \in Nat /\ k # 0
      BY <1>6, <2>1
    <3>3. k - 1 \in Nat /\ (k - 1) + 1 = k
      BY <3>2
    <3>4. QED
      BY <2>2, <3>2, <3>3
  <2>4. CASE Hits(s, n) = {}
    <3>1. Hits(up[s], n) = {}
      BY <1>6, <2>2, <2>4
    <3>2. QED
      BY <1>7, <1>8, <1>10, <2>4, <3>1
  <2>5. CASE Hits(s, n) # {}
    <3>1. PICK m \in Hits(s, n) : (\A j \in Hits(s, n) : m <= j) /\ Home(s, n) = a[m]
      BY <1>7, <2>5
    <3>2. m - 1 \in Hits(up[s], n) /\ m \in Nat
      BY <2>3
    <3>3. PICK l \in Hits(up[s], n) : (\A j \in Hits(up[s], n) : l <= j) /\ Home(up[s], n) = b[l]
      BY <1>8, <3>2
    <3>4. l \in Nat /\ l <= m - 1 /\ l + 1 \in Hits(s, n)
      BY <1>6, <2>2, <3>2, <3>3
    <3>5. m <= l + 1
      BY <3>1, <3>4
    <3>6. m = l + 1
      BY <3>2, <3>4, <3>5
    <3>7. QED
      BY <1>2, <1>10, <3>1, <3>3, <3>4, <3>6
  <2>6. QED
    BY <2>4, <2>5
<1>11. QED
  BY <1>9, <1>10

\* What is found is an open scope that has the name.
LEMMA HomeBinds ==
    ASSUME ScopesOK, NEW r, Ranked(r), NEW s \in Opened \cup {None}, NEW n
    PROVE  Home(s, n) # None => Home(s, n) \in Opened /\ binds[Home(s, n)][n] # None
<1>1. CASE s = None
  BY <1>1, HomeOfNone
<1>2. CASE s \in Opened
  <2>1. SUFFICES ASSUME Home(s, n) # None
                 PROVE  Home(s, n) \in Opened /\ binds[Home(s, n)][n] # None
    OBVIOUS
  <2>2. PICK m \in Hits(s, n) : Home(s, n) = Around(s)[m]
    BY <2>1, HomeIsNearest
  <2>3. m \in Nat /\ Around(s)[m] # None /\ binds[Around(s)[m]][n] # None
    BY OpenedFinite DEF Hits
  <2>4. QED
    BY <1>2, <2>2, <2>3, AroundEnds
<1>3. QED
  BY <1>1, <1>2

\* The package's scope is the outermost.
LEMMA HomeOfPackage ==
    ASSUME ScopesOK, NEW r, Ranked(r), NEW n
    PROVE  Home(Package, n) = IF binds[Package][n] # None THEN Package ELSE None
<1>1. Package \in Opened /\ up[Package] = None
  BY NamesAssumption DEF ScopesOK, Tree, Opened, NamesAssumption
<1>2. QED
  BY <1>1, HomeUnfolds, HomeOfNone

\* A function's scope lies in the package's.
LEMMA HomeOfFunction ==
    ASSUME ScopesOK, NEW r, Ranked(r), NEW s \in Opened, up[s] = Package, NEW n
    PROVE  Home(s, n) = IF binds[s][n] # None THEN s
                        ELSE IF binds[Package][n] # None THEN Package ELSE None
  BY HomeUnfolds, HomeOfPackage

\* The names of the package are found from everywhere.
LEMMA HomeFindsPackage ==
    ASSUME ScopesOK, NEW r, Ranked(r), NEW s \in Opened, NEW n, binds[Package][n] # None
    PROVE  Home(s, n) # None
<1> DEFINE Right == {k \in Nat : \A t \in Opened : r[t] <= k => Home(t, n) # None}
<1>1. /\ Opened \subseteq Scopes /\ r \in [Scopes -> Nat] /\ None \notin Scopes
      /\ Package \in Scopes
  BY NamesAssumption DEF Opened, Ranked, NamesAssumption
<1>2. Home(Package, n) # None
  BY <1>1, HomeOfPackage
<1>3. ASSUME NEW t \in Opened, t # Package
      PROVE  up[t] \in Opened /\ r[up[t]] < r[t] /\ r[up[t]] \in Nat /\ r[t] \in Nat
  BY <1>1, <1>3 DEF ScopesOK, Tree, Ranked, Opened
<1>4. ASSUME NEW t \in Opened, Home(up[t], n) # None PROVE Home(t, n) # None
  BY <1>1, <1>4, HomeUnfolds
<1>5. 0 \in Right
  <2>1. ASSUME NEW t \in Opened, r[t] <= 0 PROVE t = Package
    BY <1>3, <2>1
  <2>2. QED
    BY <1>2, <2>1
<1>6. ASSUME NEW k \in Nat, k \in Right PROVE k + 1 \in Right
  <2>1. SUFFICES ASSUME NEW t \in Opened, r[t] <= k + 1, t # Package PROVE Home(t, n) # None
    BY <1>2
  <2>2. up[t] \in Opened /\ r[up[t]] <= k
    BY <1>3, <2>1
  <2>3. QED
    BY <1>4, <1>6, <2>2
<1>7. \A k \in Nat : k \in Right
  <2> HIDE DEF Right
  <2>1. QED
    BY <1>5, <1>6, InductionOnNat
<1>8. r[s] \in Nat /\ r[s] <= r[s]
  BY <1>1
<1>9. QED
  BY <1>7, <1>8

\* Inside loops: a name is one of the loops' around, or what it is outside them.
LEMMA HomeInLoops ==
    ASSUME ScopesOK, NEW r, Ranked(r), NEW n, Len(nest) \in Nat, Len(nest) > 1,
           nest[2].scope \in Opened, \A k \in 3 .. Len(nest) : LoopLevel(k)
    PROVE  \/ Home(nest[Len(nest)].scope, n) = Home(nest[2].scope, n)
           \/ \E k \in 3 .. Len(nest) : /\ Home(nest[Len(nest)].scope, n) = nest[k].scope
                                        /\ binds[nest[k].scope][n] # None
<1> DEFINE Found_(j) == \/ Home(nest[j + 2].scope, n) = Home(nest[2].scope, n)
                        \/ \E k \in 3 .. Len(nest) : /\ Home(nest[j + 2].scope, n) = nest[k].scope
                                                     /\ binds[nest[k].scope][n] # None
           Right == {j \in Nat : j + 2 <= Len(nest) => Found_(j)}
<1>1. 0 \in Right
  OBVIOUS
<1>2. ASSUME NEW j \in Nat, j \in Right PROVE j + 1 \in Right
  <2>1. SUFFICES ASSUME (j + 1) + 2 <= Len(nest) PROVE Found_(j + 1)
    OBVIOUS
  <2>2. Found_(j)
    BY <1>2, <2>1
  <2>3. (j + 1) + 2 \in 3 .. Len(nest) /\ ((j + 1) + 2) - 1 = j + 2
    BY <2>1
  <2>4. nest[(j + 1) + 2].scope \in Opened /\ up[nest[(j + 1) + 2].scope] = nest[j + 2].scope
    BY <2>3 DEF LoopLevel
  <2>5. Home(nest[(j + 1) + 2].scope, n) =
          IF binds[nest[(j + 1) + 2].scope][n] # None THEN nest[(j + 1) + 2].scope
          ELSE Home(nest[j + 2].scope, n)
    BY <2>4, HomeUnfolds
  <2>6. CASE binds[nest[(j + 1) + 2].scope][n] # None
    BY <2>3, <2>5, <2>6
  <2>7. CASE binds[nest[(j + 1) + 2].scope][n] = None
    BY <2>2, <2>5, <2>7
  <2>8. QED
    BY <2>6, <2>7
<1>3. \A j \in Nat : j \in Right
  <2> HIDE DEF Right
  <2>1. QED
    BY <1>1, <1>2, InductionOnNat
<1>4. Len(nest) - 2 \in Nat /\ (Len(nest) - 2) + 2 = Len(nest)
  OBVIOUS
<1>5. Found_(Len(nest) - 2)
  <2>1. (Len(nest) - 2) + 2 <= Len(nest)
    BY <1>4
  <2> HIDE DEF Found_
  <2>2. QED
    BY <1>3, <1>4, <2>1
<1>6. QED
  BY <1>4, <1>5

-----------------------------------------------------------------------------
\* Steps on the scopes

\* Scope s gets its first declaration of n.
OneBinding(s, n, d) ==
    /\ binds[s][n] = None
    /\ binds'[s][n] # None /\ binds'[s][n].decl = d
    /\ \A t \in Scopes, m \in Names : t # s \/ m # n => binds'[t][m] = binds[t][m]

\* A declaration is made, or reported.
Inserts(s, n, d) ==
    /\ up' = up /\ Opened' = Opened
    /\ \/ errors' = errors /\ OneBinding(s, n, d)
       \/ errors' = errors + 1 /\ binds' = binds

\* Scope f is opened inside p.
Opens(f, p) ==
    /\ f \in Scopes \ Opened /\ Opened' = Opened \cup {f}
    /\ up'[f] = p /\ \A s \in Opened : up'[s] = up[s]

\* A binding is a slot, and not None.
LEMMA SlotMade ==
    ASSUME NEW d \in Declaration, NEW k \in Nat
    PROVE  /\ [decl |-> d, slot |-> k] \in Slot /\ [decl |-> d, slot |-> k] # None
           /\ [decl |-> d, slot |-> k].decl = d /\ [decl |-> d, slot |-> k].slot = k
<1>1. [decl |-> d, slot |-> k] \in Slot
  BY DEF Slot
<1>2. None \notin Slot
  BY BindingsAssumption DEF BindingsAssumption, Slot
<1>3. QED
  BY <1>1, <1>2

\* The count of the slots given out is the next slot.
LEMMA NextSlot ==
    ASSUME NEW u \in SUBSET Nat, IsFiniteSet(u)
    PROVE  Cardinality(u) \in Nat /\ u \cup {Cardinality(u)} \in SUBSET Nat
           /\ IsFiniteSet(u \cup {Cardinality(u)})
  BY FS_CardinalityType, FS_AddElement

\* A first declaration of a name.
LEMMA BindingKeeps ==
    ASSUME Store, NEW s \in Scopes, NEW n \in Names, NEW d \in Declaration, NEW u, NEW k,
           u \in SUBSET Nat, IsFiniteSet(u), k \in u, used[s] \subseteq u \/ binds[s] = Unbound,
           binds[s][n] = None,
           binds' = [binds EXCEPT ![s][n] = [decl |-> d, slot |-> k]],
           used' = [used EXCEPT ![s] = u],
           \A t \in Scopes : state'[t] = "new" => state[t] = "new" /\ t # s
    PROVE  Store' /\ OneBinding(s, n, d)
<1> DEFINE b == [decl |-> d, slot |-> k]
<1>1. b \in Slot /\ b # None /\ b.decl = d /\ b.slot = k
  <2>1. k \in Nat
    OBVIOUS
  <2>2. QED
    BY <2>1, SlotMade
<1>2. binds' = [binds EXCEPT ![s] = [binds[s] EXCEPT ![n] = b]]
  OBVIOUS
<1> HIDE DEF b
<1>3. binds[s] \in [Names -> Slot \cup {None}]
  BY DEF Store
<1> DEFINE row == [binds[s] EXCEPT ![n] = b]
<1>4. row \in [Names -> Slot \cup {None}] /\ row[n] = b /\ \A m \in Names : m # n => row[m] = binds[s][m]
  BY <1>1, <1>3
<1> HIDE DEF row
<1>5. binds' = [binds EXCEPT ![s] = row]
  BY <1>2 DEF row
<1>6. /\ binds' \in [Scopes -> [Names -> Slot \cup {None}]]
      /\ binds'[s] = row /\ \A t \in Scopes : t # s => binds'[t] = binds[t]
  BY <1>4, <1>5 DEF Store
<1>7. /\ used' \in [Scopes -> SUBSET Nat]
      /\ used'[s] = u /\ \A t \in Scopes : t # s => used'[t] = used[t]
  BY DEF Store
<1>8. OneBinding(s, n, d)
  <2>1. ASSUME NEW t \in Scopes, NEW m \in Names, t # s \/ m # n PROVE binds'[t][m] = binds[t][m]
    BY <1>4, <1>6, <2>1
  <2>2. binds'[s][n] = b
    BY <1>4, <1>6
  <2>3. QED
    BY <1>1, <2>1, <2>2 DEF OneBinding
<1>9. \A t \in Scopes : IsFiniteSet(used'[t])
  BY <1>7 DEF Store
<1>10. ASSUME NEW t \in Scopes, NEW m \in Names, binds'[t][m] # None
       PROVE  binds'[t][m].slot \in used'[t]
  <2>1. CASE t = s /\ m = n
    BY <1>1, <1>4, <1>6, <1>7, <2>1
  <2>2. CASE t = s /\ m # n
    <3>1. binds'[t][m] = binds[s][m] /\ used'[t] = u
      BY <1>4, <1>6, <1>7, <2>2
    <3>2. binds[s] # Unbound
      BY <1>10, <3>1 DEF Unbound
    <3>3. binds[s][m].slot \in used[s]
      BY <1>10, <3>1 DEF Store
    <3>4. QED
      BY <3>1, <3>2, <3>3
  <2>3. CASE t # s
    <3>1. binds'[t] = binds[t] /\ used'[t] = used[t]
      BY <1>6, <1>7, <2>3
    <3>2. QED
      BY <1>10, <3>1 DEF Store
  <2>4. QED
    BY <2>1, <2>2, <2>3
<1>11. \A t \in Scopes : state'[t] = "new" => binds'[t] = Unbound
  BY <1>6 DEF Store
<1>12. Unbound' = Unbound
  BY DEF Unbound
<1>13. Store'
  BY <1>6, <1>7, <1>9, <1>10, <1>11, <1>12 DEF Store, Slot
<1>14. QED
  BY <1>8, <1>13

\* As long as no scope is opened, their ranks stay.
LEMMA RanksStay ==
    ASSUME NEW r, Ranked(r), up' = up, state' = state
    PROVE  Ranked(r)' /\ Opened' = Opened
<1>1. Opened' = Opened
  BY DEF Opened
<1>2. QED
  BY <1>1 DEF Ranked

\* A step that does not touch the scopes.
LEMMA SteadyKeeps ==
    ASSUME ScopesOK, NEW r, Ranked(r), UNCHANGED <<up, state, binds, used>>, errors' \in Nat
    PROVE  ScopesOK' /\ Ranked(r)' /\ Opened' = Opened /\ up' = up /\ binds' = binds
<1>1. Opened' = Opened /\ Ranked(r)' /\ Unbound' = Unbound
  BY RanksStay DEF Unbound
<1>2. Tree'
  BY <1>1 DEF ScopesOK, Tree
<1>3. Store'
  BY <1>1 DEF ScopesOK, Store, Slot
<1>4. QED
  BY <1>1, <1>2, <1>3 DEF ScopesOK

\* A declaration in scope s.
LEMMA DeclareKeeps ==
    ASSUME ScopesOK, NEW r, Ranked(r), NEW s \in Scopes, NEW n \in Names, NEW d \in Declaration,
           Declare(s, n, d, Cardinality(used[s]))
    PROVE  ScopesOK' /\ Ranked(r)' /\ up' = up /\ Opened' = Opened /\ errors' = errors
           /\ OneBinding(s, n, d)
<1> DEFINE u == used[s] \cup {Cardinality(used[s])}
<1>1. /\ state[s] = "open" /\ binds[s][n] = None
      /\ binds' = [binds EXCEPT ![s][n] = [decl |-> d, slot |-> Cardinality(used[s])]]
      /\ used' = [used EXCEPT ![s] = u]
      /\ up' = up /\ state' = state /\ errors' = errors
  BY DEF Declare, Bind
<1>2. used[s] \in SUBSET Nat /\ IsFiniteSet(used[s])
  BY DEF ScopesOK, Store
<1>3. u \in SUBSET Nat /\ IsFiniteSet(u) /\ Cardinality(used[s]) \in u /\ used[s] \subseteq u
  <2>1. Cardinality(used[s]) \in u /\ used[s] \subseteq u
    OBVIOUS
  <2>2. QED
    BY <1>2, <2>1, NextSlot
<1>4. Store
  BY DEF ScopesOK
<1>5. \A t \in Scopes : state'[t] = "new" => state[t] = "new" /\ t # s
  BY <1>1
<1> HIDE DEF u
<1>6. Store' /\ OneBinding(s, n, d)
  BY <1>1, <1>3, <1>4, <1>5, BindingKeeps
<1>7. Ranked(r)' /\ Opened' = Opened
  BY <1>1, RanksStay
<1>8. Tree'
  BY <1>1, <1>7 DEF ScopesOK, Tree
<1>9. QED
  BY <1>1, <1>6, <1>7, <1>8 DEF ScopesOK

\* A declaration in scope s, or the report of a second one.
LEMMA InsertKeeps ==
    ASSUME ScopesOK, NEW r, Ranked(r), NEW s \in Scopes, NEW n \in Names, NEW d \in Declaration,
           insert_symbol(s, n, d)
    PROVE  ScopesOK' /\ Ranked(r)' /\ Inserts(s, n, d)
<1>1. CASE Declare(s, n, d, Cardinality(used[s]))
  BY <1>1, DeclareKeeps DEF Inserts
<1>2. CASE Redeclare(s, n)
  <2>1. UNCHANGED <<up, state, binds, used>> /\ errors' = errors + 1
    BY <1>2 DEF Redeclare
  <2>2. errors' \in Nat
    BY <2>1 DEF ScopesOK
  <2>3. QED
    BY <2>1, <2>2, SteadyKeeps DEF Inserts
<1>3. QED
  BY <1>1, <1>2 DEF insert_symbol

\* A scope f is opened inside p.
LEMMA OpeningKeeps ==
    ASSUME Tree, NEW r, Ranked(r), NEW f \in Scopes, state[f] = "new", NEW p \in Opened,
           up' = [up EXCEPT ![f] = p], state' = [state EXCEPT ![f] = "open"]
    PROVE  Tree' /\ (\E rank : Ranked(rank)') /\ Opens(f, p)
<1>1. f \notin Opened /\ p \in Scopes /\ p # f /\ f # Package /\ f \in Scopes
  BY DEF Tree, Opened
<1>2. /\ state' \in [Scopes -> {"new", "open"}] /\ state'[f] = "open"
      /\ \A s \in Scopes : s # f => state'[s] = state[s]
  BY DEF Tree
<1>3. Opened' = Opened \cup {f}
  BY <1>1, <1>2 DEF Opened
<1>4. /\ up' \in [Scopes -> Scopes \cup {None}] /\ up'[f] = p
      /\ \A s \in Scopes : s # f => up'[s] = up[s]
  BY <1>1 DEF Tree
<1>5. Opened \subseteq Scopes /\ Opened' \subseteq Scopes
  BY <1>1, <1>3 DEF Opened
<1>6. Opens(f, p)
  BY <1>1, <1>3, <1>4, <1>5 DEF Opens
<1>7. Tree'
  <2>1. state'[Package] = "open" /\ up'[Package] = None
    BY <1>1, <1>2, <1>4, NamesAssumption DEF Tree, NamesAssumption
  <2>2. ASSUME NEW s \in Scopes, state'[s] = "open", s # Package PROVE up'[s] \in Opened'
    <3>1. CASE s = f
      BY <1>3, <1>4, <3>1
    <3>2. CASE s # f
      BY <1>2, <1>3, <1>4, <2>2, <3>2 DEF Tree
    <3>3. QED
      BY <3>1, <3>2
  <2>3. QED
    BY <1>2, <1>4, <2>1, <2>2 DEF Tree
<1>8. \E rank : Ranked(rank)'
  <2> DEFINE rank == [s \in Scopes |-> IF s = f THEN r[p] + 1 ELSE r[s]]
  <2>1. r \in [Scopes -> Nat] /\ r[p] \in Nat /\ r[p] < Cardinality(Opened)
    BY <1>1 DEF Ranked
  <2>2. rank \in [Scopes -> Nat] /\ rank[f] = r[p] + 1 /\ \A s \in Scopes : s # f => rank[s] = r[s]
    BY <1>1, <2>1
  <2>3. Cardinality(Opened') = Cardinality(Opened) + 1 /\ Cardinality(Opened) \in Nat
    BY <1>1, <1>3, OpenedFinite, FS_AddElement
  <2> HIDE DEF rank
  <2>4. ASSUME NEW s \in Opened' PROVE rank[s] < Cardinality(Opened')
    <3>1. CASE s = f
      BY <2>1, <2>2, <2>3, <3>1
    <3>2. CASE s # f
      <4>1. s \in Opened /\ s \in Scopes
        BY <1>3, <1>5, <3>2
      <4>2. rank[s] = r[s] /\ r[s] < Cardinality(Opened) /\ r[s] \in Nat
        BY <2>1, <2>2, <3>2, <4>1 DEF Ranked
      <4>3. QED
        BY <2>3, <4>2
    <3>3. QED
      BY <3>1, <3>2
  <2>5. ASSUME NEW s \in Opened', s # Package PROVE rank[up'[s]] < rank[s]
    <3>1. CASE s = f
      BY <1>1, <1>4, <2>1, <2>2, <3>1
    <3>2. CASE s # f
      <4>1. s \in Opened /\ s \in Scopes
        BY <1>3, <1>5, <3>2
      <4>2. up[s] \in Opened /\ up'[s] = up[s] /\ up[s] # f /\ up[s] \in Scopes
        BY <1>1, <1>4, <1>5, <2>5, <3>2, <4>1 DEF Tree, Opened
      <4>3. r[up[s]] < r[s]
        BY <2>5, <4>1 DEF Ranked
      <4>4. QED
        BY <2>2, <3>2, <4>1, <4>2, <4>3
    <3>3. QED
      BY <3>1, <3>2
  <2>6. Ranked(rank)'
    BY <2>2, <2>4, <2>5 DEF Ranked
  <2>7. QED
    BY <2>6
<1>9. QED
  BY <1>6, <1>7, <1>8

\* A function is declared in the package, or reported, and its scope is opened.
LEMMA FunctionKeeps ==
    ASSUME ScopesOK, NEW r, Ranked(r), NEW f \in Scopes, NEW n \in Names, NEW d \in Declaration,
           DeclareWithScope(Package, n, d, Cardinality(used[Package]), f)
    PROVE  /\ ScopesOK' /\ (\E rank : Ranked(rank)') /\ Opens(f, Package)
           /\ \/ errors' = errors /\ OneBinding(Package, n, d)
              \/ errors' = errors + 1 /\ binds' = binds
<1> DEFINE u == used[Package] \cup {Cardinality(used[Package])}
<1>1. /\ state[f] = "new"
      /\ up' = [up EXCEPT ![f] = Package] /\ state' = [state EXCEPT ![f] = "open"]
  BY DEF DeclareWithScope
<1>2. Package \in Opened /\ Package \in Scopes /\ Tree /\ Store /\ errors \in Nat
  BY NamesAssumption DEF ScopesOK, Tree, Opened, NamesAssumption
<1>3. Tree' /\ (\E rank : Ranked(rank)') /\ Opens(f, Package)
  BY <1>1, <1>2, OpeningKeeps
<1>4. \A t \in Scopes : state'[t] = "new" => state[t] = "new" /\ t # Package
  BY <1>1, <1>2 DEF Tree
<1>5. CASE Bind(Package, n, d, Cardinality(used[Package])) /\ errors' = errors
  <2>1. used[Package] \in SUBSET Nat /\ IsFiniteSet(used[Package])
    BY <1>2 DEF Store
  <2>2. u \in SUBSET Nat /\ IsFiniteSet(u)
    BY <2>1, NextSlot
  <2>3. Cardinality(used[Package]) \in u /\ used[Package] \subseteq u
    OBVIOUS
  <2>4. /\ binds[Package][n] = None
        /\ binds' = [binds EXCEPT ![Package][n] =
                        [decl |-> d, slot |-> Cardinality(used[Package])]]
        /\ used' = [used EXCEPT ![Package] = u]
    BY <1>5 DEF Bind
  <2> HIDE DEF u
  <2>5. Store' /\ OneBinding(Package, n, d)
    BY <1>2, <1>4, <2>2, <2>3, <2>4, BindingKeeps
  <2>6. QED
    BY <1>2, <1>3, <1>5, <2>5 DEF ScopesOK
<1>6. CASE errors' = errors + 1 /\ binds' = binds /\ used' = used
  <2>1. Unbound' = Unbound
    BY DEF Unbound
  <2>2. Store'
    BY <1>2, <1>4, <1>6, <2>1 DEF Store, Slot
  <2>3. QED
    BY <1>2, <1>3, <1>6, <2>2 DEF ScopesOK
<1>7. QED
  BY <1>5, <1>6 DEF DeclareWithScope

\* A loop's scope is opened with its variable in it.
LEMMA LoopKeeps ==
    ASSUME ScopesOK, NEW r, Ranked(r), NEW s \in Scopes, state[s] = "new", NEW p \in Opened,
           NEW n \in Names, NEW d \in Declaration,
           up' = [up EXCEPT ![s] = p], state' = [state EXCEPT ![s] = "open"],
           binds' = [binds EXCEPT ![s][n] = [decl |-> d, slot |-> 0]],
           used' = [used EXCEPT ![s] = {0}], errors' = errors
    PROVE  ScopesOK' /\ (\E rank : Ranked(rank)') /\ Opens(s, p) /\ OneBinding(s, n, d)
<1>1. Tree /\ Store /\ errors \in Nat
  BY DEF ScopesOK
<1>2. Tree' /\ (\E rank : Ranked(rank)') /\ Opens(s, p)
  BY <1>1, OpeningKeeps
<1>3. \A t \in Scopes : state'[t] = "new" => state[t] = "new" /\ t # s
  BY <1>1 DEF Tree
<1>4. binds[s] = Unbound /\ binds[s][n] = None
  BY <1>1 DEF Store, Unbound
<1> DEFINE u == {0}
<1>5. u \in SUBSET Nat /\ IsFiniteSet(u) /\ 0 \in u
  <2>1. IsFiniteSet({} \cup {0})
    BY FS_EmptySet, FS_AddElement
  <2>2. {} \cup {0} = u
    OBVIOUS
  <2>3. QED
    BY <2>1, <2>2
<1>6. used' = [used EXCEPT ![s] = u]
  OBVIOUS
<1> HIDE DEF u
<1>7. Store' /\ OneBinding(s, n, d)
  BY <1>1, <1>3, <1>4, <1>5, <1>6, BindingKeeps
<1>8. QED
  BY <1>1, <1>2, <1>7 DEF ScopesOK

-----------------------------------------------------------------------------
\* The text

\* What a header still lacks, said of any sequence of events.
FunctionsOf(p) == {i \in DOMAIN p : p[i].op = "fun"}

LackIn(p) ==
    LET f == CHOOSE i \in FunctionsOf(p) : \A j \in FunctionsOf(p) : j <= i
    IN  IF FunctionsOf(p) # {} /\ \A i \in f + 1 .. Len(p) : p[i].op = "param"
        THEN p[f].n - (Len(p) - f)
        ELSE 0

\* Lacking, said of the text alone, now and after a step.
LEMMA LackingIs == Lacking = LackIn(prog) /\ Lacking' = LackIn(prog')
  BY DEF Lacking, LackIn, FunctionsOf

\* A set of the first numbers has a last one.
LEMMA LastExists ==
    ASSUME NEW m \in Nat, NEW S, S \subseteq 1 .. m, S # {}
    PROVE  \E f \in S : \A j \in S : j <= f
<1> DEFINE T == {k \in Nat : k <= m /\ m - k \in S}
<1>1. PICK j \in S : TRUE
  OBVIOUS
<1>2. m - j \in T
  <2>1. j \in 1 .. m /\ m - (m - j) = j /\ m - j \in Nat /\ m - j <= m
    OBVIOUS
  <2>2. QED
    BY <2>1
<1>3. PICK k \in T : \A i \in T : k <= i
  <2>1. T \subseteq Nat /\ T # {}
    BY <1>2
  <2> HIDE DEF T
  <2>2. QED
    BY <2>1, LeastNatural
<1>4. m - k \in S
  OBVIOUS
<1>5. ASSUME NEW i \in S PROVE i <= m - k
  <2>1. i \in 1 .. m /\ m - i \in T
    <3>1. i \in 1 .. m /\ m - (m - i) = i /\ m - i \in Nat /\ m - i <= m
      OBVIOUS
    <3>2. QED
      BY <3>1
  <2>2. k <= m - i /\ k \in Nat
    BY <1>3, <2>1
  <2>3. QED
    BY <2>1, <2>2
<1>6. QED
  BY <1>4, <1>5

\* A header lacks what its parameters leave over.
LEMMA LackInMeans ==
    ASSUME NEW p \in Seq(Event), NEW f \in FunctionsOf(p), \A j \in FunctionsOf(p) : j <= f
    PROVE  LackIn(p) = IF \A i \in f + 1 .. Len(p) : p[i].op = "param"
                       THEN p[f].n - (Len(p) - f) ELSE 0
<1> DEFINE g == CHOOSE i \in FunctionsOf(p) : \A j \in FunctionsOf(p) : j <= i
<1>1. g \in FunctionsOf(p) /\ \A j \in FunctionsOf(p) : j <= g
  OBVIOUS
<1>2. FunctionsOf(p) \subseteq Nat /\ FunctionsOf(p) # {}
  BY DEF FunctionsOf
<1>3. LackIn(p) = IF \A i \in g + 1 .. Len(p) : p[i].op = "param"
                  THEN p[g].n - (Len(p) - g) ELSE 0
  BY <1>2 DEF LackIn
<1> HIDE DEF g
<1>4. g = f
  <2>1. g <= f /\ f <= g /\ g \in Nat /\ f \in Nat
    BY <1>1, <1>2
  <2>2. QED
    BY <2>1
<1>5. QED
  BY <1>3, <1>4

\* What the next event makes of it.
LEMMA LackInGrows ==
    ASSUME NEW p \in Seq(Event), NEW e \in Event
    PROVE  LackIn(Append(p, e)) =
              IF e.op = "fun" THEN e.n
              ELSE IF e.op = "param" /\ LackIn(p) # 0 THEN LackIn(p) - 1
              ELSE IF e.op = "param" THEN LackIn(Append(p, e)) ELSE 0
<1> DEFINE q == Append(p, e)
           N == Len(p)
<1>1. /\ q \in Seq(Event) /\ Len(q) = N + 1 /\ N \in Nat /\ q[N + 1] = e
      /\ \A i \in 1 .. N : q[i] = p[i]
      /\ DOMAIN q = 1 .. N + 1 /\ DOMAIN p = 1 .. N
  OBVIOUS
<1> HIDE DEF q, N
<1>2. FunctionsOf(p) \subseteq 1 .. N /\ FunctionsOf(p) \subseteq FunctionsOf(q)
  BY <1>1 DEF FunctionsOf
<1>3. CASE e.op = "fun"
  <2>1. N + 1 \in FunctionsOf(q) /\ \A j \in FunctionsOf(q) : j <= N + 1
    BY <1>1, <1>3 DEF FunctionsOf
  <2>2. \A i \in (N + 1) + 1 .. Len(q) : q[i].op = "param"
    BY <1>1
  <2>3. LackIn(q) = q[N + 1].n - (Len(q) - (N + 1))
    BY <1>1, <2>1, <2>2, LackInMeans
  <2>4. e.n \in Nat
    BY NamesAssumption DEF Event, NamesAssumption
  <2>5. LackIn(q) = e.n
    BY <1>1, <2>3, <2>4
  <2>6. QED
    BY <1>3, <2>5 DEF q
<1>4. CASE e.op # "fun"
  <2>1. FunctionsOf(q) = FunctionsOf(p)
    BY <1>1, <1>4 DEF FunctionsOf
  <2>2. CASE FunctionsOf(p) = {}
    <3>1. LackIn(p) = 0 /\ LackIn(q) = 0
      BY <2>1, <2>2 DEF LackIn
    <3>2. QED
      BY <1>4, <3>1 DEF q
  <2>3. CASE FunctionsOf(p) # {}
    <3>1. PICK f \in FunctionsOf(p) : \A j \in FunctionsOf(p) : j <= f
      BY <1>1, <1>2, <2>3, LastExists
    <3>2. f \in 1 .. N /\ q[f] = p[f] /\ p[f].n \in Nat
      <4>1. f \in 1 .. N /\ p[f] \in Event
        BY <1>1, <1>2, <3>1
      <4>2. QED
        BY <1>1, <4>1, NamesAssumption DEF Event, NamesAssumption
    <3>3. LackIn(p) = IF \A i \in f + 1 .. N : p[i].op = "param"
                      THEN p[f].n - (N - f) ELSE 0
      BY <3>1, LackInMeans DEF N
    <3>4. LackIn(q) = IF \A i \in f + 1 .. N + 1 : q[i].op = "param"
                      THEN p[f].n - ((N + 1) - f) ELSE 0
      BY <1>1, <2>1, <3>1, <3>2, LackInMeans
    <3>5. (\A i \in f + 1 .. N + 1 : q[i].op = "param")
             <=> (\A i \in f + 1 .. N : p[i].op = "param") /\ e.op = "param"
      <4>1. \A i \in f + 1 .. N : i \in 1 .. N /\ q[i] = p[i] /\ i \in f + 1 .. N + 1
        BY <1>1, <3>2
      <4>2. N + 1 \in f + 1 .. N + 1 /\ \A i \in f + 1 .. N + 1 : i = N + 1 \/ i \in f + 1 .. N
        BY <1>1, <3>2
      <4>3. QED
        BY <1>1, <4>1, <4>2
    <3>6. CASE e.op # "param"
      <4>1. LackIn(q) = 0
        BY <3>4, <3>5, <3>6
      <4>2. QED
        BY <1>4, <3>6, <4>1 DEF q
    <3>7. CASE e.op = "param" /\ LackIn(p) # 0
      <4>1. \A i \in f + 1 .. N : p[i].op = "param"
        BY <3>3, <3>7
      <4>2. LackIn(q) = p[f].n - ((N + 1) - f) /\ LackIn(p) = p[f].n - (N - f)
        BY <3>3, <3>4, <3>5, <3>7, <4>1
      <4>3. LackIn(q) = LackIn(p) - 1
        BY <1>1, <3>2, <4>2
      <4>4. QED
        BY <1>4, <3>7, <4>3 DEF q
    <3>8. QED
      BY <1>4, <3>6, <3>7 DEF q
  <2>4. QED
    BY <2>2, <2>3
<1>5. QED
  BY <1>3, <1>4

\* Events that stand inside a function only.
InsideOps == {"for", "end", "param", "assign", "use", "call", "elem"}

\* A text with one more event.
LEMMA TextGrows ==
    ASSUME NEW p, NEW h, NEW g, Text(p, h, g), NEW e \in Event, e.op # "end" => e.name \in Names,
           e.op = "fun" => h[Len(p)] = 1, e.op \in InsideOps => h[Len(p)] > 1
    PROVE  \E h2, g2 : /\ Text(Append(p, e), h2, g2)
                       /\ \A i \in 0 .. Len(p) : h2[i] = h[i] /\ g2[i] = g[i]
<1> DEFINE N == Len(p)
           q == Append(p, e)
           h1 == IF e.op = "fun" THEN 2 ELSE IF e.op = "for" THEN h[N] + 1
                 ELSE IF e.op = "end" THEN h[N] - 1 ELSE h[N]
           g1 == IF e.op = "fun" THEN N + 1 ELSE IF e.op = "end" /\ h1 = 1 THEN 0 ELSE g[N]
           h2 == [i \in 0 .. N + 1 |-> IF i = N + 1 THEN h1 ELSE h[i]]
           g2 == [i \in 0 .. N + 1 |-> IF i = N + 1 THEN g1 ELSE g[i]]
<1>1. p \in Seq(Event)
  BY DEF Text
<1>2. /\ q \in Seq(Event) /\ Len(q) = N + 1 /\ N \in Nat /\ q[N + 1] = e
      /\ \A i \in 1 .. N : q[i] = p[i]
  BY <1>1
<1> HIDE DEF q, N
<1>3. /\ h \in [0 .. N -> Nat \ {0}] /\ g \in [0 .. N -> Nat]
      /\ h[0] = 1 /\ g[0] = 0 /\ h[N] \in Nat \ {0} /\ g[N] \in Nat
      /\ \A i \in 1 .. N : Moves(p[i], i, h[i - 1], h[i], g[i - 1], g[i])
      /\ \A i \in 0 .. N : InFunction(p, h, g, i)
  <2>1. N \in 0 .. N
    BY <1>2
  <2>2. QED
    BY <2>1 DEF Text, N
<1>4. e.op \in {"fun", "for", "end"} \cup Declarators \cup {"param", "assign", "use", "call", "elem"}
  BY DEF Event, Declarators
<1>5. Moves(e, N + 1, h[N], h1, g[N], g1) /\ h1 \in Nat \ {0} /\ g1 \in Nat
  <2>1. CASE e.op = "fun"
    BY <1>2, <2>1 DEF Moves, N
  <2>2. CASE e.op = "for"
    BY <1>3, <2>2 DEF Moves, N, InsideOps
  <2>3. CASE e.op = "end"
    BY <1>3, <2>3 DEF Moves, N, InsideOps
  <2>4. CASE e.op \in Declarators
    BY <1>3, <2>4 DEF Moves, Declarators
  <2>5. CASE e.op \in {"param", "assign", "use", "call", "elem"}
    BY <1>3, <2>5 DEF Moves, N, InsideOps
  <2>6. QED
    BY <1>4, <2>1, <2>2, <2>3, <2>4, <2>5
<1>6. g1 = 0 <=> h1 = 1
  <2>1. g[N] = 0 <=> h[N] = 1
    <3>1. N \in 0 .. N
      BY <1>2
    <3>2. QED
      BY <1>3, <3>1 DEF InFunction
  <2>2. QED
    BY <1>2, <1>3, <2>1 DEF N, InsideOps
<1>7. g1 # 0 => (g1 = N + 1 /\ e.op = "fun") \/ (g1 = g[N] /\ g[N] # 0)
  BY <1>2
<1> HIDE DEF h1, g1
<1>8. /\ h2 \in [0 .. N + 1 -> Nat \ {0}] /\ g2 \in [0 .. N + 1 -> Nat]
      /\ h2[N + 1] = h1 /\ g2[N + 1] = g1
      /\ \A i \in 0 .. N : h2[i] = h[i] /\ g2[i] = g[i]
  BY <1>2, <1>3, <1>5
<1> HIDE DEF h2, g2
<1>9. h2[0] = 1 /\ g2[0] = 0
  <2>1. 0 \in 0 .. N
    BY <1>2
  <2>2. QED
    BY <1>3, <1>8, <2>1
<1>10. ASSUME NEW i \in 1 .. N + 1 PROVE Moves(q[i], i, h2[i - 1], h2[i], g2[i - 1], g2[i])
  <2>1. CASE i = N + 1
    <3>1. i - 1 = N /\ N \in 0 .. N
      BY <1>2, <2>1
    <3>2. QED
      BY <1>2, <1>5, <1>8, <2>1, <3>1
  <2>2. CASE i # N + 1
    <3>1. i \in 1 .. N /\ i - 1 \in 0 .. N /\ i \in 0 .. N
      BY <1>2, <2>2
    <3>2. QED
      BY <1>2, <1>3, <1>8, <3>1
  <2>3. QED
    BY <2>1, <2>2
<1>11. ASSUME NEW i \in 0 .. N PROVE InFunction(q, h2, g2, i)
  <2>1. InFunction(p, h, g, i)
    BY <1>3
  <2>2. g2[i] = g[i] /\ h2[i] = h[i] /\ g[i] \in Nat
    BY <1>3, <1>8
  <2>3. CASE g[i] = 0
    BY <2>1, <2>2, <2>3 DEF InFunction
  <2>4. CASE g[i] # 0
    <3>1. g[i] \in 1 .. i /\ g[i] \in 1 .. N /\ p[g[i]].op = "fun" /\ \A k \in g[i] .. i : h[k] > 1
      BY <1>2, <2>1, <2>4 DEF InFunction
    <3>2. \A k \in g[i] .. i : k \in 0 .. N /\ h2[k] > 1
      <4>1. \A k \in g[i] .. i : k \in 0 .. N
        BY <1>2, <3>1
      <4>2. QED
        BY <1>8, <3>1, <4>1
    <3>3. QED
      BY <1>2, <2>1, <2>2, <3>1, <3>2 DEF InFunction
  <2>5. QED
    BY <2>3, <2>4
<1>12. InFunction(q, h2, g2, N + 1)
  <2>1. CASE g1 = 0
    BY <1>6, <1>8, <2>1 DEF InFunction
  <2>2. CASE g1 = N + 1 /\ e.op = "fun"
    <3>1. N + 1 \in 1 .. N + 1 /\ \A k \in N + 1 .. N + 1 : k = N + 1
      BY <1>2
    <3>2. h1 > 1
      BY <1>2, <1>5, <1>6, <2>2
    <3>3. QED
      BY <1>2, <1>6, <1>8, <2>2, <3>1, <3>2 DEF InFunction
  <2>3. CASE g1 # 0 /\ g1 = g[N] /\ g[N] # 0
    <3>1. InFunction(p, h, g, N)
      BY <1>2, <1>3
    <3>2. g[N] \in 1 .. N /\ p[g[N]].op = "fun" /\ \A k \in g[N] .. N : h[k] > 1
      BY <2>3, <3>1 DEF InFunction
    <3>3. h1 > 1
      BY <1>5, <1>6, <2>3
    <3>4. \A k \in g[N] .. N + 1 : h2[k] > 1
      <4>1. \A k \in g[N] .. N + 1 : k = N + 1 \/ (k \in g[N] .. N /\ k \in 0 .. N)
        BY <1>2, <3>2
      <4>2. QED
        BY <1>8, <3>2, <3>3, <4>1
    <3>5. g[N] \in 1 .. N + 1 /\ q[g[N]] = p[g[N]]
      BY <1>2, <3>2
    <3>6. QED
      BY <1>6, <1>8, <2>3, <3>2, <3>4, <3>5 DEF InFunction
  <2>4. QED
    BY <1>7, <2>1, <2>2, <2>3
<1>13. \A i \in 0 .. N + 1 : InFunction(q, h2, g2, i)
  <2>1. \A i \in 0 .. N + 1 : i \in 0 .. N \/ i = N + 1
    BY <1>2
  <2>2. QED
    BY <1>11, <1>12, <2>1
<1>14. Text(q, h2, g2)
  BY <1>2, <1>8, <1>9, <1>10, <1>13 DEF Text
<1>15. QED
  BY <1>8, <1>14 DEF q, N

\* Of the m constructs of q and one more, e; of all but the last of q.
OneMore(q, m, e, q2) ==
    Nested(q2, m + 1) /\ q2[m + 1] = e /\ \A k \in 1 .. m : q2[k] = q[k]
OneLess(q, m, q2) == Nested(q2, m - 1) /\ \A k \in 1 .. m - 1 : q2[k] = q[k]

\* One more construct is opened.
LEMMA NestPushes ==
    ASSUME NEW q, NEW m \in Nat \ {0}, Nested(q, m), NEW e \in Level,
           e.op = IF m = 1 THEN "fun" ELSE "for"
    PROVE  OneMore(q, m, e, Append(q, e))
<1> DEFINE L == Level
<1>1. e \in L
  OBVIOUS
<1> HIDE DEF L
<1>2. q \in Seq(L) /\ Len(q) = m
  BY DEF Nested, L
<1>3. /\ Append(q, e) \in Seq(L) /\ Len(Append(q, e)) = m + 1
      /\ \A k \in 1 .. m : Append(q, e)[k] = q[k]
      /\ Append(q, e)[m + 1] = e
  BY <1>1, <1>2
<1>4. \A k \in 1 .. m + 1 :
         Append(q, e)[k].op = IF k = 1 THEN "file" ELSE IF k = 2 THEN "fun" ELSE "for"
  <2>1. SUFFICES ASSUME NEW k \in 1 .. m + 1
                 PROVE  Append(q, e)[k].op = IF k = 1 THEN "file" ELSE IF k = 2 THEN "fun" ELSE "for"
    OBVIOUS
  <2>2. CASE k = m + 1
    <3>1. k # 1 /\ (k = 2 <=> m = 1)
      BY <2>2
    <3>2. QED
      BY <1>1, <1>3, <2>2, <3>1
  <2>3. CASE k # m + 1
    <3>1. k \in 1 .. m
      BY <2>3
    <3>2. QED
      BY <1>3, <3>1 DEF Nested
  <2>4. QED
    BY <2>2, <2>3
<1>5. Nested(Append(q, e), m + 1)
  BY <1>3, <1>4 DEF Nested, L
<1>6. QED
  BY <1>3, <1>5 DEF OneMore

\* The innermost is closed.
LEMMA NestPops ==
    ASSUME NEW q, NEW m \in Nat, m > 1, Nested(q, m)
    PROVE  OneLess(q, m, SubSeq(q, 1, Len(q) - 1))
<1> DEFINE L == Level
           t == SubSeq(q, 1, Len(q) - 1)
<1>1. q \in Seq(L) /\ Len(q) = m /\ t = SubSeq(q, 1, m - 1)
  BY DEF Nested
<1> HIDE DEF L
<1>2. /\ SubSeq(q, 1, m - 1) \in Seq(L) /\ Len(SubSeq(q, 1, m - 1)) = m - 1
      /\ \A k \in 1 .. m - 1 : SubSeq(q, 1, m - 1)[k] = q[k]
  <2>1. \A k \in 1 .. m - 1 : q[k] \in L
    BY <1>1
  <2>2. QED
    BY <1>1, <2>1
<1>3. t \in Seq(L) /\ Len(t) = m - 1 /\ \A k \in 1 .. m - 1 : t[k] = q[k]
  BY <1>1, <1>2
<1> HIDE DEF t
<1>4. \A k \in 1 .. m - 1 : t[k].op = IF k = 1 THEN "file" ELSE IF k = 2 THEN "fun" ELSE "for"
  <2>1. \A k \in 1 .. m - 1 : k \in 1 .. m
    OBVIOUS
  <2>2. QED
    BY <1>3, <2>1 DEF Nested
<1>5. Nested(t, m - 1)
  BY <1>3, <1>4 DEF Nested, L
<1>6. QED
  BY <1>3, <1>5 DEF t, OneLess

\* The text between its events.
LEMMA TextMeans ==
    ASSUME NEW p, NEW h, NEW g, Text(p, h, g), NEW i \in 0 .. Len(p)
    PROVE  /\ Len(p) \in Nat /\ h[i] \in Nat \ {0} /\ g[i] \in Nat
           /\ g[i] = 0 <=> h[i] = 1
           /\ g[i] # 0 => g[i] \in 1 .. i /\ g[i] \in FunctionsOf(p)
<1>1. Len(p) \in Nat /\ p \in Seq(Event)
  BY DEF Text
<1>2. InFunction(p, h, g, i) /\ h[i] \in Nat \ {0} /\ g[i] \in Nat
  BY DEF Text
<1>3. g[i] # 0 => g[i] \in 1 .. i /\ g[i] \in 1 .. Len(p) /\ p[g[i]].op = "fun"
  BY <1>1, <1>2 DEF InFunction
<1>4. QED
  BY <1>1, <1>2, <1>3 DEF InFunction, FunctionsOf

\* The functions of the file.
LEMMA FunctionsAre == Functions = FunctionsOf(prog)
  BY DEF Functions, Of, Events, FunctionsOf

-----------------------------------------------------------------------------
\* The first pass

\* A step of the first pass, but for what it does to the scopes.
Collecting(h, g, r, e, home) ==
    /\ Inv(h, g, r) /\ pass = "collect" /\ e \in Event /\ home \in Scopes \cup {None}
    /\ prog' = Append(prog, e) /\ pc' = pc + 1 /\ pass' = pass
    /\ res' = [res EXCEPT !["collect"] = Append(@, home)]

\* The events are one more.
EventsGrow(e) ==
    /\ Len(prog) \in Nat /\ Len(prog') = Len(prog) + 1 /\ DOMAIN prog = 1 .. Len(prog)
    /\ DOMAIN prog' = 1 .. Len(prog) + 1
    /\ prog'[Len(prog) + 1] = e /\ \A i \in 1 .. Len(prog) : prog'[i] = prog[i]
    /\ Functions' = Functions \cup (IF e.op = "fun" THEN {Len(prog) + 1} ELSE {})
    /\ For' = For \cup (IF e.op = "for" THEN {Len(prog) + 1} ELSE {})
    /\ Names_' = Names_ \cup (IF e.op # "end" THEN {Len(prog) + 1} ELSE {})
    /\ Functions \subseteq 1 .. Len(prog) /\ For \subseteq 1 .. Len(prog)
    /\ Names_ \subseteq 1 .. Len(prog)

\* The events of the text so far stay as they are, and one comes after them.
LEMMA CollectedEvents ==
    ASSUME NEW h, NEW g, NEW r, NEW e, NEW home, Collecting(h, g, r, e, home)
    PROVE  EventsGrow(e)
<1> DEFINE N == Len(prog)
<1>1. prog \in Seq(Event) /\ e \in Event /\ prog' = Append(prog, e)
  BY DEF Collecting, Inv, Text
<1>2. /\ N \in Nat /\ Len(prog') = N + 1
      /\ DOMAIN prog = 1 .. N /\ DOMAIN prog' = 1 .. N + 1
      /\ prog'[N + 1] = e /\ \A i \in 1 .. N : prog'[i] = prog[i]
  BY <1>1
<1> HIDE DEF N
<1>3. Functions' = Functions \cup (IF e.op = "fun" THEN {N + 1} ELSE {})
  BY <1>2 DEF Functions, Of, Events
<1>4. For' = For \cup (IF e.op = "for" THEN {N + 1} ELSE {})
  BY <1>2 DEF For, Of, Events
<1>5. Names_' = Names_ \cup (IF e.op # "end" THEN {N + 1} ELSE {})
  BY <1>2 DEF Names_
<1>6. Functions \subseteq 1 .. N /\ For \subseteq 1 .. N /\ Names_ \subseteq 1 .. N
  BY <1>2 DEF Functions, For, Names_, Of, Events
<1>7. QED
  BY <1>2, <1>3, <1>4, <1>5, <1>6 DEF EventsGrow, N

\* The record of the pass is one longer.
LEMMA CollectedRecords ==
    ASSUME NEW h, NEW g, NEW r, NEW e, NEW home, Collecting(h, g, r, e, home)
    PROVE  /\ Records'
           /\ Len(res.collect) = Len(prog) /\ res'.collect[Len(prog) + 1] = home
           /\ \A i \in 1 .. Len(prog) : res'.collect[i] = res.collect[i]
           /\ res'.check = <<>> /\ res'.generate = <<>>
<1> DEFINE S == Scopes \cup {None}
           c == res["collect"]
           d == Append(c, home)
<1>1. EventsGrow(e) /\ Records /\ pass = "collect" /\ pass' = "collect" /\ home \in S
  BY CollectedEvents DEF Collecting, Inv
<1>2. /\ res \in [Passes -> Seq(S)] /\ Len(c) = Len(prog)
      /\ res["check"] = <<>> /\ res["generate"] = <<>>
  BY <1>1 DEF Records
<1>3. res' = [res EXCEPT !["collect"] = d]
  BY DEF Collecting
<1>4. c \in Seq(S)
  BY <1>2 DEF Passes
<1> HIDE DEF S
<1>5. d \in Seq(S) /\ Len(d) = Len(prog) + 1
      /\ d[Len(prog) + 1] = home /\ \A i \in 1 .. Len(prog) : d[i] = c[i]
  BY <1>1, <1>2, <1>4 DEF EventsGrow
<1> HIDE DEF d
<1>6. /\ res' \in [Passes -> Seq(S)] /\ res'["collect"] = d
      /\ res'["check"] = <<>> /\ res'["generate"] = <<>>
  BY <1>2, <1>3, <1>5 DEF Passes
<1>7. Len(<<>>) = 0 /\ Len(prog') \in Nat
  BY <1>1 DEF EventsGrow
<1>8. Records'
  <2>1. Passes' = Passes
    BY DEF Passes
  <2>2. Len(res'["collect"]) = Len(prog')
    BY <1>1, <1>5, <1>6 DEF EventsGrow
  <2>3. Len(res'["check"]) <= Len(prog') /\ Len(res'["generate"]) <= Len(prog')
    BY <1>6, <1>7
  <2>4. QED
    BY <1>1, <1>6, <2>1, <2>2, <2>3 DEF Records, S
<1>9. QED
  BY <1>2, <1>5, <1>6, <1>8

\* The file still gets complete.
LEMMA CollectedBudget ==
    ASSUME NEW h, NEW g, NEW r, NEW e, NEW home, Collecting(h, g, r, e, home), NEW lack \in Nat,
           LackIn(prog') = lack, Len(nest') \in Nat \ {0}, lack > 0 => Len(nest') = 2,
           Len(prog) + 1 + lack + Len(nest') - 1 <= MaxLoopLen
    PROVE  Budget'
<1>1. EventsGrow(e) /\ pc = Len(prog) /\ pc' = pc + 1
  BY CollectedEvents DEF Collecting, Inv, Budget
<1>2. MaxLoopLen \in Nat
  BY NamesAssumption DEF NamesAssumption
<1>3. Lacking' = lack
  BY LackingIs
<1>4. QED
  BY <1>1, <1>2, <1>3 DEF Budget, EventsGrow

\* The scopes of the functions stay where no function is added.
LEMMA CollectedOwnScopes ==
    ASSUME NEW h, NEW g, NEW r, NEW e, NEW home, Collecting(h, g, r, e, home),
           e.op # "fun", scopeOf' = scopeOf, Opened' = Opened, up' = up
    PROVE  OwnScopes' /\ Functions' = Functions
<1>1. EventsGrow(e) /\ OwnScopes /\ pass = "collect"
  BY CollectedEvents DEF Collecting, Inv
<1>2. Functions' = Functions /\ For \subseteq For'
  BY <1>1 DEF EventsGrow
<1>3. ASSUME NEW i \in 1 .. MaxLoopLen, scopeOf[i] # None
      PROVE  /\ i \in Functions \cup For' /\ scopeOf[i] \in Opened \ {Package}
             /\ i \notin For'
  <2>1. i \in Functions /\ i \notin For /\ scopeOf[i] \in Opened \ {Package}
    BY <1>1, <1>3 DEF OwnScopes
  <2>2. i # Len(prog) + 1
    BY <1>1, <2>1 DEF EventsGrow
  <2>3. QED
    BY <1>1, <2>1, <2>2 DEF EventsGrow
<1>4. QED
  BY <1>1, <1>2, <1>3 DEF OwnScopes

\* What a step of the first pass that is not an error does to the bindings: a
\* declaration is the first of its name in the scope it stands in, a name is
\* looked up in its function and then in the package.
Collects(g, e, home) ==
    LET here == At(g, Len(prog)) IN
    \/ /\ e.op \in DeclareOps /\ home = here /\ OneBinding(here, e.name, Declares(e))
    \/ /\ e.op = "assign" /\ home = here
       /\ \/ \E d \in Declaration : OneBinding(here, e.name, d)
          \/ binds' = binds /\ binds[here][e.name] # None
    \/ /\ e.op \in InsideOps \ {"end", "param", "assign"} /\ binds' = binds
       /\ home \in {Package, here} /\ binds[home][e.name] # None
       /\ home = Package => binds[here][e.name] = None
    \/ e.op = "end" /\ binds' = binds

\* Longer functions on the positions of a text.
Extends(f2, f) == \A i \in 0 .. Len(prog) : f2[i] = f[i]

\* A name stays bound to the same.
LEMMA BindingStays ==
    ASSUME NEW s \in Scopes, NEW n \in Names, NEW d, OneBinding(s, n, d),
           NEW t \in Scopes, NEW m \in Names, binds[t][m] # None
    PROVE  binds'[t][m] = binds[t][m]
  BY DEF OneBinding

\* What is known of the names survives a step of the first pass.
LEMMA CollectedFlawless ==
    ASSUME NEW h, NEW g, NEW r, NEW e, NEW home, Collecting(h, g, r, e, home), Flawless(g),
           NEW h2, NEW g2, Text(prog', h2, g2), Extends(g2, g),
           \A i \in Functions : scopeOf'[i] = scopeOf[i],
           Collects(g, e, home), e.op \in InsideOps => g[Len(prog)] # 0
    PROVE  Flawless(g2)'
<1> DEFINE N == Len(prog)
           here == At(g, N)
<1>1. /\ EventsGrow(e) /\ pass = "collect" /\ pass' = "collect" /\ e \in Event
      /\ OwnScopes /\ ScopesOK /\ Text(prog, h, g) /\ N <= MaxLoopLen
  BY CollectedEvents DEF Collecting, Inv, Budget
<1>2. /\ res'.collect[N + 1] = home /\ \A i \in 1 .. N : res'.collect[i] = res.collect[i]
      /\ res'.check = <<>> /\ res'.generate = <<>>
  BY CollectedRecords
<1>3. N \in Nat /\ \A i \in 1 .. N + 1 : i - 1 \in 0 .. N
  BY <1>1 DEF EventsGrow
<1>4. \A i \in 0 .. N : g[i] # 0 =>
         /\ g[i] \in Functions /\ g[i] \in 1 .. N /\ scopeOf[g[i]] \in Scopes \ {Package}
         /\ scopeOf'[g[i]] = scopeOf[g[i]] /\ scopeOf[g[i]] # None
  <2>1. SUFFICES ASSUME NEW i \in 0 .. N, g[i] # 0
                 PROVE  /\ g[i] \in Functions /\ g[i] \in 1 .. N
                        /\ scopeOf[g[i]] \in Scopes \ {Package}
                        /\ scopeOf'[g[i]] = scopeOf[g[i]] /\ scopeOf[g[i]] # None
    OBVIOUS
  <2>2. g[i] \in Functions /\ g[i] \in 1 .. N
    BY <1>1, <1>3, <2>1, TextMeans, FunctionsAre
  <2>3. g[i] \in 1 .. MaxLoopLen
    BY <1>1, <1>3, <2>2, NamesAssumption DEF NamesAssumption
  <2>4. QED
    BY <1>1, <2>2, <2>3 DEF OwnScopes, Opened
<1>5. \A i \in 0 .. N : At(g, i) \in Scopes /\ At(g2, i)' = At(g, i)
  BY <1>4, NamesAssumption DEF At, Extends, NamesAssumption
<1>6. here \in Scopes /\ (g[N] # 0 => here = scopeOf[g[N]] /\ here # Package)
  <2>1. N \in 0 .. N
    BY <1>3
  <2>2. QED
    BY <1>4, <1>5, <2>1 DEF At
<1>7. ASSUME NEW i \in Names_
      PROVE  /\ i \in 1 .. N /\ prog'[i] = prog[i] /\ i \in Names_' /\ prog[i].name \in Names
             /\ res'.collect[i] = res.collect[i] /\ res.collect[i] \in Scopes
             /\ i - 1 \in 0 .. N /\ prog[i].op # "end"
  <2>1. i \in 1 .. N /\ prog'[i] = prog[i] /\ i \in Names_' /\ prog[i].op # "end"
    BY <1>1 DEF EventsGrow, Names_
  <2>2. i - 1 \in 0 .. N
    BY <1>3, <2>1
  <2>3. prog[i].name \in Names
    BY <1>1, <2>1 DEF Text, Moves
  <2>4. res.collect[i] \in {Package, At(g, i - 1)}
    BY DEF Flawless, Found
  <2>5. res.collect[i] \in Scopes
    BY <1>5, <2>2, <2>4, NamesAssumption DEF NamesAssumption
  <2>6. QED
    BY <1>2, <2>1, <2>2, <2>3, <2>5
<1>8. ASSUME NEW i \in Names_', i \notin Names_
      PROVE  i = N + 1 /\ i - 1 = N /\ prog'[i] = e /\ e.op # "end" /\ res'.collect[i] = home
  BY <1>1, <1>2, <1>3, <1>8 DEF EventsGrow
<1>9. e.op # "end" => e.name \in Names
  <2>1. N + 1 \in 1 .. Len(prog') /\ prog'[N + 1] = e
    BY <1>1, <1>3 DEF EventsGrow
  <2>2. QED
    BY <2>1 DEF Text, Moves
<1>10. \A i \in Names_' : prog'[i].op # "end" /\ prog'[i].name \in Names
  BY <1>7, <1>8, <1>9
<1> HIDE DEF here, N
\* A name keeps its binding.
<1>11. \A s \in Scopes, n \in Names : binds[s][n] # None => binds'[s][n] = binds[s][n]
  <2>1. binds' = binds \/ \E d : OneBinding(here, e.name, d) /\ e.name \in Names
    BY <1>9 DEF Collects, here, N, DeclareOps, Declarators
  <2>2. QED
    BY <1>6, <2>1, BindingStays
<1>12. \A s \in Scopes, n \in Names :
          binds'[s][n] # binds[s][n] => /\ s = here /\ n = e.name
                                        /\ e.op \in DeclareOps \cup {"assign"} /\ home = here
  BY DEF Collects, OneBinding, here, N
<1>13. e.op # "end" => home \in Scopes /\ home \in {Package, here} /\ binds'[home][e.name] # None
  BY <1>6, <1>9, NamesAssumption
     DEF Collects, OneBinding, here, N, NamesAssumption, InsideOps, DeclareOps, Declarators
<1>14. e.op \in DeclareOps \cup {"assign"} => home = here
  BY DEF Collects, here, N, InsideOps, DeclareOps, Declarators
<1>15. N \in 0 .. N /\ \A i \in Names_' : i \notin Names_ => At(g2, i - 1)' = here
  <2>1. N \in 0 .. N
    BY <1>3
  <2>2. ASSUME NEW i \in Names_', i \notin Names_ PROVE At(g2, i - 1)' = here
    <3>1. At(g2, i - 1)' = At(g, i - 1)
      BY <1>5, <1>8, <2>1, <2>2
    <3>2. QED
      BY <1>8, <2>2, <3>1 DEF here
  <2>3. QED
    BY <2>1, <2>2
<1>16. Found(g2)'
  <2>1. SUFFICES ASSUME NEW i \in Names_'
                 PROVE  /\ res'.collect[i] \in {Package, At(g2, i - 1)'}
                        /\ binds'[res'.collect[i]][prog'[i].name] # None
                        /\ prog'[i].op \in DeclareOps \cup {"assign"} => res'.collect[i] = At(g2, i - 1)'
    BY DEF Found, DeclareOps, Declarators
  <2>2. CASE i \in Names_
    <3>1. /\ res.collect[i] \in {Package, At(g, i - 1)}
          /\ binds[res.collect[i]][prog[i].name] # None
          /\ prog[i].op \in DeclareOps \cup {"assign"} => res.collect[i] = At(g, i - 1)
      BY <2>2 DEF Flawless, Found
    <3>2. At(g2, i - 1)' = At(g, i - 1)
      BY <1>5, <1>7, <2>2
    <3>3. binds'[res.collect[i]][prog[i].name] # None
      BY <1>7, <1>11, <2>2, <3>1
    <3>4. QED
      BY <1>7, <2>2, <3>1, <3>2, <3>3
  <2>3. CASE i \notin Names_
    BY <1>8, <1>13, <1>14, <1>15, <2>3
  <2>4. QED
    BY <2>2, <2>3
<1>17. Stands(g2)'
  <2>1. SUFFICES ASSUME NEW i \in Names_', prog'[i].op \in DeclareOps
                 PROVE  binds'[At(g2, i - 1)'][prog'[i].name].decl = Declares(prog'[i])
    BY DEF Stands, DeclareOps, Declarators, Declares, Kind
  <2>2. CASE i \in Names_
    <3>1. /\ binds[At(g, i - 1)][prog[i].name].decl = Declares(prog[i])
          /\ binds[At(g, i - 1)][prog[i].name] # None
      BY <1>7, <2>1, <2>2 DEF Flawless, Stands, Found
    <3>2. At(g2, i - 1)' = At(g, i - 1) /\ At(g, i - 1) \in Scopes
      BY <1>5, <1>7, <2>2
    <3>3. binds'[At(g, i - 1)][prog[i].name] = binds[At(g, i - 1)][prog[i].name]
      BY <1>7, <1>11, <2>2, <3>1, <3>2
    <3>4. QED
      BY <1>7, <2>2, <3>1, <3>2, <3>3
  <2>3. CASE i \notin Names_
    <3>1. e.op \in DeclareOps /\ At(g2, i - 1)' = here /\ prog'[i] = e
      BY <1>8, <1>15, <2>1, <2>3
    <3>2. OneBinding(here, e.name, Declares(e))
      BY <3>1 DEF Collects, here, N, InsideOps, DeclareOps, Declarators
    <3>3. QED
      BY <3>1, <3>2 DEF OneBinding
  <2>4. QED
    BY <2>2, <2>3
<1>18. NoLater(g2)'
  <2>1. SUFFICES ASSUME NEW i \in Names_', NEW j \in Names_', res'.collect[i] = Package, i < j,
                        g2[j - 1] = 0
                 PROVE  prog'[j].name # prog'[i].name
    BY DEF NoLater
  <2>2. i \in Names_
    BY <1>1, <1>3, <1>8, <2>1 DEF EventsGrow, N
  <2>3. CASE j \in Names_
    BY <1>7, <2>1, <2>2, <2>3 DEF Flawless, NoLater, Extends, N
  <2>4. CASE j \notin Names_
    <3>1. g[N] = 0 /\ prog'[j] = e /\ e.op # "end"
      BY <1>8, <1>15, <2>1, <2>4 DEF Extends, N
    <3>2. e.op \in DeclareOps /\ here = Package
      BY <1>1, <3>1 DEF Event, InsideOps, DeclareOps, Declarators, At, here, N
    <3>3. binds[Package][e.name] = None
      BY <3>2 DEF Collects, OneBinding, here, N, InsideOps, DeclareOps, Declarators
    <3>4. binds[Package][prog[i].name] # None
      BY <1>7, <2>1, <2>2 DEF Flawless, Found
    <3>5. QED
      BY <1>7, <2>2, <3>1, <3>3, <3>4
  <2>5. QED
    BY <2>3, <2>4
<1>19. Captures(g2)'
  <2>1. SUFFICES ASSUME NEW i \in Names_', res'.collect[i] = Package, g2[i - 1] # 0,
                        binds'[scopeOf'[g2[i - 1]]][prog'[i].name] # None
                 PROVE  \E j \in Names_' : /\ i < j /\ g2[j - 1] = g2[i - 1]
                                           /\ prog'[j].name = prog'[i].name
                                           /\ prog'[j].op \in DeclareOps \cup {"assign"}
    BY DEF Captures, DeclareOps, Declarators
  <2>2. CASE i \in Names_
    <3>1. g2[i - 1] = g[i - 1] /\ g[i - 1] # 0
      BY <1>7, <2>1, <2>2 DEF Extends, N
    <3> DEFINE s == scopeOf[g[i - 1]]
    <3>2. s \in Scopes /\ scopeOf'[g2[i - 1]] = s /\ g[i - 1] \in Functions /\ s # Package
      BY <1>4, <1>7, <2>2, <3>1
    <3>3. CASE binds[s][prog[i].name] # None
      <4>1. PICK j \in Names_ : /\ i < j /\ g[j - 1] = g[i - 1] /\ prog[j].name = prog[i].name
                                /\ prog[j].op \in DeclareOps \cup {"assign"}
        BY <1>1, <1>7, <2>1, <2>2, <3>1, <3>3 DEF Flawless, Captures
      <4>2. j \in Names_' /\ g2[j - 1] = g[j - 1] /\ prog'[j] = prog[j]
        BY <1>7 DEF Extends, N
      <4>3. QED
        BY <1>7, <2>2, <3>1, <4>1, <4>2
    <3>4. CASE binds[s][prog[i].name] = None
      <4>1. binds'[s][prog[i].name] # binds[s][prog[i].name]
        BY <1>7, <2>1, <2>2, <3>2, <3>4
      <4>2. /\ s = here /\ prog[i].name = e.name /\ e.op \in DeclareOps \cup {"assign"}
        BY <1>7, <1>12, <2>2, <3>2, <4>1
      <4>3. g[N] # 0
        BY <3>2, <4>2 DEF here, At
      <4>4. scopeOf[g[N]] = scopeOf[g[i - 1]] /\ scopeOf[g[N]] # None /\ g[N] \in Functions
        BY <1>4, <1>6, <1>15, <4>2, <4>3
      <4>5. \A f \in Functions : f \in 1 .. MaxLoopLen
        BY <1>1, <1>3, NamesAssumption DEF EventsGrow, NamesAssumption, N
      <4>6. g[N] = g[i - 1]
        BY <1>1, <3>2, <4>4, <4>5 DEF OwnScopes
      <4>7. N + 1 \in Names_' /\ prog'[N + 1] = e /\ (N + 1) - 1 = N /\ i < N + 1
        BY <1>1, <1>3, <1>7, <2>2, <4>2 DEF EventsGrow, N, DeclareOps, Declarators
      <4>8. g2[N] = g[N]
        BY <1>15 DEF Extends, N
      <4>9. QED
        BY <1>7, <2>2, <3>1, <4>2, <4>6, <4>7, <4>8
    <3>5. QED
      BY <3>3, <3>4
  <2>3. CASE i \notin Names_
    <3>1. i - 1 = N /\ prog'[i] = e /\ home = Package /\ e.op # "end" /\ g[N] # 0
      BY <1>8, <1>15, <2>1, <2>3 DEF Extends, N
    <3>2. here = scopeOf[g[N]] /\ here # Package
      BY <1>6, <3>1
    <3>3. binds' = binds /\ binds[here][e.name] = None
      BY <3>1, <3>2 DEF Collects, here, N
    <3>4. scopeOf'[g2[i - 1]] = here
      BY <1>4, <1>15, <3>1, <3>2 DEF Extends, N
    <3>5. QED
      BY <2>1, <3>1, <3>3, <3>4
  <2>4. QED
    BY <2>2, <2>3
<1>20. Checked(g2)' /\ ElementsChecked(g2)'
  <2>1. \A i \in Names_' : ~ (i <= Len(res'.check))
    <3>1. SUFFICES ASSUME NEW i \in Names_' PROVE i > 0
      BY <1>1, <1>2, <1>3 DEF EventsGrow, N
    <3>2. QED
      BY <1>3, <1>7, <1>8
  <2>2. QED
    BY <2>1 DEF Checked, ElementsChecked
<1>21. LoopArrays(g2)'
  BY <1>1 DEF LoopArrays
<1>22. QED
  BY <1>16, <1>17, <1>18, <1>19, <1>20, <1>21 DEF Flawless

\* The first pass works in the package's scope and in those of functions.
LEMMA CollectInner ==
    ASSUME NEW h, NEW g, NEW r, Inv(h, g, r), pass = "collect"
    PROVE  /\ Inner.scope = At(g, Len(prog)) /\ Inner.scope \in Opened /\ Inner.scope \in Scopes
           /\ Len(nest) = h[Len(prog)] /\ Len(nest) \in Nat \ {0}
           /\ g[Len(prog)] = 0 <=> Len(nest) = 1
           /\ g[Len(prog)] # 0 => up[Inner.scope] = Package /\ Inner.scope # Package
<1> DEFINE N == Len(prog)
<1>1. /\ Text(prog, h, g) /\ OwnScopes /\ Nested(nest, h[pc]) /\ CollectNest(g) /\ pc = N
      /\ N <= MaxLoopLen /\ ScopesOK
  BY DEF Inv, Nesting, Budget, Passes
<1>2. /\ N \in Nat /\ h[N] \in Nat \ {0} /\ g[N] \in Nat /\ (g[N] = 0 <=> h[N] = 1)
      /\ (g[N] # 0 => g[N] \in 1 .. N /\ g[N] \in Functions)
  <2>1. N \in Nat /\ N \in 0 .. N
    BY <1>1 DEF Text
  <2>2. QED
    BY <1>1, <2>1, TextMeans, FunctionsAre
<1>3. Len(nest) = h[N]
  BY <1>1 DEF Nested
<1>4. CASE g[N] = 0
  <2>1. Inner.scope = Package /\ Package \in Scopes
    BY <1>1, <1>2, <1>3, <1>4, NamesAssumption DEF Inner, CollectNest, NamesAssumption
  <2>2. Package \in Opened
    BY <1>1, <2>1 DEF ScopesOK, Tree, Opened
  <2>3. QED
    BY <1>2, <1>3, <1>4, <2>1, <2>2 DEF At
<1>5. CASE g[N] # 0
  <2>1. Len(nest) \in 2 .. Len(nest)
    BY <1>2, <1>3, <1>5
  <2>2. Inner.scope = scopeOf[g[N]]
    BY <1>1, <2>1 DEF Inner, CollectNest
  <2>3. g[N] \in 1 .. MaxLoopLen
    BY <1>1, <1>2, <1>5, NamesAssumption DEF NamesAssumption
  <2>4. scopeOf[g[N]] \in Opened /\ scopeOf[g[N]] # Package /\ up[scopeOf[g[N]]] = Package
    BY <1>1, <1>2, <1>5, <2>3 DEF OwnScopes
  <2>5. Opened \subseteq Scopes
    BY DEF Opened
  <2>6. QED
    BY <1>2, <1>3, <1>5, <2>2, <2>4, <2>5 DEF At
<1>6. QED
  BY <1>4, <1>5

\* The place of an event: how much room it needs with what it brings.
Fits(e) ==
    \/ e.op = "param" /\ Lacking > 0
    \/ /\ e.op # "param" /\ Lacking = 0
       /\ Len(prog) + Len(nest) - 1
             + (IF e.op = "for" THEN 2 ELSE IF e.op = "end" THEN 0 ELSE 1) <= MaxLoopLen

\* A step of the first pass that opens no scope.
LEMMA CollectsPlain ==
    ASSUME NEW h, NEW g, NEW r, NEW e, NEW home, Collecting(h, g, r, e, home),
           e.op # "fun", scopeOf' = scopeOf, current' = current,
           ScopesOK', Ranked(r)', up' = up, Opened' = Opened,
           nest' = IF e.op = "for" THEN Append(nest, [op |-> "for", scope |-> Inner.scope])
                   ELSE IF e.op = "end" THEN SubSeq(nest, 1, Len(nest) - 1) ELSE nest,
           e.op # "end" => e.name \in Names, e.op \in InsideOps => Len(nest) > 1, Fits(e),
           errors' = 0 => errors = 0 /\ Collects(g, e, home)
    PROVE  IInv'
<1> DEFINE N == Len(prog)
<1>1. /\ Inv(h, g, r) /\ pass = "collect" /\ pass' = "collect" /\ e \in Event
      /\ prog' = Append(prog, e) /\ pc' = pc + 1
  BY DEF Collecting
<1>2. /\ Inner.scope = At(g, N) /\ Inner.scope \in Scopes \cup {None}
      /\ Len(nest) = h[N] /\ Len(nest) \in Nat \ {0} /\ (g[N] = 0 <=> Len(nest) = 1)
  BY <1>1, CollectInner
<1>3. /\ Text(prog, h, g) /\ OwnScopes /\ Nested(nest, h[N]) /\ CollectNest(g) /\ Budget /\ pc = N
      /\ prog \in Seq(Event) /\ N \in Nat
  BY <1>1 DEF Inv, Nesting, Budget, Passes, Text
<1>4. EventsGrow(e)
  BY CollectedEvents
<1>5. PICK h2, g2 : Text(prog', h2, g2) /\ \A i \in 0 .. N : h2[i] = h[i] /\ g2[i] = g[i]
  <2>1. e.op \in InsideOps => h[N] > 1
    BY <1>2
  <2>2. QED
    BY <1>1, <1>3, <2>1, TextGrows
<1>6. Moves(e, N + 1, h[N], h2[N + 1], g[N], g2[N + 1])
  <2>1. N + 1 \in 1 .. Len(prog') /\ prog'[N + 1] = e /\ (N + 1) - 1 = N /\ N \in 0 .. N
    BY <1>3, <1>4 DEF EventsGrow
  <2>2. Moves(prog'[N + 1], N + 1, h2[(N + 1) - 1], h2[N + 1], g2[(N + 1) - 1], g2[N + 1])
    BY <1>5, <2>1 DEF Text
  <2>3. QED
    BY <1>5, <2>1, <2>2
<1>7. /\ Nested(nest', h2[N + 1]) /\ Len(nest') = h2[N + 1] /\ Len(nest') \in Nat \ {0}
      /\ Len(nest') = IF e.op = "for" THEN Len(nest) + 1
                      ELSE IF e.op = "end" THEN Len(nest) - 1 ELSE Len(nest)
      /\ \A k \in 1 .. Len(nest') :
            \/ k <= Len(nest) /\ nest'[k].scope = nest[k].scope
            \/ k > 1 /\ nest'[k].scope = Inner.scope
  <2> DEFINE m == Len(nest)
  <2>1. Nested(nest, m) /\ m = h[N] /\ m \in Nat \ {0}
    BY <1>2, <1>3
  <2>2. CASE e.op = "for"
    <3>1. m > 1 /\ nest' = Append(nest, [op |-> "for", scope |-> Inner.scope]) /\ h2[N + 1] = m + 1
      BY <1>6, <2>1, <2>2 DEF Moves, Declarators, InsideOps
    <3> HIDE DEF m
    <3> DEFINE level == [op |-> "for", scope |-> Inner.scope]
    <3>2. /\ Nested(nest', m + 1) /\ \A k \in 1 .. m : nest'[k] = nest[k]
          /\ nest'[m + 1].scope = Inner.scope
      <4>1. level \in Level /\ level.op = "for" /\ level.scope = Inner.scope
        BY <1>2 DEF Level
      <4>2. nest' = Append(nest, level)
        BY <3>1
      <4> HIDE DEF level
      <4>3. level.op = IF m = 1 THEN "fun" ELSE "for"
        BY <3>1, <4>1
      <4>4. Nested(nest, m) /\ m \in Nat \ {0} /\ level \in Level
        BY <2>1, <4>1
      <4>5. OneMore(nest, m, level, Append(nest, level))
        BY <4>3, <4>4, NestPushes
      <4>6. QED
        BY <4>1, <4>2, <4>5 DEF OneMore
    <3>3. \A k \in 1 .. m + 1 : k \in 1 .. m \/ (k = m + 1 /\ k > 1)
      BY <2>1
    <3>4. Len(nest') = m + 1
      BY <3>2 DEF Nested
    <3>5. QED
      BY <2>1, <2>2, <3>1, <3>2, <3>3, <3>4 DEF m
  <2>3. CASE e.op = "end"
    <3>1. m > 1 /\ nest' = SubSeq(nest, 1, Len(nest) - 1) /\ h2[N + 1] = m - 1
      BY <1>6, <2>1, <2>3 DEF Moves, Declarators, InsideOps
    <3> HIDE DEF m
    <3>2. Nested(nest', m - 1) /\ \A k \in 1 .. m - 1 : nest'[k] = nest[k]
      <4>1. m \in Nat /\ m > 1 /\ Nested(nest, m)
        BY <2>1, <3>1
      <4>2. OneLess(nest, m, SubSeq(nest, 1, Len(nest) - 1))
        BY <4>1, NestPops
      <4>3. QED
        BY <3>1, <4>2 DEF OneLess
    <3>3. Len(nest') = m - 1
      BY <3>2 DEF Nested
    <3>4. QED
      BY <2>1, <2>3, <3>1, <3>2, <3>3 DEF m
  <2>4. CASE e.op \notin {"for", "end"}
    <3>1. nest' = nest /\ h2[N + 1] = m
      BY <1>6, <2>1, <2>4 DEF Moves
    <3>2. QED
      BY <2>1, <2>4, <3>1
  <2>5. QED
    BY <2>2, <2>3, <2>4
<1>8. Budget'
  <2> DEFINE lack == LackIn(prog')
  <2>1. lack = IF e.op = "param" THEN Lacking - 1 ELSE 0
    <3>1. Lacking = LackIn(prog)
      BY LackingIs
    <3>2. lack = IF e.op = "param" /\ LackIn(prog) # 0 THEN LackIn(prog) - 1
                 ELSE IF e.op = "param" THEN lack ELSE 0
      BY <1>1, <1>3, LackInGrows
    <3>3. e.op = "param" => LackIn(prog) # 0
      BY <3>1 DEF Fits
    <3>4. QED
      BY <3>1, <3>2, <3>3
  <2> HIDE DEF lack
  <2>2. /\ Lacking \in Nat /\ (Lacking > 0 => Len(nest) = 2) /\ MaxLoopLen \in Nat
        /\ N + Lacking + Len(nest) - 1 <= MaxLoopLen
    BY <1>1, <1>3, NamesAssumption DEF Budget, NamesAssumption
  <2>3. lack \in Nat /\ (lack > 0 => Len(nest') = 2) /\ N + 1 + lack + Len(nest') - 1 <= MaxLoopLen
    <3> DEFINE a == Len(nest)
               b == Len(nest')
               l == Lacking
    <3>1. /\ a \in Nat \ {0} /\ b \in Nat /\ N \in Nat /\ l \in Nat /\ MaxLoopLen \in Nat
          /\ (l > 0 => a = 2) /\ N + l + a - 1 <= MaxLoopLen
          /\ b = IF e.op = "for" THEN a + 1 ELSE IF e.op = "end" THEN a - 1 ELSE a
          /\ lack = IF e.op = "param" THEN l - 1 ELSE 0
      BY <1>2, <1>3, <1>7, <2>1, <2>2
    <3>2. \/ e.op = "param" /\ l > 0
          \/ /\ e.op # "param" /\ l = 0
             /\ N + a - 1 + (IF e.op = "for" THEN 2 ELSE IF e.op = "end" THEN 0 ELSE 1)
                   <= MaxLoopLen
      BY DEF Fits
    <3> HIDE DEF a, b, l, N
    <3>3. lack \in Nat /\ (lack > 0 => b = 2) /\ N + 1 + lack + b - 1 <= MaxLoopLen
      BY <3>1, <3>2
    <3>4. QED
      BY <3>3 DEF b, N
  <2>4. QED
    BY <1>7, <2>3, CollectedBudget DEF lack
<1>9. OwnScopes' /\ Functions' = Functions
  BY CollectedOwnScopes
<1>10. Nesting(h2, g2)'
  <2>1. pc' = N + 1 /\ Passes' = Passes
    BY <1>1, <1>3 DEF Passes
  <2>2. current' \in Scopes \cup {None}
    BY <1>1 DEF Inv, Nesting
  <2>3. LastScope(current)'
    BY <1>3, <1>9 DEF CollectNest, LastScope
  <2>4. nest'[1].scope = Package
    BY <1>3, <1>7 DEF CollectNest
  <2>5. \A k \in 2 .. Len(nest') : nest'[k].scope = scopeOf[g2[N + 1]]
    <3>1. SUFFICES ASSUME NEW k \in 2 .. Len(nest') PROVE nest'[k].scope = scopeOf[g2[N + 1]]
      OBVIOUS
    <3>2. h2[N + 1] > 1 /\ h2[N + 1] = Len(nest')
      BY <1>7
    <3>3. g2[N + 1] = g[N] /\ Len(nest) > 1
      BY <1>2, <1>6, <1>7, <3>2 DEF Moves, InsideOps
    <3>4. Inner.scope = scopeOf[g[N]]
      BY <1>2, <3>3 DEF At
    <3>5. k \in 2 .. Len(nest) => nest[k].scope = scopeOf[g[N]]
      BY <1>3 DEF CollectNest
    <3>6. k \in 1 .. Len(nest')
      OBVIOUS
    <3>7. QED
      BY <1>2, <1>7, <3>3, <3>4, <3>5, <3>6
  <2>6. CollectNest(g2)'
    BY <2>1, <2>3, <2>4, <2>5 DEF CollectNest
  <2>7. QED
    BY <1>1, <1>7, <2>1, <2>2, <2>6 DEF Nesting, Passes
<1>11. Records' /\ res'.generate = <<>>
  BY CollectedRecords
<1>12. errors' = 0 => Flawless(g2)'
  <2>1. SUFFICES ASSUME errors' = 0 PROVE Flawless(g2)'
    OBVIOUS
  <2>2. errors = 0 /\ Collects(g, e, home) /\ Flawless(g)
    BY <1>1, <2>1 DEF Inv
  <2>3. e.op \in InsideOps => g[N] # 0
    BY <1>2
  <2>4. Extends(g2, g)
    BY <1>5 DEF Extends
  <2>5. QED
    BY <1>5, <2>2, <2>3, <2>4, CollectedFlawless
<1>13. GeneratedAll'
  <2>1. \A i \in Names_' : ~ (i <= Len(res'.generate))
    BY <1>3, <1>4, <1>11 DEF EventsGrow
  <2>2. QED
    BY <2>1 DEF GeneratedAll
<1>14. Inv(h2, g2, r)'
  BY <1>1, <1>5, <1>8, <1>9, <1>10, <1>11, <1>12, <1>13 DEF Inv
<1>15. QED
  BY <1>14 DEF IInv

\* Events, and what they declare.
LEMMA EvMade ==
    ASSUME NEW op \in {"fun", "param", "var", "array", "arrayAssign", "assign", "use",
                       "call", "elem", "for", "end"},
           NEW n \in Names \cup {None}, NEW k \in Arities, NEW m \in BOOLEAN
    PROVE  /\ Ev(op, n, k, m) \in Event
           /\ Ev(op, n, k, m).op = op /\ Ev(op, n, k, m).name = n
           /\ Declares(Ev(op, n, k, m)) \in Declaration
  BY DEF Ev, Event, Declares, Declaration, Kind

\* Steps of the first pass have their common part.
LEMMA CollectedIs ==
    ASSUME NEW h, NEW g, NEW r, Inv(h, g, r), pass = "collect", NEW e \in Event,
           NEW home \in Scopes \cup {None}, Collected(e, home)
    PROVE  Collecting(h, g, r, e, home)
  BY DEF Collecting, Collected, Done

\* Where there is room for an event there is room for what it brings.
LEMMA RoomMeans ==
    ASSUME NEW h, NEW g, NEW r, Inv(h, g, r), pass = "collect", NEW op, NEW more \in Nat,
           Room(op, more)
    PROVE  Len(prog) + Lacking + Len(nest) - 1 + more <= MaxLoopLen
<1> DEFINE N == Len(prog)
           a == Len(nest)
           l == Lacking
           limit == IF Long(op) THEN MaxLoopLen ELSE MaxLen
<1>1. N \in Nat /\ a \in Nat /\ l \in Nat
  <2>1. Budget /\ Text(prog, h, g) /\ pass = "collect"
    BY DEF Inv
  <2>2. prog \in Seq(Event) /\ l \in Nat
    BY <2>1 DEF Budget, Text
  <2>3. QED
    BY <2>2, CollectInner
<1>2. limit <= MaxLoopLen /\ limit \in Nat /\ MaxLoopLen \in Nat
  BY NamesAssumption DEF NamesAssumption
<1>3. N + (l + a - 1) + more <= limit
  BY DEF Room, Owed
<1> HIDE DEF N, a, l, limit
<1>4. N + l + a - 1 + more <= MaxLoopLen
  BY <1>1, <1>2, <1>3
<1>5. QED
  BY <1>4 DEF N, a, l

\* A parameter of the function whose header is being read.
LEMMA CollectParamKeeps ==
    ASSUME NEW h, NEW g, NEW r, Inv(h, g, r), NEW n \in Names, CollectParam(n)
    PROVE  IInv'
<1> DEFINE s == Inner.scope
           e == Ev("param", n, 0, TRUE)
<1>1. /\ pass = "collect" /\ Lacking > 0 /\ insert_symbol(s, n, Declares(e)) /\ Collected(e, s)
      /\ nest' = nest /\ current' = current /\ scopeOf' = scopeOf
  BY DEF CollectParam
<1>2. /\ s = At(g, Len(prog)) /\ s \in Scopes /\ Len(nest) \in Nat \ {0}
  BY <1>1, CollectInner
<1>3. 0 \in Arities /\ ScopesOK /\ Ranked(r) /\ Lacking \in Nat /\ Len(nest) = 2
  BY <1>1, NamesAssumption DEF NamesAssumption, Inv, Budget
<1>4. e \in Event /\ e.op = "param" /\ e.name = n /\ Declares(e) \in Declaration
  BY <1>3 DEF Ev, Event, Declares, Declaration, Kind
<1> HIDE DEF e
<1>5. ScopesOK' /\ Ranked(r)' /\ Inserts(s, n, Declares(e))
  BY <1>1, <1>2, <1>3, <1>4, InsertKeeps
<1>6. Collecting(h, g, r, e, s)
  BY <1>1, <1>2, <1>4, CollectedIs
<1>7. up' = up /\ Opened' = Opened
  BY <1>5 DEF Inserts
<1>8. Fits(e)
  BY <1>1, <1>4 DEF Fits
<1>9. errors' = 0 => errors = 0 /\ Collects(g, e, s)
  <2>1. errors \in Nat
    BY <1>3 DEF ScopesOK
  <2>2. QED
    BY <1>2, <1>4, <1>5, <2>1 DEF Inserts, Collects, DeclareOps
<1> HIDE DEF s
<1>10. QED
  BY <1>1, <1>3, <1>4, <1>5, <1>6, <1>7, <1>8, <1>9, CollectsPlain

\* A declaration of a variable.
LEMMA CollectDeclarationKeeps ==
    ASSUME NEW h, NEW g, NEW r, Inv(h, g, r), NEW n \in Names, NEW op \in Declarators,
           NEW m \in BOOLEAN, CollectDeclaration(op, n, m)
    PROVE  IInv'
<1> DEFINE s == Inner.scope
           e == Ev(op, n, 0, m)
<1>1. /\ pass = "collect" /\ Lacking = 0 /\ Room(op, 1)
      /\ insert_symbol(s, n, Declares(e)) /\ Collected(e, s)
      /\ nest' = nest /\ current' = current /\ scopeOf' = scopeOf
  BY DEF CollectDeclaration
<1>2. /\ s = At(g, Len(prog)) /\ s \in Scopes /\ Len(nest) \in Nat \ {0}
  BY <1>1, CollectInner
<1>3. 0 \in Arities /\ ScopesOK /\ Ranked(r) /\ prog \in Seq(Event)
  BY <1>1, NamesAssumption DEF NamesAssumption, Inv, Text
<1>4. e \in Event /\ e.op = op /\ e.name = n /\ Declares(e) \in Declaration
  BY <1>3, EvMade DEF Declarators
<1> HIDE DEF e
<1>5. ScopesOK' /\ Ranked(r)' /\ Inserts(s, n, Declares(e))
  BY <1>1, <1>2, <1>3, <1>4, InsertKeeps
<1>6. Collecting(h, g, r, e, s)
  BY <1>1, <1>2, <1>4, CollectedIs
<1>7. up' = up /\ Opened' = Opened
  BY <1>5 DEF Inserts
<1>8. Fits(e) /\ e.op \notin InsideOps /\ e.op # "fun"
  <2>1. Len(prog) + Lacking + Len(nest) - 1 + 1 <= MaxLoopLen
    BY <1>1, RoomMeans
  <2>2. Len(prog) \in Nat
    BY <1>3
  <2>3. QED
    BY <1>1, <1>2, <1>4, <2>1, <2>2 DEF Fits, Declarators, InsideOps
<1>9. errors' = 0 => errors = 0 /\ Collects(g, e, s)
  <2>1. errors \in Nat
    BY <1>3 DEF ScopesOK
  <2>2. QED
    BY <1>2, <1>4, <1>5, <2>1 DEF Inserts, Collects, DeclareOps
<1> HIDE DEF s
<1>10. QED
  BY <1>1, <1>3, <1>4, <1>5, <1>6, <1>7, <1>8, <1>9, CollectsPlain DEF Declarators

\* An assignment, which declares a name its scope does not have.
LEMMA CollectAssignKeeps ==
    ASSUME NEW h, NEW g, NEW r, Inv(h, g, r), NEW n \in Names, CollectAssign(n)
    PROVE  IInv'
<1> DEFINE s == Inner.scope
           e == Ev("assign", n, 0, FALSE)
           d == Declares(Ev("var", n, 0, TRUE))
<1>1. /\ pass = "collect" /\ Lacking = 0 /\ Len(nest) # 1 /\ Room("assign", 1)
      /\ Declare(s, n, d, Cardinality(used[s])) \/ (binds[s][n] # None /\ UNCHANGED avars)
      /\ Collected(e, s)
      /\ nest' = nest /\ current' = current /\ scopeOf' = scopeOf
  BY DEF CollectAssign, InBody, Top
<1>2. /\ s = At(g, Len(prog)) /\ s \in Scopes /\ Len(nest) \in Nat \ {0}
  BY <1>1, CollectInner
<1>3. 0 \in Arities /\ ScopesOK /\ Ranked(r) /\ prog \in Seq(Event) /\ errors \in Nat
  BY <1>1, NamesAssumption DEF NamesAssumption, Inv, Text, ScopesOK
<1>4. e \in Event /\ e.op = "assign" /\ e.name = n /\ d \in Declaration
  BY <1>3 DEF Ev, Event, Declares, Declaration, Kind
<1> HIDE DEF e, d
<1>5. /\ ScopesOK' /\ Ranked(r)' /\ up' = up /\ Opened' = Opened /\ errors' = errors
      /\ OneBinding(s, n, d) \/ (binds' = binds /\ binds[s][n] # None)
  <2>1. CASE Declare(s, n, d, Cardinality(used[s]))
    BY <1>2, <1>3, <1>4, <2>1, DeclareKeeps
  <2>2. CASE binds[s][n] # None /\ UNCHANGED avars
    <3>1. UNCHANGED <<up, state, binds, used>> /\ errors' = errors
      BY <2>2 DEF avars
    <3>2. QED
      BY <1>3, <2>2, <3>1, SteadyKeeps
  <2>3. QED
    BY <1>1, <2>1, <2>2
<1>6. Collecting(h, g, r, e, s)
  BY <1>1, <1>2, <1>4, CollectedIs
<1>7. Fits(e)
  <2>1. Len(prog) + Lacking + Len(nest) - 1 + 1 <= MaxLoopLen
    BY <1>1, RoomMeans
  <2>2. Len(prog) \in Nat
    BY <1>3
  <2>3. QED
    BY <1>1, <1>2, <1>4, <2>1, <2>2 DEF Fits
<1>8. errors' = 0 => errors = 0 /\ Collects(g, e, s)
  BY <1>2, <1>4, <1>5 DEF Collects
<1>9. Len(nest) > 1
  <2> DEFINE m == Len(nest)
  <2>1. m \in Nat \ {0} /\ m # 1
    BY <1>1, <1>2
  <2> HIDE DEF m
  <2>2. m > 1
    BY <2>1
  <2>3. QED
    BY <2>2 DEF m
<1> HIDE DEF s
<1>10. QED
  BY <1>1, <1>4, <1>5, <1>6, <1>7, <1>8, <1>9, CollectsPlain

\* Inside a function.
LEMMA InBodyMeans ==
    ASSUME NEW h, NEW g, NEW r, Inv(h, g, r), pass = "collect", InBody
    PROVE  Len(nest) > 1 /\ Lacking = 0 /\ g[Len(prog)] # 0
<1> DEFINE m == Len(nest)
<1>1. m \in Nat \ {0} /\ m # 1 /\ Lacking = 0 /\ g[Len(prog)] # 0
  BY CollectInner DEF InBody, Top
<1> HIDE DEF m
<1>2. m > 1
  BY <1>1
<1>3. QED
  BY <1>1, <1>2 DEF m

\* What a lookup of the first pass finds inside a function.
LEMMA CollectHome ==
    ASSUME NEW h, NEW g, NEW r, Inv(h, g, r), pass = "collect", InBody, NEW n \in Names
    PROVE  LET s == Inner.scope
           IN  /\ Home(s, n) \in {None, Package, s}
               /\ Home(s, n) # None => binds[Home(s, n)][n] # None
               /\ Home(s, n) = Package => binds[s][n] = None
<1> DEFINE s == Inner.scope
<1>1. s \in Opened /\ up[s] = Package /\ s # Package /\ ScopesOK /\ Ranked(r)
  BY CollectInner, InBodyMeans DEF Inv
<1> HIDE DEF s
<1>2. Home(s, n) = IF binds[s][n] # None THEN s
                   ELSE IF binds[Package][n] # None THEN Package ELSE None
  BY <1>1, HomeOfFunction
<1>3. QED
  BY <1>1, <1>2 DEF s

\* A look for a name that touches no scope.
LEMMA UndeclaredKeeps ==
    ASSUME ScopesOK, NEW r, Ranked(r), NEW s, NEW n, check_undeclared(s, n),
           UNCHANGED <<up, state, binds, used>>
    PROVE  /\ ScopesOK' /\ Ranked(r)' /\ Opened' = Opened /\ up' = up /\ binds' = binds
           /\ errors' = 0 => errors = 0 /\ Home(s, n) # None
<1>1. errors \in Nat /\ (errors' = errors \/ errors' = errors + 1)
      /\ (errors' = errors + 1 \/ Home(s, n) # None)
  BY DEF ScopesOK, check_undeclared, Report
<1>2. errors' \in Nat /\ (errors' = 0 => errors = 0 /\ Home(s, n) # None)
  BY <1>1
<1>3. QED
  BY <1>2, SteadyKeeps

\* A use, a call, a write to an element.
LEMMA CollectNameKeeps ==
    ASSUME NEW h, NEW g, NEW r, Inv(h, g, r), NEW n \in Names, NEW op \in {"use", "call", "elem"},
           NEW k \in Arities, CollectName(op, n, k)
    PROVE  IInv'
<1> DEFINE s == Inner.scope
           e == Ev(op, n, k, FALSE)
           home == Home(s, n)
<1>1. /\ pass = "collect" /\ InBody /\ Room(op, 1) /\ check_undeclared(s, n) /\ Collected(e, home)
      /\ UNCHANGED <<up, state, binds, used>>
      /\ nest' = nest /\ current' = current /\ scopeOf' = scopeOf
  BY DEF CollectName
<1>2. /\ s = At(g, Len(prog)) /\ s \in Scopes /\ Len(nest) \in Nat \ {0}
      /\ Len(nest) > 1 /\ Lacking = 0
  BY <1>1, CollectInner, InBodyMeans
<1>3. ScopesOK /\ Ranked(r) /\ prog \in Seq(Event) /\ Package \in Scopes
  BY <1>1, NamesAssumption DEF NamesAssumption, Inv, Text
<1>4. e \in Event /\ e.op = op /\ e.name = n
  BY <1>3 DEF Ev, Event
<1>5. /\ home \in {None, Package, s} /\ (home # None => binds[home][n] # None)
      /\ (home = Package => binds[s][n] = None)
  BY <1>1, CollectHome
<1> HIDE DEF e
<1>6. /\ ScopesOK' /\ Ranked(r)' /\ Opened' = Opened /\ up' = up /\ binds' = binds
      /\ errors' = 0 => errors = 0 /\ home # None
  BY <1>1, <1>3, UndeclaredKeeps
<1>7. Collecting(h, g, r, e, home)
  BY <1>1, <1>2, <1>3, <1>4, <1>5, CollectedIs
<1>8. Fits(e)
  <2>1. Len(prog) + Lacking + Len(nest) - 1 + 1 <= MaxLoopLen
    BY <1>1, RoomMeans
  <2>2. Len(prog) \in Nat
    BY <1>3
  <2>3. QED
    BY <1>1, <1>2, <1>4, <2>1, <2>2 DEF Fits
<1> HIDE DEF home
<1>9. errors' = 0 => errors = 0 /\ Collects(g, e, home)
  BY <1>2, <1>4, <1>5, <1>6 DEF Collects, InsideOps
<1> HIDE DEF s
<1>10. QED
  BY <1>1, <1>2, <1>4, <1>6, <1>7, <1>8, <1>9, CollectsPlain

\* A range loop.
LEMMA CollectForKeeps ==
    ASSUME NEW h, NEW g, NEW r, Inv(h, g, r), NEW n \in Names, CollectFor(n)
    PROVE  IInv'
<1> DEFINE s == Inner.scope
           e == Ev("for", n, 0, FALSE)
           home == Home(s, n)
<1>1. /\ pass = "collect" /\ InBody /\ Room("for", 2) /\ check_undeclared(s, n) /\ Collected(e, home)
      /\ UNCHANGED <<up, state, binds, used>>
      /\ nest' = Append(nest, [op |-> "for", scope |-> s])
      /\ current' = current /\ scopeOf' = scopeOf
  BY DEF CollectFor, Push
<1>2. /\ s = At(g, Len(prog)) /\ s \in Scopes /\ Len(nest) \in Nat \ {0}
      /\ Len(nest) > 1 /\ Lacking = 0
  BY <1>1, CollectInner, InBodyMeans
<1>3. ScopesOK /\ Ranked(r) /\ prog \in Seq(Event) /\ Package \in Scopes /\ 0 \in Arities
  BY <1>1, NamesAssumption DEF NamesAssumption, Inv, Text
<1>4. e \in Event /\ e.op = "for" /\ e.name = n
  BY <1>3 DEF Ev, Event
<1>5. /\ home \in {None, Package, s} /\ (home # None => binds[home][n] # None)
      /\ (home = Package => binds[s][n] = None)
  BY <1>1, CollectHome
<1> HIDE DEF e
<1>6. /\ ScopesOK' /\ Ranked(r)' /\ Opened' = Opened /\ up' = up /\ binds' = binds
      /\ errors' = 0 => errors = 0 /\ home # None
  BY <1>1, <1>3, UndeclaredKeeps
<1>7. Collecting(h, g, r, e, home)
  BY <1>1, <1>2, <1>3, <1>4, <1>5, CollectedIs
<1>8. Fits(e)
  <2>1. Len(prog) + Lacking + Len(nest) - 1 + 2 <= MaxLoopLen
    BY <1>1, RoomMeans
  <2>2. Len(prog) \in Nat
    BY <1>3
  <2>3. QED
    BY <1>1, <1>2, <1>4, <2>1, <2>2 DEF Fits
<1> HIDE DEF home
<1>9. errors' = 0 => errors = 0 /\ Collects(g, e, home)
  BY <1>2, <1>4, <1>5, <1>6 DEF Collects, InsideOps
<1>10. QED
  BY <1>1, <1>2, <1>4, <1>6, <1>7, <1>8, <1>9, CollectsPlain

\* The end of a construct.
LEMMA CollectEndKeeps ==
    ASSUME NEW h, NEW g, NEW r, Inv(h, g, r), CollectEnd
    PROVE  IInv'
<1> DEFINE e == Ev("end", None, 0, FALSE)
<1>1. /\ pass = "collect" /\ InBody /\ Collected(e, None)
      /\ UNCHANGED <<up, state, binds, used>> /\ errors' = errors
      /\ nest' = SubSeq(nest, 1, Len(nest) - 1) /\ current' = current /\ scopeOf' = scopeOf
  BY DEF CollectEnd, Pop, avars
<1>2. Len(nest) \in Nat \ {0} /\ Len(nest) > 1 /\ Lacking = 0
  BY <1>1, CollectInner, InBodyMeans
<1>3. ScopesOK /\ Ranked(r) /\ prog \in Seq(Event) /\ 0 \in Arities /\ errors \in Nat
  BY <1>1, NamesAssumption DEF NamesAssumption, Inv, Text, ScopesOK
<1>4. e \in Event /\ e.op = "end"
  BY <1>3 DEF Ev, Event
<1> HIDE DEF e
<1>5. ScopesOK' /\ Ranked(r)' /\ Opened' = Opened /\ up' = up /\ binds' = binds
  BY <1>1, <1>3, SteadyKeeps
<1>6. Collecting(h, g, r, e, None)
  BY <1>1, <1>3, <1>4, CollectedIs
<1>7. Fits(e)
  <2>1. Len(prog) + Lacking + Len(nest) - 1 <= MaxLoopLen
    BY <1>1 DEF Inv, Budget
  <2>2. Len(prog) \in Nat
    BY <1>3
  <2>3. QED
    BY <1>2, <1>4, <2>1, <2>2 DEF Fits
<1>8. Collects(g, e, None)
  BY <1>4, <1>5 DEF Collects
<1>9. QED
  BY <1>1, <1>2, <1>4, <1>5, <1>6, <1>7, <1>8, CollectsPlain

\* An unused scope.
LEMMA NewScopeIs ==
    ASSUME NEW f \in NewScope
    PROVE  f \in Scopes /\ state[f] = "new"
<1> DEFINE unused == {s \in Scopes : state[s] = "new"}
<1>1. unused # {} /\ f = CHOOSE s \in unused : TRUE
  BY DEF NewScope
<1>2. f \in unused
  BY <1>1
<1>3. QED
  BY <1>2

\* A function of the file gets the scope that is opened.
LEMMA FunctionOwnScope ==
    ASSUME NEW h, NEW g, NEW r, NEW e, NEW home, Collecting(h, g, r, e, home), e.op = "fun",
           NEW f, Opens(f, Package), Len(prog) + 1 <= MaxLoopLen,
           scopeOf' = [scopeOf EXCEPT ![Len(prog) + 1] = f]
    PROVE  OwnScopes' /\ LastScope(f)' /\ scopeOf'[Len(prog) + 1] = f
           /\ \A i \in Functions : scopeOf'[i] = scopeOf[i]
<1> DEFINE m == Len(prog) + 1
<1>1. EventsGrow(e) /\ OwnScopes /\ pass = "collect" /\ ScopesOK
  BY CollectedEvents DEF Collecting, Inv
<1>2. MaxLoopLen \in Nat /\ Package \in Opened /\ Opened \subseteq Scopes
  BY <1>1, NamesAssumption DEF NamesAssumption, ScopesOK, Tree, Opened
<1>3. /\ m \in 1 .. MaxLoopLen /\ m \in Functions' /\ m \notin Functions \cup For
      /\ Functions' = Functions \cup {m} /\ For' = For /\ \A i \in Functions : i <= m
      /\ Functions \subseteq 1 .. MaxLoopLen
  BY <1>1, <1>2 DEF EventsGrow
<1>4. /\ f \in Scopes \ Opened /\ Opened' = Opened \cup {f} /\ f # Package
      /\ up'[f] = Package /\ \A s \in Opened : up'[s] = up[s]
  BY <1>2 DEF Opens
<1> HIDE DEF m
<1>5. /\ scopeOf' \in [1 .. MaxLoopLen -> Scopes \cup {None}] /\ scopeOf'[m] = f
      /\ \A i \in 1 .. MaxLoopLen : i # m => scopeOf'[i] = scopeOf[i]
  BY <1>1, <1>3, <1>4 DEF OwnScopes, m
<1>6. ASSUME NEW i \in 1 .. MaxLoopLen, scopeOf'[i] # None
      PROVE  /\ i \in Functions' /\ scopeOf'[i] \in Opened' \ {Package} /\ i \notin For'
             /\ i # m => scopeOf'[i] \in Opened /\ i \in Functions
  <2>1. CASE i = m
    BY <1>3, <1>4, <1>5, <2>1
  <2>2. CASE i # m
    <3>1. scopeOf[i] # None /\ scopeOf'[i] = scopeOf[i]
      BY <1>5, <1>6, <2>2
    <3>2. i \in Functions /\ i \notin For /\ scopeOf[i] \in Opened \ {Package}
      BY <1>1, <3>1 DEF OwnScopes
    <3>3. QED
      BY <1>3, <1>4, <2>2, <3>1, <3>2
  <2>3. QED
    BY <2>1, <2>2
<1>7. ASSUME NEW i \in 1 .. MaxLoopLen, NEW j \in 1 .. MaxLoopLen,
             scopeOf'[i] = scopeOf'[j], scopeOf'[i] # None
      PROVE  i = j
  <2>1. CASE i = m \/ j = m
    BY <1>4, <1>5, <1>6, <1>7, <2>1
  <2>2. CASE i # m /\ j # m
    BY <1>1, <1>5, <1>7, <2>2 DEF OwnScopes
  <2>3. QED
    BY <2>1, <2>2
<1>8. ASSUME NEW i \in Functions' PROVE scopeOf'[i] # None /\ up'[scopeOf'[i]] = Package
  <2>1. CASE i = m
    BY <1>2, <1>4, <1>5, <2>1, NamesAssumption DEF NamesAssumption
  <2>2. CASE i # m
    <3>1. i \in Functions /\ i \in 1 .. MaxLoopLen /\ scopeOf'[i] = scopeOf[i]
      BY <1>3, <1>5, <2>2
    <3>2. scopeOf[i] # None /\ up[scopeOf[i]] = Package /\ scopeOf[i] \in Opened
      BY <1>1, <3>1 DEF OwnScopes
    <3>3. QED
      BY <1>4, <3>1, <3>2
  <2>3. QED
    BY <2>1, <2>2
<1>9. OwnScopes'
  BY <1>5, <1>6, <1>7, <1>8 DEF OwnScopes
<1>10. LastScope(f)'
  BY <1>3, <1>5 DEF LastScope
<1>11. QED
  BY <1>3, <1>5, <1>9, <1>10 DEF m

\* The header of a function.
LEMMA CollectFunKeeps ==
    ASSUME NEW h, NEW g, NEW r, Inv(h, g, r), NEW n \in Names, NEW k \in Arities, CollectFun(n, k)
    PROVE  IInv'
<1> DEFINE e == Ev("fun", n, k, FALSE)
           N == Len(prog)
<1>1. PICK f \in NewScope :
        /\ DeclareWithScope(Package, n, Declares(e), Cardinality(used[Package]), f)
        /\ nest' = Append(nest, [op |-> "fun", scope |-> f])
        /\ current' = f
        /\ scopeOf' = [scopeOf EXCEPT ![pc + 1] = f]
  BY DEF CollectFun, Push
<1>2. pass = "collect" /\ Len(nest) = 1 /\ Room("fun", k + 2) /\ Collected(e, Package)
  BY DEF CollectFun, Top
<1>3. /\ ScopesOK /\ Ranked(r) /\ prog \in Seq(Event) /\ N \in Nat /\ Package \in Scopes
      /\ k \in Nat /\ errors \in Nat /\ Text(prog, h, g) /\ CollectNest(g) /\ Budget /\ OwnScopes
      /\ pc = N /\ Nested(nest, 1) /\ MaxLoopLen \in Nat
  <2>1. /\ ScopesOK /\ Ranked(r) /\ Text(prog, h, g) /\ Budget /\ OwnScopes
        /\ Nesting(h, g) /\ Len(nest) = h[N]
    BY <1>2, CollectInner DEF Inv
  <2>2. pc = N /\ CollectNest(g) /\ Nested(nest, h[pc])
    BY <1>2, <2>1 DEF Budget, Nesting, Passes
  <2>3. prog \in Seq(Event) /\ errors \in Nat
    BY <2>1 DEF Text, ScopesOK
  <2>4. Package \in Scopes /\ k \in Nat /\ MaxLoopLen \in Nat
    BY NamesAssumption DEF NamesAssumption
  <2>5. N \in Nat /\ Nested(nest, 1)
    BY <1>2, <2>1, <2>2, <2>3
  <2> HIDE DEF N
  <2>6. QED
    BY <2>1, <2>2, <2>3, <2>4, <2>5
<1>4. e \in Event /\ e.op = "fun" /\ e.name = n /\ e.n = k /\ Declares(e) \in Declaration
  BY <1>3 DEF Ev, Event, Declares, Declaration, Kind
<1>5. h[N] = 1 /\ g[N] = 0
  BY <1>2, CollectInner
<1> HIDE DEF e
<1>6. f \in Scopes /\ state[f] = "new"
  BY NewScopeIs
<1>7. /\ ScopesOK' /\ (\E rank : Ranked(rank)') /\ Opens(f, Package)
      /\ \/ errors' = errors /\ OneBinding(Package, n, Declares(e))
         \/ errors' = errors + 1 /\ binds' = binds
  BY <1>1, <1>3, <1>4, <1>6, FunctionKeeps
<1>8. Collecting(h, g, r, e, Package)
  BY <1>2, <1>3, <1>4, CollectedIs
<1>9. EventsGrow(e) /\ pc' = N + 1 /\ pass' = "collect" /\ prog' = Append(prog, e)
  BY <1>3, <1>8, CollectedEvents DEF Collecting
<1>10. Lacking = 0 /\ N + 0 + 1 - 1 + (k + 2) <= MaxLoopLen
  <2>1. Lacking = 0
    BY <1>2, <1>3 DEF Budget
  <2>2. N + Lacking + Len(nest) - 1 + (k + 2) <= MaxLoopLen
    BY <1>2, <1>3, RoomMeans
  <2>3. QED
    BY <1>2, <2>1, <2>2
<1>11. PICK h2, g2 : Text(prog', h2, g2) /\ \A i \in 0 .. N : h2[i] = h[i] /\ g2[i] = g[i]
  BY <1>3, <1>4, <1>5, <1>9, TextGrows DEF InsideOps
<1>12. h2[N + 1] = 2 /\ g2[N + 1] = N + 1
  <2>1. N + 1 \in 1 .. Len(prog') /\ prog'[N + 1] = e
    BY <1>3, <1>9 DEF EventsGrow
  <2>2. Moves(e, N + 1, h2[(N + 1) - 1], h2[N + 1], g2[(N + 1) - 1], g2[N + 1])
    BY <1>11, <2>1 DEF Text
  <2>3. QED
    BY <1>4, <2>2 DEF Moves, Declarators
<1>13. Nested(nest', 2) /\ Len(nest') = 2 /\ nest'[1] = nest[1] /\ nest'[2].scope = f
  <2> DEFINE level == [op |-> "fun", scope |-> f]
  <2>1. level \in Level /\ level.op = "fun" /\ level.scope = f
    BY <1>6 DEF Level
  <2>2. nest' = Append(nest, level)
    BY <1>1
  <2> HIDE DEF level
  <2>3. PICK m \in Nat \ {0} : m = 1
    OBVIOUS
  <2>4. Nested(nest, m) /\ level.op = IF m = 1 THEN "fun" ELSE "for"
    BY <1>3, <2>1, <2>3
  <2>5. /\ Nested(nest', m + 1) /\ \A i \in 1 .. m : nest'[i] = nest[i]
        /\ nest'[m + 1] = level
    <3>1. level \in Level
      BY <2>1
    <3>2. OneMore(nest, m, level, Append(nest, level))
      BY <2>4, <3>1, NestPushes
    <3>3. QED
      BY <2>2, <3>2 DEF OneMore
  <2>6. Len(nest') = m + 1
    BY <2>5 DEF Nested
  <2>7. QED
    BY <2>1, <2>3, <2>5, <2>6
<1>14. Budget'
  <2>1. LackIn(prog') = k
    BY <1>3, <1>4, <1>9, LackInGrows
  <2>2. N + 1 + k + Len(nest') - 1 <= MaxLoopLen
    BY <1>3, <1>10, <1>13
  <2>3. QED
    BY <1>3, <1>8, <1>13, <2>1, <2>2, CollectedBudget
<1>15. /\ OwnScopes' /\ LastScope(f)' /\ scopeOf'[N + 1] = f
       /\ \A i \in Functions : scopeOf'[i] = scopeOf[i]
  <2>1. N + 1 <= MaxLoopLen
    BY <1>3, <1>10
  <2>2. QED
    BY <1>1, <1>3, <1>4, <1>7, <1>8, <2>1, FunctionOwnScope
<1>16. Nesting(h2, g2)'
  <2>1. nest'[1].scope = Package /\ \A i \in 2 .. Len(nest') : nest'[i].scope = scopeOf'[g2[pc']]
    BY <1>2, <1>3, <1>9, <1>12, <1>13, <1>15 DEF CollectNest
  <2>2. CollectNest(g2)'
    BY <1>1, <1>15, <2>1 DEF CollectNest
  <2>3. QED
    BY <1>1, <1>6, <1>9, <1>12, <1>13, <2>2 DEF Nesting, Passes
<1>17. Records' /\ res'.generate = <<>>
  BY <1>8, CollectedRecords
<1>18. errors' = 0 => Flawless(g2)'
  <2>1. SUFFICES ASSUME errors' = 0 PROVE Flawless(g2)'
    OBVIOUS
  <2>2. errors = 0 /\ OneBinding(Package, n, Declares(e))
    BY <1>3, <1>7, <2>1
  <2>3. Collects(g, e, Package) /\ Flawless(g)
    BY <1>4, <1>5, <2>2 DEF Collects, At, DeclareOps, Inv
  <2>4. Extends(g2, g) /\ e.op \notin InsideOps
    BY <1>4, <1>11 DEF Extends, InsideOps
  <2>5. QED
    BY <1>8, <1>11, <1>15, <2>3, <2>4, CollectedFlawless
<1>19. GeneratedAll'
  <2>1. \A i \in Names_' : ~ (i <= Len(res'.generate))
    BY <1>3, <1>9, <1>17 DEF EventsGrow
  <2>2. QED
    BY <2>1 DEF GeneratedAll
<1>20. PICK rank : Ranked(rank)'
  BY <1>7
<1>21. Inv(h2, g2, rank)'
  BY <1>7, <1>9, <1>11, <1>14, <1>15, <1>16, <1>17, <1>18, <1>19, <1>20 DEF Inv
<1>22. QED
  BY <1>21 DEF IInv

-----------------------------------------------------------------------------
\* The second pass

\* A step of the second pass, but for what it does to the scopes.
Checking(h, g, r, home) ==
    /\ Inv(h, g, r) /\ pass = "check" /\ pc < Len(prog) /\ home \in Scopes \cup {None}
    /\ prog' = prog /\ pc' = pc + 1 /\ pass' \in {"check", "crashed"}
    /\ res' = [res EXCEPT !["check"] = Append(@, home)]

\* The text stays, and the next event is in it.
LEMMA TextStays ==
    ASSUME NEW h, NEW g, NEW r, Inv(h, g, r), prog' = prog
    PROVE  /\ Text(prog', h, g) /\ Functions' = Functions /\ For' = For /\ Names_' = Names_
           /\ Len(prog) \in Nat /\ DOMAIN prog = 1 .. Len(prog) /\ pc \in 0 .. Len(prog)
           /\ Functions \subseteq 1 .. Len(prog) /\ For \subseteq 1 .. Len(prog)
           /\ Names_ \subseteq 1 .. Len(prog) /\ Len(prog) <= MaxLoopLen /\ MaxLoopLen \in Nat
<1>1. Text(prog, h, g) /\ Budget
  BY DEF Inv
<1>2. prog \in Seq(Event)
  BY <1>1 DEF Text
<1>3. Functions' = Functions /\ For' = For /\ Names_' = Names_
  BY DEF Functions, For, Names_, Of, Events
<1>4. DOMAIN prog = 1 .. Len(prog) /\ Len(prog) \in Nat
  BY <1>2
<1>5. Functions \subseteq DOMAIN prog /\ For \subseteq DOMAIN prog /\ Names_ \subseteq DOMAIN prog
  BY DEF Functions, For, Names_, Of, Events
<1>6. QED
  BY <1>1, <1>3, <1>4, <1>5, NamesAssumption DEF Budget, NamesAssumption

\* A step of the checker notes where it found the name, and nothing else of its kind.
LEMMA CheckedRecords ==
    ASSUME NEW h, NEW g, NEW r, NEW home, Checking(h, g, r, home)
    PROVE  /\ Records' /\ Budget'
           /\ res'.collect = res.collect /\ res'.generate = <<>>
           /\ Len(res.check) = pc /\ Len(res'.check) = pc + 1 /\ res'.check[pc + 1] = home
           /\ \A i \in 1 .. pc : res'.check[i] = res.check[i]
<1> DEFINE S == Scopes \cup {None}
           c == res["check"]
           d == Append(c, home)
<1>1. /\ Records /\ Budget /\ pass = "check" /\ pass' \in {"check", "crashed"} /\ home \in S
      /\ pc < Len(prog) /\ prog' = prog /\ pc' = pc + 1
  BY DEF Checking, Inv
<1>2. Len(prog) \in Nat /\ pc \in Nat
  BY TextStays DEF Checking
<1>3. /\ res \in [Passes -> Seq(S)] /\ Len(res["collect"]) = Len(prog) /\ Len(c) = pc
      /\ res["generate"] = <<>>
  BY <1>1 DEF Records
<1>4. res' = [res EXCEPT !["check"] = d]
  BY DEF Checking
<1>5. c \in Seq(S)
  BY <1>3 DEF Passes
<1> HIDE DEF S
<1>6. d \in Seq(S) /\ Len(d) = pc + 1 /\ d[pc + 1] = home /\ \A i \in 1 .. pc : d[i] = c[i]
  BY <1>1, <1>3, <1>5
<1> HIDE DEF d
<1>7. /\ res' \in [Passes -> Seq(S)] /\ res'["check"] = d
      /\ res'["collect"] = res["collect"] /\ res'["generate"] = <<>>
  BY <1>3, <1>4, <1>6 DEF Passes
<1>8. Records'
  <2>1. Passes' = Passes /\ Len(<<>>) = 0
    BY DEF Passes
  <2>2. QED
    BY <1>1, <1>2, <1>3, <1>6, <1>7, <2>1 DEF Records, S
<1>9. Budget'
  BY <1>1, <1>2 DEF Budget
<1>10. QED
  BY <1>3, <1>6, <1>7, <1>8, <1>9

\* Only in the last function's scope can a name turn up after the first pass,
\* that of an array of the package.
FunctionsKept(g, e) ==
    \A f \in Functions, n \in Names :
        binds'[scopeOf[f]][n] # binds[scopeOf[f]][n] =>
            /\ g[pc] = 0 /\ e.op = "array" /\ n = e.name
            /\ \A j \in Functions : j <= f

BindingsGrow ==
    \A s \in Scopes, n \in Names : binds[s][n] # None => binds'[s][n] = binds[s][n]

\* What a step of the second pass finds.
Finds(g, e, home) ==
    e.op # "end" /\ g[pc] # 0 => /\ home \in LoopTables' \cup {Near(g, pc, e.name)}
                                 /\ binds'[scopeOf[g[pc]]] = binds[scopeOf[g[pc]]]

FindsElement(g, e) ==
    e.op = "elem" => LET d == binds[Near(g, pc, e.name)][e.name].decl
                     IN  d.kind = "array" /\ d.mut /\ binds' = binds

\* What is known of the names survives a step of the checker.
LEMMA CheckedFlawless ==
    ASSUME NEW h, NEW g, NEW r, NEW home, Checking(h, g, r, home), Flawless(g),
           NEW e, e = prog[pc + 1],
           \A i \in Functions : scopeOf'[i] = scopeOf[i], LoopTables \subseteq LoopTables',
           BindingsGrow, FunctionsKept(g, e), Finds(g, e, home), FindsElement(g, e),
           LoopArrays(g)'
    PROVE  Flawless(g)'
<1> DEFINE N == Len(prog)
<1>1. /\ Inv(h, g, r) /\ pass = "check" /\ pc < N /\ prog' = prog /\ pass' # "collect"
      /\ OwnScopes /\ Text(prog, h, g)
  BY DEF Checking, Inv
<1>2. /\ N \in Nat /\ pc \in Nat /\ Functions' = Functions /\ Names_' = Names_
      /\ Names_ \subseteq 1 .. N /\ Functions \subseteq 1 .. MaxLoopLen /\ pc + 1 \in 1 .. N
      /\ DOMAIN prog = 1 .. N
  BY <1>1, TextStays
<1>3. /\ res'.collect = res.collect /\ Len(res.check) = pc /\ Len(res'.check) = pc + 1
      /\ res'.check[pc + 1] = home /\ \A i \in 1 .. pc : res'.check[i] = res.check[i]
  BY CheckedRecords
<1>4. \A i \in 0 .. N : g[i] # 0 =>
         /\ g[i] \in Functions /\ scopeOf[g[i]] \in Scopes /\ scopeOf'[g[i]] = scopeOf[g[i]]
         /\ scopeOf[g[i]] # Package
  <2>1. SUFFICES ASSUME NEW i \in 0 .. N, g[i] # 0
                 PROVE  /\ g[i] \in Functions /\ scopeOf[g[i]] \in Scopes
                        /\ scopeOf'[g[i]] = scopeOf[g[i]] /\ scopeOf[g[i]] # Package
    OBVIOUS
  <2>2. g[i] \in Functions
    BY <1>1, <2>1, TextMeans, FunctionsAre
  <2>3. QED
    BY <1>1, <1>2, <2>2 DEF OwnScopes, Opened
<1>5. \A i \in Names_ : i - 1 \in 0 .. N /\ i \in 1 .. N /\ prog[i].name \in Names
  <2>1. SUFFICES ASSUME NEW i \in Names_ PROVE i - 1 \in 0 .. N /\ i \in 1 .. N /\ prog[i].name \in Names
    OBVIOUS
  <2>2. i \in 1 .. N /\ prog[i].op # "end"
    BY <1>2 DEF Names_
  <2>3. prog[i].name \in Names
    BY <1>1, <2>2 DEF Text, Moves
  <2>4. QED
    BY <1>2, <2>2, <2>3
<1>6. \A i \in Names_ : At(g, i - 1)' = At(g, i - 1) /\ At(g, i - 1) \in Scopes
  BY <1>4, <1>5, NamesAssumption DEF At, NamesAssumption
<1> HIDE DEF N
<1>7. Found(g)'
  <2>1. SUFFICES ASSUME NEW i \in Names_
                 PROVE  /\ res.collect[i] \in {Package, At(g, i - 1)}
                        /\ binds'[res.collect[i]][prog[i].name] # None
                        /\ prog[i].op \in DeclareOps \cup {"assign"} => res.collect[i] = At(g, i - 1)
    BY <1>1, <1>2, <1>3, <1>6 DEF Found, DeclareOps, Declarators
  <2>2. /\ res.collect[i] \in {Package, At(g, i - 1)}
        /\ binds[res.collect[i]][prog[i].name] # None
        /\ prog[i].op \in DeclareOps \cup {"assign"} => res.collect[i] = At(g, i - 1)
    BY DEF Flawless, Found
  <2>3. res.collect[i] \in Scopes
    BY <1>6, <2>2, NamesAssumption DEF NamesAssumption
  <2>4. QED
    BY <1>5, <2>2, <2>3 DEF BindingsGrow
<1>8. Stands(g)'
  <2>1. SUFFICES ASSUME NEW i \in Names_, prog[i].op \in DeclareOps
                 PROVE  binds'[At(g, i - 1)][prog[i].name].decl = Declares(prog[i])
    BY <1>1, <1>2, <1>6 DEF Stands, DeclareOps, Declarators, Declares, Kind
  <2>2. /\ binds[At(g, i - 1)][prog[i].name].decl = Declares(prog[i])
        /\ binds[At(g, i - 1)][prog[i].name] # None
    BY <2>1 DEF Flawless, Stands, Found
  <2>3. QED
    BY <1>5, <1>6, <2>2 DEF BindingsGrow
<1>9. NoLater(g)'
  BY <1>1, <1>2, <1>3 DEF Flawless, NoLater
\* A name that is new in a function's scope.
<1>10. ASSUME NEW i \in Names_, g[i - 1] # 0, res.collect[i] = Package,
              binds[scopeOf[g[i - 1]]][prog[i].name] = None,
              binds'[scopeOf[g[i - 1]]][prog[i].name] # None
       PROVE  /\ g[pc] = 0 /\ e.op = "array" /\ e.name = prog[i].name
              /\ \A j \in Functions : j <= g[i - 1]
  BY <1>4, <1>5, <1>10 DEF FunctionsKept
<1>11. Captures(g)'
  <2> DEFINE Later(i) == \E j \in Names_ : /\ i < j /\ g[j - 1] = g[i - 1]
                                          /\ prog[j].name = prog[i].name
                                          /\ prog[j].op \in DeclareOps \cup {"assign"}
             Again(i) == /\ \A f \in Functions : f <= g[i - 1]
                         /\ \E j \in Names_ : /\ g[j - 1] = 0 /\ prog[j].name = prog[i].name
                                              /\ prog[j].op = "array"
  <2>0. SUFFICES ASSUME NEW i \in Names_', res'.collect[i] = Package, g[i - 1] # 0,
                        binds'[scopeOf'[g[i - 1]]][prog'[i].name] # None
                 PROVE  Later(i)' \/ (pass' # "collect" /\ Again(i)')
    BY DEF Captures, DeclareOps, Declarators
  <2>1. /\ i \in Names_ /\ res.collect[i] = Package /\ g[i - 1] # 0
        /\ binds'[scopeOf[g[i - 1]]][prog[i].name] # None
    <3>1. i \in Names_ /\ prog' = prog /\ res'.collect = res.collect
      BY <1>1, <1>2, <1>3, <2>0
    <3>2. scopeOf'[g[i - 1]] = scopeOf[g[i - 1]]
      BY <1>4, <1>5, <2>0, <3>1
    <3>3. QED
      BY <2>0, <3>1, <3>2
  <2>5. (Later(i)' <=> Later(i)) /\ (Again(i)' <=> Again(i)) /\ pass' # "collect"
    BY <1>1, <1>2 DEF DeclareOps, Declarators
  <2>2. ASSUME binds[scopeOf[g[i - 1]]][prog[i].name] # None
        PROVE  Later(i) \/ Again(i)
    BY <2>1, <2>2 DEF Flawless, Captures
  <2>3. ASSUME binds[scopeOf[g[i - 1]]][prog[i].name] = None
        PROVE  Later(i) \/ Again(i)
    <3>1. /\ g[pc] = 0 /\ e.op = "array" /\ e.name = prog[i].name
          /\ \A j \in Functions : j <= g[i - 1]
      BY <1>10, <2>1, <2>3
    <3>2. pc + 1 \in Names_ /\ (pc + 1) - 1 = pc
      BY <1>2, <3>1 DEF Names_
    <3>3. QED
      BY <3>1, <3>2
  <2> HIDE DEF Later, Again
  <2>4. QED
    BY <2>2, <2>3, <2>5
<1>12. ASSUME NEW i \in Names_, g[i - 1] # 0, i <= pc
       PROVE  Near(g, i - 1, prog[i].name)' = Near(g, i - 1, prog[i].name)
  <2> DEFINE s == scopeOf[g[i - 1]]
             n == prog[i].name
  <2>1. s \in Scopes /\ n \in Names /\ scopeOf'[g[i - 1]] = s
    BY <1>4, <1>5, <1>12
  <2>2. binds[s][n] # None <=> binds'[s][n] # None
    <3>1. CASE binds[s][n] # None
      BY <2>1, <3>1 DEF BindingsGrow
    <3>2. CASE binds[s][n] = None
      <4>1. SUFFICES ASSUME binds'[s][n] # None PROVE FALSE
        BY <3>2
      <4>2. res.collect[i] \in {Package, s} /\ binds[res.collect[i]][n] # None
        BY <1>12 DEF Flawless, Found, At
      <4>3. res.collect[i] = Package
        BY <3>2, <4>2
      <4>4. g[pc] = 0 /\ e.op = "array" /\ e.name = n
        BY <1>10, <1>12, <3>2, <4>1, <4>3
      <4>5. pc + 1 \in Names_ /\ (pc + 1) - 1 = pc /\ i < pc + 1
        BY <1>2, <1>5, <1>12, <4>4 DEF Names_
      <4>6. QED
        BY <4>3, <4>4, <4>5 DEF Flawless, NoLater
    <3>3. QED
      BY <3>1, <3>2
  <2>3. Near(g, i - 1, prog[i].name)' = IF binds'[s][n] # None THEN s ELSE Package
    BY <1>1, <2>1 DEF Near
  <2>4. QED
    BY <2>2, <2>3 DEF Near
<1>13. ASSUME e.op # "end", g[pc] # 0
       PROVE  Near(g, pc, e.name) = IF binds'[scopeOf'[g[pc]]][e.name] # None
                                    THEN scopeOf'[g[pc]] ELSE Package
  <2>1. pc \in 0 .. N
    BY <1>2 DEF N
  <2>2. QED
    BY <1>4, <1>13, <2>1 DEF Near, Finds
<1>14. \A i \in Names_ : i <= Len(res'.check) => i <= pc \/ i = pc + 1
  BY <1>2, <1>3, <1>5
<1>15. Checked(g)'
  <2>1. SUFFICES ASSUME NEW i \in Names_, i <= Len(res'.check), g[i - 1] # 0
                 PROVE  res'.check[i] \in LoopTables' \cup {Near(g, i - 1, prog[i].name)'}
    BY <1>1, <1>2 DEF Checked
  <2>2. CASE i <= pc
    <3>1. res'.check[i] = res.check[i] /\ i <= Len(res.check)
      BY <1>2, <1>3, <1>5, <2>2
    <3>2. res.check[i] \in LoopTables \cup {Near(g, i - 1, prog[i].name)}
      BY <2>1, <3>1 DEF Flawless, Checked
    <3>3. QED
      BY <1>12, <2>1, <2>2, <3>1, <3>2
  <2>3. CASE i = pc + 1
    <3>1. i - 1 = pc /\ prog[i] = e /\ e.op # "end" /\ prog'[i] = e
      BY <1>1, <1>2, <2>3 DEF Names_
    <3>2. Near(g, i - 1, prog[i].name)' = Near(g, pc, e.name)
      BY <1>13, <2>1, <3>1 DEF Near
    <3>3. QED
      BY <1>3, <2>1, <2>3, <3>1, <3>2 DEF Finds
  <2>4. QED
    BY <1>14, <2>1, <2>2, <2>3
<1>16. ElementsChecked(g)'
  <2>1. SUFFICES ASSUME NEW i \in Names_, i <= Len(res'.check), prog[i].op = "elem"
                 PROVE  LET d == binds'[Near(g, i - 1, prog[i].name)'][prog[i].name].decl
                        IN  d.kind = "array" /\ d.mut
    BY <1>1, <1>2 DEF ElementsChecked
  <2>2. g[i - 1] # 0
    <3>1. Moves(prog[i], i, h[i - 1], h[i], g[i - 1], g[i]) /\ i - 1 \in 0 .. N
      BY <1>1, <1>5 DEF Text, N
    <3>2. h[i - 1] > 1
      BY <2>1, <3>1 DEF Moves, Declarators
    <3>3. QED
      BY <1>1, <3>1, <3>2, TextMeans DEF N
  <2> DEFINE near == Near(g, i - 1, prog[i].name)
             n == prog[i].name
  <2>3. CASE i <= pc
    <3>1. i <= Len(res.check)
      BY <1>3, <2>3
    <3>2. binds[near][n].decl.kind = "array" /\ binds[near][n].decl.mut
      BY <2>1, <3>1 DEF Flawless, ElementsChecked
    <3>3. binds[near][n] # None /\ near \in Scopes
      <4>1. res.collect[i] \in {Package, scopeOf[g[i - 1]]} /\ binds[res.collect[i]][n] # None
        BY <2>2 DEF Flawless, Found, At
      <4>2. QED
        BY <1>4, <1>5, <2>2, <4>1, NamesAssumption DEF Near, NamesAssumption
    <3>4. binds'[near][n] = binds[near][n]
      BY <1>5, <3>3 DEF BindingsGrow
    <3>5. Near(g, i - 1, prog[i].name)' = near
      BY <1>12, <2>2, <2>3
    <3> HIDE DEF near
    <3>6. QED
      BY <3>2, <3>4, <3>5
  <2>4. CASE i = pc + 1
    <3>1. i - 1 = pc /\ prog[i] = e /\ e.op = "elem" /\ prog'[i] = e
      BY <1>1, <1>2, <2>1, <2>4
    <3>2. Near(g, i - 1, prog[i].name)' = Near(g, pc, e.name)
      BY <1>13, <2>2, <3>1 DEF Near
    <3>3. QED
      BY <3>1, <3>2 DEF FindsElement
  <2>5. QED
    BY <1>14, <2>1, <2>3, <2>4
<1>17. QED
  BY <1>7, <1>8, <1>9, <1>11, <1>15, <1>16 DEF Flawless

\* The second pass works in the scope of the last function outside functions,
\* and inside in that of the function and those of its loops.
LEMMA CheckInner ==
    ASSUME NEW h, NEW g, NEW r, Inv(h, g, r), pass = "check"
    PROVE  /\ Len(nest) = h[pc] /\ Len(nest) \in Nat \ {0}
           /\ g[pc] = 0 <=> Len(nest) = 1
           /\ Inner.scope \in Opened \cup {None}
           /\ g[pc] = 0 => LastScope(Inner.scope)
           /\ g[pc] # 0 => /\ nest[2].scope = scopeOf[g[pc]] /\ Inner.scope \in Opened
                           /\ nest[2].scope \in Opened /\ up[nest[2].scope] = Package
                           /\ g[pc] \in Functions
           /\ Len(nest) = 2 => Inner.scope = scopeOf[g[pc]]
           /\ Len(nest) > 2 => LoopLevel(Len(nest))
<1> DEFINE m == Len(nest)
<1>1. /\ Text(prog, h, g) /\ OwnScopes /\ Nested(nest, h[pc]) /\ CheckNest(g)
      /\ pc \in 0 .. Len(prog) /\ Functions \subseteq 1 .. Len(prog) /\ Len(prog) \in Nat
      /\ Len(prog) <= MaxLoopLen /\ MaxLoopLen \in Nat
  <2>1. Nesting(h, g) /\ pass \in Passes /\ Budget
    BY DEF Inv, Passes
  <2>2. /\ Len(prog) \in Nat /\ DOMAIN prog = 1 .. Len(prog)
    BY DEF Inv, Text
  <2>3. Functions \subseteq DOMAIN prog
    BY DEF Functions, Of, Events
  <2>4. QED
    BY <2>1, <2>2, <2>3, NamesAssumption DEF Inv, Nesting, Budget, NamesAssumption
<1>2. /\ h[pc] \in Nat \ {0} /\ (g[pc] = 0 <=> h[pc] = 1)
      /\ (g[pc] # 0 => g[pc] \in Functions)
  BY <1>1, TextMeans, FunctionsAre
<1>3. m = h[pc]
  BY <1>1 DEF Nested
<1>4. \A f \in Functions : scopeOf[f] \in Opened /\ up[scopeOf[f]] = Package
  BY <1>1 DEF OwnScopes
<1>5. /\ LastScope(nest[1].scope) /\ (m > 1 => nest[2].scope = scopeOf[g[pc]])
      /\ \A k \in 3 .. m : LoopLevel(k)
  BY <1>1 DEF CheckNest
<1>6. Inner.scope = nest[m].scope
  BY DEF Inner
<1> HIDE DEF m
<1>7. m > 2 => LoopLevel(m)
  BY <1>2, <1>3, <1>5
<1>8. CASE g[pc] = 0
  <2>1. m = 1 /\ LastScope(Inner.scope)
    BY <1>2, <1>3, <1>5, <1>6, <1>8
  <2>2. Inner.scope \in Opened \cup {None}
    BY <1>4, <2>1 DEF LastScope
  <2>3. QED
    BY <1>2, <1>3, <1>8, <2>1, <2>2 DEF m
<1>9. CASE g[pc] # 0
  <2>1. m > 1 /\ m # 1 /\ nest[2].scope = scopeOf[g[pc]] /\ g[pc] \in Functions
    BY <1>2, <1>3, <1>5, <1>9
  <2>2. nest[2].scope \in Opened /\ up[nest[2].scope] = Package
    BY <1>4, <2>1
  <2>3. Inner.scope \in Opened
    <3>1. CASE m = 2
      BY <1>6, <2>2, <3>1
    <3>2. CASE m # 2
      <4>1. m > 2 /\ m \in Nat
        BY <1>2, <1>3, <2>1, <3>2
      <4>2. QED
        BY <1>6, <1>7, <4>1 DEF LoopLevel, m
    <3>3. QED
      BY <3>1, <3>2
  <2>4. QED
    BY <1>2, <1>3, <1>6, <1>7, <1>9, <2>1, <2>2, <2>3 DEF m
<1>10. QED
  BY <1>8, <1>9

\* What a lookup of the second pass finds inside a function, without errors.
LEMMA CheckHome ==
    ASSUME NEW h, NEW g, NEW r, Inv(h, g, r), pass = "check", errors = 0, pc < Len(prog),
           NEW e, e = prog[pc + 1], e.op # "end", g[pc] # 0
    PROVE  LET home == Home(Inner.scope, e.name)
           IN  /\ home \in Opened /\ binds[home][e.name] # None
               /\ \/ home = Near(g, pc, e.name)
                  \/ \E k \in 3 .. Len(nest) : home = nest[k].scope
<1> DEFINE n == e.name
           s == scopeOf[g[pc]]
<1>1. /\ ScopesOK /\ Ranked(r) /\ Flawless(g) /\ CheckNest(g) /\ pc \in Nat
      /\ pc + 1 \in Names_
  <2>1. pc \in 0 .. Len(prog) /\ DOMAIN prog = 1 .. Len(prog) /\ Len(prog) \in Nat
    BY DEF Inv, Budget, Text
  <2>2. pc + 1 \in Names_
    BY <2>1 DEF Names_
  <2>3. QED
    BY <2>1, <2>2 DEF Inv, Nesting
<1>2. /\ Len(nest) \in Nat \ {0} /\ Len(nest) # 1 /\ nest[2].scope = s /\ s \in Opened
      /\ up[s] = Package /\ Inner.scope \in Opened /\ Inner.scope = nest[Len(nest)].scope
  BY CheckInner DEF Inner
<1>3. res.collect[pc + 1] \in {Package, s} /\ binds[res.collect[pc + 1]][n] # None
  <2>1. (pc + 1) - 1 = pc
    BY <1>1
  <2>2. QED
    BY <1>1, <2>1 DEF Flawless, Found, At
<1>4. Home(s, n) = Near(g, pc, n)
  <2>1. Home(s, n) = IF binds[s][n] # None THEN s
                     ELSE IF binds[Package][n] # None THEN Package ELSE None
    BY <1>1, <1>2, HomeOfFunction
  <2>2. QED
    BY <1>3, <2>1 DEF Near
<1>5. Near(g, pc, n) # None
  BY <1>2, <1>3, NamesAssumption DEF Near, Opened, NamesAssumption
<1>6. \/ Home(Inner.scope, n) = Home(s, n)
      \/ \E k \in 3 .. Len(nest) : Home(Inner.scope, n) = nest[k].scope
  <2> DEFINE m == Len(nest)
  <2>1. m \in Nat /\ m > 1
    <3>1. m \in Nat \ {0} /\ m # 1
      BY <1>2
    <3> HIDE DEF m
    <3>2. QED
      BY <3>1
  <2>2. \A k \in 3 .. Len(nest) : LoopLevel(k)
    BY <1>1 DEF CheckNest
  <2>3. \/ Home(nest[Len(nest)].scope, n) = Home(nest[2].scope, n)
        \/ \E k \in 3 .. Len(nest) : /\ Home(nest[Len(nest)].scope, n) = nest[k].scope
                                     /\ binds[nest[k].scope][n] # None
    BY <1>1, <1>2, <2>1, <2>2, HomeInLoops
  <2>4. QED
    BY <1>2, <2>3
<1>7. Home(Inner.scope, n) # None
  <2>1. CASE Home(Inner.scope, n) = Home(s, n)
    BY <1>4, <1>5, <2>1
  <2>2. CASE \E k \in 3 .. Len(nest) : Home(Inner.scope, n) = nest[k].scope
    <3>1. PICK k \in 3 .. Len(nest) : Home(Inner.scope, n) = nest[k].scope
      BY <2>2
    <3>2. nest[k].scope \in Opened
      BY <1>1 DEF CheckNest, LoopLevel
    <3>3. QED
      BY <3>1, <3>2, NamesAssumption DEF Opened, NamesAssumption
  <2>3. QED
    BY <1>6, <2>1, <2>2
<1>8. Home(Inner.scope, n) \in Opened /\ binds[Home(Inner.scope, n)][n] # None
  BY <1>1, <1>2, <1>7, HomeBinds
<1>9. QED
  BY <1>4, <1>6, <1>8

\* The open constructs after event e, which may open one that works in scope s.
NestStep(e, s, q) ==
    q = IF e.op \in {"fun", "for"} THEN Append(nest, [op |-> e.op, scope |-> s])
        ELSE IF e.op = "end" THEN SubSeq(nest, 1, Len(nest) - 1) ELSE nest

Followed(h, g, e, s, q) ==
    /\ Nested(nest, h[pc]) /\ Nested(q, h[pc + 1])
    /\ Moves(e, pc + 1, h[pc], h[pc + 1], g[pc], g[pc + 1])
    /\ h[pc] \in Nat \ {0} /\ h[pc + 1] \in Nat \ {0}
    /\ \A k \in 1 .. h[pc] : k <= h[pc + 1] => q[k] = nest[k]
    /\ e.op \in {"fun", "for"} => q[h[pc + 1]].scope = s
    /\ pc \in Nat /\ Len(prog) \in Nat
    /\ g[pc] = 0 <=> h[pc] = 1
    /\ g[pc + 1] = 0 <=> h[pc + 1] = 1

\* The open constructs follow the text in every pass.
LEMMA NestFollows ==
    ASSUME NEW h, NEW g, NEW r, Inv(h, g, r), pass \in Passes, pc < Len(prog),
           NEW e, e = prog[pc + 1], NEW s \in Scopes \cup {None}, NEW q, NestStep(e, s, q)
    PROVE  Followed(h, g, e, s, q)
<1>1. Text(prog, h, g) /\ Nested(nest, h[pc]) /\ pc \in 0 .. Len(prog)
  BY DEF Inv, Nesting, Budget
<1>2. Len(prog) \in Nat /\ pc \in Nat /\ pc + 1 \in 0 .. Len(prog) /\ pc + 1 \in 1 .. Len(prog)
  BY <1>1 DEF Text
<1>3. Moves(e, pc + 1, h[pc], h[pc + 1], g[pc], g[pc + 1])
  <2>1. (pc + 1) - 1 = pc
    BY <1>2
  <2>2. QED
    BY <1>1, <1>2, <2>1 DEF Text
<1>4. /\ h[pc] \in Nat \ {0} /\ h[pc + 1] \in Nat \ {0}
      /\ g[pc] = 0 <=> h[pc] = 1
      /\ g[pc + 1] = 0 <=> h[pc + 1] = 1
  BY <1>1, <1>2, TextMeans
<1>5. CASE e.op \in {"fun", "for"}
  <2> DEFINE level == [op |-> e.op, scope |-> s]
             m == h[pc]
  <2>1. level \in Level /\ level.scope = s /\ level.op = e.op
    BY <1>5 DEF Level
  <2>2. h[pc + 1] = m + 1 /\ e.op = IF m = 1 THEN "fun" ELSE "for"
    BY <1>3, <1>4, <1>5 DEF Moves, Declarators
  <2>3. q = Append(nest, level)
    BY <1>5 DEF NestStep
  <2>6. m \in Nat \ {0} /\ Nested(nest, m)
    BY <1>1, <1>4
  <2> HIDE DEF level, m
  <2>4. /\ Nested(Append(nest, level), m + 1)
        /\ \A k \in 1 .. m : Append(nest, level)[k] = nest[k]
        /\ Append(nest, level)[m + 1] = level
    <3>1. level.op = IF m = 1 THEN "fun" ELSE "for"
      BY <2>1, <2>2
    <3>2. Nested(nest, m) /\ m \in Nat \ {0} /\ level \in Level
      BY <2>1, <2>6
    <3>3. OneMore(nest, m, level, Append(nest, level))
      BY <3>1, <3>2, NestPushes
    <3>4. QED
      BY <3>3 DEF OneMore
  <2>5. QED
    BY <1>1, <1>2, <1>3, <1>4, <2>1, <2>2, <2>3, <2>4 DEF m, Followed
<1>6. CASE e.op = "end"
  <2> DEFINE m == h[pc]
  <2>1. h[pc + 1] = m - 1 /\ m > 1
    BY <1>3, <1>6 DEF Moves, Declarators
  <2>2. q = SubSeq(nest, 1, Len(nest) - 1)
    BY <1>6 DEF NestStep
  <2>6. m \in Nat /\ Nested(nest, m)
    BY <1>1, <1>4
  <2> HIDE DEF m
  <2>3. Nested(q, m - 1) /\ \A k \in 1 .. m - 1 : q[k] = nest[k]
    <3>1. m > 1
      BY <2>1
    <3>2. OneLess(nest, m, SubSeq(nest, 1, Len(nest) - 1))
      BY <2>6, <3>1, NestPops
    <3>3. QED
      BY <2>2, <3>2 DEF OneLess
  <2>4. \A k \in 1 .. m : k <= m - 1 => k \in 1 .. m - 1
    BY <1>4 DEF m
  <2>5. QED
    BY <1>1, <1>2, <1>3, <1>4, <1>6, <2>1, <2>3, <2>4 DEF m, Followed
<1>7. CASE e.op \notin {"fun", "for", "end"}
  <2>1. q = nest /\ h[pc + 1] = h[pc]
    BY <1>3, <1>7 DEF Moves, NestStep
  <2>2. QED
    BY <1>1, <1>2, <1>3, <1>4, <1>7, <2>1 DEF Followed
<1>8. QED
  BY <1>5, <1>6, <1>7

\* The open constructs after a step of the second pass that opens no scope.
LEMMA CheckedNesting ==
    ASSUME NEW h, NEW g, NEW r, NEW home, Checking(h, g, r, home), NEW e, e = prog[pc + 1],
           e.op # "for", scopeOf' = scopeOf, current' = current, Opened' = Opened, up' = up,
           NestStep(e, scopeOf[pc + 1], nest')
    PROVE  OwnScopes' /\ Nesting(h, g)' /\ LoopScopes' = LoopScopes
<1>1. /\ Inv(h, g, r) /\ pass = "check" /\ pass \in Passes /\ pc < Len(prog) /\ prog' = prog
      /\ pc' = pc + 1 /\ pass' \in {"check", "crashed"} /\ OwnScopes /\ Nesting(h, g)
  BY DEF Checking, Inv, Passes
<1>2. /\ Functions' = Functions /\ For' = For /\ Len(prog) <= MaxLoopLen /\ MaxLoopLen \in Nat
      /\ pc \in Nat /\ Len(prog) \in Nat
  BY <1>1, TextStays
<1>3. LoopScopes' = LoopScopes
  BY <1>1 DEF LoopScopes, Of, Events
<1>4. OwnScopes'
  BY <1>1, <1>2 DEF OwnScopes
<1> DEFINE s == scopeOf[pc + 1]
<1>5. s \in Scopes \cup {None}
  <2>1. pc + 1 \in 1 .. MaxLoopLen
    BY <1>1, <1>2
  <2>2. QED
    BY <1>1, <2>1 DEF OwnScopes
<1>6. NestStep(e, s, nest')
  OBVIOUS
<1> HIDE DEF s
<1>7. Followed(h, g, e, s, nest')
  <2>1. \A q : NestStep(e, s, q) => Followed(h, g, e, s, q)
    BY <1>1, <1>5, NestFollows
  <2>2. QED
    BY <1>6, <2>1
<1> USE DEF Followed
<1>8. Len(nest) = h[pc] /\ Len(nest') = h[pc + 1]
  BY <1>7 DEF Nested
<1>9. CheckNest(g)
  BY <1>1 DEF Nesting
<1>10. CheckNest(g)'
  <2>1. nest'[1] = nest[1]
    <3>1. 1 \in 1 .. h[pc] /\ 1 <= h[pc + 1]
      BY <1>7
    <3>2. QED
      BY <1>7, <3>1
  <2>2. LastScope(nest[1].scope)'
    BY <1>2, <1>9, <2>1 DEF CheckNest, LastScope
  <2>3. SomeScope(current)'
    BY <1>2, <1>9 DEF CheckNest, SomeScope
  <2>4. Len(nest') > 1 => nest'[2].scope = scopeOf'[g[pc']]
    <3>1. SUFFICES ASSUME h[pc + 1] > 1 PROVE nest'[2].scope = scopeOf[g[pc + 1]]
      BY <1>1, <1>8
    <3>2. CASE e.op = "fun"
      <4>1. h[pc + 1] = 2 /\ g[pc + 1] = pc + 1
        BY <1>7, <3>2 DEF Moves, Declarators
      <4>2. QED
        BY <1>7, <3>2, <4>1 DEF s
    <3>3. CASE e.op # "fun"
      <4>1. h[pc] > 1 /\ g[pc + 1] = g[pc]
        BY <1>7, <3>1, <3>3 DEF Moves
      <4>2. 2 \in 1 .. h[pc] /\ 2 <= h[pc + 1]
        BY <1>7, <3>1, <4>1
      <4>3. nest'[2] = nest[2] /\ nest[2].scope = scopeOf[g[pc]]
        BY <1>7, <1>8, <1>9, <4>1, <4>2 DEF CheckNest
      <4>4. QED
        BY <4>1, <4>3
    <3>4. QED
      BY <3>2, <3>3
  <2>5. ASSUME NEW k \in 3 .. h[pc + 1] PROVE LoopLevel(k)'
    <3>1. h[pc + 1] <= h[pc]
      BY <1>7, <2>5 DEF Moves
    <3>2. k \in 3 .. h[pc] /\ k \in 1 .. h[pc] /\ k - 1 \in 1 .. h[pc]
          /\ k <= h[pc + 1] /\ k - 1 <= h[pc + 1]
      BY <1>7, <2>5, <3>1
    <3>3. nest'[k] = nest[k] /\ nest'[k - 1] = nest[k - 1] /\ LoopLevel(k)
      BY <1>7, <1>8, <1>9, <3>2 DEF CheckNest
    <3>4. QED
      BY <1>3, <3>3 DEF LoopLevel
  <2>6. \A k \in 3 .. Len(nest') : LoopLevel(k)'
    BY <1>8, <2>5
  <2>7. QED
    BY <2>2, <2>3, <2>4, <2>6 DEF CheckNest
<1>11. Nesting(h, g)'
  BY <1>1, <1>7, <1>10 DEF Nesting, Passes, Ends
<1>12. QED
  BY <1>3, <1>4, <1>11

\* A step of the second pass, taken together.
LEMMA CheckedInv ==
    ASSUME NEW h, NEW g, NEW r, NEW home, Checking(h, g, r, home), NEW r2, ScopesOK', Ranked(r2)',
           OwnScopes', Nesting(h, g)', errors' = 0 => Flawless(g)'
    PROVE  Inv(h, g, r2)'
<1>1. Records' /\ Budget' /\ res'.generate = <<>>
  BY CheckedRecords
<1>2. Text(prog', h, g) /\ Names_' \subseteq 1 .. Len(prog')
  BY TextStays DEF Checking
<1>3. pass' \notin {"generate", "compiled"}
  BY DEF Checking
<1>4. GeneratedAll'
  <2>1. \A i \in Names_' : ~(i <= Len(res'.generate))
    BY <1>1, <1>2
  <2>2. QED
    BY <2>1 DEF GeneratedAll
<1>5. QED
  BY <1>1, <1>2, <1>3, <1>4 DEF Inv

\* The loops around stay while a step opens none.
LEMMA LoopsStay ==
    ASSUME NEW h, NEW g, NEW r, NEW home, Checking(h, g, r, home), NEW e, e = prog[pc + 1],
           e.op # "for", NestStep(e, scopeOf[pc + 1], nest'), scopeOf[pc + 1] \in Scopes \cup {None}
    PROVE  \A k \in 3 .. Len(nest') : k \in 3 .. Len(nest) /\ nest'[k] = nest[k] /\ g[pc + 1] = g[pc]
<1> DEFINE s == scopeOf[pc + 1]
<1>1. Inv(h, g, r) /\ pass \in Passes /\ pc < Len(prog) /\ s \in Scopes \cup {None}
  BY DEF Checking, Passes
<1>2. NestStep(e, s, nest')
  OBVIOUS
<1> HIDE DEF s
<1>3. Followed(h, g, e, s, nest')
  <2>1. \A q : NestStep(e, s, q) => Followed(h, g, e, s, q)
    BY <1>1, NestFollows
  <2>2. QED
    BY <1>2, <2>1
<1>4. Len(nest) = h[pc] /\ Len(nest') = h[pc + 1]
  BY <1>3 DEF Followed, Nested
<1>5. SUFFICES ASSUME NEW k \in 3 .. h[pc + 1]
               PROVE  k \in 3 .. h[pc] /\ nest'[k] = nest[k] /\ g[pc + 1] = g[pc]
  BY <1>4
<1>6. /\ Moves(e, pc + 1, h[pc], h[pc + 1], g[pc], g[pc + 1])
      /\ h[pc] \in Nat \ {0} /\ h[pc + 1] \in Nat \ {0}
  BY <1>3 DEF Followed
<1>7. h[pc + 1] <= h[pc] /\ g[pc + 1] = g[pc]
  BY <1>5, <1>6 DEF Moves
<1>8. k \in 1 .. h[pc] /\ k <= h[pc + 1] /\ k \in 3 .. h[pc]
  BY <1>5, <1>6, <1>7
<1>9. QED
  BY <1>3, <1>7, <1>8 DEF Followed

\* A step of the second pass that changes no scope.
LEMMA CheckPlain ==
    ASSUME NEW h, NEW g, NEW r, NEW home, Checking(h, g, r, home), NEW e, e = prog[pc + 1],
           e.op # "for", UNCHANGED <<up, state, binds, used, scopeOf, current>>,
           errors' \in Nat, errors' = 0 => errors = 0,
           NestStep(e, scopeOf[pc + 1], nest'),
           g[pc] # 0 /\ e.op # "end" => home = Home(Inner.scope, e.name),
           e.op = "elem" /\ errors' = 0 =>
              home # None /\ binds[home][e.name].decl.kind = "array" /\ binds[home][e.name].decl.mut
    PROVE  Inv(h, g, r)'
<1>1. /\ Inv(h, g, r) /\ pass = "check" /\ pc < Len(prog) /\ pc' = pc + 1
      /\ ScopesOK /\ Ranked(r) /\ OwnScopes /\ Text(prog, h, g) /\ CheckNest(g)
      /\ pass' \in {"check", "crashed"}
  BY DEF Checking, Inv, Nesting
<1>2. ScopesOK' /\ Ranked(r)' /\ Opened' = Opened /\ up' = up /\ binds' = binds
  BY <1>1, SteadyKeeps
<1>3. OwnScopes' /\ Nesting(h, g)' /\ LoopScopes' = LoopScopes
  BY <1>2, CheckedNesting
<1>4. ASSUME errors' = 0 PROVE Flawless(g)'
  <2>1. errors = 0 /\ Flawless(g)
    BY <1>1, <1>4 DEF Inv
  <2>2. BindingsGrow /\ FunctionsKept(g, e)
    BY <1>2 DEF BindingsGrow, FunctionsKept
  <2>3. ASSUME e.op # "end", g[pc] # 0
        PROVE  /\ home \in Opened /\ binds[home][e.name] # None
               /\ \/ home = Near(g, pc, e.name)
                  \/ \E k \in 3 .. Len(nest) : home = nest[k].scope
    BY <1>1, <2>1, <2>3, CheckHome
  <2>4. Finds(g, e, home)
    <3>1. SUFFICES ASSUME e.op # "end", g[pc] # 0
                   PROVE  home \in LoopTables \cup {Near(g, pc, e.name)}
      BY <1>2, <1>3 DEF Finds, LoopTables
    <3>2. \A k \in 3 .. Len(nest) : nest[k].scope \in LoopTables
      BY <1>1, NamesAssumption DEF CheckNest, LoopLevel, LoopTables, Opened, NamesAssumption
    <3>3. QED
      BY <2>3, <3>1, <3>2
  <2>5. FindsElement(g, e)
    <3>1. SUFFICES ASSUME e.op = "elem"
                   PROVE  LET d == binds[Near(g, pc, e.name)][e.name].decl
                          IN  d.kind = "array" /\ d.mut
      BY <1>2 DEF FindsElement
    <3>2. g[pc] # 0 /\ e.name \in Names
      <4>1. pc \in 0 .. Len(prog) /\ pc + 1 \in 1 .. Len(prog) /\ (pc + 1) - 1 = pc
        BY <1>1, TextStays DEF Checking
      <4>2. Moves(e, pc + 1, h[pc], h[pc + 1], g[pc], g[pc + 1])
        BY <1>1, <4>1 DEF Text
      <4>3. h[pc] > 1 /\ e.name \in Names
        BY <3>1, <4>2 DEF Moves, Declarators
      <4>4. QED
        BY <1>1, <4>1, <4>3, TextMeans
    <3>3. CASE home = Near(g, pc, e.name)
      BY <1>4, <3>1, <3>3
    <3>4. CASE \E k \in 3 .. Len(nest) : home = nest[k].scope
      <4>1. PICK k \in 3 .. Len(nest) : home = nest[k].scope
        BY <3>4
      <4>2. binds[home][e.name] # None /\ binds[home][e.name].decl.kind = "array"
        BY <1>4, <2>3, <3>1, <3>2
      <4>3. /\ binds[scopeOf[g[pc]]][e.name] # None
            /\ binds[scopeOf[g[pc]]][e.name].decl = binds[home][e.name].decl
        BY <1>1, <2>1, <3>2, <4>1, <4>2 DEF Flawless, LoopArrays
      <4>4. Near(g, pc, e.name) = scopeOf[g[pc]]
        BY <4>3 DEF Near
      <4>5. QED
        BY <1>4, <3>1, <4>3, <4>4
    <3>5. QED
      BY <2>3, <3>1, <3>2, <3>3, <3>4
  <2>6. LoopArrays(g)'
    <3>1. scopeOf[pc + 1] \in Scopes \cup {None}
      <4>1. pc + 1 \in 1 .. MaxLoopLen
        BY <1>1, TextStays DEF Checking
      <4>2. QED
        BY <1>1, <4>1 DEF OwnScopes
    <3>2. \A k \in 3 .. Len(nest') :
             k \in 3 .. Len(nest) /\ nest'[k] = nest[k] /\ g[pc + 1] = g[pc]
      BY <3>1, LoopsStay
    <3>3. QED
      BY <1>1, <1>2, <2>1, <3>2 DEF Flawless, LoopArrays
  <2>7. QED
    BY <1>3, <2>1, <2>2, <2>4, <2>5, <2>6, CheckedFlawless DEF LoopTables
<1>5. QED
  BY <1>2, <1>3, <1>4, CheckedInv

\* What a lookup of the second pass finds is a scope.
LEMMA CheckFinds ==
    ASSUME NEW h, NEW g, NEW r, Inv(h, g, r), pass = "check", NEW n
    PROVE  Home(Inner.scope, n) \in Scopes \cup {None}
<1>1. ScopesOK /\ Ranked(r) /\ Inner.scope \in Opened \cup {None}
  BY CheckInner DEF Inv
<1>2. Home(Inner.scope, n) \in Opened \cup {None}
  BY <1>1, HomeBinds
<1>3. QED
  BY <1>2 DEF Opened

\* Steps of the second pass have their common part.
LEMMA CheckedIs ==
    ASSUME NEW h, NEW g, NEW r, Inv(h, g, r), pass = "check", pc < Len(prog),
           NEW home \in Scopes \cup {None}, Done(home), prog' = prog, pass' \in {"check", "crashed"}
    PROVE  Checking(h, g, r, home)
  BY DEF Checking, Done

\* The checker enters a function.
LEMMA CheckFunKeeps ==
    ASSUME NEW h, NEW g, NEW r, Inv(h, g, r), CheckFun
    PROVE  IInv'
<1> DEFINE s == scopeOf[pc + 1]
           home == Home(s, This.name)
           e == prog[pc + 1]
<1>1. /\ pass = "check" /\ pc < Len(prog) /\ e.op = "fun" /\ Done(home) /\ This = e
      /\ nest' = Append(nest, [op |-> "fun", scope |-> s])
      /\ UNCHANGED <<up, state, binds, used, errors, prog, pass, current, scopeOf>>
  BY DEF CheckFun, Here, Push, This, avars
<1>2. s \in Opened \cup {None}
  <2>1. pc + 1 \in 1 .. MaxLoopLen
    BY <1>1, TextStays
  <2>2. QED
    BY <2>1 DEF Inv, OwnScopes
<1>3. home \in Scopes \cup {None}
  <2>1. home \in Opened \cup {None}
    BY <1>2, HomeBinds DEF Inv
  <2>2. QED
    BY <2>1 DEF Opened
<1>4. NestStep(e, s, nest')
  BY <1>1 DEF NestStep
<1> HIDE DEF home
<1>5. Checking(h, g, r, home)
  BY <1>1, <1>3, CheckedIs
<1>6. g[pc] = 0
  <2>1. pc \in 0 .. Len(prog) /\ pc + 1 \in 1 .. Len(prog) /\ (pc + 1) - 1 = pc
    BY <1>1, TextStays
  <2>2. Moves(e, pc + 1, h[pc], h[pc + 1], g[pc], g[pc + 1]) /\ Text(prog, h, g)
    BY <2>1 DEF Inv, Text
  <2>3. QED
    BY <1>1, <2>1, <2>2, TextMeans DEF Moves, Declarators
<1>7. errors' \in Nat /\ (errors' = 0 => errors = 0)
  BY <1>1 DEF Inv, ScopesOK
<1>8. Inv(h, g, r)'
  BY <1>1, <1>4, <1>5, <1>6, <1>7, CheckPlain
<1>9. QED
  BY <1>8 DEF IInv

\* The checker leaves a construct.
LEMMA CheckEndKeeps ==
    ASSUME NEW h, NEW g, NEW r, Inv(h, g, r), CheckEnd
    PROVE  IInv'
<1> DEFINE e == prog[pc + 1]
<1>1. /\ pass = "check" /\ pc < Len(prog) /\ e.op = "end" /\ Done(None)
      /\ nest' = SubSeq(nest, 1, Len(nest) - 1)
      /\ UNCHANGED <<up, state, binds, used, errors, prog, pass, current, scopeOf>>
  BY DEF CheckEnd, Here, Pop, avars
<1>2. NestStep(e, scopeOf[pc + 1], nest')
  BY <1>1 DEF NestStep
<1>3. Checking(h, g, r, None)
  BY <1>1, CheckedIs
<1>4. errors' \in Nat /\ (errors' = 0 => errors = 0)
  BY <1>1 DEF Inv, ScopesOK
<1>5. Inv(h, g, r)'
  BY <1>1, <1>2, <1>3, <1>4, CheckPlain
<1>6. QED
  BY <1>5 DEF IInv

\* The checker looks a name up and changes nothing.
LEMMA CheckLookupKeeps ==
    ASSUME NEW h, NEW g, NEW r, Inv(h, g, r), pass = "check", pc < Len(prog), NEW e, e = prog[pc + 1],
           e.op \notin {"fun", "for", "end"}, NEW home, home = Home(Inner.scope, e.name), Done(home),
           UNCHANGED <<up, state, binds, used, prog, nest, current, scopeOf>>,
           pass' \in {"check", "crashed"}, errors' \in {errors, errors + 1},
           e.op = "elem" /\ errors' = errors =>
              home # None /\ binds[home][e.name].decl.kind = "array" /\ binds[home][e.name].decl.mut
    PROVE  IInv'
<1>1. NestStep(e, scopeOf[pc + 1], nest')
  BY DEF NestStep
<1>2. Checking(h, g, r, home)
  BY CheckFinds, CheckedIs
<1>3. /\ errors' \in Nat /\ (errors' = 0 => errors = 0) /\ (errors' = 0 => errors' = errors)
  BY DEF Inv, ScopesOK
<1>4. Inv(h, g, r)'
  BY <1>1, <1>2, <1>3, CheckPlain
<1>5. QED
  BY <1>4 DEF IInv

\* The step of the checker for a name looked up from the inside out.
LEMMA CheckNameKeeps ==
    ASSUME NEW h, NEW g, NEW r, Inv(h, g, r), CheckName
    PROVE  IInv'
<1> DEFINE e == prog[pc + 1]
           home == Home(Inner.scope, e.name)
<1>1. /\ pass = "check" /\ pc < Len(prog) /\ e.op \in {"param", "var", "assign", "use"} /\ Done(home)
      /\ UNCHANGED <<up, state, binds, used, prog, pass, nest, current, scopeOf>>
      /\ errors' \in {errors, errors + 1}
  BY DEF CheckName, Here, This
<1> HIDE DEF home
<1>2. home = Home(Inner.scope, e.name)
  BY DEF home
<1> HIDE DEF e
<1>3. e = prog[pc + 1] /\ e.op \notin {"fun", "for", "end"} /\ e.op # "elem"
  BY <1>1 DEF e
<1>4. QED
  BY <1>1, <1>2, <1>3, CheckLookupKeeps

\* A write to an element.
LEMMA CheckElemKeeps ==
    ASSUME NEW h, NEW g, NEW r, Inv(h, g, r), CheckElem
    PROVE  IInv'
<1> DEFINE e == prog[pc + 1]
           home == Home(Inner.scope, e.name)
<1>1. /\ pass = "check" /\ pc < Len(prog) /\ e.op = "elem" /\ Done(home)
      /\ UNCHANGED <<up, state, binds, used, prog, pass, nest, current, scopeOf>>
      /\ IF home # None /\ binds[home][e.name].decl.kind = "array" /\ binds[home][e.name].decl.mut
         THEN UNCHANGED errors ELSE errors' = errors + 1
  BY DEF CheckElem, Here, This
<1> HIDE DEF home
<1>2. home = Home(Inner.scope, e.name)
  BY DEF home
<1> HIDE DEF e
<1>3. e = prog[pc + 1] /\ e.op \notin {"fun", "for", "end"}
  BY <1>1 DEF e
<1>4. errors \in Nat
  BY DEF Inv, ScopesOK
<1>5. /\ errors' \in {errors, errors + 1}
      /\ errors' = errors => /\ home # None /\ binds[home][e.name].decl.kind = "array"
                             /\ binds[home][e.name].decl.mut
  BY <1>1, <1>4
<1>6. QED
  BY <1>1, <1>2, <1>3, <1>5, CheckLookupKeeps

\* A call.
LEMMA CheckCallKeeps ==
    ASSUME NEW h, NEW g, NEW r, Inv(h, g, r), CheckCall
    PROVE  IInv'
<1> DEFINE e == prog[pc + 1]
           home == Home(Inner.scope, e.name)
<1>1. /\ pass = "check" /\ pc < Len(prog) /\ e.op = "call" /\ Done(home)
      /\ UNCHANGED <<up, state, binds, used, prog, nest, current, scopeOf>>
      /\ pass' \in {"check", "crashed"} /\ errors' \in {errors, errors + 1}
  BY DEF CheckCall, Here, This
<1> HIDE DEF home
<1>2. home = Home(Inner.scope, e.name)
  BY DEF home
<1> HIDE DEF e
<1>3. e = prog[pc + 1] /\ e.op \notin {"fun", "for", "end"} /\ e.op # "elem"
  BY <1>1 DEF e
<1>4. QED
  BY <1>1, <1>2, <1>3, CheckLookupKeeps

\* The scope a function works in outside its loops is not that of a loop.
LEMMA LoopIsNoFunction ==
    ASSUME OwnScopes, prog \in Seq(Event), Len(prog) <= MaxLoopLen, MaxLoopLen \in Nat,
           NEW f \in Functions
    PROVE  scopeOf[f] \notin LoopScopes
<1>1. SUFFICES ASSUME NEW l \in For, scopeOf[f] = scopeOf[l] PROVE FALSE
  BY DEF LoopScopes, For
<1>2. /\ prog[f].op = "fun" /\ prog[l].op = "for" /\ f \in DOMAIN prog /\ l \in DOMAIN prog
  BY DEF Functions, For, Of, Events
<1>3. f \in 1 .. MaxLoopLen /\ l \in 1 .. MaxLoopLen /\ scopeOf[f] # None
  BY <1>2 DEF OwnScopes
<1>4. f = l
  BY <1>1, <1>3 DEF OwnScopes
<1>5. QED
  BY <1>2, <1>4

\* A step of the second pass that declares an array once more, or reports it.
LEMMA CheckInserts ==
    ASSUME NEW h, NEW g, NEW r, NEW home, Checking(h, g, r, home), NEW e, e = prog[pc + 1],
           e.op \in {"array", "arrayAssign"}, ScopesOK', Ranked(r)', Inner.scope \in Scopes,
           Inserts(Inner.scope, e.name, Declares(e)), UNCHANGED <<nest, current, scopeOf>>,
           errors' = 0 => e.op = "array" /\ home = Inner.scope
    PROVE  Inv(h, g, r)'
<1> DEFINE s == Inner.scope
           n == e.name
<1>1. /\ Inv(h, g, r) /\ pass = "check" /\ pc < Len(prog) /\ pc' = pc + 1 /\ prog' = prog
      /\ ScopesOK /\ Ranked(r) /\ OwnScopes /\ Text(prog, h, g) /\ CheckNest(g)
      /\ prog \in Seq(Event)
  BY DEF Checking, Inv, Nesting, Text
<1>2. Opened' = Opened /\ up' = up
  BY DEF Inserts
<1>3. OwnScopes' /\ Nesting(h, g)' /\ LoopScopes' = LoopScopes
  <2>1. NestStep(e, scopeOf[pc + 1], nest')
    BY DEF NestStep
  <2>2. QED
    BY <1>2, <2>1, CheckedNesting
<1>4. /\ pc \in 0 .. Len(prog) /\ pc \in Nat /\ Len(prog) \in Nat /\ pc + 1 \in 1 .. Len(prog)
      /\ (pc + 1) - 1 = pc /\ Len(prog) <= MaxLoopLen /\ MaxLoopLen \in Nat
      /\ DOMAIN prog = 1 .. Len(prog) /\ Functions \subseteq 1 .. Len(prog)
  BY <1>1, TextStays DEF Checking
<1>5. pc + 1 \in Names_ /\ n \in Names /\ g[pc + 1] = g[pc]
  <2>1. Moves(e, pc + 1, h[pc], h[pc + 1], g[pc], g[pc + 1])
    BY <1>1, <1>4 DEF Text
  <2>2. QED
    BY <1>4, <2>1 DEF Moves, Names_
<1>6. /\ Len(nest) \in Nat \ {0}
      /\ g[pc] = 0 <=> Len(nest) = 1
      /\ g[pc] = 0 => LastScope(s)
      /\ g[pc] # 0 => g[pc] \in Functions
      /\ Len(nest) = 2 => s = scopeOf[g[pc]]
      /\ Len(nest) > 2 => s \in LoopScopes
  BY <1>1, CheckInner DEF LoopLevel, Inner
<1>7. \A f \in Functions : scopeOf[f] \in Scopes /\ scopeOf[f] # None /\ scopeOf[f] \notin LoopScopes
  <2>1. \A f \in Functions : scopeOf[f] \in Scopes /\ scopeOf[f] # None
    BY <1>1, <1>4 DEF OwnScopes, Opened
  <2>2. QED
    BY <1>1, <1>4, <2>1, LoopIsNoFunction
<1>8. ASSUME errors' = 0 PROVE Flawless(g)'
  <2>1. e.op = "array" /\ home = s /\ errors = 0 /\ Flawless(g) /\ OneBinding(s, n, Declares(e))
    BY <1>1, <1>8 DEF Inserts, Inv, ScopesOK
  <2>2. /\ binds[s][n] = None /\ binds'[s][n].decl = Declares(e)
        /\ \A t \in Scopes, m \in Names : t # s \/ m # n => binds'[t][m] = binds[t][m]
    BY <2>1 DEF OneBinding
  <2> HIDE DEF s, n
  <2>3. binds[At(g, pc)][n] # None /\ binds[At(g, pc)][n].decl = Declares(e)
    <3>1. e.op \in DeclareOps
      BY <2>1 DEF DeclareOps, Declarators
    <3>2. QED
      BY <1>4, <1>5, <2>1, <3>1 DEF Flawless, Found, Stands, n
  <2>4. BindingsGrow
    BY <2>2 DEF BindingsGrow
  <2>5. g[pc] # 0 => s \in LoopScopes /\ Len(nest) > 2
    <3>1. SUFFICES ASSUME g[pc] # 0 PROVE s \in LoopScopes /\ Len(nest) > 2
      OBVIOUS
    <3>2. s # scopeOf[g[pc]]
      BY <2>2, <2>3, <3>1 DEF At
    <3> DEFINE m == Len(nest)
    <3>3. m # 1 /\ m # 2 /\ m \in Nat \ {0} /\ (m > 2 => s \in LoopScopes)
      BY <1>6, <3>1, <3>2
    <3> HIDE DEF m
    <3>4. m > 2
      BY <3>3
    <3>5. QED
      BY <3>3, <3>4 DEF m
  <2>6. FunctionsKept(g, e)
    <3>1. SUFFICES ASSUME NEW f \in Functions, NEW m \in Names,
                          binds'[scopeOf[f]][m] # binds[scopeOf[f]][m]
                   PROVE  g[pc] = 0 /\ m = n /\ \A j \in Functions : j <= f
      BY <2>1 DEF FunctionsKept, n
    <3>2. scopeOf[f] = s /\ m = n
      BY <1>7, <2>2, <3>1
    <3>3. g[pc] = 0
      BY <1>7, <2>5, <3>2
    <3>4. PICK l \in Functions : (\A j \in Functions : j <= l) /\ s = scopeOf[l]
      BY <1>6, <3>1, <3>3 DEF LastScope
    <3>5. f = l
      <4>1. f \in 1 .. MaxLoopLen /\ l \in 1 .. MaxLoopLen
        BY <1>4
      <4>2. QED
        BY <1>1, <1>7, <3>2, <3>4, <4>1 DEF OwnScopes
    <3>6. QED
      BY <3>2, <3>3, <3>4, <3>5
  <2>7. ASSUME g[pc] # 0 PROVE binds'[scopeOf[g[pc]]] = binds[scopeOf[g[pc]]]
    <3>1. scopeOf[g[pc]] \in Scopes /\ g[pc] \in Functions
      BY <1>6, <1>7, <2>7
    <3>2. \A m \in Names : binds'[scopeOf[g[pc]]][m] = binds[scopeOf[g[pc]]][m]
      BY <2>6, <2>7, <3>1 DEF FunctionsKept
    <3> DEFINE B == Slot \cup {None}
    <3>3. binds \in [Scopes -> [Names -> B]] /\ binds' \in [Scopes -> [Names -> B]]
      BY <1>1 DEF ScopesOK, Store, Slot
    <3> HIDE DEF B
    <3>4. QED
      BY <3>1, <3>2, <3>3
  <2>8. Finds(g, e, home)
    <3>1. s # None
      BY NamesAssumption DEF s, NamesAssumption
    <3>2. QED
      BY <1>3, <2>1, <2>5, <2>7, <3>1 DEF Finds, LoopTables
  <2>9. FindsElement(g, e)
    BY <2>1 DEF FindsElement
  <2>10. LoopArrays(g)'
    <3>1. SUFFICES ASSUME NEW k \in 3 .. Len(nest), NEW m \in Names,
                          binds'[nest[k].scope][m] # None,
                          binds'[nest[k].scope][m].decl.kind = "array"
                   PROVE  /\ binds'[scopeOf[g[pc]]][m] # None
                          /\ binds'[scopeOf[g[pc]]][m].decl = binds'[nest[k].scope][m].decl
      BY <1>1, <1>5 DEF LoopArrays
    <3>2. g[pc] # 0 /\ binds'[scopeOf[g[pc]]] = binds[scopeOf[g[pc]]] /\ At(g, pc) = scopeOf[g[pc]]
      <4>1. Len(nest) # 1
        BY <1>6, <3>1
      <4>2. QED
        BY <1>6, <2>7, <4>1 DEF At
    <3>3. nest[k].scope \in Scopes
      BY <1>1, <3>1 DEF CheckNest, LoopLevel, Opened
    <3>4. CASE nest[k].scope = s /\ m = n
      BY <2>2, <2>3, <3>2, <3>4
    <3>5. CASE ~(nest[k].scope = s /\ m = n)
      <4>1. binds'[nest[k].scope][m] = binds[nest[k].scope][m]
        BY <2>2, <3>3, <3>5
      <4>2. /\ binds[scopeOf[g[pc]]][m] # None
            /\ binds[scopeOf[g[pc]]][m].decl = binds[nest[k].scope][m].decl
        BY <1>1, <2>1, <3>1, <4>1 DEF Flawless, LoopArrays
      <4>3. QED
        BY <3>2, <4>1, <4>2
    <3>6. QED
      BY <3>4, <3>5
  <2>11. QED
    BY <1>3, <2>1, <2>4, <2>6, <2>8, <2>9, <2>10, CheckedFlawless DEF LoopTables
<1>9. QED
  BY <1>3, <1>8, CheckedInv

\* The event a pass comes to.
LEMMA NextEvent ==
    ASSUME NEW h, NEW g, NEW r, Inv(h, g, r), pc < Len(prog), NEW e, e = prog[pc + 1]
    PROVE  /\ pc \in Nat /\ Len(prog) \in Nat /\ pc + 1 \in 1 .. Len(prog)
           /\ Len(prog) <= MaxLoopLen /\ MaxLoopLen \in Nat
           /\ e \in Event /\ Declares(e) \in Declaration
           /\ Moves(e, pc + 1, h[pc], h[pc + 1], g[pc], g[pc + 1])
           /\ e.op # "end" => e.name \in Names /\ pc + 1 \in Names_
<1>1. Text(prog, h, g) /\ Budget /\ prog \in Seq(Event) /\ MaxLoopLen \in Nat
  BY NamesAssumption DEF Inv, Text, NamesAssumption
<1>2. /\ pc \in Nat /\ Len(prog) \in Nat /\ pc + 1 \in 1 .. Len(prog)
      /\ Len(prog) <= MaxLoopLen /\ DOMAIN prog = 1 .. Len(prog) /\ (pc + 1) - 1 = pc
  BY <1>1 DEF Budget
<1>3. e \in Event
  BY <1>1, <1>2
<1>4. Moves(e, pc + 1, h[pc], h[pc + 1], g[pc], g[pc + 1])
  BY <1>1, <1>2 DEF Text
<1>5. Declares(e) \in Declaration
  BY <1>3 DEF Event, Declares, Declaration, Kind
<1>6. e.op # "end" => e.name \in Names /\ pc + 1 \in Names_
  BY <1>2, <1>4 DEF Moves, Names_
<1>7. QED
  BY <1>1, <1>2, <1>3, <1>4, <1>5, <1>6

\* An array with an initialiser for its elements: declared again.
LEMMA CheckArrayKeeps ==
    ASSUME NEW h, NEW g, NEW r, Inv(h, g, r), CheckArray
    PROVE  IInv'
<1> DEFINE s == Inner.scope
           e == prog[pc + 1]
           d == Declares(e)
<1>1. /\ pass = "check" /\ pc < Len(prog) /\ e.op = "array" /\ Done(s) /\ This = e
      /\ prog' = prog /\ nest' = nest /\ current' = current /\ scopeOf' = scopeOf
      /\ IF s = None THEN pass' = "crashed" /\ UNCHANGED avars
         ELSE insert_symbol(s, e.name, d) /\ UNCHANGED pass
  BY DEF CheckArray, Here, This
<1>2. /\ s \in Opened \cup {None} /\ (g[pc] # 0 => s \in Opened)
      /\ Opened \subseteq Scopes /\ None \notin Scopes
  BY <1>1, CheckInner, NamesAssumption DEF Opened, NamesAssumption
<1>3. Checking(h, g, r, s)
  <2>1. s \in Scopes \cup {None} /\ pass' \in {"check", "crashed"}
    BY <1>1, <1>2
  <2> HIDE DEF s
  <2>2. QED
    BY <1>1, <2>1, CheckedIs
<1>4. /\ e \in Event /\ e.name \in Names /\ d \in Declaration
  BY <1>1, NextEvent
<1>5. CASE s = None
  <2>1. g[pc] = 0 /\ errors' = errors /\ errors \in Nat
    BY <1>1, <1>2, <1>5 DEF avars, Inv, ScopesOK
  <2>2. NestStep(e, scopeOf[pc + 1], nest')
    BY <1>1 DEF NestStep
  <2>3. UNCHANGED <<up, state, binds, used, scopeOf, current>>
    BY <1>1, <1>5 DEF avars
  <2> HIDE DEF s
  <2>4. Inv(h, g, r)'
    BY <1>1, <1>3, <2>1, <2>2, <2>3, CheckPlain
  <2>5. QED
    BY <2>4 DEF IInv
<1>6. CASE s # None
  <2>1. insert_symbol(s, e.name, d) /\ s \in Scopes
    BY <1>1, <1>2, <1>6
  <2>2. ScopesOK /\ Ranked(r)
    BY DEF Inv
  <2> HIDE DEF d
  <2>3. ScopesOK' /\ Ranked(r)' /\ Inserts(s, e.name, d)
    BY <1>4, <2>1, <2>2, InsertKeeps
  <2>4. Inv(h, g, r)'
    BY <1>1, <1>3, <2>1, <2>3, CheckInserts DEF d
  <2>5. QED
    BY <2>4 DEF IInv
<1>7. QED
  BY <1>5, <1>6

\* Without errors a name declared by the first pass is found.
LEMMA CheckFindsDeclared ==
    ASSUME NEW h, NEW g, NEW r, Inv(h, g, r), pass = "check", errors = 0, pc < Len(prog),
           NEW e, e = prog[pc + 1], e.op # "end", Inner.scope # None
    PROVE  Home(Inner.scope, e.name) # None
<1>1. CASE g[pc] # 0
  <2>1. Home(Inner.scope, e.name) \in Opened
    BY <1>1, CheckHome
  <2>2. QED
    BY <2>1, NamesAssumption DEF Opened, NamesAssumption
<1>2. CASE g[pc] = 0
  <2>1. pc + 1 \in Names_ /\ (pc + 1) - 1 = pc
    <3>1. pc \in 0 .. Len(prog) /\ DOMAIN prog = 1 .. Len(prog) /\ Len(prog) \in Nat
      BY DEF Inv, Budget, Text
    <3>2. QED
      BY <3>1 DEF Names_
  <2>2. ScopesOK /\ Ranked(r) /\ Found(g)
    BY DEF Inv, Flawless
  <2>3. binds[Package][e.name] # None
    <3>1. res.collect[pc + 1] = Package
      BY <1>2, <2>1, <2>2 DEF Found, At
    <3>2. QED
      BY <2>1, <2>2, <3>1 DEF Found
  <2>4. Inner.scope \in Opened
    BY CheckInner
  <2>5. QED
    BY <2>2, <2>3, <2>4, HomeFindsPackage
<1>3. QED
  BY <1>1, <1>2

\* An array initialised with another: declared only when no scope has the name.
LEMMA CheckArrayAssignKeeps ==
    ASSUME NEW h, NEW g, NEW r, Inv(h, g, r), CheckArrayAssign
    PROVE  IInv'
<1> DEFINE s == Inner.scope
           e == prog[pc + 1]
           d == Declares(e)
           home == Home(s, e.name)
<1>1. /\ pass = "check" /\ pc < Len(prog) /\ e.op = "arrayAssign" /\ Done(home) /\ This = e
      /\ prog' = prog /\ nest' = nest /\ current' = current /\ scopeOf' = scopeOf
      /\ IF s = None THEN pass' = "crashed" /\ UNCHANGED avars
         ELSE /\ IF home = None THEN insert_symbol(s, e.name, d) ELSE UNCHANGED avars
              /\ UNCHANGED pass
  BY DEF CheckArrayAssign, Here, This
<1>2. /\ s \in Opened \cup {None} /\ (g[pc] # 0 => s \in Opened)
      /\ Opened \subseteq Scopes /\ None \notin Scopes
  BY <1>1, CheckInner, NamesAssumption DEF Opened, NamesAssumption
<1>3. Checking(h, g, r, home)
  <2>1. home \in Scopes \cup {None} /\ pass' \in {"check", "crashed"}
    BY <1>1, CheckFinds
  <2> HIDE DEF home
  <2>2. QED
    BY <1>1, <2>1, CheckedIs
<1>4. /\ e \in Event /\ e.name \in Names /\ d \in Declaration
  BY <1>1, NextEvent
<1>5. CASE s = None \/ home # None
  <2>1. UNCHANGED avars /\ pass' \in {"check", "crashed"}
    BY <1>1, <1>5
  <2>2. UNCHANGED <<up, state, binds, used, prog, nest, current, scopeOf>> /\ errors' = errors
    BY <1>1, <2>1 DEF avars
  <2>3. home = Home(Inner.scope, e.name)
    OBVIOUS
  <2> HIDE DEF home, s, e
  <2>4. e = prog[pc + 1] /\ e.op \notin {"fun", "for", "end"} /\ e.op # "elem"
    BY <1>1 DEF e
  <2>5. QED
    BY <1>1, <2>1, <2>2, <2>3, <2>4, CheckLookupKeeps
<1>6. CASE s # None /\ home = None
  <2>1. insert_symbol(s, e.name, d) /\ s \in Scopes
    BY <1>1, <1>2, <1>6
  <2>2. ScopesOK /\ Ranked(r) /\ errors \in Nat
    BY DEF Inv, ScopesOK
  <2>3. errors # 0
    BY <1>1, <1>6, CheckFindsDeclared
  <2> HIDE DEF d
  <2>4. ScopesOK' /\ Ranked(r)' /\ Inserts(s, e.name, d)
    BY <1>4, <2>1, <2>2, InsertKeeps
  <2>5. errors' # 0
    BY <2>2, <2>3, <2>4 DEF Inserts
  <2> HIDE DEF home
  <2>6. Inv(h, g, r)'
    BY <1>1, <1>3, <2>1, <2>4, <2>5, CheckInserts DEF d
  <2>7. QED
    BY <2>6 DEF IInv
<1>7. QED
  BY <1>5, <1>6

\* The checker enters loop e, whose new scope is s.
Entering(h, g, r, e, s) ==
    /\ Checking(h, g, r, s) /\ pass' = "check" /\ e = prog[pc + 1] /\ e.op = "for"
    /\ Opens(s, Inner.scope) /\ current' = s
    /\ scopeOf' = [scopeOf EXCEPT ![pc + 1] = s]
    /\ NestStep(e, s, nest')

\* The loop has a scope of its own.
LEMMA LoopOwnScope ==
    ASSUME NEW h, NEW g, NEW r, NEW e, NEW s, Entering(h, g, r, e, s)
    PROVE  /\ OwnScopes' /\ LoopTables \subseteq LoopTables' /\ s \in LoopTables'
           /\ \A i \in Functions : scopeOf'[i] = scopeOf[i]
           /\ scopeOf' \in [1 .. MaxLoopLen -> Scopes \cup {None}] /\ scopeOf'[pc + 1] = s
<1>1. /\ Inv(h, g, r) /\ pass = "check" /\ pc < Len(prog) /\ prog' = prog /\ pc' = pc + 1
      /\ pass' = "check" /\ e = prog[pc + 1] /\ e.op = "for" /\ OwnScopes /\ ScopesOK
      /\ scopeOf' = [scopeOf EXCEPT ![pc + 1] = s]
  BY DEF Entering, Checking, Inv
<1>2. /\ s \in Scopes \ Opened /\ Opened' = Opened \cup {s} /\ s # None
      /\ \A t \in Opened : up'[t] = up[t]
  BY NamesAssumption DEF Entering, Opens, NamesAssumption
<1>3. /\ pc \in Nat /\ Len(prog) \in Nat /\ pc + 1 \in 1 .. Len(prog)
      /\ Len(prog) <= MaxLoopLen /\ MaxLoopLen \in Nat
  BY <1>1, NextEvent
<1>4. /\ Functions' = Functions /\ For' = For /\ DOMAIN prog = 1 .. Len(prog)
      /\ Functions \subseteq 1 .. Len(prog) /\ For \subseteq 1 .. Len(prog)
  BY <1>1, TextStays
<1> DEFINE M == 1 .. MaxLoopLen
<1>5. pc + 1 \in M /\ pc + 1 \in For /\ pc + 1 \notin Functions
      /\ Functions \subseteq M /\ For \subseteq M
  BY <1>1, <1>3, <1>4 DEF For, Functions, Of, Events
<1>6. /\ scopeOf \in [M -> Scopes \cup {None}]
      /\ \A i \in M : scopeOf[i] # None =>
            /\ i \in Functions \cup For
            /\ scopeOf[i] \in Opened \ {Package}
            /\ i \in For => i <= pc
      /\ \A i, j \in M : scopeOf[i] = scopeOf[j] /\ scopeOf[i] # None => i = j
      /\ \A i \in Functions : scopeOf[i] # None /\ up[scopeOf[i]] = Package
  BY <1>1 DEF OwnScopes
<1>7. scopeOf[pc + 1] = None
  <2>1. ~(pc + 1 <= pc)
    BY <1>3
  <2>2. QED
    BY <1>5, <1>6, <2>1
<1>8. Package \in Opened /\ Opened \subseteq Scopes
  BY <1>1, NamesAssumption DEF ScopesOK, Tree, Opened, NamesAssumption
<1>9. /\ scopeOf' \in [M -> Scopes \cup {None}] /\ scopeOf'[pc + 1] = s
      /\ \A i \in M : i # pc + 1 => scopeOf'[i] = scopeOf[i]
  BY <1>1, <1>2, <1>5, <1>6
<1> HIDE DEF M
<1>10. ASSUME NEW i \in M, scopeOf'[i] # None
       PROVE  /\ i \in Functions \cup For
              /\ scopeOf'[i] \in Opened' \ {Package}
              /\ i \in For => i <= pc + 1
  <2>1. CASE i = pc + 1
    BY <1>2, <1>3, <1>5, <1>8, <1>9, <2>1
  <2>2. CASE i # pc + 1
    <3>1. scopeOf'[i] = scopeOf[i]
      BY <1>9, <2>2
    <3>2. i \in For => i <= pc /\ i \in Nat
      BY <1>4, <1>6, <1>10, <3>1
    <3>3. QED
      BY <1>2, <1>3, <1>6, <1>10, <3>1, <3>2
  <2>3. QED
    BY <2>1, <2>2
<1>11. \A i \in Functions : scopeOf'[i] = scopeOf[i] /\ scopeOf[i] \in Opened
  BY <1>5, <1>6, <1>9
<1>12. OwnScopes'
  <2>1. ASSUME NEW i \in M, NEW j \in M, scopeOf'[i] = scopeOf'[j], scopeOf'[i] # None PROVE i = j
    BY <1>2, <1>6, <1>9, <2>1
  <2>2. \A i \in Functions : scopeOf'[i] # None /\ up'[scopeOf'[i]] = Package
    BY <1>2, <1>6, <1>11
  <2>3. QED
    BY <1>1, <1>4, <1>9, <1>10, <2>1, <2>2 DEF OwnScopes, M
<1>13. LoopScopes = {scopeOf[l] : l \in For} /\ LoopScopes' = {scopeOf'[l] : l \in For}
  BY <1>4 DEF LoopScopes, For
<1>14. LoopTables \subseteq LoopTables' /\ s \in LoopTables'
  <2>1. \A l \in For : scopeOf[l] # None => scopeOf'[l] = scopeOf[l]
    BY <1>5, <1>7, <1>9
  <2>2. QED
    BY <1>2, <1>5, <1>9, <1>13, <2>1 DEF LoopTables
<1>15. QED
  BY <1>9, <1>11, <1>12, <1>14 DEF M

\* The open constructs, with the loop.
LEMMA EnteredNesting ==
    ASSUME NEW h, NEW g, NEW r, NEW e, NEW s, Entering(h, g, r, e, s)
    PROVE  /\ Nesting(h, g)' /\ g[pc + 1] = g[pc] /\ g[pc] \in Functions
           /\ Inner.scope \in Opened
           /\ \A k \in 3 .. Len(nest') :
                 \/ nest'[k].scope = s
                 \/ k \in 3 .. Len(nest) /\ nest'[k] = nest[k] /\ nest[k].scope \in Opened
<1>1. /\ Inv(h, g, r) /\ pass = "check" /\ pass \in Passes /\ pc < Len(prog) /\ prog' = prog
      /\ pc' = pc + 1 /\ pass' = "check" /\ e = prog[pc + 1] /\ e.op = "for" /\ current' = s
      /\ CheckNest(g) /\ Nesting(h, g) /\ OwnScopes
  BY DEF Entering, Checking, Inv, Nesting, Passes
<1>2. /\ s \in Scopes /\ Opened' = Opened \cup {s} /\ up'[s] = Inner.scope
      /\ \A t \in Opened : up'[t] = up[t]
  BY DEF Entering, Opens
<1>3. Followed(h, g, e, s, nest')
  <2>1. s \in Scopes \cup {None} /\ NestStep(e, s, nest')
    BY <1>2 DEF Entering
  <2>2. \A q : NestStep(e, s, q) => Followed(h, g, e, s, q)
    BY <1>1, <2>1, NestFollows
  <2>3. QED
    BY <2>1, <2>2
<1> DEFINE m == h[pc]
<1>4. /\ Nested(nest, m) /\ Nested(nest', m + 1) /\ m \in Nat /\ m > 1 /\ h[pc + 1] = m + 1
      /\ g[pc + 1] = g[pc] /\ g[pc] # 0 /\ pc \in Nat
      /\ \A k \in 1 .. m : nest'[k] = nest[k]
      /\ nest'[m + 1].scope = s
  <2>1. h[pc] > 1 /\ h[pc + 1] = h[pc] + 1 /\ g[pc + 1] = g[pc]
    BY <1>1, <1>3 DEF Followed, Moves, Declarators
  <2>2. h[pc] \in Nat /\ \A k \in 1 .. h[pc] : k <= h[pc + 1]
    BY <1>3, <2>1 DEF Followed
  <2>3. QED
    BY <1>1, <1>3, <2>1, <2>2 DEF Followed
<1> HIDE DEF m
<1>5. Len(nest) = m /\ Len(nest') = m + 1
  BY <1>4 DEF Nested
<1>6. /\ g[pc] \in Functions /\ Inner.scope \in Opened /\ Inner.scope = nest[m].scope
  BY <1>1, <1>4, <1>5, CheckInner DEF Inner
<1>7. /\ LoopTables \subseteq LoopTables' /\ s \in LoopTables'
      /\ \A i \in Functions : scopeOf'[i] = scopeOf[i]
  BY LoopOwnScope
<1>8. Functions' = Functions
  BY <1>1, TextStays
<1>9. \A k \in 3 .. m : LoopLevel(k)
  BY <1>1, <1>5 DEF CheckNest
<1>10. CheckNest(g)'
  <2>1. nest'[1] = nest[1] /\ nest'[2] = nest[2]
    BY <1>4
  <2>2. LastScope(nest[1].scope)'
    BY <1>1, <1>7, <1>8, <2>1 DEF CheckNest, LastScope
  <2>3. SomeScope(current)'
    BY <1>1, <1>2, <1>6, <1>8 DEF SomeScope
  <2>4. nest'[2].scope = scopeOf'[g[pc']]
    <3>1. Len(nest) > 1
      BY <1>4, <1>5
    <3>2. QED
      BY <1>1, <1>4, <1>6, <1>7, <2>1, <3>1 DEF CheckNest
  <2>5. ASSUME NEW k \in 3 .. m + 1 PROVE LoopLevel(k)'
    <3>1. CASE k = m + 1
      <4>1. nest'[k].scope = s /\ nest'[k - 1] = nest[m]
        <5>1. k - 1 = m /\ m \in 1 .. m
          BY <1>4, <3>1
        <5>2. QED
          BY <1>4, <3>1, <5>1
      <4>2. QED
        BY <1>2, <1>6, <1>7, <4>1 DEF LoopLevel, LoopTables
    <3>2. CASE k # m + 1
      <4>1. k \in 3 .. m /\ k \in 1 .. m /\ k - 1 \in 1 .. m
        BY <1>4, <2>5, <3>2
      <4>2. LoopLevel(k) /\ nest'[k] = nest[k] /\ nest'[k - 1] = nest[k - 1]
        BY <1>4, <1>9, <4>1
      <4>3. nest[k].scope \in LoopTables
        BY <4>2, NamesAssumption DEF LoopLevel, LoopTables, Opened, NamesAssumption
      <4>4. QED
        BY <1>2, <1>7, <4>2, <4>3 DEF LoopLevel, LoopTables
    <3>3. QED
      BY <3>1, <3>2
  <2>6. \A k \in 3 .. Len(nest') : LoopLevel(k)'
    BY <1>5, <2>5
  <2>7. QED
    BY <2>2, <2>3, <2>4, <2>6 DEF CheckNest
<1>11. Nesting(h, g)'
  BY <1>1, <1>2, <1>4, <1>10 DEF Nesting, Passes, Ends
<1>12. ASSUME NEW k \in 3 .. m + 1
       PROVE  \/ nest'[k].scope = s
              \/ k \in 3 .. m /\ nest'[k] = nest[k] /\ nest[k].scope \in Opened
  <2>1. k = m + 1 \/ (k \in 3 .. m /\ k \in 1 .. m)
    BY <1>4, <1>12
  <2>2. QED
    BY <1>4, <1>9, <2>1 DEF LoopLevel
<1>13. QED
  BY <1>4, <1>5, <1>6, <1>11, <1>12

\* The checker enters a loop: a scope of its own with its variable.
LEMMA CheckForKeeps ==
    ASSUME NEW h, NEW g, NEW r, Inv(h, g, r), CheckFor
    PROVE  IInv'
<1> DEFINE e == prog[pc + 1]
           n == e.name
           d == Declares(Ev("var", n, 0, FALSE))
<1>1. PICK s \in NewScope :
         /\ up' = [up EXCEPT ![s] = Inner.scope]
         /\ state' = [state EXCEPT ![s] = "open"]
         /\ binds' = [binds EXCEPT ![s][n] = [decl |-> d, slot |-> 0]]
         /\ used' = [used EXCEPT ![s] = {0}]
         /\ nest' = Append(nest, [op |-> "for", scope |-> s])
         /\ current' = s
         /\ scopeOf' = [scopeOf EXCEPT ![pc + 1] = s]
         /\ Done(s)
  BY DEF CheckFor, This, Push
<1>2. /\ pass = "check" /\ pc < Len(prog) /\ e.op = "for" /\ errors' = errors
      /\ prog' = prog /\ pass' = pass
  BY DEF CheckFor, Here
<1>3. s \in Scopes /\ state[s] = "new"
  BY NewScopeIs
<1>4. /\ pc \in Nat /\ n \in Names /\ Moves(e, pc + 1, h[pc], h[pc + 1], g[pc], g[pc + 1])
      /\ pc \in 0 .. Len(prog)
  <2>1. pc \in Nat /\ n \in Names /\ Moves(e, pc + 1, h[pc], h[pc + 1], g[pc], g[pc + 1])
    BY <1>2, NextEvent
  <2>2. QED
    BY <1>2, <2>1 DEF Inv, Budget
<1>5. d \in Declaration /\ d.kind = "other"
  <2>1. 0 \in Arities
    BY NamesAssumption DEF NamesAssumption
  <2>2. QED
    BY <1>4, <2>1 DEF Ev, Declares, Declaration, Kind
<1>6. ScopesOK /\ Ranked(r) /\ Text(prog, h, g) /\ CheckNest(g)
  BY <1>2 DEF Inv, Nesting
<1>7. Inner.scope \in Opened
  <2>1. h[pc] > 1
    BY <1>2, <1>4 DEF Moves, Declarators
  <2>2. g[pc] # 0
    BY <1>4, <1>6, <2>1, TextMeans
  <2>3. QED
    BY <1>2, <2>2, CheckInner
<1> DEFINE p == Inner.scope
<1> HIDE DEF d, p
<1>8. ScopesOK' /\ (\E rank : Ranked(rank)') /\ Opens(s, p) /\ OneBinding(s, n, d)
  BY <1>1, <1>2, <1>3, <1>4, <1>5, <1>6, <1>7, LoopKeeps DEF p
<1>9. Checking(h, g, r, s)
  BY <1>1, <1>2, <1>3, CheckedIs
<1>10. Entering(h, g, r, e, s)
  <2>1. NestStep(e, s, nest')
    BY <1>1, <1>2 DEF NestStep
  <2>2. QED
    BY <1>1, <1>2, <1>8, <1>9, <2>1 DEF Entering, p
<1>11. /\ OwnScopes' /\ LoopTables \subseteq LoopTables' /\ s \in LoopTables'
       /\ \A i \in Functions : scopeOf'[i] = scopeOf[i]
  BY <1>10, LoopOwnScope
<1>12. /\ Nesting(h, g)' /\ g[pc + 1] = g[pc] /\ g[pc] \in Functions
       /\ \A k \in 3 .. Len(nest') :
             \/ nest'[k].scope = s
             \/ k \in 3 .. Len(nest) /\ nest'[k] = nest[k] /\ nest[k].scope \in Opened
  BY <1>10, EnteredNesting
<1>13. \A t \in Opened : t \in Scopes /\ t # s
  BY <1>3 DEF Opened
<1>14. \A f \in Functions : scopeOf[f] \in Opened
  <2>1. Functions \subseteq 1 .. MaxLoopLen
    <3>1. Functions \subseteq 1 .. Len(prog) /\ Len(prog) \in Nat
          /\ Len(prog) <= MaxLoopLen /\ MaxLoopLen \in Nat
      BY <1>2, TextStays
    <3>2. QED
      BY <3>1
  <2>2. QED
    BY <2>1 DEF Inv, OwnScopes
<1>15. \A t \in Opened : binds'[t] = binds[t]
  BY <1>1, <1>6, <1>13 DEF ScopesOK, Store
<1>16. ASSUME errors' = 0 PROVE Flawless(g)'
  <2>1. errors = 0 /\ Flawless(g)
    BY <1>2, <1>16 DEF Inv
  <2>2. BindingsGrow
    BY <1>8 DEF BindingsGrow, OneBinding
  <2>3. FunctionsKept(g, e)
    BY <1>14, <1>15 DEF FunctionsKept
  <2>4. Finds(g, e, s)
    BY <1>11, <1>12, <1>14, <1>15 DEF Finds
  <2>5. FindsElement(g, e)
    BY <1>2 DEF FindsElement
  <2>6. LoopArrays(g)'
    <3>1. SUFFICES ASSUME NEW k \in 3 .. Len(nest'), NEW m \in Names,
                          binds'[nest'[k].scope][m] # None,
                          binds'[nest'[k].scope][m].decl.kind = "array"
                   PROVE  /\ binds'[scopeOf'[g[pc + 1]]][m] # None
                          /\ binds'[scopeOf'[g[pc + 1]]][m].decl = binds'[nest'[k].scope][m].decl
      BY <1>9 DEF LoopArrays, Checking
    <3>2. nest'[k].scope # s
      <4>1. SUFFICES ASSUME nest'[k].scope = s PROVE FALSE
        OBVIOUS
      <4>2. binds[s] = Unbound
        BY <1>3, <1>6 DEF ScopesOK, Store
      <4>3. m = n
        <5>1. SUFFICES ASSUME m # n PROVE FALSE
          OBVIOUS
        <5>2. binds'[s][m] = binds[s][m]
          BY <1>3, <1>8, <5>1 DEF OneBinding
        <5>3. QED
          BY <3>1, <4>1, <4>2, <5>2 DEF Unbound
      <4>4. QED
        BY <1>5, <1>8, <3>1, <4>1, <4>3 DEF OneBinding
    <3>3. k \in 3 .. Len(nest) /\ nest'[k] = nest[k] /\ nest[k].scope \in Opened
      BY <1>12, <3>2
    <3>4. binds'[nest'[k].scope][m] = binds[nest[k].scope][m]
      BY <1>15, <3>3
    <3>5. /\ binds[scopeOf[g[pc]]][m] # None
          /\ binds[scopeOf[g[pc]]][m].decl = binds[nest[k].scope][m].decl
      BY <1>2, <2>1, <3>1, <3>3, <3>4 DEF Flawless, LoopArrays
    <3>6. binds'[scopeOf'[g[pc + 1]]] = binds[scopeOf[g[pc]]]
      BY <1>11, <1>12, <1>14, <1>15
    <3>7. QED
      BY <3>4, <3>5, <3>6
  <2>7. QED
    BY <1>9, <1>11, <2>1, <2>2, <2>3, <2>4, <2>5, <2>6, CheckedFlawless
<1>17. PICK r2 : Ranked(r2)'
  BY <1>8
<1>18. Inv(h, g, r2)'
  BY <1>8, <1>9, <1>11, <1>12, <1>16, <1>17, CheckedInv
<1>19. QED
  BY <1>18 DEF IInv

-----------------------------------------------------------------------------
\* Between the passes

\* What is known of the names stays with the scopes.
LEMMA FlawlessStays ==
    ASSUME NEW g, Flawless(g), UNCHANGED <<binds, prog, scopeOf>>, pass' = "collect" => pass = "collect",
           res'.collect = res.collect, res'.check = res.check, LoopArrays(g)'
    PROVE  Flawless(g)'
<1>1. /\ Names_' = Names_ /\ Functions' = Functions /\ LoopTables' = LoopTables
      /\ binds' = binds /\ prog' = prog /\ scopeOf' = scopeOf
      /\ res'.collect = res.collect /\ res'.check = res.check
  BY DEF Names_, Functions, LoopTables, LoopScopes, Of, Events
<1>2. Found(g)'
  BY <1>1 DEF Flawless, Found, At, DeclareOps, Declarators
<1>3. Stands(g)'
  BY <1>1 DEF Flawless, Stands, At, DeclareOps, Declarators, Declares, Kind
<1>4. NoLater(g)'
  BY <1>1 DEF Flawless, NoLater
<1>5. Captures(g)'
  BY <1>1 DEF Flawless, Captures, DeclareOps, Declarators
<1>6. Checked(g)'
  BY <1>1 DEF Flawless, Checked, Near
<1>7. ElementsChecked(g)'
  BY <1>1 DEF Flawless, ElementsChecked, Near
<1>8. QED
  BY <1>2, <1>3, <1>4, <1>5, <1>6, <1>7 DEF Flawless

\* The last function's scope is a scope of the file.
LEMMA LastIsSome ==
    ASSUME OwnScopes, Functions \subseteq 1 .. MaxLoopLen, NEW s, LastScope(s)
    PROVE  SomeScope(s)
<1>1. \A l \in Functions : scopeOf[l] \in Opened
  BY DEF OwnScopes
<1>2. CASE Functions = {}
  BY <1>2 DEF LastScope, SomeScope
<1>3. CASE Functions # {}
  <2>1. PICK l \in Functions : s = scopeOf[l]
    BY <1>3 DEF LastScope
  <2>2. QED
    BY <1>1, <1>3, <2>1 DEF SomeScope
<1>4. QED
  BY <1>2, <1>3

\* From one pass to the next, or out.
LEMMA NextPassKeeps ==
    ASSUME NEW h, NEW g, NEW r, Inv(h, g, r), NextPass
    PROVE  IInv'
<1>1. /\ pass \in Passes /\ pc = Len(prog) /\ prog' = prog /\ current' = current
      /\ scopeOf' = scopeOf /\ res' = res /\ errors' = errors
      /\ UNCHANGED <<up, state, binds, used>>
  BY DEF NextPass, avars
<1>2. \/ pass' = "rejected" /\ pc' = pc /\ nest' = nest /\ errors > 0 /\ pass # "generate"
      \/ /\ pass # "generate" /\ errors = 0
         /\ pass' = IF pass = "collect" THEN "check" ELSE "generate"
         /\ pc' = 0 /\ nest' = <<[op |-> "file", scope |-> current]>>
      \/ pass = "generate" /\ pass' = "compiled" /\ pc' = pc /\ nest' = nest
  BY DEF NextPass
<1>3. /\ ScopesOK /\ Ranked(r) /\ Text(prog, h, g) /\ Budget /\ OwnScopes /\ Nesting(h, g)
      /\ Records /\ (errors = 0 => Flawless(g)) /\ GeneratedAll
      /\ (pass \in {"generate", "compiled"} => Generated(g))
  BY DEF Inv
<1>4. errors \in Nat /\ errors' \in Nat
  BY <1>1, <1>3 DEF ScopesOK
<1>5. ScopesOK' /\ Ranked(r)' /\ Opened' = Opened /\ up' = up /\ binds' = binds
  BY <1>1, <1>3, <1>4, SteadyKeeps
<1>6. /\ Text(prog', h, g) /\ Functions' = Functions /\ For' = For /\ Names_' = Names_
      /\ Len(prog) \in Nat /\ pc \in Nat /\ Functions \subseteq 1 .. Len(prog)
      /\ Len(prog) <= MaxLoopLen /\ MaxLoopLen \in Nat /\ Names_ \subseteq 1 .. Len(prog)
  BY <1>1, TextStays
<1>7. Functions \subseteq 1 .. MaxLoopLen
  BY <1>6
<1>8. pass' # "collect" /\ pass' \in Passes \cup Ends /\ (pass' # "check" => LoopArrays(g)')
      /\ (pass' = "check" => pass = "collect" /\ nest' = <<[op |-> "file", scope |-> current]>>)
  BY <1>1, <1>2 DEF Passes, Ends, LoopArrays
<1>9. Budget'
  BY <1>1, <1>2, <1>3, <1>6, <1>8 DEF Budget
<1>10. OwnScopes'
  <2>1. \A i \in 1 .. MaxLoopLen : i \in For /\ pass = "collect" => scopeOf[i] = None
    BY <1>3 DEF OwnScopes
  <2>2. QED
    BY <1>1, <1>3, <1>5, <1>6, <1>8, <2>1 DEF OwnScopes
<1>11. current \in Scopes \cup {None}
  BY <1>3 DEF Nesting
<1>12. Nesting(h, g)'
  <2>1. CASE pass' \in {"rejected", "compiled"}
    BY <1>1, <1>8, <1>11, <2>1 DEF Nesting, Passes, Ends
  <2>2. CASE /\ pass # "generate" /\ errors = 0
             /\ pass' = IF pass = "collect" THEN "check" ELSE "generate"
             /\ pc' = 0 /\ nest' = <<[op |-> "file", scope |-> current]>>
    <3> DEFINE level == [op |-> "file", scope |-> current]
    <3>1. level \in Level /\ level.op = "file" /\ level.scope = current /\ nest' = <<level>>
      BY <1>11, <2>2 DEF Level
    <3>2. h[0] = 1 /\ g[0] = 0
      BY <1>3 DEF Text
    <3> HIDE DEF level
    <3>3. Len(nest') = 1 /\ nest'[1] = level
      BY <3>1
    <3>4. Nested(nest', h[0])
      <4> DEFINE L == Level
      <4>1. level \in L
        BY <3>1
      <4> HIDE DEF L
      <4>2. <<level>> \in Seq(L)
        BY <4>1
      <4>3. \A k \in 1 .. 1 : k = 1
        OBVIOUS
      <4>4. QED
        BY <3>1, <3>2, <3>3, <4>2, <4>3 DEF Nested, L
    <3>5. SomeScope(current) /\ (pass = "collect" => LastScope(current))
      <4>1. pass \in {"collect", "check"}
        BY <1>1, <2>2 DEF Passes
      <4>2. QED
        BY <1>3, <1>7, <4>1, LastIsSome DEF Nesting, CollectNest, CheckNest
    <3>6. SomeScope(current)' /\ SomeScope(nest[1].scope)'
      BY <1>1, <1>5, <1>6, <3>1, <3>3, <3>5 DEF SomeScope
    <3>7. pass = "collect" => LastScope(nest[1].scope)'
      BY <1>1, <1>6, <3>1, <3>3, <3>5 DEF LastScope
    <3>8. pass' = "check" => CheckNest(g)'
      <4>1. SUFFICES ASSUME pass' = "check" PROVE CheckNest(g)'
        OBVIOUS
      <4>2. pass = "collect"
        BY <1>8, <4>1
      <4>3. ~(Len(nest') > 1) /\ \A k \in 3 .. Len(nest') : FALSE
        BY <3>3
      <4>4. QED
        BY <3>6, <3>7, <4>2, <4>3 DEF CheckNest
    <3>9. GenerateNest(g)'
      <4>1. ~(Len(nest') > 1)
        BY <3>3
      <4>2. current' = nest'[1].scope /\ g[pc'] = 0
        BY <1>1, <2>2, <3>1, <3>2, <3>3
      <4>3. QED
        BY <3>6, <4>1, <4>2 DEF GenerateNest
    <3>10. QED
      BY <1>1, <1>8, <1>11, <2>2, <3>4, <3>8, <3>9 DEF Nesting, Passes, Ends
  <2>3. QED
    BY <1>2, <2>1, <2>2
<1>13. Records'
  <2>1. Passes' = Passes /\ Len(<<>>) = 0
    BY DEF Passes
  <2>2. QED
    BY <1>1, <1>2, <1>3, <1>6, <2>1 DEF Records, Passes
<1>14. errors' = 0 => Flawless(g)'
  <2>1. pass' = "check" => LoopArrays(g)'
    <3>1. SUFFICES ASSUME pass' = "check" PROVE LoopArrays(g)'
      OBVIOUS
    <3>2. nest' = <<[op |-> "file", scope |-> current]>>
      BY <1>8, <3>1
    <3>3. Len(nest') = 1
      BY <3>2
    <3>4. \A k \in 3 .. Len(nest') : FALSE
      BY <3>3
    <3>5. QED
      BY <3>4 DEF LoopArrays
  <2>2. QED
    BY <1>1, <1>3, <1>5, <1>8, <2>1, FlawlessStays
<1>15. pass' \in {"generate", "compiled"} => Generated(g)'
  <2>1. CASE pass = "generate"
    BY <1>1, <1>3, <1>5, <1>6, <2>1 DEF Generated, Near
  <2>2. CASE pass # "generate"
    <3>1. Len(res'.generate) = 0
      BY <1>1, <1>3, <2>2 DEF Records, Passes
    <3>2. QED
      BY <1>6, <3>1 DEF Generated
  <2>3. QED
    BY <2>1, <2>2
<1>16. GeneratedAll'
  BY <1>1, <1>3, <1>6 DEF GeneratedAll
<1>17. Inv(h, g, r)'
  BY <1>5, <1>6, <1>9, <1>10, <1>12, <1>13, <1>14, <1>15, <1>16 DEF Inv
<1>18. QED
  BY <1>17 DEF IInv

-----------------------------------------------------------------------------
\* The third pass

\* A step of the third pass.
Generating(h, g, r, home) ==
    /\ Inv(h, g, r) /\ pass = "generate" /\ pc < Len(prog) /\ home \in Scopes \cup {None}
    /\ UNCHANGED <<up, state, binds, used, errors, prog, scopeOf>>
    /\ pc' = pc + 1 /\ pass' \in {"generate", "exited", "crashed"}
    /\ res' = [res EXCEPT !["generate"] = Append(@, home)]

\* What the third pass has found is one more.
LEMMA GeneratedRecords ==
    ASSUME NEW h, NEW g, NEW r, NEW home, Generating(h, g, r, home)
    PROVE  /\ Records' /\ Budget'
           /\ res'.collect = res.collect /\ res'.check = res.check
           /\ Len(res.generate) = pc /\ Len(res'.generate) = pc + 1 /\ res'.generate[pc + 1] = home
           /\ \A i \in 1 .. pc : res'.generate[i] = res.generate[i]
<1> DEFINE S == Scopes \cup {None}
           c == res["generate"]
           d == Append(c, home)
<1>1. /\ Records /\ Budget /\ pass = "generate" /\ pass' \in {"generate", "exited", "crashed"}
      /\ home \in S /\ pc < Len(prog) /\ prog' = prog /\ pc' = pc + 1 /\ errors' = errors
  BY DEF Generating, Inv
<1>2. Len(prog) \in Nat /\ pc \in Nat
  BY NextEvent DEF Generating
<1>3. /\ res \in [Passes -> Seq(S)] /\ Len(res["collect"]) = Len(prog) /\ Len(c) = pc
      /\ Len(res["check"]) = Len(prog) /\ errors = 0
  BY <1>1 DEF Records
<1>4. res' = [res EXCEPT !["generate"] = d]
  BY DEF Generating
<1>5. c \in Seq(S)
  BY <1>3 DEF Passes
<1> HIDE DEF S
<1>6. d \in Seq(S) /\ Len(d) = pc + 1 /\ d[pc + 1] = home /\ \A i \in 1 .. pc : d[i] = c[i]
  BY <1>1, <1>3, <1>5
<1> HIDE DEF d
<1>7. /\ res' \in [Passes -> Seq(S)] /\ res'["generate"] = d
      /\ res'["collect"] = res["collect"] /\ res'["check"] = res["check"]
  BY <1>3, <1>4, <1>6 DEF Passes
<1>8. Records'
  <2>1. Passes' = Passes
    BY DEF Passes
  <2>2. QED
    BY <1>1, <1>2, <1>3, <1>6, <1>7, <2>1 DEF Records, S
<1>9. Budget'
  BY <1>1, <1>2 DEF Budget
<1>10. QED
  BY <1>3, <1>6, <1>7, <1>8, <1>9

\* The function scope or table the third pass works in, and what it finds there.
LEMMA GenerateHome ==
    ASSUME NEW h, NEW g, NEW r, Inv(h, g, r), pass = "generate", pc < Len(prog),
           NEW e, e = prog[pc + 1], e.op # "end", NEW s,
           s = IF g[pc + 1] = 0 THEN nest[1].scope ELSE scopeOf[g[pc + 1]]
    PROVE  /\ Home(s, e.name) \in Scopes \cup {None}
           /\ g[pc] # 0 => Home(s, e.name) = Near(g, pc, e.name)
           /\ Functions # {} => Home(s, e.name) # None
<1>1. /\ ScopesOK /\ Ranked(r) /\ OwnScopes /\ GenerateNest(g) /\ Text(prog, h, g)
      /\ Found(g)
  <2>1. errors = 0
    BY DEF Inv, Records
  <2>2. QED
    BY <2>1 DEF Inv, Nesting, Flawless
<1>2. /\ pc \in Nat /\ Len(prog) \in Nat /\ pc + 1 \in 1 .. Len(prog)
      /\ Len(prog) <= MaxLoopLen /\ MaxLoopLen \in Nat
      /\ Moves(e, pc + 1, h[pc], h[pc + 1], g[pc], g[pc + 1])
      /\ e.name \in Names /\ pc + 1 \in Names_
  BY NextEvent
<1>3. /\ pc + 1 \in 0 .. Len(prog) /\ pc \in 0 .. Len(prog) /\ (pc + 1) - 1 = pc
  BY <1>2
<1>4. (g[pc + 1] # 0 => g[pc + 1] \in Functions) /\ (g[pc] # 0 => g[pc] \in Functions)
  BY <1>1, <1>3, TextMeans, FunctionsAre
<1>5. \A f \in Functions : scopeOf[f] \in Opened /\ up[scopeOf[f]] = Package
  <2>1. Functions \subseteq 1 .. MaxLoopLen
    <3>1. Functions \subseteq DOMAIN prog /\ DOMAIN prog = 1 .. Len(prog)
      BY <1>1 DEF Functions, Of, Events, Text
    <3>2. QED
      BY <1>2, <3>1
  <2>2. QED
    BY <1>1, <2>1 DEF OwnScopes
<1>6. s \in Opened \cup {None} /\ (Functions # {} => s \in Opened)
  BY <1>1, <1>4, <1>5 DEF GenerateNest, SomeScope
<1>7. Home(s, e.name) \in Scopes \cup {None}
  <2>1. Home(s, e.name) \in Opened \cup {None}
    BY <1>1, <1>6, HomeBinds
  <2>2. QED
    BY <2>1 DEF Opened
<1>8. /\ res.collect[pc + 1] \in {Package, At(g, pc)}
      /\ binds[res.collect[pc + 1]][e.name] # None
  BY <1>1, <1>2, <1>3 DEF Found
<1>9. CASE g[pc] # 0
  <2>1. g[pc + 1] = g[pc] /\ s = scopeOf[g[pc]]
    <3>1. h[pc] # 1 /\ h[pc] \in Nat \ {0}
      BY <1>1, <1>3, <1>9, TextMeans
    <3>2. g[pc + 1] = g[pc]
      BY <1>2, <3>1 DEF Moves
    <3>3. QED
      BY <1>9, <3>2
  <2>2. s \in Opened /\ up[s] = Package
    BY <1>4, <1>5, <1>9, <2>1
  <2>3. Home(s, e.name) = IF binds[s][e.name] # None THEN s
                          ELSE IF binds[Package][e.name] # None THEN Package ELSE None
    BY <1>1, <2>2, HomeOfFunction
  <2>4. Home(s, e.name) = Near(g, pc, e.name)
    BY <1>8, <1>9, <2>1, <2>3 DEF Near, At
  <2>5. Near(g, pc, e.name) # None
    BY <2>1, <2>2, NamesAssumption DEF Near, Opened, NamesAssumption
  <2>6. QED
    BY <1>7, <2>4, <2>5
<1>10. CASE g[pc] = 0
  <2>1. binds[Package][e.name] # None
    BY <1>8, <1>10 DEF At
  <2>2. QED
    BY <1>1, <1>6, <1>7, <1>10, <2>1, HomeFindsPackage
<1>11. QED
  BY <1>9, <1>10

\* A step of the third pass keeps the invariant.
LEMMA GenerateKeeps ==
    ASSUME NEW h, NEW g, NEW r, NEW home, Generating(h, g, r, home), NEW e, e = prog[pc + 1],
           NestStep(e, current, nest'),
           current' = IF g[pc + 1] = 0 THEN nest[1].scope ELSE scopeOf[g[pc + 1]],
           e.op # "end" => home = Home(current', e.name)
    PROVE  IInv'
<1>1. /\ Inv(h, g, r) /\ pass = "generate" /\ pass \in Passes /\ pc < Len(prog) /\ prog' = prog
      /\ pc' = pc + 1 /\ scopeOf' = scopeOf /\ pass' \in {"generate", "exited", "crashed"}
      /\ errors' = errors /\ UNCHANGED <<up, state, binds, used>>
  BY DEF Generating, Passes
<1>2. /\ ScopesOK /\ Ranked(r) /\ OwnScopes /\ Nesting(h, g) /\ GenerateNest(g)
      /\ Text(prog, h, g) /\ Generated(g) /\ GeneratedAll /\ errors = 0 /\ Flawless(g)
  <2>1. errors = 0
    BY <1>1 DEF Inv, Records
  <2>2. QED
    BY <1>1, <2>1 DEF Inv, Nesting
<1>3. ScopesOK' /\ Ranked(r)' /\ Opened' = Opened /\ up' = up /\ binds' = binds
  <2>1. errors' \in Nat
    BY <1>1, <1>2
  <2>2. QED
    BY <1>1, <1>2, <2>1, SteadyKeeps
<1>4. /\ Records' /\ Budget'
      /\ res'.collect = res.collect /\ res'.check = res.check
      /\ Len(res.generate) = pc /\ Len(res'.generate) = pc + 1 /\ res'.generate[pc + 1] = home
      /\ \A i \in 1 .. pc : res'.generate[i] = res.generate[i]
  BY GeneratedRecords
<1>5. /\ Text(prog', h, g) /\ Functions' = Functions /\ For' = For /\ Names_' = Names_
      /\ Len(prog) \in Nat /\ pc \in Nat /\ Functions \subseteq 1 .. Len(prog)
      /\ Len(prog) <= MaxLoopLen /\ MaxLoopLen \in Nat /\ Names_ \subseteq 1 .. Len(prog)
      /\ pc + 1 \in 0 .. Len(prog)
  BY <1>1, TextStays
<1>6. OwnScopes'
  BY <1>1, <1>2, <1>3, <1>5 DEF OwnScopes
<1>7. \A f \in Functions : scopeOf[f] \in Opened
  <2>1. Functions \subseteq 1 .. MaxLoopLen
    BY <1>5
  <2>2. QED
    BY <1>2, <2>1 DEF OwnScopes
<1>8. current \in Scopes \cup {None} /\ current' \in Scopes \cup {None}
  <2>1. g[pc + 1] # 0 => g[pc + 1] \in Functions
    BY <1>2, <1>5, TextMeans, FunctionsAre
  <2>2. current \in Scopes \cup {None} /\ nest[1].scope \in Scopes \cup {None}
    BY <1>2 DEF Nesting, GenerateNest, SomeScope, Opened
  <2>3. QED
    BY <1>7, <2>1, <2>2 DEF Opened
<1>9. Followed(h, g, e, current, nest')
  <2>1. \A q : NestStep(e, current, q) => Followed(h, g, e, current, q)
    BY <1>1, <1>8, NestFollows
  <2>2. QED
    BY <2>1
<1>10. Len(nest) = h[pc] /\ Len(nest') = h[pc + 1]
  BY <1>9 DEF Followed, Nested
<1>11. /\ nest'[1] = nest[1]
       /\ h[pc + 1] > 1 => nest'[2].scope = nest[1].scope
  <2>1. /\ h[pc] \in Nat \ {0} /\ h[pc + 1] \in Nat \ {0}
        /\ \A k \in 1 .. h[pc] : k <= h[pc + 1] => nest'[k] = nest[k]
        /\ Moves(e, pc + 1, h[pc], h[pc + 1], g[pc], g[pc + 1])
        /\ g[pc] = 0 <=> h[pc] = 1
        /\ e.op \in {"fun", "for"} => nest'[h[pc + 1]].scope = current
    BY <1>9 DEF Followed
  <2>2. nest'[1] = nest[1]
    <3>1. 1 \in 1 .. h[pc] /\ 1 <= h[pc + 1]
      BY <2>1
    <3>2. QED
      BY <2>1, <3>1
  <2>3. ASSUME h[pc + 1] > 1 PROVE nest'[2].scope = nest[1].scope
    <3>1. CASE h[pc] = 1
      <4>1. e.op = "fun" /\ h[pc + 1] = 2 /\ g[pc] = 0
        BY <2>1, <2>3, <3>1 DEF Moves
      <4>2. current = nest[1].scope
        BY <1>2, <4>1 DEF GenerateNest
      <4>3. QED
        BY <2>1, <4>1, <4>2
    <3>2. CASE h[pc] # 1
      <4>1. 2 \in 1 .. h[pc] /\ 2 <= h[pc + 1] /\ h[pc] > 1
        BY <2>1, <2>3, <3>2
      <4>2. nest'[2] = nest[2] /\ nest[2].scope = nest[1].scope
        BY <1>2, <1>10, <2>1, <4>1 DEF GenerateNest
      <4>3. QED
        BY <4>2
    <3>3. QED
      BY <3>1, <3>2
  <2>4. QED
    BY <2>2, <2>3
<1>12. GenerateNest(g)'
  <2>1. SomeScope(nest[1].scope)'
    BY <1>2, <1>3, <1>5, <1>11 DEF GenerateNest, SomeScope
  <2>2. Len(nest') > 1 => nest'[2].scope = nest'[1].scope
    BY <1>10, <1>11
  <2>3. current' = IF g[pc'] = 0 THEN nest'[1].scope ELSE scopeOf'[g[pc']]
    BY <1>1, <1>11
  <2>4. QED
    BY <2>1, <2>2, <2>3 DEF GenerateNest
<1>13. Nesting(h, g)'
  <2>1. Nested(nest', h[pc'])
    BY <1>1, <1>9 DEF Followed
  <2>2. QED
    BY <1>1, <1>8, <1>12, <2>1 DEF Nesting, Passes, Ends
<1>14. Flawless(g)'
  <2>1. pass' # "collect" /\ LoopArrays(g)'
    BY <1>1 DEF LoopArrays
  <2>2. QED
    BY <1>1, <1>2, <1>4, <2>1, FlawlessStays
<1>15. \A i \in Names_ : i <= Len(res'.generate) => i \in 1 .. pc \/ i = pc + 1
  BY <1>4, <1>5
<1>16. ASSUME e.op # "end"
       PROVE  /\ g[pc] # 0 => home = Near(g, pc, e.name)
              /\ Functions # {} => home # None
  <2>1. home = Home(current', e.name)
    BY <1>16
  <2> DEFINE s == IF g[pc + 1] = 0 THEN nest[1].scope ELSE scopeOf[g[pc + 1]]
  <2>2. home = Home(s, e.name) /\ s = IF g[pc + 1] = 0 THEN nest[1].scope ELSE scopeOf[g[pc + 1]]
    BY <2>1
  <2> HIDE DEF s
  <2>3. QED
    BY <1>1, <1>16, <2>2, GenerateHome
<1>17. \A i \in Names_ : Near(g, i - 1, prog[i].name)' = Near(g, i - 1, prog[i].name)
  BY <1>1, <1>3 DEF Near
<1>18. Generated(g)'
  <2>1. SUFFICES ASSUME NEW i \in Names_, i <= Len(res'.generate), g[i - 1] # 0
                 PROVE  res'.generate[i] = Near(g, i - 1, prog[i].name)
    BY <1>5, <1>17 DEF Generated
  <2>2. CASE i \in 1 .. pc
    BY <1>2, <1>4, <2>1, <2>2 DEF Generated
  <2>3. CASE i = pc + 1
    <3>1. i - 1 = pc /\ e.op # "end"
      BY <1>5, <2>3 DEF Names_
    <3>2. QED
      BY <1>4, <1>16, <2>1, <2>3, <3>1
  <2>4. QED
    BY <1>15, <2>1, <2>2, <2>3
<1>19. GeneratedAll'
  <2>1. SUFFICES ASSUME Functions # {}, NEW i \in Names_, i <= Len(res'.generate)
                 PROVE  res'.generate[i] # None
    BY <1>5 DEF GeneratedAll
  <2>2. CASE i \in 1 .. pc
    BY <1>2, <1>4, <2>1, <2>2 DEF GeneratedAll
  <2>3. CASE i = pc + 1
    <3>1. e.op # "end"
      BY <2>3 DEF Names_
    <3>2. QED
      BY <1>4, <1>16, <2>1, <2>3, <3>1
  <2>4. QED
    BY <1>15, <2>1, <2>2, <2>3
<1>20. Inv(h, g, r)'
  BY <1>3, <1>4, <1>5, <1>6, <1>13, <1>14, <1>18, <1>19 DEF Inv
<1>21. QED
  BY <1>20 DEF IInv

\* The generator enters a function.
LEMMA GenerateFunKeeps ==
    ASSUME NEW h, NEW g, NEW r, Inv(h, g, r), GenerateFun
    PROVE  IInv'
<1> DEFINE e == prog[pc + 1]
           home == Home(scopeOf[pc + 1], e.name)
<1>1. /\ pass = "generate" /\ pc < Len(prog) /\ e.op = "fun"
      /\ nest' = Append(nest, [op |-> "fun", scope |-> current]) /\ current' = scopeOf[pc + 1]
      /\ UNCHANGED <<up, state, binds, used, errors, prog, scopeOf>> /\ pass' = pass
      /\ pc' = pc + 1 /\ res' = [res EXCEPT ![pass] = Append(@, home)]
  BY DEF GenerateFun, Here, This, Push, Done, avars
<1>2. g[pc + 1] = pc + 1 /\ g[pc + 1] # 0
  <2>1. pc \in Nat /\ Moves(e, pc + 1, h[pc], h[pc + 1], g[pc], g[pc + 1])
    BY <1>1, NextEvent
  <2>2. QED
    BY <1>1, <2>1 DEF Moves, Declarators
<1>3. current' = IF g[pc + 1] = 0 THEN nest[1].scope ELSE scopeOf[g[pc + 1]]
  BY <1>1, <1>2
<1>4. home \in Scopes \cup {None}
  <2>1. \A s : s = scopeOf[pc + 1] => Home(s, e.name) \in Scopes \cup {None}
    BY <1>1, <1>2, GenerateHome
  <2>2. QED
    BY <2>1
<1>5. NestStep(e, current, nest')
  BY <1>1 DEF NestStep
<1>6. home = Home(current', e.name)
  BY <1>1
<1> HIDE DEF home
<1>7. Generating(h, g, r, home)
  BY <1>1, <1>4 DEF Generating
<1>8. QED
  BY <1>3, <1>5, <1>6, <1>7, GenerateKeeps

\* The generator looks a name up.
LEMMA GenerateNameKeeps ==
    ASSUME NEW h, NEW g, NEW r, Inv(h, g, r), GenerateName
    PROVE  IInv'
<1> DEFINE e == prog[pc + 1]
           home == Home(current, e.name)
<1>1. /\ pass = "generate" /\ pc < Len(prog) /\ nest' = nest /\ current' = current
      /\ e.op \notin {"fun", "for", "end"}
      /\ UNCHANGED <<up, state, binds, used, errors, prog, scopeOf>>
      /\ pc' = pc + 1 /\ res' = [res EXCEPT ![pass] = Append(@, home)]
  BY DEF GenerateName, Here, This, Done, avars
<1>2. pass' \in {"generate", "exited", "crashed"}
  BY DEF GenerateName, Missed, Here
<1>3. g[pc + 1] = g[pc]
  <2>1. pc \in Nat /\ Moves(e, pc + 1, h[pc], h[pc + 1], g[pc], g[pc + 1])
    BY <1>1, NextEvent
  <2>2. QED
    BY <1>1, <2>1 DEF Moves
<1>4. current' = IF g[pc + 1] = 0 THEN nest[1].scope ELSE scopeOf[g[pc + 1]]
  BY <1>1, <1>3 DEF Inv, Nesting, GenerateNest
<1>5. home \in Scopes \cup {None}
  <2>1. current = IF g[pc + 1] = 0 THEN nest[1].scope ELSE scopeOf[g[pc + 1]]
    BY <1>1, <1>4
  <2>2. QED
    BY <1>1, <2>1, GenerateHome
<1>6. NestStep(e, current, nest')
  BY <1>1 DEF NestStep
<1>7. home = Home(current', e.name)
  BY <1>1
<1> HIDE DEF home
<1>8. Generating(h, g, r, home)
  BY <1>1, <1>2, <1>5 DEF Generating
<1>9. QED
  BY <1>4, <1>6, <1>7, <1>8, GenerateKeeps

\* The generator comes to a loop, and stays in the function's scope.
LEMMA GenerateForKeeps ==
    ASSUME NEW h, NEW g, NEW r, Inv(h, g, r), GenerateFor
    PROVE  IInv'
<1> DEFINE e == prog[pc + 1]
           home == Home(current, e.name)
<1>1. /\ pass = "generate" /\ pc < Len(prog) /\ current' = current /\ e.op = "for"
      /\ nest' = Append(nest, [op |-> "for", scope |-> current])
      /\ UNCHANGED <<up, state, binds, used, errors, prog, scopeOf>> /\ pass' = pass
      /\ pc' = pc + 1 /\ res' = [res EXCEPT ![pass] = Append(@, home)]
  BY DEF GenerateFor, Here, This, Done, Push, avars
<1>2. g[pc + 1] = g[pc]
  <2>1. pc \in Nat /\ Moves(e, pc + 1, h[pc], h[pc + 1], g[pc], g[pc + 1])
    BY <1>1, NextEvent
  <2>2. QED
    BY <1>1, <2>1 DEF Moves
<1>3. current' = IF g[pc + 1] = 0 THEN nest[1].scope ELSE scopeOf[g[pc + 1]]
  BY <1>1, <1>2 DEF Inv, Nesting, GenerateNest
<1>4. home \in Scopes \cup {None}
  <2>1. current = IF g[pc + 1] = 0 THEN nest[1].scope ELSE scopeOf[g[pc + 1]]
    BY <1>1, <1>3
  <2>2. QED
    BY <1>1, <2>1, GenerateHome
<1>5. NestStep(e, current, nest')
  BY <1>1 DEF NestStep
<1>6. home = Home(current', e.name)
  BY <1>1
<1> HIDE DEF home
<1>7. Generating(h, g, r, home)
  BY <1>1, <1>4 DEF Generating
<1>8. QED
  BY <1>3, <1>5, <1>6, <1>7, GenerateKeeps

\* The generator leaves a construct, and a function's scope with the function.
LEMMA GenerateEndKeeps ==
    ASSUME NEW h, NEW g, NEW r, Inv(h, g, r), GenerateEnd
    PROVE  IInv'
<1> DEFINE e == prog[pc + 1]
<1>1. /\ pass = "generate" /\ pc < Len(prog) /\ e.op = "end"
      /\ nest' = SubSeq(nest, 1, Len(nest) - 1)
      /\ current' = IF Inner.op = "fun" THEN Inner.scope ELSE current
      /\ UNCHANGED <<up, state, binds, used, errors, prog, scopeOf>> /\ pass' = pass
      /\ pc' = pc + 1 /\ res' = [res EXCEPT ![pass] = Append(@, None)]
  BY DEF GenerateEnd, Here, Done, Pop, avars
<1>2. GenerateNest(g) /\ Nested(nest, h[pc]) /\ Text(prog, h, g)
  BY <1>1 DEF Inv, Nesting, Passes
<1>3. /\ pc \in Nat /\ Len(prog) \in Nat /\ pc + 1 \in 1 .. Len(prog)
      /\ Moves(e, pc + 1, h[pc], h[pc + 1], g[pc], g[pc + 1])
  BY <1>1, NextEvent
<1>4. /\ h[pc] \in Nat /\ h[pc] > 1 /\ g[pc + 1] = (IF h[pc] = 2 THEN 0 ELSE g[pc]) /\ g[pc] # 0
  <2>1. pc \in 0 .. Len(prog)
    BY <1>3
  <2>2. h[pc] \in Nat \ {0} /\ (g[pc] = 0 <=> h[pc] = 1)
    BY <1>2, <2>1, TextMeans
  <2>3. h[pc] > 1 /\ h[pc + 1] = h[pc] - 1 /\ g[pc + 1] = IF h[pc + 1] = 1 THEN 0 ELSE g[pc]
    BY <1>1, <1>3 DEF Moves, Declarators
  <2>4. QED
    BY <2>2, <2>3
<1>5. Len(nest) = h[pc] /\ Inner.op = IF h[pc] = 2 THEN "fun" ELSE "for"
  <2>1. Len(nest) = h[pc]
    BY <1>2 DEF Nested
  <2>2. h[pc] \in 1 .. h[pc] /\ h[pc] # 1
    BY <1>4
  <2>3. QED
    BY <1>2, <2>1, <2>2 DEF Nested, Inner
<1>6. current' = IF g[pc + 1] = 0 THEN nest[1].scope ELSE scopeOf[g[pc + 1]]
  <2>1. CASE h[pc] = 2
    <3>1. Inner.scope = nest[1].scope
      BY <1>2, <1>5, <2>1 DEF GenerateNest, Inner
    <3>2. QED
      BY <1>1, <1>4, <1>5, <2>1, <3>1
  <2>2. CASE h[pc] # 2
    BY <1>1, <1>2, <1>4, <1>5, <2>2 DEF GenerateNest
  <2>3. QED
    BY <2>1, <2>2
<1>7. NestStep(e, current, nest')
  BY <1>1 DEF NestStep
<1>8. Generating(h, g, r, None)
  BY <1>1 DEF Generating
<1>9. QED
  BY <1>1, <1>6, <1>7, <1>8, GenerateKeeps

-----------------------------------------------------------------------------
\* The specification

\* An empty file: one scope open, the package's, and nothing in it.
LEMMA InitHolds ==
    ASSUME Init
    PROVE  IInv
<1> DEFINE h == [i \in 0 .. 0 |-> 1]
           g == [i \in 0 .. 0 |-> 0]
           r == [s \in Scopes |-> 0]
<1>1. /\ Package \in Scopes /\ None \notin Scopes /\ MaxLoopLen \in Nat
  BY NamesAssumption DEF NamesAssumption
<1>2. /\ up = [s \in Scopes |-> None] /\ binds = [s \in Scopes |-> Unbound]
      /\ state = [s \in Scopes |-> IF s = Package THEN "open" ELSE "new"]
      /\ used = [s \in Scopes |-> {}] /\ errors = 0
      /\ prog = <<>> /\ pass = "collect" /\ pc = 0 /\ current = None
      /\ nest = <<[op |-> "file", scope |-> Package]>>
      /\ scopeOf = [i \in 1 .. MaxLoopLen |-> None] /\ res = [p \in Passes |-> <<>>]
  BY DEF Init
<1>3. Opened = {Package}
  BY <1>1, <1>2 DEF Opened
<1>4. Cardinality(Opened) = 1
  BY <1>3, FS_Singleton
<1>5. ScopesOK
  <2>1. Tree
    BY <1>1, <1>2 DEF Tree
  <2>2. Unbound \in [Names -> Slot \cup {None}] /\ \A n \in Names : Unbound[n] = None
    BY DEF Unbound
  <2>3. IsFiniteSet({})
    BY FS_EmptySet
  <2>4. \A s \in Scopes : binds[s] = Unbound /\ used[s] = {}
    BY <1>2
  <2>5. binds \in [Scopes -> [Names -> Slot \cup {None}]] /\ used \in [Scopes -> SUBSET Nat]
    <3> DEFINE B == [Names -> Slot \cup {None}]
    <3>1. Unbound \in B
      BY <2>2
    <3> HIDE DEF B
    <3>2. QED
      BY <1>2, <3>1 DEF B
  <2>6. Store
    BY <2>2, <2>3, <2>4, <2>5 DEF Store
  <2>7. QED
    BY <1>2, <2>1, <2>6 DEF ScopesOK
<1>6. Ranked(r)
  <2>1. r \in [Scopes -> Nat] /\ \A s \in Opened : s = Package /\ r[s] = 0
    BY <1>1, <1>3
  <2> HIDE DEF r
  <2>2. QED
    BY <1>4, <2>1 DEF Ranked
<1>7. Len(prog) = 0 /\ DOMAIN prog = {} /\ prog \in Seq(Event)
  BY <1>2
<1>8. h[0] = 1 /\ g[0] = 0 /\ h \in [0 .. 0 -> Nat \ {0}] /\ g \in [0 .. 0 -> Nat]
  OBVIOUS
<1> HIDE DEF h, g, r
<1>9. Text(prog, h, g)
  <2>1. \A i \in 0 .. 0 : i = 0
    OBVIOUS
  <2>2. \A i \in 0 .. 0 : InFunction(prog, h, g, i)
    BY <1>8, <2>1 DEF InFunction
  <2>3. QED
    BY <1>7, <1>8, <2>2 DEF Text
<1>10. Functions = {} /\ For = {} /\ Names_ = {}
  BY <1>7 DEF Functions, For, Names_, Of, Events
<1> DEFINE level == [op |-> "file", scope |-> Package]
<1>11. level \in Level /\ level.op = "file" /\ level.scope = Package /\ nest = <<level>>
  BY <1>1, <1>2 DEF Level
<1> HIDE DEF level
<1>12. Len(nest) = 1 /\ nest[1] = level
  BY <1>11
<1>13. Nested(nest, 1)
  <2> DEFINE L == Level
  <2>1. level \in L
    BY <1>11
  <2> HIDE DEF L
  <2>2. <<level>> \in Seq(L)
    BY <2>1
  <2>3. \A k \in 1 .. 1 : k = 1
    OBVIOUS
  <2>4. QED
    BY <1>11, <1>12, <2>2, <2>3 DEF Nested, L
<1>14. Budget
  <2>1. Lacking = 0
    <3>1. FunctionsOf(prog) = {}
      BY <1>7 DEF FunctionsOf
    <3>2. LackIn(prog) = 0
      BY <3>1 DEF LackIn
    <3>3. QED
      BY <3>2, LackingIs
  <2>2. QED
    BY <1>1, <1>2, <1>7, <1>12, <2>1 DEF Budget
<1>15. OwnScopes
  BY <1>1, <1>2, <1>10 DEF OwnScopes
<1>16. Nesting(h, g)
  <2>1. CollectNest(g)
    <3>1. \A k \in 2 .. Len(nest) : FALSE
      BY <1>12
    <3>2. QED
      BY <1>2, <1>10, <1>11, <1>12, <3>1 DEF CollectNest, LastScope
  <2>2. QED
    BY <1>2, <1>8, <1>13, <2>1 DEF Nesting, Passes
<1>17. Records
  BY <1>2, <1>7 DEF Records, Passes
<1>18. Flawless(g)
  BY <1>2, <1>10 DEF Flawless, Found, Stands, NoLater, Captures, Checked, ElementsChecked, LoopArrays
<1>19. GeneratedAll
  BY <1>10 DEF GeneratedAll
<1>20. Inv(h, g, r)
  BY <1>2, <1>5, <1>6, <1>9, <1>14, <1>15, <1>16, <1>17, <1>18, <1>19 DEF Inv
<1>21. QED
  BY <1>20 DEF IInv

\* Nothing that the invariant speaks of is outside the variables.
LEMMA StutterKeeps ==
    ASSUME NEW h, NEW g, NEW r, Inv(h, g, r), UNCHANGED vars
    PROVE  IInv'
<1>1. /\ UNCHANGED <<up, state, binds, used>> /\ errors' = errors /\ prog' = prog /\ pass' = pass
      /\ pc' = pc /\ nest' = nest /\ current' = current /\ scopeOf' = scopeOf /\ res' = res
  BY DEF vars, avars
<1>2. /\ ScopesOK /\ Ranked(r) /\ Text(prog, h, g) /\ Budget /\ OwnScopes /\ Nesting(h, g)
      /\ Records /\ (errors = 0 => Flawless(g)) /\ GeneratedAll
      /\ (pass \in {"generate", "compiled"} => Generated(g))
  BY DEF Inv
<1>3. ScopesOK' /\ Ranked(r)' /\ Opened' = Opened /\ up' = up /\ binds' = binds
  <2>1. errors' \in Nat
    BY <1>1, <1>2 DEF ScopesOK
  <2>2. QED
    BY <1>1, <1>2, <2>1, SteadyKeeps
<1>4. Text(prog', h, g) /\ Functions' = Functions /\ For' = For /\ Names_' = Names_
  BY <1>1, TextStays
<1>5. LoopScopes' = LoopScopes
  BY <1>1 DEF LoopScopes, Of, Events
<1>6. Budget'
  <2>1. Lacking' = Lacking
    BY <1>1, LackingIs
  <2>2. QED
    BY <1>1, <1>2, <2>1 DEF Budget
<1>7. OwnScopes'
  BY <1>1, <1>2, <1>3, <1>4 DEF OwnScopes
<1>8. Nesting(h, g)'
  <2>1. pass = "collect" => CollectNest(g)'
    BY <1>1, <1>2, <1>4 DEF Nesting, CollectNest, LastScope
  <2>2. pass = "check" => CheckNest(g)'
    BY <1>1, <1>2, <1>3, <1>4, <1>5 DEF Nesting, CheckNest, LastScope, SomeScope, LoopLevel
  <2>3. pass = "generate" => GenerateNest(g)'
    BY <1>1, <1>2, <1>3, <1>4 DEF Nesting, GenerateNest, SomeScope
  <2>4. QED
    BY <1>1, <1>2, <2>1, <2>2, <2>3 DEF Nesting, Passes, Ends
<1>9. Records'
  BY <1>1, <1>2 DEF Records, Passes
<1>10. errors' = 0 => Flawless(g)'
  <2>1. errors = 0 => LoopArrays(g)'
    BY <1>1, <1>2 DEF Flawless, LoopArrays
  <2>2. QED
    BY <1>1, <1>2, <2>1, FlawlessStays
<1>11. pass' \in {"generate", "compiled"} => Generated(g)'
  BY <1>1, <1>2, <1>4 DEF Generated, Near
<1>12. GeneratedAll'
  BY <1>1, <1>2, <1>4 DEF GeneratedAll
<1>13. Inv(h, g, r)'
  BY <1>3, <1>4, <1>6, <1>7, <1>8, <1>9, <1>10, <1>11, <1>12 DEF Inv
<1>14. QED
  BY <1>13 DEF IInv

\* Every step keeps the invariant.
LEMMA StepKeeps ==
    ASSUME IInv, [Next]_vars
    PROVE  IInv'
<1>1. PICK h, g, r : Inv(h, g, r)
  BY DEF IInv
<1>2. ASSUME NEW n \in Names, NEW k \in Arities, CollectFun(n, k) PROVE IInv'
  BY <1>1, <1>2, CollectFunKeeps
<1>3. ASSUME NEW n \in Names, NEW k \in Arities, CollectName("call", n, k) PROVE IInv'
  <2>1. "call" \in {"use", "call", "elem"}
    OBVIOUS
  <2>2. QED
    BY <1>1, <1>3, <2>1, CollectNameKeeps
<1>4. ASSUME NEW n \in Names, NEW op \in Declarators, NEW m \in BOOLEAN, CollectDeclaration(op, n, m)
      PROVE  IInv'
  BY <1>1, <1>4, CollectDeclarationKeeps
<1>5. ASSUME NEW n \in Names, NEW op \in {"use", "elem"}, CollectName(op, n, 0) PROVE IInv'
  <2>1. 0 \in Arities /\ op \in {"use", "call", "elem"}
    BY NamesAssumption DEF NamesAssumption
  <2>2. QED
    BY <1>1, <1>5, <2>1, CollectNameKeeps
<1>6. ASSUME NEW n \in Names, CollectParam(n) \/ CollectAssign(n) \/ CollectFor(n) PROVE IInv'
  BY <1>1, <1>6, CollectParamKeeps, CollectAssignKeeps, CollectForKeeps
<1>7. CASE CollectEnd
  BY <1>1, <1>7, CollectEndKeeps
<1>8. CASE NextPass
  BY <1>1, <1>8, NextPassKeeps
<1>9. CASE CheckFun \/ CheckEnd \/ CheckName \/ CheckArray
  BY <1>1, <1>9, CheckFunKeeps, CheckEndKeeps, CheckNameKeeps, CheckArrayKeeps
<1>10. CASE CheckArrayAssign \/ CheckFor \/ CheckElem \/ CheckCall
  BY <1>1, <1>10, CheckArrayAssignKeeps, CheckForKeeps, CheckElemKeeps, CheckCallKeeps
<1>11. CASE GenerateFun \/ GenerateEnd \/ GenerateName \/ GenerateFor
  BY <1>1, <1>11, GenerateFunKeeps, GenerateEndKeeps, GenerateNameKeeps, GenerateForKeeps
<1>12. CASE UNCHANGED vars
  BY <1>1, <1>12, StutterKeeps
<1>13. Finished => UNCHANGED vars
  BY DEF Finished
<1>14. QED
  BY <1>2, <1>3, <1>4, <1>5, <1>6, <1>7, <1>8, <1>9, <1>10, <1>11, <1>12, <1>13 DEF Next

\* What is known of the scopes, the text and the names holds throughout.
THEOREM InvariantHolds == Spec => []IInv
<1>1. Init => IInv
  BY InitHolds
<1>2. IInv /\ [Next]_vars => IInv'
  BY StepKeeps
<1>3. QED
  BY <1>1, <1>2, PTL DEF Spec

\* Scopes, bindings and counters have their types, and every binding has a slot
\* of its scope.
THEOREM TypesHold == Spec => []TypeOK
<1>1. IInv => TypeOK
  <2>1. SUFFICES ASSUME NEW h, NEW g, NEW r, Inv(h, g, r) PROVE TypeOK
    BY DEF IInv
  <2>2. ScopesOK /\ Text(prog, h, g) /\ Budget /\ Nesting(h, g)
    BY <2>1 DEF Inv
  <2>3. \A s \in Scopes, n \in Names :
           binds[s][n] # None => binds[s][n].decl \in Declaration /\ binds[s][n].slot \in used[s]
    <3>1. SUFFICES ASSUME NEW s \in Scopes, NEW n \in Names, binds[s][n] # None
                   PROVE  binds[s][n].decl \in Declaration /\ binds[s][n].slot \in used[s]
      OBVIOUS
    <3> DEFINE B == Slot \cup {None}
    <3>2. binds \in [Scopes -> [Names -> B]]
      BY <2>2 DEF ScopesOK, Store
    <3> HIDE DEF B
    <3>3. binds[s][n] \in B
      BY <3>2
    <3>4. binds[s][n] \in Slot
      BY <3>1, <3>3 DEF B
    <3>5. QED
      BY <2>2, <3>1, <3>4 DEF ScopesOK, Store, Slot
  <2>4. \A i \in DOMAIN prog : prog[i] \in Event
    <3> DEFINE E == Event
    <3>1. prog \in Seq(E)
      BY <2>2 DEF Text
    <3> HIDE DEF E
    <3>2. \A i \in DOMAIN prog : prog[i] \in E
      BY <3>1
    <3>3. QED
      BY <3>2 DEF E
  <2>5. QED
    BY <2>2, <2>3, <2>4 DEF TypeOK, ScopesOK, Tree, Budget, Nesting
<1>2. Spec => []IInv
  BY InvariantHolds
<1>3. QED
  BY <1>1, <1>2, PTL

\* The code generator finds every name of an accepted file that has a function.
THEOREM GeneratorFinds == Spec => []GeneratorFindsAll
<1>1. IInv => GeneratorFindsAll
  <2>1. SUFFICES ASSUME NEW h, NEW g, NEW r, Inv(h, g, r) PROVE GeneratorFindsAll
    BY DEF IInv
  <2>2. Records /\ GeneratedAll /\ prog \in Seq(Event)
    BY <2>1 DEF Inv, Text
  <2>3. SUFFICES ASSUME Functions # {}, NEW i \in DOMAIN res.generate, prog[i].op # "end"
                 PROVE  res.generate[i] # None
    BY DEF GeneratorFindsAll, Functions
  <2>4. i \in 1 .. Len(res.generate) /\ Len(res.generate) <= Len(prog) /\ Len(res.generate) \in Nat
    <3> DEFINE S == Scopes \cup {None}
               c == res.generate
    <3>1. c \in Seq(S) /\ Len(c) <= Len(prog)
      BY <2>2 DEF Records, Passes
    <3> HIDE DEF S
    <3>2. QED
      BY <2>3, <3>1
  <2>5. i \in Names_ /\ i <= Len(res.generate)
    <3>1. DOMAIN prog = 1 .. Len(prog) /\ Len(prog) \in Nat
      BY <2>2
    <3>2. QED
      BY <2>3, <2>4, <3>1 DEF Names_
  <2>6. QED
    BY <2>2, <2>3, <2>5 DEF GeneratedAll
<1>2. Spec => []IInv
  BY InvariantHolds
<1>3. QED
  BY <1>1, <1>2, PTL

-----------------------------------------------------------------------------
\* The text, as the rules say it

Count(S, i) == Cardinality(Before(S, i))

\* How many members of S lie below i, and below the next number.
CountsUp(S, i) ==
    /\ Count(S, 1) = 0 /\ Count(S, i) \in Nat
    /\ Count(S, i + 1) = Count(S, i) + (IF i \in S THEN 1 ELSE 0)

\* The members of S below i and i itself.
LEMMA Below ==
    ASSUME NEW S, NEW N \in Nat, S \subseteq 1 .. N, NEW i \in 1 .. N
    PROVE  CountsUp(S, i)
<1> DEFINE B == {j \in S : j < i}
           C == {j \in S : j < i + 1}
<1>1. IsFiniteSet(B) /\ Cardinality(B) \in Nat
  <2>1. IsFiniteSet(1 .. N)
    BY FS_Interval
  <2>2. B \subseteq 1 .. N
    OBVIOUS
  <2>3. QED
    BY <2>1, <2>2, FS_Subset, FS_CardinalityType
<1>0. i \in Int /\ \A j \in S : j \in Int /\ 1 <= j
  OBVIOUS
<1>2. Count(S, 1) = 0
  <2>1. \A j \in S : ~(j < 1)
    BY <1>0
  <2>2. {j \in S : j < 1} = {}
    BY <2>1
  <2>3. QED
    BY <2>2, FS_EmptySet DEF Count, Before
<1>6. Count(S, i) = Cardinality(B) /\ Count(S, i + 1) = Cardinality(C)
  BY DEF Count, Before
<1>3. CASE i \in S
  <2>1. C = B \cup {i} /\ i \notin B
    <3>1. \A j \in S : j < i + 1 <=> j < i \/ j = i
      BY <1>0
    <3>2. ~(i < i)
      BY <1>0
    <3>3. QED
      BY <1>3, <3>1, <3>2
  <2> HIDE DEF B, C
  <2>2. Cardinality(C) = Cardinality(B) + 1
    BY <1>1, <2>1, FS_AddElement
  <2>3. QED
    BY <1>1, <1>2, <1>3, <1>6, <2>2 DEF CountsUp
<1>4. CASE i \notin S
  <2>1. C = B
    <3>1. \A j \in S : j < i + 1 <=> j < i \/ j = i
      BY <1>0
    <3>2. QED
      BY <1>4, <3>1
  <2>2. QED
    BY <1>1, <1>2, <1>4, <1>6, <2>1 DEF CountsUp
<1>5. QED
  BY <1>3, <1>4

\* The depth of an event is the number of constructs open before it.
LEMMA DepthIs ==
    ASSUME NEW h, NEW g, Text(prog, h, g)
    PROVE  \A i \in 1 .. Len(prog) : Depth(i) = h[i - 1] - 1
<1> DEFINE N == Len(prog)
           O == Of({"fun", "for"})
           E == Of({"end"})
           Right == {k \in Nat : k + 1 <= N => Depth(k + 1) = h[k] - 1}
<1>1. /\ N \in Nat /\ h[0] = 1 /\ DOMAIN prog = 1 .. N
      /\ \A i \in 1 .. N : Moves(prog[i], i, h[i - 1], h[i], g[i - 1], g[i])
      /\ \A i \in 0 .. N : h[i] \in Nat
  BY DEF Text
<1>2. O \subseteq 1 .. N /\ E \subseteq 1 .. N
  BY <1>1 DEF Of, Events
<1>3. \A i : Depth(i) = Count(O, i) - Count(E, i)
  BY DEF Depth, Count, Before
<1>4. \A i \in 1 .. N : (i \in O <=> prog[i].op \in {"fun", "for"}) /\ (i \in E <=> prog[i].op = "end")
  BY <1>1 DEF Of, Events
<1> HIDE DEF N, O, E
<1>5. 0 \in Right
  <2>1. ASSUME 0 + 1 <= N PROVE Depth(0 + 1) = h[0] - 1
    <3>1. 1 \in 1 .. N
      BY <1>1, <2>1
    <3>2. Count(O, 1) = 0 /\ Count(E, 1) = 0
      <4>1. N \in Nat
        BY <1>1
      <4>2. CountsUp(O, 1) /\ CountsUp(E, 1)
        BY <1>2, <3>1, <4>1, Below
      <4>3. QED
        BY <4>2 DEF CountsUp
    <3>3. Depth(1) = 0
      BY <1>3, <3>2
    <3>4. QED
      BY <1>1, <3>3
  <2>2. QED
    BY <2>1
<1>6. ASSUME NEW k \in Nat, k \in Right PROVE k + 1 \in Right
  <2>1. SUFFICES ASSUME (k + 1) + 1 <= N PROVE Depth((k + 1) + 1) = h[k + 1] - 1
    OBVIOUS
  <2> DEFINE i == k + 1
  <2>2. i \in 1 .. N /\ i \in 0 .. N /\ k \in 0 .. N /\ i - 1 = k /\ i \in Nat
    BY <1>1, <2>1
  <2>3. Depth(i) = h[k] - 1
    BY <1>1, <1>6, <2>2
  <2>4. Moves(prog[i], i, h[k], h[i], g[k], g[i])
    BY <1>1, <2>2
  <2> HIDE DEF i
  <2>5. /\ Count(O, i) \in Nat /\ Count(E, i) \in Nat
        /\ Count(O, i + 1) = Count(O, i) + (IF i \in O THEN 1 ELSE 0)
        /\ Count(E, i + 1) = Count(E, i) + (IF i \in E THEN 1 ELSE 0)
    <3>1. N \in Nat
      BY <1>1
    <3>2. CountsUp(O, i) /\ CountsUp(E, i)
      BY <1>2, <2>2, <3>1, Below
    <3>3. QED
      BY <3>2 DEF CountsUp
  <2>6. Depth(i + 1) = Depth(i) + (IF i \in O THEN 1 ELSE 0) - (IF i \in E THEN 1 ELSE 0)
    <3> DEFINE a == Count(O, i)
               b == Count(E, i)
               x == IF i \in O THEN 1 ELSE 0
               y == IF i \in E THEN 1 ELSE 0
    <3>1. Depth(i) = a - b /\ Depth(i + 1) = (a + x) - (b + y)
      BY <1>3, <2>5
    <3>2. a \in Nat /\ b \in Nat /\ x \in Nat /\ y \in Nat
      BY <2>5
    <3> HIDE DEF a, b, x, y
    <3>3. Depth(i + 1) = Depth(i) + x - y
      BY <3>1, <3>2
    <3>4. QED
      BY <3>3 DEF x, y
  <2>7. h[i] = h[k] + (IF i \in O THEN 1 ELSE 0) - (IF i \in E THEN 1 ELSE 0)
    <3>1. h[i] \in Nat /\ h[k] \in Nat
      BY <1>1, <2>2
    <3>2. CASE prog[i].op \in {"fun", "for"}
      <4>1. h[i] = h[k] + 1 /\ i \in O /\ i \notin E
        BY <1>4, <2>2, <2>4, <3>2 DEF Moves, Declarators
      <4>2. QED
        BY <3>1, <4>1
    <3>3. CASE prog[i].op = "end"
      <4>1. h[i] = h[k] - 1 /\ i \notin O /\ i \in E
        BY <1>4, <2>2, <2>4, <3>3 DEF Moves, Declarators
      <4>2. QED
        BY <3>1, <4>1
    <3>4. CASE prog[i].op \notin {"fun", "for", "end"}
      <4>1. h[i] = h[k] /\ i \notin O /\ i \notin E
        BY <1>4, <2>2, <2>4, <3>4 DEF Moves, Declarators
      <4>2. QED
        BY <3>1, <4>1
    <3>5. QED
      BY <3>2, <3>3, <3>4
  <2>8. h[i] \in Nat /\ h[k] \in Nat
    BY <1>1, <2>2
  <2>9. Depth(i + 1) = h[i] - 1
    <3> DEFINE a == IF i \in O THEN 1 ELSE 0
               b == IF i \in E THEN 1 ELSE 0
    <3>1. a \in Int /\ b \in Int /\ Depth(i + 1) = Depth(i) + a - b /\ h[i] = h[k] + a - b
      BY <2>6, <2>7
    <3> HIDE DEF a, b
    <3>2. QED
      BY <2>3, <2>8, <3>1
  <2>10. QED
    BY <2>9 DEF i
<1>7. \A k \in Nat : k \in Right
  <2> HIDE DEF Right
  <2>1. QED
    BY <1>5, <1>6, InductionOnNat
<1>8. QED
  <2>1. SUFFICES ASSUME NEW i \in 1 .. N PROVE Depth(i) = h[i - 1] - 1
    BY DEF N
  <2>2. i - 1 \in Nat /\ (i - 1) + 1 = i /\ i <= N
    BY <1>1, <2>1
  <2>3. i - 1 \in Right
    BY <1>7, <2>2
  <2>4. QED
    BY <2>2, <2>3

\* The last of a set with a last member is that member.
LEMMA LastIs ==
    ASSUME NEW S, S \subseteq Nat, NEW f \in S, \A j \in S : j <= f
    PROVE  Last(S) = f
<1>1. \A i \in S : (\A j \in S : j <= i) => i = f
  <2>1. SUFFICES ASSUME NEW i \in S, \A j \in S : j <= i PROVE i = f
    OBVIOUS
  <2>2. i \in Nat /\ f \in Nat /\ i <= f /\ f <= i
    BY <2>1
  <2>3. QED
    BY <2>2
<1>2. Last(S) \in S /\ \A j \in S : j <= Last(S)
  <2> DEFINE P(i) == \A j \in S : j <= i
  <2>1. \E i \in S : P(i)
    OBVIOUS
  <2>2. Last(S) = CHOOSE i \in S : P(i)
    BY DEF Last
  <2> HIDE DEF P
  <2>3. Last(S) \in S /\ P(Last(S))
    BY <2>1, <2>2
  <2>4. QED
    BY <2>3 DEF P
<1>3. QED
  BY <1>1, <1>2

\* The function around an event is the one the text is in before it.
LEMMA FunctionIs ==
    ASSUME NEW h, NEW g, Text(prog, h, g)
    PROVE  \A i \in Events : /\ i \in 1 .. Len(prog) /\ i - 1 \in 0 .. Len(prog)
                             /\ Function(i) = g[i - 1]
<1> DEFINE N == Len(prog)
<1>1. /\ N \in Nat /\ DOMAIN prog = 1 .. N
      /\ \A i \in 1 .. N : Moves(prog[i], i, h[i - 1], h[i], g[i - 1], g[i])
      /\ \A i \in 0 .. N : InFunction(prog, h, g, i) /\ h[i] \in Nat \ {0}
  <2>1. /\ prog \in Seq(Event) /\ h \in [0 .. N -> Nat \ {0}]
        /\ \A i \in 1 .. N : Moves(prog[i], i, h[i - 1], h[i], g[i - 1], g[i])
        /\ \A i \in 0 .. N : InFunction(prog, h, g, i)
    BY DEF Text
  <2>2. N \in Nat /\ DOMAIN prog = 1 .. N
    BY <2>1
  <2> HIDE DEF N
  <2>3. \A i \in 0 .. N : h[i] \in Nat \ {0}
    BY <2>1
  <2>4. QED
    BY <2>1, <2>2, <2>3
<1>2. SUFFICES ASSUME NEW i \in 1 .. N PROVE i - 1 \in 0 .. N /\ Function(i) = g[i - 1]
  BY <1>1 DEF Events
<1>3. \A k \in 1 .. N : Depth(k) = h[k - 1] - 1 /\ k - 1 \in 0 .. N /\ h[k - 1] \in Nat
  BY <1>1, DepthIs
<1> HIDE DEF N
<1>4. i - 1 \in 0 .. N /\ InFunction(prog, h, g, i - 1)
  BY <1>1, <1>2
<1>5. CASE g[i - 1] = 0
  <2>1. Depth(i) = 0
    BY <1>2, <1>3, <1>4, <1>5 DEF InFunction
  <2>2. QED
    BY <1>4, <1>5, <2>1 DEF Function
<1>6. CASE g[i - 1] # 0
  <2> DEFINE f == g[i - 1]
             S == Of({"fun"}) \cap Open_(i)
  <2>1. /\ f \in 1 .. i - 1 /\ prog[f].op = "fun" /\ h[i - 1] # 1
        /\ \A k \in f .. i - 1 : h[k] > 1
    BY <1>4, <1>6 DEF InFunction
  <2>2. \A j \in Of({"fun"}) : j \in 1 .. N /\ Depth(j) = 0
    <3>1. SUFFICES ASSUME NEW j \in 1 .. N, prog[j].op = "fun" PROVE Depth(j) = 0
      BY <1>1 DEF Of, Events
    <3>2. h[j - 1] = 1
      BY <1>1, <3>1 DEF Moves, Declarators
    <3>3. QED
      BY <1>3, <3>2
  <2> HIDE DEF f
  <2>3. f \in 1 .. N /\ f \in Of({"fun"}) /\ f \in Of({"fun", "for"}) /\ f < i
    BY <1>1, <1>2, <2>1 DEF Of, Events
  <2>4. \A k \in f + 1 .. i : Depth(k) > 0
    <3>1. SUFFICES ASSUME NEW k \in f + 1 .. i PROVE Depth(k) > 0
      OBVIOUS
    <3>2. k \in 1 .. N /\ k - 1 \in f .. i - 1
      BY <1>1, <1>2, <2>3, <3>1
    <3>3. h[k - 1] > 1 /\ h[k - 1] \in Nat /\ Depth(k) = h[k - 1] - 1
      BY <1>3, <2>1, <3>2
    <3>4. QED
      BY <3>3
  <2>5. Depth(f) = 0
    BY <2>2, <2>3
  <2>6. f \in S
    BY <2>3, <2>4, <2>5 DEF Open_
  <2>7. \A j \in S : j <= f
    <3>1. SUFFICES ASSUME NEW j \in S, ~(j <= f) PROVE FALSE
      OBVIOUS
    <3>2. j \in 1 .. N /\ Depth(j) = 0 /\ j < i
      BY <2>2, <3>1 DEF Open_
    <3>3. j \in f + 1 .. i
      BY <1>1, <1>2, <2>3, <3>1, <3>2
    <3>4. QED
      BY <2>4, <3>2, <3>3
  <2>8. S \subseteq Nat
    BY <2>2
  <2>9. Last(S) = f
    <3> HIDE DEF S
    <3>1. QED
      BY <2>6, <2>7, <2>8, LastIs
  <2>10. Depth(i) # 0
    BY <1>2, <1>3, <2>1
  <2>11. QED
    BY <1>4, <2>9, <2>10 DEF Function, f
<1>7. QED
  BY <1>5, <1>6

-----------------------------------------------------------------------------
\* What the passes owe each other

\* What the generator finds in an accepted file, inside functions.
LEMMA CompiledNames ==
    ASSUME NEW h, NEW g, NEW r, Inv(h, g, r), pass = "compiled"
    PROVE  /\ Flawless(g) /\ \A i \in Names_ : i <= Len(res.check) /\ i <= Len(res.generate)
           /\ \A i \in Events : Function(i) = g[i - 1]
           /\ \A i \in Names_ : Function(i) # 0 =>
                 /\ Function(i) \in Functions
                 /\ res.generate[i] = Near(g, i - 1, prog[i].name)
           /\ Events = 1 .. Len(prog) /\ Len(prog) \in Nat /\ Names_ \subseteq Events
<1>1. /\ Flawless(g) /\ Generated(g) /\ Text(prog, h, g)
      /\ Len(res.check) = Len(prog) /\ Len(res.generate) = Len(prog)
  <2>1. errors = 0 /\ Len(res.check) = Len(prog) /\ Len(res.generate) = Len(prog)
    BY DEF Inv, Records
  <2>2. QED
    BY <2>1 DEF Inv
<1>2. /\ Events = 1 .. Len(prog) /\ Len(prog) \in Nat /\ Names_ \subseteq 1 .. Len(prog)
  BY <1>1 DEF Events, Names_, Text
<1>3. \A i \in Events : Function(i) = g[i - 1] /\ i - 1 \in 0 .. Len(prog)
  BY <1>1, FunctionIs
<1>4. \A i \in Names_ : i <= Len(res.check) /\ i <= Len(res.generate)
  BY <1>1, <1>2
<1>5. ASSUME NEW i \in Names_, Function(i) # 0
      PROVE  Function(i) \in Functions /\ res.generate[i] = Near(g, i - 1, prog[i].name)
  <2>1. i \in Events /\ Function(i) = g[i - 1] /\ i - 1 \in 0 .. Len(prog)
    BY <1>2, <1>3
  <2>2. g[i - 1] \in Functions
    BY <1>1, <1>5, <2>1, TextMeans, FunctionsAre
  <2>3. QED
    BY <1>1, <1>4, <1>5, <2>1, <2>2 DEF Generated
<1>6. QED
  BY <1>1, <1>2, <1>3, <1>4, <1>5

\* Inside functions the generator works on the variable the checker checked, but
\* for one the checker had in a loop's scope, which the generator never enters.
THEOREM VariablesAgree == Spec => []SameVariable
<1>1. IInv => SameVariable
  <2>1. SUFFICES ASSUME NEW h, NEW g, NEW r, Inv(h, g, r), pass = "compiled",
                        NEW i \in Events, Function(i) # 0, prog[i].op # "end"
                 PROVE  \/ res.check[i] = res.generate[i]
                        \/ /\ res.check[i] \in LoopScopes
                           /\ res.generate[i] \in {Package, scopeOf[Function(i)]}
    BY DEF IInv, SameVariable
  <2>2. i \in Names_
    BY <2>1 DEF Names_, Events
  <2>3. /\ Checked(g) /\ i <= Len(res.check) /\ Function(i) = g[i - 1]
        /\ res.generate[i] = Near(g, i - 1, prog[i].name)
    BY <2>1, <2>2, CompiledNames DEF Flawless
  <2>4. res.check[i] \in LoopScopes \cup {Near(g, i - 1, prog[i].name)}
    BY <2>1, <2>2, <2>3 DEF Checked, LoopTables
  <2>5. Near(g, i - 1, prog[i].name) \in {Package, scopeOf[Function(i)]}
    BY <2>3 DEF Near
  <2>6. QED
    BY <2>3, <2>4, <2>5
<1>2. Spec => []IInv
  BY InvariantHolds
<1>3. QED
  BY <1>1, <1>2, PTL

\* The first pass and the last agree on a name, unless the function declares it
\* later on or the checker declares the package's array of that name in it.
THEOREM CapturesHaveCause == Spec => []CapturesExplained
<1>1. IInv => CapturesExplained
  <2>1. SUFFICES ASSUME NEW h, NEW g, NEW r, Inv(h, g, r), pass = "compiled",
                        NEW i \in Events, Function(i) # 0, prog[i].op # "end"
                 PROVE  \/ res.collect[i] = res.generate[i]
                        \/ /\ res.generate[i] = scopeOf[Function(i)]
                           /\ \/ \E j \in Of_(Scope(Function(i)), prog[i].name) : j > i
                              \/ /\ Function(i) = Last(Of({"fun"}))
                                 /\ Of_(Scope(0) \cap Of({"array"}), prog[i].name) # {}
    BY DEF IInv, CapturesExplained
  <2>2. i \in Names_
    BY <2>1 DEF Names_, Events
  <2>3. /\ Found(g) /\ Captures(g) /\ Function(i) = g[i - 1] /\ Function(i) \in Functions
        /\ res.generate[i] = Near(g, i - 1, prog[i].name)
        /\ \A j \in Events : Function(j) = g[j - 1]
        /\ Events = 1 .. Len(prog) /\ Len(prog) \in Nat /\ Names_ \subseteq Events
    BY <2>1, <2>2, CompiledNames DEF Flawless
  <2> DEFINE f == Function(i)
             n == prog[i].name
  <2>4. res.collect[i] \in {Package, scopeOf[f]} /\ binds[res.collect[i]][n] # None
    BY <2>1, <2>2, <2>3 DEF Found, At
  <2>5. res.generate[i] = IF binds[scopeOf[f]][n] # None THEN scopeOf[f] ELSE Package
    BY <2>3 DEF Near
  <2>6. CASE res.collect[i] = scopeOf[f] \/ binds[scopeOf[f]][n] = None
    BY <2>4, <2>5, <2>6
  <2>7. CASE res.collect[i] = Package /\ binds[scopeOf[f]][n] # None
    <3>1. \/ \E j \in Names_ : /\ i < j /\ g[j - 1] = f /\ prog[j].name = n
                               /\ prog[j].op \in DeclareOps \cup {"assign"}
          \/ /\ \A l \in Functions : l <= f
             /\ \E j \in Names_ : /\ g[j - 1] = 0 /\ prog[j].name = n
                                  /\ prog[j].op = "array"
      BY <2>1, <2>2, <2>3, <2>7 DEF Captures
    <3>2. CASE \E j \in Names_ : /\ i < j /\ g[j - 1] = f /\ prog[j].name = n
                                 /\ prog[j].op \in DeclareOps \cup {"assign"}
      <4>1. PICK j \in Names_ : /\ i < j /\ g[j - 1] = f /\ prog[j].name = n
                                /\ prog[j].op \in DeclareOps \cup {"assign"}
        BY <3>2
      <4>2. j \in Events /\ Function(j) = f /\ j > i
        BY <2>3, <4>1
      <4>3. j \in Of(Declarators \cup {"fun", "param", "assign"})
        BY <4>1, <4>2 DEF Of, DeclareOps
      <4>4. j \in Of_(Scope(f), n)
        BY <4>1, <4>2, <4>3 DEF Of_, Scope
      <4>5. QED
        BY <2>5, <2>7, <4>2, <4>4
    <3>3. CASE /\ \A l \in Functions : l <= f
               /\ \E j \in Names_ : /\ g[j - 1] = 0 /\ prog[j].name = n
                                    /\ prog[j].op = "array"
      <4>1. PICK j \in Names_ : g[j - 1] = 0 /\ prog[j].name = n /\ prog[j].op = "array"
        BY <3>3
      <4>2. j \in Events /\ Function(j) = 0
        BY <2>3, <4>1
      <4>3. j \in Of_(Scope(0) \cap Of({"array"}), n)
        BY <4>1, <4>2 DEF Of_, Scope, Of, Declarators
      <4>4. f = Last(Of({"fun"}))
        <5>1. Functions \subseteq Nat
          BY <2>3 DEF Functions, Of
        <5>2. Last(Functions) = f
          <6> HIDE DEF f
          <6>1. f \in Functions
            BY <2>3 DEF f
          <6>2. QED
            BY <3>3, <5>1, <6>1, LastIs
        <5>3. QED
          BY <5>2 DEF Functions
      <4>5. QED
        BY <2>5, <2>7, <4>3, <4>4
    <3>4. QED
      BY <3>1, <3>2, <3>3
  <2>8. QED
    BY <2>4, <2>6, <2>7
<1>2. Spec => []IInv
  BY InvariantHolds
<1>3. QED
  BY <1>1, <1>2, PTL

\* An accepted file writes only elements of arrays declared var.
THEOREM ElementsAreMutable == Spec => []ElementsMutable
<1>1. IInv => ElementsMutable
  <2>1. SUFFICES ASSUME NEW h, NEW g, NEW r, Inv(h, g, r), pass = "compiled",
                        NEW i \in Of({"elem"})
                 PROVE  LET d == binds[res.generate[i]][prog[i].name].decl
                        IN  d.kind = "array" /\ d.mut
    BY DEF IInv, ElementsMutable
  <2>2. i \in Names_ /\ i \in Events /\ prog[i].op = "elem"
    BY <2>1 DEF Names_, Events, Of
  <2>3. /\ ElementsChecked(g) /\ i <= Len(res.check) /\ Function(i) = g[i - 1]
        /\ (Function(i) # 0 => res.generate[i] = Near(g, i - 1, prog[i].name))
        /\ i \in 1 .. Len(prog) /\ Len(prog) \in Nat
    BY <2>1, <2>2, CompiledNames DEF Flawless
  <2>4. g[i - 1] # 0
    <3>1. Text(prog, h, g) /\ i - 1 \in 0 .. Len(prog)
      BY <2>1, <2>3 DEF Inv
    <3>2. Moves(prog[i], i, h[i - 1], h[i], g[i - 1], g[i])
      BY <2>3, <3>1 DEF Text
    <3>3. h[i - 1] > 1
      BY <2>2, <3>2 DEF Moves, Declarators
    <3>4. QED
      BY <3>1, <3>3, TextMeans
  <2>5. QED
    BY <2>2, <2>3, <2>4 DEF ElementsChecked
<1>2. Spec => []IInv
  BY InvariantHolds
<1>3. QED
  BY <1>1, <1>2, PTL
-----------------------------------------------------------------------------
\* The verdict.  The declarations of a text, as positions, and what a name in it
\* means, said with the functions h and g of the text.

ForsOf(p) == {i \in DOMAIN p : p[i].op = "for"}

\* Declarations of n in the scope of function f, or of the package.
DeclIn(p, g, f, n) ==
    {j \in DOMAIN p : g[j - 1] = f /\ p[j].name = n /\ p[j].op \in DeclareOps \cup {"assign"}}

IsFirst(j, S) == j \in S /\ \A k \in S : j <= k

\* The first pass has nothing against event i.
Right(p, g, i) ==
    /\ p[i].op \in DeclareOps => \A j \in DeclIn(p, g, g[i - 1], p[i].name) : i <= j
    /\ p[i].op \in {"use", "elem", "call", "for"} =>
          \E j \in DeclIn(p, g, g[i - 1], p[i].name) \cup DeclIn(p, g, 0, p[i].name) : j < i

Clean(p, g) == \A i \in DOMAIN p : Right(p, g, i)

\* What a scope says of a name is what event e declares.
Says(d, e) == IF e.op \in {"assign", "for"} THEN d.kind = "other" ELSE d = Declares(e)

\* Loop l is open at event i, and the innermost there.
LoopAt(p, h, i, l) == l \in ForsOf(p) /\ l < i /\ \A k \in l .. i - 1 : h[l] <= h[k]
Around_(p, h, i, l) == LoopAt(p, h, i, l) /\ h[l] = h[i - 1]

\* Array n is declared directly in loop l by event j.
ArrayIn(p, h, j, l, n) == j \in DOMAIN p /\ p[j].op = "array" /\ p[j].name = n /\ Around_(p, h, j, l)

\* Loop l has name n when event i is reached.
Has(p, h, i, l, n) == p[l].name = n \/ \E j \in DOMAIN p : j < i /\ ArrayIn(p, h, j, l, n)

\* Event m is what the name of event i means to the checker.
MeansInLoop(p, h, i, m, l) ==
    LET n == p[i].name IN
    /\ LoopAt(p, h, i, l) /\ Has(p, h, i, l, n)
    /\ \A k \in ForsOf(p) : LoopAt(p, h, i, k) /\ Has(p, h, i, k, n) => k <= l
    /\ IF p[l].name = n THEN m = l ELSE IsFirst(m, {j \in DOMAIN p : ArrayIn(p, h, j, l, n)})

MeansOutside(p, h, g, i, m) ==
    LET n == p[i].name IN
    /\ \A k \in ForsOf(p) : ~ (LoopAt(p, h, i, k) /\ Has(p, h, i, k, n))
    /\ \/ IsFirst(m, DeclIn(p, g, g[i - 1], n))
       \/ DeclIn(p, g, g[i - 1], n) = {} /\ IsFirst(m, DeclIn(p, g, 0, n))

MeansIn(p, h, g, i, m) ==
    m \in DOMAIN p /\ (MeansOutside(p, h, g, i, m) \/ \E l \in ForsOf(p) : MeansInLoop(p, h, i, m, l))

\* The array of event i survives its second insertion.
StandsIn(p, h, g, i) ==
    \/ /\ g[i - 1] = 0
       /\ \E f \in FunctionsOf(p) : /\ \A k \in FunctionsOf(p) : k <= f
                                    /\ DeclIn(p, g, f, p[i].name) = {}
    \/ \E l \in ForsOf(p) : Around_(p, h, i, l) /\ p[l].name # p[i].name

\* What an element, or a call with k arguments, needs.
Writable(e) == e.op \in {"array", "arrayAssign"} /\ e.mut
Fitting(e, k) == e.op = "fun" /\ e.n = k

\* The second pass has nothing, or something, against event i.
Fine(p, h, g, i) ==
    /\ p[i].op = "array" => StandsIn(p, h, g, i)
    /\ p[i].op = "elem" => \E m \in DOMAIN p : MeansIn(p, h, g, i, m) /\ Writable(p[m])
    /\ p[i].op = "call" => \E m \in DOMAIN p : MeansIn(p, h, g, i, m) /\ Fitting(p[m], p[i].n)

Wrong(p, h, g, i) ==
    \/ p[i].op = "array" /\ ~ StandsIn(p, h, g, i)
    \/ p[i].op = "elem" /\ \E m \in DOMAIN p : MeansIn(p, h, g, i, m) /\ ~ Writable(p[m])
    \/ p[i].op = "call" /\ \E m \in DOMAIN p : MeansIn(p, h, g, i, m) /\ ~ Fitting(p[m], p[i].n)

\* Event i calls a variable, or gives a function too many arguments.
CallsVar(p, h, g, i) == p[i].op = "call" /\ \E m \in DOMAIN p : MeansIn(p, h, g, i, m) /\ p[m].op # "fun"
TooMany(p, h, g, i) == p[i].op = "call" /\ \E m \in DOMAIN p : MeansIn(p, h, g, i, m) /\ p[m].n < p[i].n

-----------------------------------------------------------------------------
\* The scopes have what the text declares

Where(f) == IF f = 0 THEN Package ELSE scopeOf[f]

\* An array of the package, which the checker declares in the last function's scope.
Stray(p, g, n, b) ==
    /\ pass = "check"
    /\ \E j \in DeclIn(p, g, 0, n) : j <= pc /\ p[j].op = "array" /\ b.decl = Declares(p[j])

\* What the scope of function f has for n: b.
BoundAt(p, g, f, n, b) ==
    /\ \A j \in DOMAIN p : IsFirst(j, DeclIn(p, g, f, n)) => b # None /\ Says(b.decl, p[j])
    /\ b # None => \/ DeclIn(p, g, f, n) # {}
                   \/ f # 0 /\ (\A k \in FunctionsOf(p) : k <= f) /\ Stray(p, g, n, b)

Bound(p, g) ==
    \A f \in FunctionsOf(p) \cup {0}, n \in Names : BoundAt(p, g, f, n, binds[Where(f)][n])

\* So have the scopes of the loops the checker has come to.
LoopBound(p, h) ==
    \A l \in ForsOf(p), n \in Names : l <= pc =>
        LET b == binds[scopeOf[l]][n] IN
        /\ scopeOf[l] # None
        /\ b # None <=> Has(p, h, pc + 1, l, n)
        /\ p[l].name = n => b.decl.kind = "other"
        /\ p[l].name # n /\ b # None =>
              \E j \in DOMAIN p : j <= pc /\ ArrayIn(p, h, j, l, n) /\ b.decl = Declares(p[j])

\* The loops open are those of the text.
LoopNest(p, h) ==
    \A k \in 3 .. Len(nest) : \E l \in ForsOf(p) :
        /\ l <= pc /\ nest[k].scope = scopeOf[l] /\ h[l] = k
        /\ \A j \in l .. pc : k <= h[j]

\* What the passes have found of the text.
Verdict(p, h, g) ==
    \/ \E i \in DOMAIN p : CallsVar(p, h, g, i)
    \/ errors = 0 /\ \A i \in DOMAIN p : i <= pc => Fine(p, h, g, i)
    \/ errors # 0 /\ \E i \in DOMAIN p : Wrong(p, h, g, i)

AllFine(p, h, g) ==
    \/ \E i \in DOMAIN p : CallsVar(p, h, g, i)
    \/ \A i \in DOMAIN p : Fine(p, h, g, i)

Checks(p, h, g) == Bound(p, g) /\ LoopBound(p, h) /\ LoopNest(p, h) /\ Verdict(p, h, g)

Judged(p, h, g) ==
    /\ pass = "collect" => (errors = 0 <=> Clean(p, g)) /\ (errors = 0 => Bound(p, g))
    /\ pass \notin {"collect", "rejected"} => Clean(p, g)
    /\ pass = "check" /\ FunctionsOf(p) # {} => Checks(p, h, g)
    /\ pass \in {"generate", "compiled"} /\ FunctionsOf(p) # {} => AllFine(p, h, g)
    /\ pass = "generate" /\ FunctionsOf(p) = {} => pc = 0
    /\ pass = "compiled" => FunctionsOf(p) # {}
    /\ pass = "rejected" =>
          \/ FunctionsOf(p) = {}
          \/ ~ Clean(p, g)
          \/ \E i \in DOMAIN p : CallsVar(p, h, g, i) \/ Wrong(p, h, g, i)
    /\ pass \in {"crashed", "exited"} =>
          FunctionsOf(p) = {} \/ \E i \in DOMAIN p : CallsVar(p, h, g, i) \/ TooMany(p, h, g, i)

-----------------------------------------------------------------------------
\* The functions h and g of a text are the only ones

\* A longer text goes on as the shorter one.
LEMMA TextExtends ==
    ASSUME NEW p, NEW h, NEW g, Text(p, h, g), NEW q, NEW h2, NEW g2, Text(q, h2, g2),
           Len(p) <= Len(q), \A i \in 1 .. Len(p) : q[i] = p[i]
    PROVE  \A i \in 0 .. Len(p) : h2[i] = h[i] /\ g2[i] = g[i]
<1> DEFINE N == Len(p)
           Same == {i \in 0 .. N : h2[i] = h[i] /\ g2[i] = g[i]}
<1>1. N \in Nat /\ Len(q) \in Nat
  BY DEF Text
<1>2. 0 \in Same
  BY <1>1 DEF Text
<1>3. ASSUME NEW k \in 0 .. N - 1, k \in Same PROVE k + 1 \in Same
  <2>1. k + 1 \in 1 .. N /\ k + 1 \in 1 .. Len(q) /\ (k + 1) - 1 = k /\ k + 1 \in 0 .. N /\ k \in 0 .. N
        /\ k + 1 \in 0 .. Len(q)
    BY <1>1
  <2>2. Moves(p[k + 1], k + 1, h[k], h[k + 1], g[k], g[k + 1])
    BY <2>1 DEF Text
  <2>3. Moves(p[k + 1], k + 1, h[k], h2[k + 1], g[k], g2[k + 1])
    <3>1. Moves(q[k + 1], k + 1, h2[k], h2[k + 1], g2[k], g2[k + 1])
      BY <2>1 DEF Text
    <3>2. q[k + 1] = p[k + 1] /\ h2[k] = h[k] /\ g2[k] = g[k]
      BY <1>3, <2>1
    <3>3. QED
      BY <3>1, <3>2
  <2>4. h[k] \in Nat /\ h[k + 1] \in Nat /\ h2[k + 1] \in Nat
    BY <2>1 DEF Text
  <2>5. h2[k + 1] = h[k + 1] /\ g2[k + 1] = g[k + 1]
    BY <2>2, <2>3, <2>4 DEF Moves, Declarators
  <2>6. QED
    BY <2>1, <2>5
<1>4. \A k \in 0 .. N : k \in Same
  <2> HIDE DEF Same
  <2>1. QED
    BY <1>1, <1>2, <1>3, InductionUpTo
<1>5. QED
  BY <1>4

\* A text determines them.
LEMMA TextOnce ==
    ASSUME NEW p, NEW h, NEW g, Text(p, h, g), NEW h2, NEW g2, Text(p, h2, g2)
    PROVE  h2 = h /\ g2 = g
<1>1. Len(p) \in Nat
  BY DEF Text
<1>2. \A i \in 0 .. Len(p) : h2[i] = h[i] /\ g2[i] = g[i]
  BY <1>1, TextExtends
<1>3. /\ h \in [0 .. Len(p) -> Nat \ {0}] /\ h2 \in [0 .. Len(p) -> Nat \ {0}]
      /\ g \in [0 .. Len(p) -> Nat] /\ g2 \in [0 .. Len(p) -> Nat]
  BY DEF Text
<1>4. h2 = h
  BY <1>2, <1>3
<1>5. g2 = g
  BY <1>2, <1>3
<1>6. QED
  BY <1>4, <1>5

\* An event moves the text by one.
LEMMA TextMoves ==
    ASSUME NEW p, NEW h, NEW g, Text(p, h, g), NEW i \in 1 .. Len(p)
    PROVE  /\ Moves(p[i], i, h[i - 1], h[i], g[i - 1], g[i])
           /\ Len(p) \in Nat /\ i \in Nat /\ i - 1 \in Nat /\ i - 1 \in 0 .. Len(p) /\ i \in 0 .. Len(p)
           /\ h[i - 1] \in Nat \ {0} /\ h[i] \in Nat \ {0} /\ g[i - 1] \in Nat /\ g[i] \in Nat
           /\ (g[i - 1] = 0 <=> h[i - 1] = 1) /\ (g[i] = 0 <=> h[i] = 1)
           /\ p[i] \in Event /\ i \in DOMAIN p /\ DOMAIN p = 1 .. Len(p)
<1>1. Len(p) \in Nat /\ p[i] \in Event /\ DOMAIN p = 1 .. Len(p)
  BY DEF Text
<1>2. i \in Nat /\ i - 1 \in Nat /\ i - 1 \in 0 .. Len(p) /\ i \in 0 .. Len(p)
  BY <1>1
<1>3. Moves(p[i], i, h[i - 1], h[i], g[i - 1], g[i])
  BY DEF Text
<1>4. h[i] \in Nat \ {0} /\ g[i] \in Nat /\ (g[i] = 0 <=> h[i] = 1)
  BY <1>2, TextMeans
<1>5. h[i - 1] \in Nat \ {0} /\ g[i - 1] \in Nat /\ (g[i - 1] = 0 <=> h[i - 1] = 1)
  BY <1>2, TextMeans
<1>6. QED
  BY <1>1, <1>2, <1>3, <1>4, <1>5

\* As long as something is open the text is in the same function.
LEMMA FunctionStays ==
    ASSUME NEW p, NEW h, NEW g, Text(p, h, g), NEW a \in 0 .. Len(p), NEW b \in 0 .. Len(p), a <= b,
           \A k \in a .. b : h[k] > 1
    PROVE  g[b] = g[a]
<1> DEFINE D == b - a
           Same == {k \in 0 .. D : g[a + k] = g[a]}
<1>1. Len(p) \in Nat /\ D \in Nat /\ a \in Nat /\ b \in Nat /\ a + D = b
  BY DEF Text
<1>2. 0 \in Same
  BY <1>1
<1>3. ASSUME NEW k \in 0 .. D - 1, k \in Same PROVE k + 1 \in Same
  <2>1. /\ a + (k + 1) \in 1 .. Len(p) /\ (a + (k + 1)) - 1 = a + k /\ k + 1 \in 0 .. D
        /\ a + k \in a .. b /\ a + (k + 1) \in a .. b
    BY <1>1
  <2>2. Moves(p[a + (k + 1)], a + (k + 1), h[(a + (k + 1)) - 1], h[a + (k + 1)],
              g[(a + (k + 1)) - 1], g[a + (k + 1)])
    BY <2>1, TextMoves
  <2>3. h[a + k] > 1 /\ h[a + (k + 1)] > 1 /\ h[a + k] \in Nat /\ h[a + (k + 1)] \in Nat
    <3>1. a + k \in 0 .. Len(p) /\ a + (k + 1) \in 0 .. Len(p)
      BY <1>1
    <3>2. QED
      BY <2>1, <3>1, TextMeans
  <2>4. g[a + (k + 1)] = g[a + k]
    BY <2>1, <2>2, <2>3 DEF Moves
  <2>5. QED
    BY <1>3, <2>1, <2>4
<1>4. \A k \in 0 .. D : k \in Same
  <2> HIDE DEF Same, D
  <2>1. QED
    BY <1>1, <1>2, <1>3, InductionUpTo
<1>5. D \in 0 .. D
  BY <1>1
<1>6. QED
  BY <1>1, <1>4, <1>5

\* A loop that is open.
LEMMA LoopFacts ==
    ASSUME NEW p, NEW h, NEW g, Text(p, h, g), NEW i \in 1 .. Len(p) + 1, NEW l, LoopAt(p, h, i, l)
    PROVE  /\ l \in 1 .. Len(p) /\ l \in Nat /\ l <= i - 1 /\ i - 1 \in 0 .. Len(p)
           /\ h[l] \in Nat /\ 3 <= h[l] /\ h[l] = h[l - 1] + 1
           /\ h[l] <= h[i - 1] /\ h[i - 1] \in Nat
           /\ \A k \in l .. i - 1 : h[k] \in Nat /\ h[l] <= h[k]
           /\ g[l] = g[i - 1] /\ g[i - 1] # 0 /\ g[l - 1] = g[i - 1]
<1>1. Len(p) \in Nat /\ DOMAIN p = 1 .. Len(p)
  BY DEF Text
<1>2. l \in 1 .. Len(p) /\ p[l].op = "for" /\ l < i /\ \A k \in l .. i - 1 : h[l] <= h[k]
  BY <1>1 DEF LoopAt, ForsOf
<1>3. l \in Nat /\ l <= i - 1 /\ i - 1 \in 0 .. Len(p) /\ l \in 0 .. Len(p) /\ i - 1 \in l .. i - 1
  BY <1>1, <1>2
<1>4. /\ Moves(p[l], l, h[l - 1], h[l], g[l - 1], g[l])
      /\ h[l - 1] \in Nat \ {0} /\ h[l] \in Nat \ {0} /\ (g[l - 1] = 0 <=> h[l - 1] = 1)
  BY <1>2, TextMoves
<1>5. h[l] = h[l - 1] + 1 /\ h[l - 1] > 1 /\ g[l] = g[l - 1] /\ g[l - 1] # 0
  BY <1>2, <1>4 DEF Moves, Declarators
<1>6. 3 <= h[l] /\ h[l] \in Nat
  BY <1>4, <1>5
<1>7. \A k \in l .. i - 1 : k \in 0 .. Len(p)
  BY <1>2, <1>3
<1>8. \A k \in l .. i - 1 : h[k] \in Nat /\ h[l] <= h[k]
  <2>1. SUFFICES ASSUME NEW k \in l .. i - 1 PROVE h[k] \in Nat /\ h[l] <= h[k]
    OBVIOUS
  <2>2. k \in 0 .. Len(p)
    BY <1>7
  <2>3. QED
    BY <1>2, <2>2, TextMeans
<1>9. \A k \in l .. i - 1 : h[k] > 1
  BY <1>6, <1>8
<1>10. g[i - 1] = g[l]
  BY <1>3, <1>9, FunctionStays
<1>11. QED
  BY <1>2, <1>3, <1>5, <1>6, <1>8, <1>10

\* The inner of two open loops lies deeper.
LEMMA LoopsNested ==
    ASSUME NEW p, NEW h, NEW g, Text(p, h, g), NEW i \in 1 .. Len(p) + 1,
           NEW l, LoopAt(p, h, i, l), NEW k, LoopAt(p, h, i, k), l < k
    PROVE  h[l] < h[k]
<1>1. /\ l \in Nat /\ k \in Nat /\ k <= i - 1 /\ h[k] = h[k - 1] + 1
      /\ \A j \in l .. i - 1 : h[j] \in Nat /\ h[l] <= h[j]
  BY LoopFacts
<1>2. k - 1 \in l .. i - 1 /\ h[l] \in Nat
  BY <1>1, LoopFacts
<1>3. QED
  BY <1>1, <1>2

\* There is one innermost loop at most, and it is the last to be opened.
LEMMA InnermostLast ==
    ASSUME NEW p, NEW h, NEW g, Text(p, h, g), NEW i \in 1 .. Len(p) + 1,
           NEW l, Around_(p, h, i, l), NEW k, LoopAt(p, h, i, k)
    PROVE  k <= l /\ (h[k] = h[i - 1] => k = l)
<1>1. LoopAt(p, h, i, l) /\ h[l] = h[i - 1]
  BY DEF Around_
<1>2. l \in Nat /\ h[l] \in Nat
  BY <1>1, LoopFacts
<1>3. k \in Nat /\ h[k] \in Nat /\ h[k] <= h[i - 1]
  BY LoopFacts
<1>4. ASSUME l < k PROVE FALSE
  <2>1. h[l] < h[k]
    BY <1>1, <1>4, LoopsNested
  <2>2. QED
    BY <1>1, <1>2, <1>3, <2>1
<1>5. ASSUME k < l, h[k] = h[i - 1] PROVE FALSE
  <2>1. h[k] < h[l]
    BY <1>1, <1>5, LoopsNested
  <2>2. QED
    BY <1>1, <1>2, <1>3, <1>5, <2>1
<1>6. QED
  BY <1>2, <1>3, <1>4, <1>5

-----------------------------------------------------------------------------
\* The first pass judges the events one by one

\* Text q is p and event e after it.
Grown(p, g, q, g2, e) ==
    /\ Len(p) \in Nat /\ DOMAIN p = 1 .. Len(p) /\ DOMAIN q = 1 .. Len(p) + 1
    /\ q[Len(p) + 1] = e /\ \A i \in 1 .. Len(p) : q[i] = p[i]
    /\ \A i \in 0 .. Len(p) : g2[i] = g[i]

\* The declarations are one more at most.
LEMMA DeclGrows ==
    ASSUME NEW p, NEW g, NEW q, NEW g2, NEW e, Grown(p, g, q, g2, e), NEW f, NEW n
    PROVE  /\ DeclIn(p, g, f, n) \subseteq 1 .. Len(p)
           /\ DeclIn(q, g2, f, n) =
                DeclIn(p, g, f, n) \cup
                (IF g[Len(p)] = f /\ e.name = n /\ e.op \in DeclareOps \cup {"assign"}
                 THEN {Len(p) + 1} ELSE {})
<1> DEFINE N == Len(p)
           new == g[Len(p)] = f /\ e.name = n /\ e.op \in DeclareOps \cup {"assign"}
<1>1. N \in Nat /\ (N + 1) - 1 = N /\ \A j \in 1 .. N : j - 1 \in 0 .. N
  BY DEF Grown
<1>2. \A j \in 1 .. N : j \in DeclIn(q, g2, f, n) <=> j \in DeclIn(p, g, f, n)
  BY <1>1 DEF Grown, DeclIn
<1>3. N + 1 \in DeclIn(q, g2, f, n) <=> new
  <2>1. g2[(N + 1) - 1] = g[N]
    BY <1>1 DEF Grown
  <2>2. N + 1 \in DOMAIN q /\ q[N + 1] = e
    BY <1>1 DEF Grown
  <2> HIDE DEF N
  <2>3. QED
    BY <2>1, <2>2 DEF DeclIn, N
<1>4. DeclIn(q, g2, f, n) \subseteq 1 .. N + 1 /\ DeclIn(p, g, f, n) \subseteq 1 .. N
  BY DEF DeclIn, Grown
<1>5. \A j \in 1 .. N + 1 : j \in 1 .. N \/ j = N + 1
  BY <1>1
<1> HIDE DEF new, N
<1>6. DeclIn(q, g2, f, n) = DeclIn(p, g, f, n) \cup (IF new THEN {N + 1} ELSE {})
  BY <1>1, <1>2, <1>3, <1>4, <1>5
<1>7. QED
  BY <1>4, <1>6 DEF new, N

\* What was right stays right, and what was not stays so.
LEMMA RightStays ==
    ASSUME NEW p, NEW g, NEW q, NEW g2, NEW e, Grown(p, g, q, g2, e), NEW i \in 1 .. Len(p)
    PROVE  Right(q, g2, i) <=> Right(p, g, i)
<1> DEFINE n == p[i].name
           f == g[i - 1]
<1>1. Len(p) \in Nat /\ i - 1 \in 0 .. Len(p) /\ q[i] = p[i] /\ g2[i - 1] = f
  BY DEF Grown
<1>2. \A b : DeclIn(p, g, b, n) \subseteq 1 .. Len(p)
  BY DeclGrows
<1>3. \A b : DeclIn(q, g2, b, n) \subseteq DeclIn(p, g, b, n) \cup {Len(p) + 1}
  BY DeclGrows
<1>4. \A b : DeclIn(p, g, b, n) \subseteq DeclIn(q, g2, b, n)
  BY DeclGrows
<1> HIDE DEF n, f
<1>5. (\A j \in DeclIn(q, g2, f, n) : i <= j) <=> (\A j \in DeclIn(p, g, f, n) : i <= j)
  BY <1>1, <1>2, <1>3, <1>4
<1>6. (\E j \in DeclIn(q, g2, f, n) \cup DeclIn(q, g2, 0, n) : j < i)
         <=> \E j \in DeclIn(p, g, f, n) \cup DeclIn(p, g, 0, n) : j < i
  BY <1>1, <1>2, <1>3, <1>4
<1>7. Right(q, g2, i) <=>
         /\ p[i].op \in DeclareOps => \A j \in DeclIn(q, g2, f, n) : i <= j
         /\ p[i].op \in {"use", "elem", "call", "for"} =>
               \E j \in DeclIn(q, g2, f, n) \cup DeclIn(q, g2, 0, n) : j < i
  BY <1>1 DEF Right, n
<1>8. Right(p, g, i) <=>
         /\ p[i].op \in DeclareOps => \A j \in DeclIn(p, g, f, n) : i <= j
         /\ p[i].op \in {"use", "elem", "call", "for"} =>
               \E j \in DeclIn(p, g, f, n) \cup DeclIn(p, g, 0, n) : j < i
  BY DEF Right, n, f
<1>9. QED
  BY <1>5, <1>6, <1>7, <1>8

\* So the longer text is clean if the shorter one is and the new event is right.
LEMMA CleanGrows ==
    ASSUME NEW p, NEW g, NEW q, NEW g2, NEW e, Grown(p, g, q, g2, e)
    PROVE  Clean(q, g2) <=> Clean(p, g) /\ Right(q, g2, Len(p) + 1)
<1>1. \A i \in 1 .. Len(p) : Right(q, g2, i) <=> Right(p, g, i)
  BY RightStays
<1>2. Len(p) \in Nat /\ DOMAIN p = 1 .. Len(p) /\ DOMAIN q = 1 .. Len(p) + 1
  BY DEF Grown
<1>3. \A i : i \in 1 .. Len(p) + 1 <=> i \in 1 .. Len(p) \/ i = Len(p) + 1
  BY <1>2
<1>4. QED
  BY <1>1, <1>2, <1>3 DEF Clean

\* A declaration of the new event's name is the new event or one before it.
LEMMA RightOfNew ==
    ASSUME NEW p, NEW g, NEW q, NEW g2, NEW e, Grown(p, g, q, g2, e)
    PROVE  /\ e.op \in DeclareOps =>
                 (Right(q, g2, Len(p) + 1) <=> DeclIn(p, g, g[Len(p)], e.name) = {})
           /\ e.op \in {"use", "elem", "call", "for"} =>
                 (Right(q, g2, Len(p) + 1) <=>
                    DeclIn(p, g, g[Len(p)], e.name) # {} \/ DeclIn(p, g, 0, e.name) # {})
           /\ e.op \in {"assign", "end"} => Right(q, g2, Len(p) + 1)
<1> DEFINE N == Len(p)
           n == e.name
           f == g[N]
<1>1. N \in Nat /\ (N + 1) - 1 = N /\ q[N + 1] = e /\ g2[N] = f
  BY DEF Grown
<1>2. g2[(N + 1) - 1] = f
  BY <1>1
<1>3. \A b : DeclIn(p, g, b, n) \subseteq 1 .. N
  BY DeclGrows
<1>4. \A b : DeclIn(q, g2, b, n) \subseteq DeclIn(p, g, b, n) \cup {N + 1}
  BY DeclGrows
<1>5. \A b : DeclIn(p, g, b, n) \subseteq DeclIn(q, g2, b, n)
  BY DeclGrows
<1> HIDE DEF N, n, f
<1>6. (\A j \in DeclIn(q, g2, f, n) : N + 1 <= j) <=> DeclIn(p, g, f, n) = {}
  BY <1>1, <1>3, <1>4, <1>5
<1>7. (\E j \in DeclIn(q, g2, f, n) \cup DeclIn(q, g2, 0, n) : j < N + 1)
         <=> DeclIn(p, g, f, n) # {} \/ DeclIn(p, g, 0, n) # {}
  BY <1>1, <1>3, <1>4, <1>5
<1>8. Right(q, g2, N + 1) <=>
         /\ e.op \in DeclareOps => \A j \in DeclIn(q, g2, f, n) : N + 1 <= j
         /\ e.op \in {"use", "elem", "call", "for"} =>
               \E j \in DeclIn(q, g2, f, n) \cup DeclIn(q, g2, 0, n) : j < N + 1
  BY <1>1, <1>2 DEF Right, n
<1>9. e.op \in {"use", "elem", "call", "for", "assign", "end"} => e.op \notin DeclareOps
  BY DEF DeclareOps, Declarators
<1>10. QED
  BY <1>6, <1>7, <1>8, <1>9 DEF N, n, f

\* The first of some declarations.
LEMMA FirstExists ==
    ASSUME NEW p, NEW g, NEW f, NEW n, p \in Seq(Event), DeclIn(p, g, f, n) # {}
    PROVE  \E j \in DOMAIN p : IsFirst(j, DeclIn(p, g, f, n))
<1> DEFINE S == DeclIn(p, g, f, n)
<1>1. S \subseteq DOMAIN p /\ DOMAIN p \subseteq Nat
  BY DEF DeclIn
<1> HIDE DEF S
<1>2. S # {} /\ S \subseteq Nat
  BY <1>1 DEF S
<1>3. PICK j \in S : \A k \in S : j <= k
  BY <1>2, LeastNatural
<1>4. j \in DOMAIN p /\ IsFirst(j, S)
  BY <1>1, <1>3 DEF IsFirst
<1>5. QED
  BY <1>4 DEF S

\* The scopes of the package and of the functions are different.
LEMMA WhereIsOwn ==
    ASSUME NEW h, NEW g, NEW r, Inv(h, g, r), NEW f \in FunctionsOf(prog) \cup {0}
    PROVE  /\ Where(f) \in Scopes /\ Where(f) \in Opened /\ Where(f) # None
           /\ \A k \in FunctionsOf(prog) \cup {0} : Where(k) = Where(f) => k = f
           /\ f # 0 => up[Where(f)] = Package /\ Where(f) # Package
<1>1. /\ OwnScopes /\ ScopesOK /\ prog \in Seq(Event) /\ Len(prog) <= MaxLoopLen
      /\ Package \in Scopes /\ MaxLoopLen \in Nat /\ None \notin Scopes
  BY NamesAssumption DEF Inv, Text, Budget, NamesAssumption
<1>2. FunctionsOf(prog) \subseteq 1 .. MaxLoopLen /\ 0 \notin FunctionsOf(prog)
  BY <1>1 DEF FunctionsOf
<1>3. \A k \in FunctionsOf(prog) : /\ scopeOf[k] # None /\ scopeOf[k] \in Opened \ {Package}
                                   /\ up[scopeOf[k]] = Package
  BY <1>1, <1>2, FunctionsAre DEF OwnScopes
<1>4. \A k, j \in FunctionsOf(prog) : scopeOf[k] = scopeOf[j] => k = j
  BY <1>1, <1>2, <1>3 DEF OwnScopes
<1>5. Package \in Opened /\ Opened \subseteq Scopes
  BY <1>1 DEF Opened, ScopesOK, Tree
<1>6. CASE f = 0
  BY <1>1, <1>2, <1>3, <1>5, <1>6 DEF Where
<1>7. CASE f # 0
  <2>1. f \in FunctionsOf(prog)
    BY <1>7
  <2>2. QED
    BY <1>1, <1>2, <1>3, <1>4, <1>5, <1>7, <2>1 DEF Where
<1>8. QED
  BY <1>6, <1>7

\* What a step of the first pass does to the bindings and the errors.
CollectEffect(g, e) ==
    LET here == At(g, Len(prog)) IN
    \/ e.op \in DeclareOps /\ errors' = errors /\ OneBinding(here, e.name, Declares(e))
    \/ e.op \in DeclareOps /\ errors' = errors + 1 /\ binds' = binds /\ binds[here][e.name] # None
    \/ /\ e.op = "assign" /\ errors' = errors
       /\ \/ binds' = binds /\ binds[here][e.name] # None
          \/ \E d : d.kind = "other" /\ OneBinding(here, e.name, d)
    \/ /\ e.op \in {"use", "elem", "call", "for"} /\ binds' = binds
       /\ IF binds[here][e.name] # None \/ binds[Package][e.name] # None
          THEN errors' = errors ELSE errors' = errors + 1
    \/ e.op = "end" /\ binds' = binds /\ errors' = errors

\* A step of the first pass.
CollectStep(h, g, r, e, h2, g2) ==
    /\ Inv(h, g, r) /\ pass = "collect" /\ pass' = "collect" /\ e \in Event
    /\ e.op # "end" => e.name \in Names
    /\ prog' = Append(prog, e) /\ Text(prog', h2, g2) /\ CollectEffect(g, e)
    /\ \A f \in Functions : scopeOf'[f] = scopeOf[f]
    /\ e.op = "fun" => binds'[scopeOf'[Len(prog) + 1]] = Unbound

\* It makes the text longer.
LEMMA CollectGrows ==
    ASSUME NEW h, NEW g, NEW r, NEW e, NEW h2, NEW g2, CollectStep(h, g, r, e, h2, g2)
    PROVE  /\ Grown(prog, g, prog', g2, e)
           /\ Len(prog) \in Nat /\ Len(prog) \in 0 .. Len(prog)
           /\ g[Len(prog)] \in FunctionsOf(prog) \cup {0} /\ At(g, Len(prog)) = Where(g[Len(prog)])
           /\ FunctionsOf(prog') = FunctionsOf(prog) \cup (IF e.op = "fun" THEN {Len(prog) + 1} ELSE {})
           /\ FunctionsOf(prog) \subseteq 1 .. Len(prog)
<1> DEFINE N == Len(prog)
<1>1. /\ prog \in Seq(Event) /\ Text(prog, h, g) /\ prog' = Append(prog, e) /\ e \in Event
      /\ Text(prog', h2, g2)
  BY DEF CollectStep, Inv, Text
<1>2. /\ N \in Nat /\ DOMAIN prog = 1 .. N /\ DOMAIN prog' = 1 .. N + 1 /\ Len(prog') = N + 1
      /\ prog'[N + 1] = e /\ \A i \in 1 .. N : prog'[i] = prog[i]
  BY <1>1
<1>3. \A i \in 0 .. N : g2[i] = g[i]
  <2>1. Len(prog) <= Len(prog') /\ Text(prog, h, g) /\ Text(prog', h2, g2)
    BY <1>1, <1>2
  <2>2. \A i \in 1 .. Len(prog) : prog'[i] = prog[i]
    BY <1>2
  <2> HIDE DEF N
  <2>3. \A i \in 0 .. Len(prog) : h2[i] = h[i] /\ g2[i] = g[i]
    BY <2>1, <2>2, TextExtends
  <2>4. QED
    BY <2>3 DEF N
<1>4. Grown(prog, g, prog', g2, e)
  BY <1>2, <1>3 DEF Grown
<1>5. N \in 0 .. N
  BY <1>2
<1>6. g[N] \in FunctionsOf(prog) \cup {0}
  BY <1>1, <1>5, TextMeans
<1>7. At(g, N) = Where(g[N])
  BY DEF At, Where
<1>8. FunctionsOf(prog) \subseteq 1 .. N
  BY <1>2 DEF FunctionsOf
<1> HIDE DEF N
<1>9. FunctionsOf(prog') = FunctionsOf(prog) \cup (IF e.op = "fun" THEN {N + 1} ELSE {})
  BY <1>2 DEF FunctionsOf
<1>10. QED
  BY <1>2, <1>4, <1>5, <1>6, <1>7, <1>8, <1>9 DEF N

\* While it collects, the first pass binds what is declared and nothing else.
LEMMA CollectMeans ==
    ASSUME NEW h, NEW g, NEW r, Inv(h, g, r), pass = "collect", Bound(prog, g),
           NEW f \in FunctionsOf(prog) \cup {0}, NEW n \in Names
    PROVE  /\ binds[Where(f)][n] # None <=> DeclIn(prog, g, f, n) # {}
           /\ \A j \in DOMAIN prog : IsFirst(j, DeclIn(prog, g, f, n)) =>
                 Says(binds[Where(f)][n].decl, prog[j])
<1>1. BoundAt(prog, g, f, n, binds[Where(f)][n])
  BY DEF Bound
<1>2. prog \in Seq(Event)
  BY DEF Inv, Text
<1>3. DeclIn(prog, g, f, n) # {} => \E j \in DOMAIN prog : IsFirst(j, DeclIn(prog, g, f, n))
  BY <1>2, FirstExists
<1>4. pass # "check"
  OBVIOUS
<1>5. QED
  BY <1>1, <1>3, <1>4 DEF BoundAt, Stray

\* So it goes on.
LEMMA CollectedBound ==
    ASSUME NEW h, NEW g, NEW r, NEW e, NEW h2, NEW g2, CollectStep(h, g, r, e, h2, g2),
           Bound(prog, g), errors = 0, errors' = 0
    PROVE  Bound(prog, g2)'
<1> DEFINE N == Len(prog)
           here == Where(g[N])
           declares == e.op \in DeclareOps \cup {"assign"}
<1>1. /\ Inv(h, g, r) /\ pass = "collect" /\ pass' = "collect" /\ e \in Event
      /\ e.op # "end" => e.name \in Names
      /\ Grown(prog, g, prog', g2, e) /\ N \in Nat
      /\ g[N] \in FunctionsOf(prog) \cup {0}
      /\ FunctionsOf(prog') = FunctionsOf(prog) \cup (IF e.op = "fun" THEN {N + 1} ELSE {})
      /\ FunctionsOf(prog) \subseteq 1 .. N
  BY CollectGrows DEF CollectStep
<1>2. /\ CollectEffect(g, e) /\ \A f \in FunctionsOf(prog) : scopeOf'[f] = scopeOf[f]
      /\ e.op = "fun" => binds'[scopeOf'[N + 1]] = Unbound
      /\ At(g, N) = here /\ here \in Scopes
  BY <1>1, CollectGrows, FunctionsAre, WhereIsOwn DEF CollectStep
<1>3. /\ declares => \/ OneBinding(here, e.name, Declares(e)) /\ e.op \in DeclareOps
                     \/ binds' = binds /\ binds[here][e.name] # None
                     \/ \E d : /\ d.kind = "other" /\ OneBinding(here, e.name, d) /\ e.op = "assign"
      /\ ~ declares => binds' = binds
  <2>1. \A k \in Nat : 0 # k + 1
    OBVIOUS
  <2>2. errors' # errors + 1
    BY <2>1
  <2>3. {"use", "elem", "call", "for", "end"} \cap (DeclareOps \cup {"assign"}) = {}
    BY DEF DeclareOps, Declarators
  <2>4. QED
    BY <1>2, <2>2, <2>3 DEF CollectEffect
<1>4. SUFFICES ASSUME NEW f \in FunctionsOf(prog') \cup {0}, NEW n \in Names
               PROVE  BoundAt(prog, g2, f, n, binds[Where(f)][n])'
  BY DEF Bound
<1> DEFINE W == IF f = 0 THEN Package ELSE scopeOf'[f]
           b == binds'[W][n]
<1>5. SUFFICES /\ \A j \in DOMAIN prog' : IsFirst(j, DeclIn(prog', g2, f, n)) =>
                       b # None /\ Says(b.decl, prog'[j])
               /\ b # None => DeclIn(prog', g2, f, n) # {}
  <2>1. Where(f)' = W
    BY DEF Where
  <2> HIDE DEF W
  <2>2. QED
    BY <2>1 DEF BoundAt
<1>6. /\ DeclIn(prog, g, f, n) \subseteq 1 .. N
      /\ DeclIn(prog', g2, f, n) = DeclIn(prog, g, f, n) \cup
           (IF g[N] = f /\ e.name = n /\ declares THEN {N + 1} ELSE {})
  BY <1>1, DeclGrows
<1> HIDE DEF declares
<1>7. CASE f \notin FunctionsOf(prog) \cup {0}
  <2>1. e.op = "fun" /\ f = N + 1 /\ f # 0
    BY <1>1, <1>4, <1>7
  <2>2. b = None
    BY <1>2, <2>1 DEF Unbound
  <2>3. DeclIn(prog, g, f, n) = {}
    <3>1. ASSUME NEW j \in 1 .. N, g[j - 1] = N + 1 PROVE FALSE
      <4>1. j - 1 \in 0 .. N /\ Text(prog, h, g)
        BY <1>1 DEF Inv
      <4>2. g[j - 1] \in Nat /\ (g[j - 1] # 0 => g[j - 1] \in 1 .. j - 1)
        BY <4>1, TextMeans
      <4>3. QED
        BY <1>1, <3>1, <4>2
    <3>2. DOMAIN prog = 1 .. N
      BY <1>1 DEF Grown
    <3>3. QED
      BY <2>1, <3>1, <3>2 DEF DeclIn
  <2>4. g[N] # f
    BY <1>1, <1>7
  <2>5. DeclIn(prog', g2, f, n) = {}
    BY <1>6, <2>3, <2>4
  <2>6. QED
    BY <2>2, <2>5 DEF IsFirst
<1>8. CASE f \in FunctionsOf(prog) \cup {0}
  <2> DEFINE old == binds[Where(f)][n]
  <2>1. W = Where(f) /\ W \in Scopes /\ (W = here <=> f = g[N])
    <3>1. W = Where(f)
      BY <1>2, <1>8 DEF Where
    <3>2. Where(f) \in Scopes /\ \A k \in FunctionsOf(prog) \cup {0} : Where(k) = Where(f) => k = f
      BY <1>1, <1>8, WhereIsOwn
    <3>3. QED
      BY <1>1, <3>1, <3>2
  <2>2. /\ old # None <=> DeclIn(prog, g, f, n) # {}
        /\ \A j \in DOMAIN prog : IsFirst(j, DeclIn(prog, g, f, n)) => Says(old.decl, prog[j])
    BY <1>1, <1>8, CollectMeans
  <2>3. DOMAIN prog = 1 .. N /\ prog'[N + 1] = e /\ \A j \in 1 .. N : prog'[j] = prog[j]
    BY <1>1 DEF Grown
  <2> HIDE DEF b, W, here
  <2>4. CASE ~ (g[N] = f /\ e.name = n /\ declares)
    <3>1. b = old
      <4>1. CASE ~ declares
        BY <1>3, <2>1, <4>1 DEF b
      <4>2. CASE declares /\ (W # here \/ n # e.name)
        BY <1>3, <2>1, <4>2 DEF b, OneBinding
      <4>3. QED
        BY <2>1, <2>4, <4>1, <4>2
    <3>2. DeclIn(prog', g2, f, n) = DeclIn(prog, g, f, n)
      BY <1>6, <2>4
    <3>3. \A j : IsFirst(j, DeclIn(prog, g, f, n)) => j \in 1 .. N
      BY <1>6 DEF IsFirst
    <3>4. QED
      BY <2>2, <2>3, <3>1, <3>2, <3>3 DEF IsFirst
  <2>5. CASE g[N] = f /\ e.name = n /\ declares
    <3>1. DeclIn(prog', g2, f, n) = DeclIn(prog, g, f, n) \cup {N + 1}
      BY <1>6, <2>5
    <3>2. W = here
      BY <2>1, <2>5
    <3>3. CASE binds' = binds /\ old # None
      <4>1. b = old
        BY <2>1, <3>3 DEF b
      <4>2. ASSUME NEW j, IsFirst(j, DeclIn(prog', g2, f, n))
            PROVE  j \in 1 .. N /\ IsFirst(j, DeclIn(prog, g, f, n))
        <5>1. PICK k \in DeclIn(prog, g, f, n) : TRUE
          BY <2>2, <3>3
        <5>2. k \in 1 .. N /\ j <= k /\ j \in DeclIn(prog, g, f, n) \cup {N + 1}
          BY <1>6, <3>1, <4>2, <5>1 DEF IsFirst
        <5>3. j \in DeclIn(prog, g, f, n)
          BY <1>1, <5>2
        <5>4. QED
          BY <1>6, <3>1, <4>2, <5>3 DEF IsFirst
      <4>3. \A j \in DOMAIN prog' : IsFirst(j, DeclIn(prog', g2, f, n)) => Says(b.decl, prog'[j])
        BY <2>2, <2>3, <4>1, <4>2
      <4>4. QED
        BY <3>1, <3>3, <4>1, <4>3
    <3>4. CASE old = None
      <4>1. DeclIn(prog', g2, f, n) = {N + 1}
        BY <2>2, <3>1, <3>4
      <4>2. b # None /\ Says(b.decl, e)
        <5>1. \/ OneBinding(W, n, Declares(e)) /\ e.op \in DeclareOps
              \/ \E d : /\ d.kind = "other" /\ OneBinding(W, n, d) /\ e.op = "assign"
          BY <1>3, <2>1, <2>5, <3>2, <3>4
        <5>2. "assign" \notin DeclareOps /\ "for" \notin DeclareOps
          BY DEF DeclareOps, Declarators
        <5>3. QED
          BY <5>1, <5>2 DEF OneBinding, Says, b
      <4>3. QED
        BY <2>3, <4>1, <4>2 DEF IsFirst
    <3>5. QED
      BY <1>3, <2>1, <2>5, <3>2, <3>3, <3>4 DEF OneBinding
  <2>6. QED
    BY <2>4, <2>5
<1>9. QED
  BY <1>7, <1>8

\* The first pass counts an error where the text is not right, and only there.
LEMMA CollectJudges ==
    ASSUME NEW h, NEW g, NEW r, NEW e, NEW h2, NEW g2, CollectStep(h, g, r, e, h2, g2),
           Judged(prog, h, g)
    PROVE  Judged(prog, h2, g2)'
<1> DEFINE N == Len(prog)
           f == g[N]
           n == e.name
<1>1. /\ Inv(h, g, r) /\ pass = "collect" /\ pass' = "collect" /\ e \in Event
      /\ e.op # "end" => n \in Names
      /\ Grown(prog, g, prog', g2, e) /\ f \in FunctionsOf(prog) \cup {0}
      /\ CollectEffect(g, e) /\ At(g, N) = Where(f) /\ Where(0) = Package
  BY CollectGrows DEF CollectStep, Where
<1>2. errors \in Nat /\ (errors' = errors \/ errors' = errors + 1)
  BY <1>1 DEF CollectEffect, Inv, ScopesOK
<1>3. (errors = 0 <=> Clean(prog, g)) /\ (errors = 0 => Bound(prog, g))
  BY <1>1 DEF Judged
<1>4. Clean(prog', g2) <=> Clean(prog, g) /\ Right(prog', g2, N + 1)
  BY <1>1, CleanGrows
<1>5. ASSUME errors = 0 PROVE errors' = errors <=> Right(prog', g2, N + 1)
  <2>1. errors' # errors <=> errors' = errors + 1
    BY <1>2
  <2>2. \A k \in FunctionsOf(prog) \cup {0} :
           n \in Names => (binds[Where(k)][n] # None <=> DeclIn(prog, g, k, n) # {})
    BY <1>1, <1>3, <1>5, CollectMeans
  <2>3. /\ e.op \in DeclareOps => (Right(prog', g2, N + 1) <=> DeclIn(prog, g, f, n) = {})
        /\ e.op \in {"use", "elem", "call", "for"} =>
              (Right(prog', g2, N + 1) <=> DeclIn(prog, g, f, n) # {} \/ DeclIn(prog, g, 0, n) # {})
        /\ e.op \in {"assign", "end"} => Right(prog', g2, N + 1)
    BY <1>1, RightOfNew
  <2> HIDE DEF f, n, N
  <2>4. CASE e.op \in DeclareOps
    <3>1. n \in Names /\ e.op \notin {"assign", "use", "elem", "call", "for", "end"}
      BY <1>1, <2>4 DEF DeclareOps, Declarators
    <3>2. errors' = errors <=> binds[Where(f)][n] = None
      BY <1>1, <2>1, <3>1 DEF CollectEffect, OneBinding, N, n
    <3>3. QED
      BY <1>1, <2>2, <2>3, <2>4, <3>1, <3>2
  <2>5. CASE e.op \in {"use", "elem", "call", "for"}
    <3>1. n \in Names /\ e.op \notin DeclareOps \cup {"assign", "end"}
      BY <1>1, <2>5 DEF DeclareOps, Declarators
    <3>2. errors' = errors <=> binds[Where(f)][n] # None \/ binds[Package][n] # None
      BY <1>1, <2>1, <3>1 DEF CollectEffect, N, n
    <3>3. QED
      BY <1>1, <2>2, <2>3, <2>5, <3>1, <3>2
  <2>6. CASE e.op \in {"assign", "end"}
    <3>1. e.op \notin DeclareOps \cup {"use", "elem", "call", "for"}
      BY <2>6 DEF DeclareOps, Declarators
    <3>2. QED
      BY <1>1, <2>3, <2>6, <3>1 DEF CollectEffect
  <2>7. QED
    BY <1>1, <2>4, <2>5, <2>6 DEF CollectEffect
<1>6. errors' = 0 <=> errors = 0 /\ errors' = errors
  BY <1>2
<1>7. errors' = 0 <=> Clean(prog', g2)
  BY <1>3, <1>4, <1>5, <1>6
<1>8. errors' = 0 => Bound(prog, g2)'
  BY <1>3, <1>6, CollectedBound
<1>9. QED
  BY <1>1, <1>7, <1>8 DEF Judged

\* Names are found in the scope of the text around, or in the package's.
LEMMA CollectFinds ==
    ASSUME NEW h, NEW g, NEW r, Inv(h, g, r), pass = "collect", NEW n
    PROVE  Home(Inner.scope, n) # None <=>
              binds[At(g, Len(prog))][n] # None \/ binds[Package][n] # None
<1>1. /\ Inner.scope = At(g, Len(prog)) /\ Inner.scope \in Opened
      /\ g[Len(prog)] = 0 <=> Len(nest) = 1
      /\ g[Len(prog)] # 0 => up[Inner.scope] = Package
  BY CollectInner
<1>2. ScopesOK /\ Ranked(r) /\ None \notin Scopes /\ Inner.scope \in Scopes /\ Package \in Scopes
  BY <1>1, NamesAssumption DEF Inv, Opened, NamesAssumption
<1>3. CASE g[Len(prog)] = 0
  BY <1>1, <1>2, <1>3, HomeOfPackage DEF At
<1>4. CASE g[Len(prog)] # 0
  BY <1>1, <1>2, <1>4, HomeOfFunction
<1>5. QED
  BY <1>3, <1>4

\* A declaration is made where there is none, and reported where there is one.
LEMMA InsertsOnce ==
    ASSUME ScopesOK, NEW r, Ranked(r), NEW s \in Scopes, NEW n \in Names, NEW d \in Declaration,
           insert_symbol(s, n, d)
    PROVE  \/ errors' = errors /\ OneBinding(s, n, d)
           \/ errors' = errors + 1 /\ binds' = binds /\ binds[s][n] # None
<1>1. CASE Declare(s, n, d, Cardinality(used[s]))
  BY <1>1, DeclareKeeps
<1>2. CASE Redeclare(s, n)
  BY <1>2 DEF Redeclare
<1>3. QED
  BY <1>1, <1>2 DEF insert_symbol

\* A step that collects event e.
CollectedStep(g, e) ==
    /\ pass = "collect" /\ pass' = "collect" /\ e \in Event
    /\ e.op # "end" => e.name \in Names
    /\ prog' = Append(prog, e) /\ CollectEffect(g, e)

\* Such a step that leaves the functions their scopes.
LEMMA CollectedKeeps ==
    ASSUME NEW h, NEW g, NEW r, Inv(h, g, r), Judged(prog, h, g),
           NEW h2, NEW g2, NEW r2, Inv(h2, g2, r2)',
           NEW e, CollectedStep(g, e), e.op # "fun", scopeOf' = scopeOf
    PROVE  Judged(prog, h2, g2)'
<1>1. Text(prog', h2, g2)
  BY DEF Inv
<1>2. CollectStep(h, g, r, e, h2, g2)
  BY <1>1 DEF CollectStep, CollectedStep
<1>3. QED
  BY <1>2, CollectJudges

\* A parameter of the function whose header is being read.
LEMMA CollectParamJudged ==
    ASSUME NEW h, NEW g, NEW r, Inv(h, g, r), Judged(prog, h, g),
           NEW h2, NEW g2, NEW r2, Inv(h2, g2, r2)', NEW n \in Names, CollectParam(n)
    PROVE  Judged(prog, h2, g2)'
<1> DEFINE s == Inner.scope
           e == Ev("param", n, 0, TRUE)
<1>1. /\ pass = "collect" /\ pass' = pass /\ insert_symbol(s, n, Declares(e))
      /\ prog' = Append(prog, e) /\ scopeOf' = scopeOf
  BY DEF CollectParam, Collected
<1>2. s = At(g, Len(prog)) /\ s \in Scopes
  BY <1>1, CollectInner
<1>3. 0 \in Arities /\ ScopesOK /\ Ranked(r)
  BY NamesAssumption DEF NamesAssumption, Inv
<1>4. e \in Event /\ e.op = "param" /\ e.name = n /\ Declares(e) \in Declaration
  BY <1>3, NamesAssumption DEF Ev, Event, Declares, Declaration, Kind, NamesAssumption
<1> HIDE DEF e
<1>5. \/ errors' = errors /\ OneBinding(s, n, Declares(e))
      \/ errors' = errors + 1 /\ binds' = binds /\ binds[s][n] # None
  BY <1>1, <1>2, <1>3, <1>4, InsertsOnce
<1>6. CollectEffect(g, e)
  BY <1>2, <1>4, <1>5 DEF CollectEffect, DeclareOps
<1>7. CollectedStep(g, e)
  BY <1>1, <1>4, <1>6 DEF CollectedStep
<1>8. QED
  BY <1>1, <1>4, <1>7, CollectedKeeps

\* A declaration of a variable.
LEMMA CollectDeclarationJudged ==
    ASSUME NEW h, NEW g, NEW r, Inv(h, g, r), Judged(prog, h, g),
           NEW h2, NEW g2, NEW r2, Inv(h2, g2, r2)',
           NEW n \in Names, NEW op \in Declarators, NEW m \in BOOLEAN, CollectDeclaration(op, n, m)
    PROVE  Judged(prog, h2, g2)'
<1> DEFINE s == Inner.scope
           e == Ev(op, n, 0, m)
<1>1. /\ pass = "collect" /\ pass' = pass /\ insert_symbol(s, n, Declares(e))
      /\ prog' = Append(prog, e) /\ scopeOf' = scopeOf
  BY DEF CollectDeclaration, Collected
<1>2. s = At(g, Len(prog)) /\ s \in Scopes
  BY <1>1, CollectInner
<1>3. 0 \in Arities /\ ScopesOK /\ Ranked(r)
  BY NamesAssumption DEF NamesAssumption, Inv
<1>4. e \in Event /\ e.op = op /\ e.name = n /\ Declares(e) \in Declaration
  BY <1>3, EvMade DEF Declarators
<1> HIDE DEF e
<1>5. \/ errors' = errors /\ OneBinding(s, n, Declares(e))
      \/ errors' = errors + 1 /\ binds' = binds /\ binds[s][n] # None
  BY <1>1, <1>2, <1>3, <1>4, InsertsOnce
<1>6. CollectEffect(g, e) /\ e.op # "fun"
  BY <1>2, <1>4, <1>5 DEF CollectEffect, DeclareOps, Declarators
<1>7. CollectedStep(g, e)
  BY <1>1, <1>4, <1>6 DEF CollectedStep
<1>8. QED
  BY <1>1, <1>6, <1>7, CollectedKeeps

\* An assignment, which declares a name its scope does not have.
LEMMA CollectAssignJudged ==
    ASSUME NEW h, NEW g, NEW r, Inv(h, g, r), Judged(prog, h, g),
           NEW h2, NEW g2, NEW r2, Inv(h2, g2, r2)', NEW n \in Names, CollectAssign(n)
    PROVE  Judged(prog, h2, g2)'
<1> DEFINE s == Inner.scope
           e == Ev("assign", n, 0, FALSE)
           d == Declares(Ev("var", n, 0, TRUE))
<1>1. /\ pass = "collect" /\ pass' = pass /\ prog' = Append(prog, e) /\ scopeOf' = scopeOf
      /\ \/ Declare(s, n, d, Cardinality(used[s]))
         \/ binds[s][n] # None /\ binds' = binds /\ errors' = errors
  BY DEF CollectAssign, Collected, avars
<1>2. s = At(g, Len(prog)) /\ s \in Scopes
  BY <1>1, CollectInner
<1>3. 0 \in Arities /\ ScopesOK /\ Ranked(r)
  BY NamesAssumption DEF NamesAssumption, Inv
<1>4. e \in Event /\ e.op = "assign" /\ e.name = n
  BY <1>3 DEF Ev, Event
<1>5. d \in Declaration /\ d.kind = "other"
  BY <1>3 DEF Ev, Declares, Declaration, Kind
<1> HIDE DEF e, d
<1>6. \/ errors' = errors /\ OneBinding(s, n, d)
      \/ binds[s][n] # None /\ binds' = binds /\ errors' = errors
  BY <1>1, <1>2, <1>3, <1>5, DeclareKeeps
<1>7. CollectEffect(g, e)
  BY <1>2, <1>4, <1>5, <1>6 DEF CollectEffect
<1>8. CollectedStep(g, e)
  BY <1>1, <1>4, <1>7 DEF CollectedStep
<1>9. QED
  BY <1>1, <1>4, <1>8, CollectedKeeps

\* A name, in an event that does not declare it.
LEMMA CollectUseJudged ==
    ASSUME NEW h, NEW g, NEW r, Inv(h, g, r), Judged(prog, h, g),
           NEW h2, NEW g2, NEW r2, Inv(h2, g2, r2)',
           NEW e, e \in Event, e.op \in {"use", "elem", "call", "for"}, e.name \in Names,
           pass = "collect", pass' = pass, prog' = Append(prog, e), scopeOf' = scopeOf,
           binds' = binds, check_undeclared(Inner.scope, e.name)
    PROVE  Judged(prog, h2, g2)'
<1>1. \/ Home(Inner.scope, e.name) # None /\ errors' = errors
      \/ Home(Inner.scope, e.name) = None /\ errors' = errors + 1
  BY DEF check_undeclared, Report
<1>2. Home(Inner.scope, e.name) # None <=>
         binds[At(g, Len(prog))][e.name] # None \/ binds[Package][e.name] # None
  BY CollectFinds
<1>3. CollectEffect(g, e)
  BY <1>1, <1>2 DEF CollectEffect
<1>4. CollectedStep(g, e)
  BY <1>3 DEF CollectedStep
<1>5. QED
  BY <1>4, CollectedKeeps

\* A use, a call, a write to an element.
LEMMA CollectNameJudged ==
    ASSUME NEW h, NEW g, NEW r, Inv(h, g, r), Judged(prog, h, g),
           NEW h2, NEW g2, NEW r2, Inv(h2, g2, r2)',
           NEW op \in {"use", "call", "elem"}, NEW n \in Names, NEW k \in Arities,
           CollectName(op, n, k)
    PROVE  Judged(prog, h2, g2)'
<1> DEFINE e == Ev(op, n, k, FALSE)
<1>1. e \in Event /\ e.op = op /\ e.name = n
  BY DEF Ev, Event
<1>2. /\ pass = "collect" /\ pass' = pass /\ prog' = Append(prog, e) /\ scopeOf' = scopeOf
      /\ binds' = binds /\ check_undeclared(Inner.scope, n)
  BY DEF CollectName, Collected
<1> HIDE DEF e
<1>3. QED
  BY <1>1, <1>2, CollectUseJudged

\* A loop.
LEMMA CollectForJudged ==
    ASSUME NEW h, NEW g, NEW r, Inv(h, g, r), Judged(prog, h, g),
           NEW h2, NEW g2, NEW r2, Inv(h2, g2, r2)', NEW n \in Names, CollectFor(n)
    PROVE  Judged(prog, h2, g2)'
<1> DEFINE e == Ev("for", n, 0, FALSE)
<1>1. e \in Event /\ e.op = "for" /\ e.name = n
  BY NamesAssumption DEF Ev, Event, NamesAssumption
<1>2. /\ pass = "collect" /\ pass' = pass /\ prog' = Append(prog, e) /\ scopeOf' = scopeOf
      /\ binds' = binds /\ check_undeclared(Inner.scope, n)
  BY DEF CollectFor, Collected
<1> HIDE DEF e
<1>3. QED
  BY <1>1, <1>2, CollectUseJudged

\* The end of a construct.
LEMMA CollectEndJudged ==
    ASSUME NEW h, NEW g, NEW r, Inv(h, g, r), Judged(prog, h, g),
           NEW h2, NEW g2, NEW r2, Inv(h2, g2, r2)', CollectEnd
    PROVE  Judged(prog, h2, g2)'
<1> DEFINE e == Ev("end", None, 0, FALSE)
<1>1. e \in Event /\ e.op = "end"
  BY NamesAssumption DEF Ev, Event, NamesAssumption
<1>2. /\ pass = "collect" /\ pass' = pass /\ prog' = Append(prog, e) /\ scopeOf' = scopeOf
      /\ binds' = binds /\ errors' = errors
  BY DEF CollectEnd, Collected, avars
<1> HIDE DEF e
<1>3. CollectedStep(g, e)
  BY <1>1, <1>2 DEF CollectedStep, CollectEffect
<1>4. QED
  BY <1>1, <1>2, <1>3, CollectedKeeps

\* The header of a function.
LEMMA CollectFunJudged ==
    ASSUME NEW h, NEW g, NEW r, Inv(h, g, r), Judged(prog, h, g),
           NEW h2, NEW g2, NEW r2, Inv(h2, g2, r2)',
           NEW n \in Names, NEW k \in Arities, CollectFun(n, k)
    PROVE  Judged(prog, h2, g2)'
<1> DEFINE e == Ev("fun", n, k, FALSE)
           N == Len(prog)
<1>1. PICK f \in NewScope :
        /\ DeclareWithScope(Package, n, Declares(e), Cardinality(used[Package]), f)
        /\ scopeOf' = [scopeOf EXCEPT ![pc + 1] = f]
  BY DEF CollectFun
<1>2. pass = "collect" /\ pass' = pass /\ Len(nest) = 1 /\ prog' = Append(prog, e)
  BY DEF CollectFun, Top, Collected
<1>3. /\ ScopesOK /\ Ranked(r) /\ Package \in Scopes /\ pc = N /\ g[N] = 0 /\ N \in Nat
      /\ OwnScopes /\ prog \in Seq(Event) /\ Store /\ state[Package] = "open"
  <2>1. g[N] = 0
    BY <1>2, CollectInner
  <2>2. pc = N /\ N \in Nat
    BY <1>2 DEF Inv, Budget, Text
  <2>3. ScopesOK /\ OwnScopes /\ Ranked(r) /\ prog \in Seq(Event)
    BY DEF Inv, Text
  <2> HIDE DEF N
  <2>4. QED
    BY <2>1, <2>2, <2>3, NamesAssumption DEF ScopesOK, Tree, NamesAssumption
<1>4. e \in Event /\ e.op = "fun" /\ e.name = n /\ Declares(e) \in Declaration
  <2>1. e \in Event /\ e.op = "fun" /\ e.name = n /\ e.n = k /\ e.mut = FALSE
    BY NamesAssumption DEF Ev, Event, NamesAssumption
  <2> HIDE DEF e
  <2>2. QED
    BY <2>1 DEF Declares, Declaration, Kind
<1> HIDE DEF e
<1>5. f \in Scopes /\ state[f] = "new"
  BY NewScopeIs
<1>6. /\ binds' = binds \/ binds' = [binds EXCEPT ![Package][n] =
                                        [decl |-> Declares(e), slot |-> Cardinality(used[Package])]]
      /\ errors' # errors => binds[Package][n] # None /\ binds' = binds
  BY <1>1 DEF DeclareWithScope, Bind
<1>7. binds'[f] = Unbound
  <2>1. binds[f] = Unbound /\ f # Package
    BY <1>3, <1>5 DEF Store
  <2>2. binds'[f] = binds[f]
    BY <1>3, <1>5, <1>6, <2>1 DEF Store
  <2>3. QED
    BY <2>1, <2>2
<1>8. scopeOf'[N + 1] = f /\ \A i \in Functions : scopeOf'[i] = scopeOf[i]
  <2>1. N + 1 \in 1 .. MaxLoopLen
    <3>1. Budget'
      BY DEF Inv
    <3>2. Len(prog') = N + 1
      BY <1>2, <1>3
    <3>3. QED
      BY <1>3, <3>1, <3>2, NamesAssumption DEF Budget, NamesAssumption
  <2>2. Functions \subseteq 1 .. N
    BY <1>3 DEF Functions, Of, Events
  <2>3. QED
    BY <1>1, <1>3, <2>1, <2>2 DEF OwnScopes
<1>9. \/ errors' = errors /\ OneBinding(Package, n, Declares(e))
      \/ errors' = errors + 1 /\ binds[Package][n] # None /\ binds' = binds
  <2>1. \/ errors' = errors /\ OneBinding(Package, n, Declares(e))
        \/ errors' = errors + 1 /\ binds' = binds
    BY <1>1, <1>3, <1>4, <1>5, FunctionKeeps
  <2>2. errors \in Nat
    BY <1>3 DEF ScopesOK
  <2>3. errors # errors + 1
    BY <2>2
  <2>4. QED
    BY <1>6, <2>1, <2>3
<1>10. At(g, N) = Package
  BY <1>3 DEF At
<1>11. CollectEffect(g, e)
  BY <1>4, <1>9, <1>10 DEF CollectEffect, DeclareOps
<1>12. Text(prog', h2, g2)
  BY DEF Inv
<1>13. CollectStep(h, g, r, e, h2, g2)
  BY <1>2, <1>4, <1>7, <1>8, <1>11, <1>12 DEF CollectStep
<1>14. QED
  BY <1>13, CollectJudges

\* From one pass to the next.
LEMMA NextPassJudged ==
    ASSUME NEW h, NEW g, NEW r, Inv(h, g, r), Judged(prog, h, g), NextPass
    PROVE  Judged(prog, h, g)'
<1>1. /\ pass \in Passes /\ pc = Len(prog) /\ prog' = prog /\ prog # <<>>
      /\ scopeOf' = scopeOf /\ errors' = errors /\ binds' = binds
  BY DEF NextPass, avars
<1>2. /\ prog \in Seq(Event) /\ errors \in Nat /\ DOMAIN prog = 1 .. Len(prog) /\ Len(prog) \in Nat
      /\ Len(prog) # 0
  <2>1. prog \in Seq(Event) /\ errors \in Nat
    BY DEF Inv, Text, ScopesOK
  <2>2. QED
    BY <1>1, <2>1
<1>3. CASE pass = "collect" /\ errors = 0
  <2>1. pass' = "check" /\ pc' = 0 /\ nest' = <<[op |-> "file", scope |-> current]>>
    BY <1>3 DEF NextPass
  <2>2. Clean(prog', g) /\ Bound(prog, g)
    BY <1>1, <1>3 DEF Judged
  <2>3. Bound(prog, g)'
    <3>1. SUFFICES ASSUME NEW f \in FunctionsOf(prog) \cup {0}, NEW n \in Names
                   PROVE  BoundAt(prog, g, f, n, binds[Where(f)][n])'
      BY <1>1 DEF Bound
    <3>2. BoundAt(prog, g, f, n, binds[Where(f)][n])
      BY <2>2 DEF Bound
    <3>3. Where(f)' = Where(f)
      BY <1>1 DEF Where
    <3>4. pass # "check"
      BY <1>3
    <3>5. QED
      BY <1>1, <3>2, <3>3, <3>4 DEF BoundAt, Stray
  <2>4. LoopBound(prog, h)'
    <3>1. \A l \in ForsOf(prog') : ~ (l <= pc')
      BY <1>1, <1>2, <2>1 DEF ForsOf
    <3>2. QED
      BY <3>1 DEF LoopBound
  <2>5. LoopNest(prog, h)'
    <3>1. Len(nest') = 1
      BY <2>1
    <3>2. \A k \in 3 .. Len(nest') : FALSE
      BY <3>1
    <3>3. QED
      BY <3>2 DEF LoopNest
  <2>6. Verdict(prog, h, g)'
    <3>1. \A i \in DOMAIN prog' : ~ (i <= pc')
      BY <1>1, <1>2, <2>1
    <3>2. QED
      BY <1>1, <1>3, <3>1 DEF Verdict
  <2>7. QED
    BY <2>1, <2>2, <2>3, <2>4, <2>5, <2>6 DEF Judged, Checks
<1>4. CASE pass \in {"collect", "check"} /\ errors # 0
  <2>1. pass' = "rejected"
    BY <1>2, <1>4 DEF NextPass
  <2>2. CASE pass = "collect"
    <3>1. ~ Clean(prog', g)
      BY <1>1, <1>4, <2>2 DEF Judged
    <3>2. QED
      BY <2>1, <3>1 DEF Judged
  <2>3. CASE pass = "check"
    <3>1. FunctionsOf(prog) = {} \/ Verdict(prog, h, g)
      BY <2>3 DEF Judged, Checks
    <3>2. FunctionsOf(prog) = {} \/ \E i \in DOMAIN prog : CallsVar(prog, h, g, i) \/ Wrong(prog, h, g, i)
      BY <1>4, <3>1 DEF Verdict
    <3>3. QED
      BY <1>1, <2>1, <3>2 DEF Judged
  <2>4. QED
    BY <1>4, <2>2, <2>3
<1>5. CASE pass = "check" /\ errors = 0
  <2>1. pass' = "generate" /\ pc' = 0
    BY <1>5 DEF NextPass
  <2>2. Clean(prog', g)
    BY <1>1, <1>5 DEF Judged
  <2>3. FunctionsOf(prog) # {} => Verdict(prog, h, g)
    BY <1>5 DEF Judged, Checks
  <2>4. \A i \in DOMAIN prog : i <= pc
    BY <1>1, <1>2
  <2>5. FunctionsOf(prog) # {} => AllFine(prog, h, g)
    BY <1>5, <2>3, <2>4 DEF Verdict, AllFine
  <2>6. FunctionsOf(prog') # {} => AllFine(prog, h, g)'
    BY <1>1, <2>5 DEF AllFine
  <2>7. QED
    BY <2>1, <2>2, <2>6 DEF Judged
<1>6. CASE pass = "generate"
  <2>1. pass' = "compiled"
    BY <1>6 DEF NextPass
  <2>2. Clean(prog', g) /\ FunctionsOf(prog') # {} /\ AllFine(prog, h, g)
    BY <1>1, <1>2, <1>6 DEF Judged
  <2>3. AllFine(prog, h, g)'
    BY <1>1, <2>2 DEF AllFine
  <2>4. QED
    BY <2>1, <2>2, <2>3 DEF Judged
<1>7. QED
  BY <1>1, <1>3, <1>4, <1>5, <1>6 DEF Passes

-----------------------------------------------------------------------------
\* What the second pass finds is what the name means

\* Inside loops: a name is the innermost's that has it, or what it is outside.
LEMMA HomeInNest ==
    ASSUME ScopesOK, NEW r, Ranked(r), NEW n, Len(nest) \in Nat, Len(nest) > 1,
           nest[2].scope \in Opened, \A k \in 3 .. Len(nest) : LoopLevel(k)
    PROVE  \/ /\ Home(nest[Len(nest)].scope, n) = Home(nest[2].scope, n)
              /\ \A k \in 3 .. Len(nest) : binds[nest[k].scope][n] = None
           \/ \E k \in 3 .. Len(nest) :
                 /\ Home(nest[Len(nest)].scope, n) = nest[k].scope
                 /\ binds[nest[k].scope][n] # None
                 /\ \A i \in k + 1 .. Len(nest) : binds[nest[i].scope][n] = None
<1> DEFINE None_(j) == /\ Home(nest[j + 2].scope, n) = Home(nest[2].scope, n)
                       /\ \A k \in 3 .. j + 2 : binds[nest[k].scope][n] = None
           Some(j, k) == /\ Home(nest[j + 2].scope, n) = nest[k].scope
                         /\ binds[nest[k].scope][n] # None
                         /\ \A i \in k + 1 .. j + 2 : binds[nest[i].scope][n] = None
           Found_(j) == None_(j) \/ \E k \in 3 .. j + 2 : Some(j, k)
           Right_ == {j \in Nat : j + 2 <= Len(nest) => Found_(j)}
<1>1. 0 \in Right_
  OBVIOUS
<1>2. ASSUME NEW j \in Nat, j \in Right_ PROVE j + 1 \in Right_
  <2>1. SUFFICES ASSUME (j + 1) + 2 <= Len(nest) PROVE Found_(j + 1)
    OBVIOUS
  <2>2. Found_(j)
    BY <1>2, <2>1
  <2> DEFINE t == (j + 1) + 2
  <2>3. t \in 3 .. Len(nest) /\ t - 1 = j + 2 /\ t \in Nat /\ j + 2 \in Nat /\ t = (j + 2) + 1
    BY <2>1
  <2>4. nest[t].scope \in Opened /\ up[nest[t].scope] = nest[j + 2].scope
    BY <2>3 DEF LoopLevel
  <2>5. Home(nest[t].scope, n) =
          IF binds[nest[t].scope][n] # None THEN nest[t].scope ELSE Home(nest[j + 2].scope, n)
    BY <2>4, HomeUnfolds
  <2>6. CASE binds[nest[t].scope][n] # None
    <3>1. \A i \in t + 1 .. t : FALSE
      BY <2>3
    <3>2. Some(j + 1, t)
      BY <2>5, <2>6, <3>1
    <3>3. t \in 3 .. (j + 1) + 2
      BY <2>3
    <3> HIDE DEF Some, t
    <3>4. QED
      BY <3>2, <3>3
  <2>7. CASE binds[nest[t].scope][n] = None
    <3>1. Home(nest[t].scope, n) = Home(nest[j + 2].scope, n)
      BY <2>5, <2>7
    <3>2. \A i \in Nat : i <= t => i <= j + 2 \/ i = t
      BY <2>3
    <3>3. CASE None_(j)
      <4>1. \A k \in 3 .. t : binds[nest[k].scope][n] = None
        BY <2>3, <2>7, <3>2, <3>3
      <4>2. None_(j + 1)
        BY <3>1, <3>3, <4>1
      <4> HIDE DEF None_
      <4>3. QED
        BY <4>2
    <3>4. CASE \E k \in 3 .. j + 2 : Some(j, k)
      <4>1. PICK k \in 3 .. j + 2 : Some(j, k)
        BY <3>4
      <4>2. \A i \in k + 1 .. t : binds[nest[i].scope][n] = None
        BY <2>3, <2>7, <3>2, <4>1
      <4>3. Some(j + 1, k)
        BY <3>1, <4>1, <4>2
      <4>4. k \in 3 .. (j + 1) + 2
        BY <4>1
      <4> HIDE DEF Some
      <4>5. QED
        BY <4>3, <4>4
    <3>5. QED
      BY <2>2, <3>3, <3>4
  <2>8. QED
    BY <2>6, <2>7
<1>3. \A j \in Nat : j \in Right_
  <2> HIDE DEF Right_
  <2>1. QED
    BY <1>1, <1>2, InductionOnNat
<1>4. Len(nest) - 2 \in Nat /\ (Len(nest) - 2) + 2 = Len(nest)
  OBVIOUS
<1>5. Found_(Len(nest) - 2)
  <2>1. (Len(nest) - 2) + 2 <= Len(nest)
    BY <1>4
  <2> HIDE DEF Found_
  <2>2. QED
    BY <1>3, <1>4, <2>1
<1>6. QED
  BY <1>4, <1>5

\* The next event of a pass.
LEMMA NextIs ==
    ASSUME NEW h, NEW g, NEW r, Inv(h, g, r), pc < Len(prog)
    PROVE  /\ Text(prog, h, g) /\ pc \in Nat /\ pc \in 0 .. Len(prog) /\ pc + 1 \in 1 .. Len(prog)
           /\ pc + 1 \in 1 .. Len(prog) + 1 /\ (pc + 1) - 1 = pc /\ Len(prog) \in Nat
           /\ pc + 1 \in DOMAIN prog /\ DOMAIN prog = 1 .. Len(prog)
           /\ prog[pc + 1] \in Event
           /\ Moves(prog[pc + 1], pc + 1, h[pc], h[pc + 1], g[pc], g[pc + 1])
           /\ h[pc] \in Nat \ {0} /\ g[pc] \in Nat /\ (g[pc] = 0 <=> h[pc] = 1)
           /\ g[pc] # 0 => g[pc] \in FunctionsOf(prog)
<1>1. Text(prog, h, g) /\ pc \in 0 .. Len(prog) /\ Len(prog) \in Nat
  BY DEF Inv, Budget, Text
<1>2. pc \in Nat /\ pc + 1 \in 1 .. Len(prog) /\ (pc + 1) - 1 = pc /\ pc + 1 \in 1 .. Len(prog) + 1
  BY <1>1
<1>3. /\ Moves(prog[pc + 1], pc + 1, h[(pc + 1) - 1], h[pc + 1], g[(pc + 1) - 1], g[pc + 1])
      /\ prog[pc + 1] \in Event /\ DOMAIN prog = 1 .. Len(prog)
  BY <1>1, <1>2, TextMoves
<1>4. /\ h[pc] \in Nat \ {0} /\ g[pc] \in Nat /\ (g[pc] = 0 <=> h[pc] = 1)
      /\ (g[pc] # 0 => g[pc] \in FunctionsOf(prog))
  BY <1>1, TextMeans
<1>5. QED
  BY <1>1, <1>2, <1>3, <1>4

\* The open loops of the text are the ones the pass is in.
LEMMA OpenLoops ==
    ASSUME NEW h, NEW g, NEW r, Inv(h, g, r), pass = "check", pc < Len(prog), LoopNest(prog, h)
    PROVE  /\ \A k \in 3 .. Len(nest) : \E l \in ForsOf(prog) :
                 LoopAt(prog, h, pc + 1, l) /\ h[l] = k /\ nest[k].scope = scopeOf[l] /\ l <= pc
           /\ \A l : LoopAt(prog, h, pc + 1, l) =>
                 /\ h[l] \in 3 .. Len(nest) /\ nest[h[l]].scope = scopeOf[l]
                 /\ l <= pc /\ l \in Nat /\ l \in ForsOf(prog)
           /\ Len(nest) = h[pc]
<1>1. /\ Text(prog, h, g) /\ pc \in Nat /\ (pc + 1) - 1 = pc /\ pc + 1 \in 1 .. Len(prog) + 1
      /\ DOMAIN prog = 1 .. Len(prog)
  BY NextIs
<1>2. Len(nest) = h[pc] /\ Len(nest) \in Nat
  BY CheckInner
<1>3. ASSUME NEW k \in 3 .. Len(nest)
      PROVE  \E l \in ForsOf(prog) :
                 LoopAt(prog, h, pc + 1, l) /\ h[l] = k /\ nest[k].scope = scopeOf[l] /\ l <= pc
  <2>1. PICK l \in ForsOf(prog) : /\ l <= pc /\ nest[k].scope = scopeOf[l] /\ h[l] = k
                                  /\ \A j \in l .. pc : k <= h[j]
    BY <1>3 DEF LoopNest
  <2>2. l \in Nat /\ l < pc + 1
    BY <1>1, <2>1 DEF ForsOf
  <2>3. LoopAt(prog, h, pc + 1, l)
    BY <1>1, <2>1, <2>2 DEF LoopAt
  <2>4. QED
    BY <2>1, <2>3
<1>4. ASSUME NEW l, LoopAt(prog, h, pc + 1, l)
      PROVE  /\ h[l] \in 3 .. Len(nest) /\ nest[h[l]].scope = scopeOf[l]
             /\ l <= pc /\ l \in Nat /\ l \in ForsOf(prog)
  <2>1. l <= pc /\ l \in Nat /\ h[l] \in Nat /\ 3 <= h[l] /\ h[l] <= h[pc]
    BY <1>1, <1>4, LoopFacts
  <2>2. h[l] \in 3 .. Len(nest)
    BY <1>2, <2>1
  <2>3. PICK k \in ForsOf(prog) :
            LoopAt(prog, h, pc + 1, k) /\ h[k] = h[l] /\ nest[h[l]].scope = scopeOf[k] /\ k <= pc
    BY <1>3, <2>2
  <2>4. k \in Nat
    BY <1>1, <2>3 DEF ForsOf
  <2>5. ~ (l < k)
    <3>1. l < k => h[l] < h[k]
      BY <1>1, <1>4, <2>3, LoopsNested
    <3>2. QED
      BY <2>1, <2>3, <3>1
  <2>6. ~ (k < l)
    <3>1. k < l => h[k] < h[l]
      BY <1>1, <1>4, <2>3, LoopsNested
    <3>2. QED
      BY <2>1, <2>3, <3>1
  <2>7. k = l
    BY <2>1, <2>4, <2>5, <2>6
  <2>8. QED
    BY <2>1, <2>2, <2>3, <2>7
<1>5. QED
  BY <1>2, <1>3, <1>4

\* A loop of a clean text declares an array once.
LEMMA ArraysOnce ==
    ASSUME NEW p, NEW h, NEW g, Text(p, h, g), Clean(p, g), NEW l, NEW n,
           NEW i, ArrayIn(p, h, i, l, n), NEW j, ArrayIn(p, h, j, l, n)
    PROVE  i = j
<1>1. /\ DOMAIN p = 1 .. Len(p) /\ Len(p) \in Nat
      /\ i \in DOMAIN p /\ p[i].op = "array" /\ p[i].name = n /\ LoopAt(p, h, i, l)
      /\ j \in DOMAIN p /\ p[j].op = "array" /\ p[j].name = n /\ LoopAt(p, h, j, l)
  BY DEF ArrayIn, Around_, Text
<1>2. i \in 1 .. Len(p) + 1 /\ j \in 1 .. Len(p) + 1 /\ i \in Nat /\ j \in Nat
  BY <1>1
<1>3. g[l - 1] = g[i - 1]
  BY <1>1, <1>2, LoopFacts
<1>4. g[l - 1] = g[j - 1]
  BY <1>1, <1>2, LoopFacts
<1>5. "array" \in DeclareOps
  BY DEF DeclareOps, Declarators
<1>6. i \in DeclIn(p, g, g[i - 1], n) /\ j \in DeclIn(p, g, g[i - 1], n)
  BY <1>1, <1>3, <1>4, <1>5 DEF DeclIn
<1>7. i <= j
  BY <1>1, <1>5, <1>6 DEF Clean, Right
<1>8. j <= i
  BY <1>1, <1>3, <1>4, <1>5, <1>6 DEF Clean, Right
<1>9. QED
  BY <1>2, <1>7, <1>8

\* Inside a function the checker is in order.
InCheck(h, g, r) ==
    /\ Inv(h, g, r) /\ pass = "check" /\ pc < Len(prog) /\ Clean(prog, g)
    /\ Bound(prog, g) /\ LoopBound(prog, h) /\ LoopNest(prog, h)

\* A name that a loop has is the loop's variable, or its array.
LEMMA MeansLoop ==
    ASSUME NEW h, NEW g, NEW r, InCheck(h, g, r), NEW n \in Names, prog[pc + 1].name = n,
           NEW k \in 3 .. Len(nest), binds[nest[k].scope][n] # None,
           \A i \in k + 1 .. Len(nest) : binds[nest[i].scope][n] = None
    PROVE  \E m \in DOMAIN prog :
              MeansIn(prog, h, g, pc + 1, m) /\ Says(binds[nest[k].scope][n].decl, prog[m])
<1> DEFINE i == pc + 1
<1>1. /\ Inv(h, g, r) /\ pass = "check" /\ pc < Len(prog) /\ Clean(prog, g)
      /\ LoopBound(prog, h) /\ LoopNest(prog, h) /\ Text(prog, h, g) /\ i \in 1 .. Len(prog) + 1
      /\ DOMAIN prog = 1 .. Len(prog)
  BY NextIs DEF InCheck
<1>2. PICK l \in ForsOf(prog) :
        LoopAt(prog, h, i, l) /\ h[l] = k /\ nest[k].scope = scopeOf[l] /\ l <= pc
  BY <1>1, OpenLoops
<1>3. \A t : LoopAt(prog, h, i, t) =>
         /\ h[t] \in 3 .. Len(nest) /\ nest[h[t]].scope = scopeOf[t]
         /\ t <= pc /\ t \in Nat /\ t \in ForsOf(prog)
  BY <1>1, OpenLoops
<1>4. ASSUME NEW t \in ForsOf(prog), t <= pc
      PROVE  /\ binds[scopeOf[t]][n] # None <=> Has(prog, h, i, t, n)
             /\ prog[t].name = n => binds[scopeOf[t]][n].decl.kind = "other"
             /\ prog[t].name # n /\ binds[scopeOf[t]][n] # None =>
                   \E j \in DOMAIN prog : /\ j <= pc /\ ArrayIn(prog, h, j, t, n)
                                          /\ binds[scopeOf[t]][n].decl = Declares(prog[j])
  BY <1>1, <1>4 DEF LoopBound
<1>5. Has(prog, h, i, l, n)
  BY <1>2, <1>4
<1>6. ASSUME NEW t \in ForsOf(prog), LoopAt(prog, h, i, t), Has(prog, h, i, t, n) PROVE t <= l
  <2>1. t \in Nat /\ l \in Nat /\ h[t] \in 3 .. Len(nest) /\ nest[h[t]].scope = scopeOf[t] /\ t <= pc
    BY <1>2, <1>3, <1>6
  <2>2. SUFFICES ASSUME l < t PROVE FALSE
    BY <2>1
  <2>3. k < h[t]
    BY <1>1, <1>2, <1>6, <2>2, LoopsNested
  <2>4. h[t] \in k + 1 .. Len(nest)
    BY <2>1, <2>3
  <2>5. binds[scopeOf[t]][n] = None
    BY <2>1, <2>4
  <2>6. QED
    BY <1>4, <1>6, <2>1, <2>5
<1>7. l \in DOMAIN prog /\ prog[l].op = "for"
  BY DEF ForsOf
<1>8. CASE prog[l].name = n
  <2>1. MeansInLoop(prog, h, i, l, l)
    BY <1>2, <1>5, <1>6, <1>8 DEF MeansInLoop
  <2>2. MeansIn(prog, h, g, i, l)
    BY <1>7, <2>1 DEF MeansIn
  <2>3. Says(binds[nest[k].scope][n].decl, prog[l])
    BY <1>2, <1>4, <1>7, <1>8 DEF Says
  <2>4. QED
    BY <1>7, <2>2, <2>3
<1>9. CASE prog[l].name # n
  <2>1. PICK j \in DOMAIN prog : /\ j <= pc /\ ArrayIn(prog, h, j, l, n)
                                 /\ binds[scopeOf[l]][n].decl = Declares(prog[j])
    BY <1>2, <1>4, <1>9
  <2>2. IsFirst(j, {t \in DOMAIN prog : ArrayIn(prog, h, t, l, n)})
    <3>1. \A t : ArrayIn(prog, h, t, l, n) => t = j
      BY <1>1, <2>1, ArraysOnce
    <3>2. j \in Nat
      BY <1>1
    <3>3. QED
      BY <2>1, <3>1, <3>2 DEF IsFirst
  <2>3. MeansInLoop(prog, h, i, j, l)
    BY <1>2, <1>5, <1>6, <1>9, <2>2 DEF MeansInLoop
  <2>4. MeansIn(prog, h, g, i, j)
    BY <2>3 DEF MeansIn
  <2>5. prog[j].op = "array"
    BY <2>1 DEF ArrayIn
  <2>6. Says(binds[nest[k].scope][n].decl, prog[j])
    BY <1>2, <2>1, <2>5 DEF Says
  <2>7. QED
    BY <2>4, <2>6
<1>10. QED
  BY <1>8, <1>9

\* What the function's scope, or the package's, has for a name that is declared
\* in one of them.
LEMMA MeansDeclared ==
    ASSUME NEW h, NEW g, NEW r, Inv(h, g, r), Clean(prog, g), Bound(prog, g),
           NEW f \in FunctionsOf(prog) \cup {0}, NEW n \in Names,
           DeclIn(prog, g, f, n) # {} \/ DeclIn(prog, g, 0, n) # {},
           NEW home, home = IF binds[Where(f)][n] # None THEN Where(f)
                            ELSE IF binds[Package][n] # None THEN Package ELSE None
    PROVE  /\ home # None
           /\ \E m \in DOMAIN prog :
                 /\ \/ IsFirst(m, DeclIn(prog, g, f, n))
                    \/ DeclIn(prog, g, f, n) = {} /\ IsFirst(m, DeclIn(prog, g, 0, n))
                 /\ Says(binds[home][n].decl, prog[m])
<1>1. /\ BoundAt(prog, g, f, n, binds[Where(f)][n]) /\ BoundAt(prog, g, 0, n, binds[Package][n])
      /\ prog \in Seq(Event)
  BY DEF Bound, Inv, Text, Where
<1>2. Where(f) # None /\ Package # None
  BY WhereIsOwn, NamesAssumption DEF NamesAssumption
<1>3. CASE DeclIn(prog, g, f, n) # {}
  <2>1. PICK m \in DOMAIN prog : IsFirst(m, DeclIn(prog, g, f, n))
    BY <1>1, <1>3, FirstExists
  <2>2. binds[Where(f)][n] # None /\ Says(binds[Where(f)][n].decl, prog[m])
    BY <1>1, <2>1 DEF BoundAt
  <2>3. QED
    BY <1>2, <2>1, <2>2
<1>4. CASE DeclIn(prog, g, f, n) = {}
  <2>1. PICK m \in DOMAIN prog : IsFirst(m, DeclIn(prog, g, 0, n))
    BY <1>1, <1>4, FirstExists
  <2>2. binds[Package][n] # None /\ Says(binds[Package][n].decl, prog[m])
    BY <1>1, <2>1 DEF BoundAt
  <2>3. CASE binds[Where(f)][n] = None
    BY <1>2, <1>4, <2>1, <2>2, <2>3
  <2>4. CASE binds[Where(f)][n] # None
    <3>1. PICK j \in DeclIn(prog, g, 0, n) :
              prog[j].op = "array" /\ binds[Where(f)][n].decl = Declares(prog[j])
      BY <1>1, <1>4, <2>4 DEF BoundAt, Stray
    <3>2. j \in DOMAIN prog /\ g[j - 1] = 0 /\ prog[j].name = n
      BY DEF DeclIn
    <3>3. IsFirst(j, DeclIn(prog, g, 0, n))
      BY <3>1, <3>2 DEF Clean, Right, IsFirst, DeclareOps, Declarators
    <3>4. Says(binds[Where(f)][n].decl, prog[j])
      BY <3>1 DEF Says
    <3>5. QED
      BY <1>2, <1>4, <2>4, <3>2, <3>3, <3>4
  <2>5. QED
    BY <2>3, <2>4
<1>5. QED
  BY <1>3, <1>4

\* A name that no loop has is what is declared in the function or the package.
LEMMA MeansOutsideLoops ==
    ASSUME NEW h, NEW g, NEW r, InCheck(h, g, r), NEW n \in Names, prog[pc + 1].name = n, g[pc] # 0,
           DeclIn(prog, g, g[pc], n) # {} \/ DeclIn(prog, g, 0, n) # {},
           \A k \in 3 .. Len(nest) : binds[nest[k].scope][n] = None,
           NEW home, home = Home(nest[2].scope, n)
    PROVE  /\ home # None
           /\ \E m \in DOMAIN prog :
                 MeansIn(prog, h, g, pc + 1, m) /\ Says(binds[home][n].decl, prog[m])
<1> DEFINE i == pc + 1
           f == g[pc]
<1>1. /\ Inv(h, g, r) /\ pass = "check" /\ pc < Len(prog) /\ Clean(prog, g)
      /\ Bound(prog, g) /\ LoopBound(prog, h) /\ LoopNest(prog, h)
      /\ f \in FunctionsOf(prog) \cup {0} /\ g[i - 1] = f /\ ScopesOK /\ Ranked(r)
  <2>1. g[pc] \in FunctionsOf(prog) /\ (pc + 1) - 1 = pc
    BY NextIs DEF InCheck
  <2>2. QED
    BY <2>1 DEF InCheck, Inv
<1>2. \A k \in ForsOf(prog) : ~ (LoopAt(prog, h, i, k) /\ Has(prog, h, i, k, n))
  <2>1. SUFFICES ASSUME NEW k \in ForsOf(prog), LoopAt(prog, h, i, k) PROVE ~ Has(prog, h, i, k, n)
    OBVIOUS
  <2>2. h[k] \in 3 .. Len(nest) /\ nest[h[k]].scope = scopeOf[k] /\ k <= pc
    BY <1>1, <2>1, OpenLoops
  <2>3. binds[scopeOf[k]][n] = None
    BY <2>2
  <2>4. QED
    BY <1>1, <2>2, <2>3 DEF LoopBound
<1>3. nest[2].scope = Where(f) /\ Where(f) \in Opened /\ up[Where(f)] = Package
  <2>1. nest[2].scope = scopeOf[f] /\ nest[2].scope \in Opened /\ up[nest[2].scope] = Package
    BY <1>1, CheckInner
  <2>2. QED
    BY <2>1 DEF Where
<1>4. home = IF binds[Where(f)][n] # None THEN Where(f)
             ELSE IF binds[Package][n] # None THEN Package ELSE None
  BY <1>1, <1>3, HomeOfFunction
<1> HIDE DEF f
<1>5. /\ home # None
      /\ \E m \in DOMAIN prog :
            /\ \/ IsFirst(m, DeclIn(prog, g, f, n))
               \/ DeclIn(prog, g, f, n) = {} /\ IsFirst(m, DeclIn(prog, g, 0, n))
            /\ Says(binds[home][n].decl, prog[m])
  <2>1. DeclIn(prog, g, f, n) # {} \/ DeclIn(prog, g, 0, n) # {}
    BY DEF f
  <2>2. QED
    BY <1>1, <1>4, <2>1, MeansDeclared
<1>6. PICK m \in DOMAIN prog :
        /\ \/ IsFirst(m, DeclIn(prog, g, f, n))
           \/ DeclIn(prog, g, f, n) = {} /\ IsFirst(m, DeclIn(prog, g, 0, n))
        /\ Says(binds[home][n].decl, prog[m])
  BY <1>5
<1>7. MeansOutside(prog, h, g, i, m)
  BY <1>1, <1>2, <1>6 DEF MeansOutside
<1>8. MeansIn(prog, h, g, i, m)
  BY <1>7 DEF MeansIn
<1>9. QED
  BY <1>5, <1>6, <1>8

\* The checker finds what the name of an event means.
LEMMA CheckMeans ==
    ASSUME NEW h, NEW g, NEW r, InCheck(h, g, r), NEW n \in Names, prog[pc + 1].name = n, g[pc] # 0,
           DeclIn(prog, g, g[pc], n) # {} \/ DeclIn(prog, g, 0, n) # {},
           NEW home, home = Home(Inner.scope, n)
    PROVE  /\ home # None
           /\ \E m \in DOMAIN prog :
                 MeansIn(prog, h, g, pc + 1, m) /\ Says(binds[home][n].decl, prog[m])
<1>1. Inv(h, g, r) /\ pass = "check" /\ ScopesOK /\ Ranked(r)
  BY DEF InCheck, Inv
<1>2. /\ Inner.scope = nest[Len(nest)].scope /\ Len(nest) \in Nat /\ Len(nest) > 1
      /\ nest[2].scope \in Opened
  <2>1. /\ Len(nest) \in Nat \ {0} /\ (g[pc] = 0 <=> Len(nest) = 1) /\ nest[2].scope \in Opened
    BY <1>1, CheckInner
  <2> DEFINE m == Len(nest)
  <2>2. m \in Nat \ {0} /\ m # 1
    BY <2>1
  <2>3. m > 1 /\ m \in Nat
    <3> HIDE DEF m
    <3>1. QED
      BY <2>2
  <2>4. QED
    BY <2>1, <2>3 DEF Inner
<1>3. \A k \in 3 .. Len(nest) : LoopLevel(k)
  BY <1>1 DEF Inv, Nesting, CheckNest
<1>4. \/ /\ Home(nest[Len(nest)].scope, n) = Home(nest[2].scope, n)
         /\ \A k \in 3 .. Len(nest) : binds[nest[k].scope][n] = None
      \/ \E k \in 3 .. Len(nest) :
            /\ Home(nest[Len(nest)].scope, n) = nest[k].scope
            /\ binds[nest[k].scope][n] # None
            /\ \A i \in k + 1 .. Len(nest) : binds[nest[i].scope][n] = None
  BY <1>1, <1>2, <1>3, HomeInNest
<1>5. CASE /\ Home(nest[Len(nest)].scope, n) = Home(nest[2].scope, n)
           /\ \A k \in 3 .. Len(nest) : binds[nest[k].scope][n] = None
  BY <1>2, <1>5, MeansOutsideLoops
<1>6. CASE \E k \in 3 .. Len(nest) :
              /\ Home(nest[Len(nest)].scope, n) = nest[k].scope
              /\ binds[nest[k].scope][n] # None
              /\ \A i \in k + 1 .. Len(nest) : binds[nest[i].scope][n] = None
  <2>1. PICK k \in 3 .. Len(nest) :
              /\ Home(nest[Len(nest)].scope, n) = nest[k].scope
              /\ binds[nest[k].scope][n] # None
              /\ \A i \in k + 1 .. Len(nest) : binds[nest[i].scope][n] = None
    BY <1>6
  <2>2. nest[k].scope \in Scopes /\ None \notin Scopes
    BY <1>3, NamesAssumption DEF LoopLevel, Opened, NamesAssumption
  <2>3. home = nest[k].scope /\ home # None
    BY <1>2, <2>1, <2>2
  <2>4. \E m \in DOMAIN prog :
           MeansIn(prog, h, g, pc + 1, m) /\ Says(binds[nest[k].scope][n].decl, prog[m])
    BY <2>1, MeansLoop
  <2>5. QED
    BY <2>3, <2>4
<1>7. QED
  BY <1>4, <1>5, <1>6

-----------------------------------------------------------------------------
\* The second pass, event by event

\* A step of the second pass, in a file that has functions.
CheckStep(h, g, r, e) ==
    /\ InCheck(h, g, r) /\ Verdict(prog, h, g) /\ e = prog[pc + 1]
    /\ prog' = prog /\ pc' = pc + 1

\* The open loops stay those of the text.
LEMMA LoopNestStep ==
    ASSUME NEW h, NEW g, NEW r, NEW e, CheckStep(h, g, r, e), NEW s \in Scopes \cup {None},
           NestStep(e, s, nest'), \A l \in ForsOf(prog) : l <= pc => scopeOf'[l] = scopeOf[l],
           e.op = "for" => scopeOf'[pc + 1] = s
    PROVE  LoopNest(prog, h)'
<1>1. /\ Inv(h, g, r) /\ pass = "check" /\ pass \in Passes /\ pc < Len(prog) /\ e = prog[pc + 1]
      /\ prog' = prog /\ pc' = pc + 1 /\ LoopNest(prog, h)
  BY DEF CheckStep, InCheck, Passes
<1>2. Followed(h, g, e, s, nest')
  BY <1>1, NestFollows
<1>3. /\ Len(nest) = h[pc] /\ Len(nest') = h[pc + 1] /\ h[pc] \in Nat \ {0} /\ h[pc + 1] \in Nat \ {0}
      /\ \A k \in 1 .. h[pc] : k <= h[pc + 1] => nest'[k] = nest[k]
      /\ e.op \in {"fun", "for"} => nest'[h[pc + 1]].scope = s
      /\ Moves(e, pc + 1, h[pc], h[pc + 1], g[pc], g[pc + 1])
      /\ pc \in Nat
  BY <1>2 DEF Followed, Nested
<1>4. DOMAIN prog = 1 .. Len(prog) /\ pc + 1 \in DOMAIN prog
  BY <1>1, NextIs
<1>5. SUFFICES ASSUME NEW k \in 3 .. Len(nest')
               PROVE  \E l \in ForsOf(prog) :
                         /\ l <= pc + 1 /\ nest'[k].scope = scopeOf'[l] /\ h[l] = k
                         /\ \A j \in l .. pc + 1 : k <= h[j]
  BY <1>1 DEF LoopNest
<1>6. CASE k <= h[pc]
  <2>1. k \in 3 .. Len(nest) /\ nest'[k] = nest[k] /\ k <= h[pc + 1]
    BY <1>3, <1>6
  <2>2. PICK l \in ForsOf(prog) : /\ l <= pc /\ nest[k].scope = scopeOf[l] /\ h[l] = k
                                  /\ \A j \in l .. pc : k <= h[j]
    BY <1>1, <2>1 DEF LoopNest
  <2>3. l \in Nat
    BY <1>4 DEF ForsOf
  <2>4. \A j \in l .. pc + 1 : j \in l .. pc \/ j = pc + 1
    BY <1>3, <2>3
  <2>5. \A j \in l .. pc + 1 : k <= h[j]
    BY <2>1, <2>2, <2>4
  <2>6. l <= pc + 1
    BY <1>3, <2>2, <2>3
  <2>7. QED
    BY <2>1, <2>2, <2>5, <2>6
<1>7. CASE ~ (k <= h[pc])
  <2>1. k \in Nat /\ h[pc] < k /\ k <= h[pc + 1]
    BY <1>3, <1>7
  <2>2. e.op = "for" /\ k = h[pc + 1]
    BY <1>3, <2>1 DEF Moves
  <2>3. pc + 1 \in ForsOf(prog)
    BY <1>1, <1>4, <2>2 DEF ForsOf
  <2>4. \A j \in pc + 1 .. pc + 1 : j = pc + 1
    BY <1>3
  <2>5. \A j \in pc + 1 .. pc + 1 : k <= h[j]
    BY <2>1, <2>2, <2>4
  <2>6. pc + 1 <= pc + 1
    BY <1>3
  <2>7. QED
    BY <1>3, <2>2, <2>3, <2>5, <2>6
<1>8. QED
  BY <1>6, <1>7

\* So do the scopes of loops, where the event opens none: what a loop has it
\* keeps, and an array declared in it is there already or comes in now.
LEMMA LoopBoundStep ==
    ASSUME NEW h, NEW g, NEW r, NEW e, CheckStep(h, g, r, e), e.op # "for", scopeOf' = scopeOf,
           \A l \in ForsOf(prog), n \in Names : l <= pc =>
              LET b == binds[scopeOf[l]][n]
                  c == binds'[scopeOf[l]][n]
              IN  \/ c = b /\ (ArrayIn(prog, h, pc + 1, l, n) => b # None)
                  \/ /\ ArrayIn(prog, h, pc + 1, l, n) /\ prog[l].name # n
                     /\ c # None /\ c.decl = Declares(e)
    PROVE  LoopBound(prog, h)'
<1>1. /\ Inv(h, g, r) /\ pc < Len(prog) /\ e = prog[pc + 1]
      /\ prog' = prog /\ pc' = pc + 1 /\ LoopBound(prog, h)
  BY DEF CheckStep, InCheck
<1>2. /\ pc \in Nat /\ pc + 1 \in DOMAIN prog /\ DOMAIN prog = 1 .. Len(prog) /\ Len(prog) \in Nat
  BY <1>1, NextIs
<1>3. SUFFICES ASSUME NEW l \in ForsOf(prog), NEW n \in Names, l <= pc + 1
               PROVE  LET c == binds'[scopeOf[l]][n] IN
                      /\ scopeOf[l] # None
                      /\ c # None <=> Has(prog, h, (pc + 1) + 1, l, n)
                      /\ prog[l].name = n => c.decl.kind = "other"
                      /\ prog[l].name # n /\ c # None =>
                            \E j \in DOMAIN prog :
                               j <= pc + 1 /\ ArrayIn(prog, h, j, l, n) /\ c.decl = Declares(prog[j])
  BY <1>1 DEF LoopBound
<1> DEFINE b == binds[scopeOf[l]][n]
           c == binds'[scopeOf[l]][n]
           now == ArrayIn(prog, h, pc + 1, l, n)
<1>4. l <= pc
  <2>1. l \in DOMAIN prog /\ prog[l].op = "for"
    BY DEF ForsOf
  <2>2. l # pc + 1
    BY <1>1, <2>1
  <2>3. QED
    BY <1>2, <1>3, <2>1, <2>2
<1>5. /\ scopeOf[l] # None
      /\ b # None <=> Has(prog, h, pc + 1, l, n)
      /\ prog[l].name = n => b.decl.kind = "other"
      /\ prog[l].name # n /\ b # None =>
            \E j \in DOMAIN prog : j <= pc /\ ArrayIn(prog, h, j, l, n) /\ b.decl = Declares(prog[j])
  BY <1>1, <1>4 DEF LoopBound
<1>6. Has(prog, h, (pc + 1) + 1, l, n) <=> Has(prog, h, pc + 1, l, n) \/ now
  <2>1. \A j \in DOMAIN prog : j < (pc + 1) + 1 <=> j < pc + 1 \/ j = pc + 1
    BY <1>2
  <2>2. QED
    BY <1>2, <2>1 DEF Has
<1>7. \A j \in DOMAIN prog : j <= pc => j <= pc + 1
  BY <1>2
<1>8. pc + 1 <= pc + 1
  BY <1>2
<1>9. \/ c = b /\ (now => b # None)
      \/ now /\ prog[l].name # n /\ c # None /\ c.decl = Declares(e)
  BY <1>4
<1> HIDE DEF b, c, now
<1>10. CASE c = b /\ (now => b # None)
  <2>1. c # None <=> Has(prog, h, (pc + 1) + 1, l, n)
    BY <1>5, <1>6, <1>10
  <2>2. QED
    BY <1>5, <1>7, <1>10, <2>1 DEF c
<1>11. CASE now /\ prog[l].name # n /\ c # None /\ c.decl = Declares(e)
  <2>1. \E j \in DOMAIN prog :
           j <= pc + 1 /\ ArrayIn(prog, h, j, l, n) /\ c.decl = Declares(prog[j])
    BY <1>1, <1>2, <1>8, <1>11 DEF now
  <2>2. QED
    BY <1>5, <1>6, <1>11, <2>1 DEF c
<1>12. QED
  BY <1>9, <1>10, <1>11

\* What the checker has reported goes on to be what is wrong.
LEMMA VerdictStep ==
    ASSUME NEW h, NEW g, NEW r, NEW e, CheckStep(h, g, r, e),
           \/ CallsVar(prog, h, g, pc + 1)
           \/ errors' = errors /\ Fine(prog, h, g, pc + 1)
           \/ errors' # 0 /\ Wrong(prog, h, g, pc + 1)
    PROVE  Verdict(prog, h, g)'
<1>1. /\ Inv(h, g, r) /\ pc < Len(prog) /\ prog' = prog /\ pc' = pc + 1 /\ Verdict(prog, h, g)
  BY DEF CheckStep, InCheck
<1>2. pc \in Nat /\ pc + 1 \in DOMAIN prog /\ DOMAIN prog = 1 .. Len(prog) /\ Len(prog) \in Nat
  BY <1>1, NextIs
<1>3. \A i \in DOMAIN prog : i <= pc + 1 => i <= pc \/ i = pc + 1
  BY <1>2
<1>4. CASE \E i \in DOMAIN prog : CallsVar(prog, h, g, i)
  BY <1>1, <1>4 DEF Verdict
<1>5. CASE CallsVar(prog, h, g, pc + 1)
  BY <1>2, <1>4, <1>5
<1>6. CASE errors' = errors /\ Fine(prog, h, g, pc + 1)
  <2>1. CASE errors = 0 /\ \A i \in DOMAIN prog : i <= pc => Fine(prog, h, g, i)
    <3>1. \A i \in DOMAIN prog : i <= pc + 1 => Fine(prog, h, g, i)
      BY <1>3, <1>6, <2>1
    <3>2. QED
      BY <1>1, <1>6, <2>1, <3>1 DEF Verdict
  <2>2. CASE errors # 0 /\ \E i \in DOMAIN prog : Wrong(prog, h, g, i)
    BY <1>1, <1>6, <2>2 DEF Verdict
  <2>3. QED
    BY <1>1, <1>4, <2>1, <2>2 DEF Verdict
<1>7. CASE errors' # 0 /\ Wrong(prog, h, g, pc + 1)
  BY <1>1, <1>2, <1>7 DEF Verdict
<1>8. QED
  BY <1>5, <1>6, <1>7

\* The functions' scopes keep what they have, and the last gets an array of the
\* package at most.
LEMMA BoundStep ==
    ASSUME NEW h, NEW g, NEW r, NEW e, CheckStep(h, g, r, e), pass' = "check",
           \A f \in FunctionsOf(prog) : scopeOf'[f] = scopeOf[f],
           \A f \in FunctionsOf(prog) \cup {0}, n \in Names :
              LET b == binds[Where(f)][n]
                  c == binds'[Where(f)][n]
              IN  \/ c = b
                  \/ /\ b = None /\ n = e.name /\ f # 0 /\ \A k \in FunctionsOf(prog) : k <= f
                     /\ g[pc] = 0 /\ e.op = "array" /\ c.decl = Declares(e) /\ c # None
    PROVE  Bound(prog, g)'
<1>1. /\ Inv(h, g, r) /\ pass = "check" /\ pc < Len(prog) /\ e = prog[pc + 1]
      /\ prog' = prog /\ pc' = pc + 1 /\ Bound(prog, g)
  BY DEF CheckStep, InCheck
<1>2. /\ pc \in Nat /\ pc + 1 \in DOMAIN prog /\ DOMAIN prog = 1 .. Len(prog) /\ Len(prog) \in Nat
      /\ (pc + 1) - 1 = pc
  BY <1>1, NextIs
<1>3. SUFFICES ASSUME NEW f \in FunctionsOf(prog) \cup {0}, NEW n \in Names
               PROVE  BoundAt(prog, g, f, n, binds[Where(f)][n])'
  BY <1>1 DEF Bound
<1> DEFINE b == binds[Where(f)][n]
           c == binds'[Where(f)][n]
<1>4. Where(f)' = Where(f)
  <2>1. f # 0 => scopeOf'[f] = scopeOf[f]
    OBVIOUS
  <2>2. QED
    BY <2>1 DEF Where
<1>5. BoundAt(prog, g, f, n, b)
  BY <1>1 DEF Bound
<1>6. \A j \in DeclIn(prog, g, 0, n) : j <= pc => j <= pc + 1
  BY <1>2 DEF DeclIn
<1>7. CASE c = b
  <2>1. PICK v : v = b
    OBVIOUS
  <2>2. Stray(prog, g, n, v) => Stray(prog, g, n, v)'
    BY <1>1, <1>6 DEF Stray
  <2>3. BoundAt(prog, g, f, n, v)
    BY <1>5, <2>1
  <2>4. BoundAt(prog, g, f, n, v)'
    BY <1>1, <2>2, <2>3 DEF BoundAt
  <2>5. binds'[Where(f)'][n] = v
    BY <1>4, <1>7, <2>1
  <2> HIDE DEF b, c
  <2>6. QED
    BY <2>4, <2>5
<1>8. CASE /\ b = None /\ n = e.name /\ f # 0 /\ \A k \in FunctionsOf(prog) : k <= f
           /\ g[pc] = 0 /\ e.op = "array" /\ c.decl = Declares(e) /\ c # None
  <2>1. \A j \in DOMAIN prog : ~ IsFirst(j, DeclIn(prog, g, f, n))
    BY <1>5, <1>8 DEF BoundAt
  <2>2. pc + 1 \in DeclIn(prog, g, 0, n)
    BY <1>1, <1>2, <1>8 DEF DeclIn, DeclareOps, Declarators
  <2>3. pc + 1 <= pc + 1
    BY <1>2
  <2>4. \E j \in DeclIn(prog, g, 0, n) : j <= pc + 1 /\ prog[j].op = "array" /\ c.decl = Declares(prog[j])
    BY <1>1, <1>8, <2>2, <2>3
  <2> HIDE DEF b, c
  <2>5. /\ \A j \in DOMAIN prog' : IsFirst(j, DeclIn(prog', g, f, n)) => c # None /\ Says(c.decl, prog'[j])
        /\ f # 0 /\ (\A k \in FunctionsOf(prog') : k <= f)
    BY <1>1, <1>8, <2>1
  <2>6. /\ pass' = "check"
        /\ \E j \in DeclIn(prog', g, 0, n) : j <= pc' /\ prog'[j].op = "array" /\ c.decl = Declares(prog'[j])
    BY <1>1, <2>4
  <2>7. binds'[Where(f)'][n] = c
    BY <1>4 DEF c
  <2>8. QED
    BY <2>5, <2>6, <2>7 DEF BoundAt, Stray
<1>9. QED
  BY <1>7, <1>8

\* The second pass in a file that has functions.
LEMMA CheckStepIs ==
    ASSUME NEW h, NEW g, NEW r, Inv(h, g, r), Judged(prog, h, g), pass = "check", pc < Len(prog),
           prog' = prog, pc' = pc + 1, FunctionsOf(prog) # {}
    PROVE  CheckStep(h, g, r, prog[pc + 1])
  BY DEF Judged, Checks, CheckStep, InCheck

\* In a file without functions the second pass asks nothing of anybody.
LEMMA CheckWithoutFunctions ==
    ASSUME NEW h, NEW g, Judged(prog, h, g), pass = "check", prog' = prog,
           pass' \in {"check", "crashed"}, FunctionsOf(prog) = {}
    PROVE  Judged(prog, h, g)'
<1>1. Clean(prog', g) /\ FunctionsOf(prog') = {}
  BY DEF Judged
<1>2. QED
  BY <1>1 DEF Judged

\* The checker gives up.
LEMMA CheckCrashes ==
    ASSUME NEW h, NEW g, NEW r, Inv(h, g, r), Judged(prog, h, g), pass = "check", pc < Len(prog),
           prog' = prog, pass' = "crashed",
           CallsVar(prog, h, g, pc + 1) \/ TooMany(prog, h, g, pc + 1)
    PROVE  Judged(prog, h, g)'
<1>1. pc + 1 \in DOMAIN prog
  BY NextIs
<1>2. Clean(prog', g) /\ \E i \in DOMAIN prog' : CallsVar(prog', h, g, i) \/ TooMany(prog', h, g, i)
  BY <1>1 DEF Judged
<1>3. QED
  BY <1>2 DEF Judged

\* A step of the second pass that binds nothing.
LEMMA CheckQuiet ==
    ASSUME NEW h, NEW g, NEW r, NEW e, CheckStep(h, g, r, e), e.op \notin {"for", "array"},
           binds' = binds, scopeOf' = scopeOf, pass' = "check",
           NEW s \in Scopes \cup {None}, NestStep(e, s, nest'),
           \/ CallsVar(prog, h, g, pc + 1)
           \/ errors' = errors /\ Fine(prog, h, g, pc + 1)
           \/ errors' # 0 /\ Wrong(prog, h, g, pc + 1)
    PROVE  Judged(prog, h, g)'
<1>1. e = prog[pc + 1] /\ prog' = prog /\ Clean(prog, g)
  BY DEF CheckStep, InCheck
<1>2. Verdict(prog, h, g)'
  BY VerdictStep
<1>3. LoopNest(prog, h)'
  BY LoopNestStep
<1>4. Bound(prog, g)'
  BY BoundStep
<1>5. \A l \in ForsOf(prog), n \in Names : ~ ArrayIn(prog, h, pc + 1, l, n)
  BY <1>1 DEF ArrayIn
<1>6. LoopBound(prog, h)'
  BY <1>5, LoopBoundStep
<1>7. QED
  BY <1>1, <1>2, <1>3, <1>4, <1>6 DEF Judged, Checks

\* The name of an event is declared around it.
LEMMA NameDeclared ==
    ASSUME NEW h, NEW g, NEW r, InCheck(h, g, r), NEW e, e = prog[pc + 1], e.op # "end"
    PROVE  /\ e.name \in Names
           /\ DeclIn(prog, g, g[pc], e.name) # {} \/ DeclIn(prog, g, 0, e.name) # {}
           /\ e.op \in DeclareOps \cup {"assign"} => pc + 1 \in DeclIn(prog, g, g[pc], e.name)
<1>1. /\ Clean(prog, g) /\ pc + 1 \in DOMAIN prog /\ (pc + 1) - 1 = pc
      /\ Moves(e, pc + 1, h[pc], h[pc + 1], g[pc], g[pc + 1]) /\ e \in Event
  BY NextIs DEF InCheck
<1>2. e.name \in Names
  BY <1>1 DEF Moves
<1>3. CASE e.op \in DeclareOps \cup {"assign"}
  <2>1. pc + 1 \in DeclIn(prog, g, g[pc], e.name)
    BY <1>1, <1>3 DEF DeclIn
  <2>2. QED
    BY <1>2, <2>1
<1>4. CASE e.op \notin DeclareOps \cup {"assign"}
  <2>1. e.op \in {"use", "elem", "call", "for"}
    BY <1>1, <1>4 DEF Event, DeclareOps, Declarators
  <2>2. \E j \in DeclIn(prog, g, g[pc], e.name) \cup DeclIn(prog, g, 0, e.name) : j < pc + 1
    BY <1>1, <2>1 DEF Clean, Right
  <2>3. QED
    BY <1>2, <1>4, <2>2
<1>5. QED
  BY <1>3, <1>4

\* The checker finds every name.
LEMMA CheckFindsAll ==
    ASSUME NEW h, NEW g, NEW r, InCheck(h, g, r), FunctionsOf(prog) # {},
           NEW e, e = prog[pc + 1], e.op # "end"
    PROVE  Home(Inner.scope, e.name) # None /\ Inner.scope \in Opened
<1> DEFINE n == e.name
<1>1. /\ n \in Names /\ (DeclIn(prog, g, g[pc], n) # {} \/ DeclIn(prog, g, 0, n) # {})
      /\ Inv(h, g, r) /\ pass = "check" /\ pc < Len(prog) /\ Bound(prog, g) /\ Clean(prog, g)
      /\ ScopesOK /\ Ranked(r)
  BY NameDeclared DEF InCheck, Inv
<1>2. CASE g[pc] # 0
  <2>1. Inner.scope \in Opened
    BY <1>1, <1>2, CheckInner
  <2> HIDE DEF n
  <2>2. Home(Inner.scope, n) # None
    BY <1>1, <1>2, CheckMeans DEF n
  <2>3. QED
    BY <2>1, <2>2 DEF n
<1>3. CASE g[pc] = 0
  <2>1. LastScope(Inner.scope) /\ Inner.scope \in Opened \cup {None}
    BY <1>1, <1>3, CheckInner
  <2>2. PICK l \in Functions : Inner.scope = scopeOf[l]
    BY <2>1, FunctionsAre DEF LastScope
  <2>3. Inner.scope \in Opened
    <3>1. l \in FunctionsOf(prog) \cup {0} /\ l # 0
      BY FunctionsAre DEF FunctionsOf, Functions, Of, Events, InCheck, Inv, Text
    <3>2. Where(l) = Inner.scope
      BY <2>2, <3>1 DEF Where
    <3>3. QED
      BY <1>1, <3>1, <3>2, WhereIsOwn
  <2>4. binds[Package][n] # None
    <3>1. PICK j \in DOMAIN prog : IsFirst(j, DeclIn(prog, g, 0, n))
      BY <1>1, <1>3, FirstExists DEF Inv, Text
    <3>2. BoundAt(prog, g, 0, n, binds[Package][n])
      BY <1>1 DEF Bound, Where
    <3>3. QED
      BY <3>1, <3>2 DEF BoundAt
  <2>5. QED
    BY <1>1, <2>3, <2>4, HomeFindsPackage
<1>4. QED
  BY <1>2, <1>3

\* The checker enters a function.
LEMMA CheckFunJudged ==
    ASSUME NEW h, NEW g, NEW r, Inv(h, g, r), Judged(prog, h, g), CheckFun
    PROVE  Judged(prog, h, g)'
<1> DEFINE s == scopeOf[pc + 1]
           e == prog[pc + 1]
<1>1. /\ pass = "check" /\ pc < Len(prog) /\ e.op = "fun"
      /\ nest' = Append(nest, [op |-> "fun", scope |-> s]) /\ pc' = pc + 1
      /\ binds' = binds /\ errors' = errors /\ prog' = prog /\ pass' = pass /\ scopeOf' = scopeOf
  BY DEF CheckFun, Here, Push, avars, Done
<1>2. s \in Scopes \cup {None} /\ FunctionsOf(prog) # {}
  <2>1. pc + 1 \in 1 .. MaxLoopLen /\ pc + 1 \in DOMAIN prog
    BY <1>1, TextStays, NextIs
  <2>2. QED
    BY <1>1, <2>1 DEF Inv, OwnScopes, FunctionsOf
<1>3. NestStep(e, s, nest')
  BY <1>1 DEF NestStep
<1>4. CheckStep(h, g, r, e)
  BY <1>1, <1>2, CheckStepIs
<1>5. Fine(prog, h, g, pc + 1)
  BY <1>1 DEF Fine
<1> HIDE DEF s, e
<1>6. QED
  BY <1>1, <1>2, <1>3, <1>4, <1>5, CheckQuiet

\* The checker leaves a construct.
LEMMA CheckEndJudged ==
    ASSUME NEW h, NEW g, NEW r, Inv(h, g, r), Judged(prog, h, g), CheckEnd
    PROVE  Judged(prog, h, g)'
<1> DEFINE e == prog[pc + 1]
<1>1. /\ pass = "check" /\ pc < Len(prog) /\ e.op = "end"
      /\ nest' = SubSeq(nest, 1, Len(nest) - 1) /\ pc' = pc + 1
      /\ binds' = binds /\ errors' = errors /\ prog' = prog /\ pass' = pass /\ scopeOf' = scopeOf
  BY DEF CheckEnd, Here, Pop, avars, Done
<1>2. CASE FunctionsOf(prog) = {}
  BY <1>1, <1>2, CheckWithoutFunctions
<1>3. CASE FunctionsOf(prog) # {}
  <2>1. NestStep(e, None, nest')
    BY <1>1 DEF NestStep
  <2>2. CheckStep(h, g, r, e)
    BY <1>1, <1>3, CheckStepIs
  <2>3. Fine(prog, h, g, pc + 1)
    BY <1>1 DEF Fine
  <2> HIDE DEF e
  <2>4. QED
    BY <1>1, <2>1, <2>2, <2>3, CheckQuiet
<1>4. QED
  BY <1>2, <1>3

\* The checker looks a name up.
LEMMA CheckNameJudged ==
    ASSUME NEW h, NEW g, NEW r, Inv(h, g, r), Judged(prog, h, g), CheckName
    PROVE  Judged(prog, h, g)'
<1> DEFINE e == prog[pc + 1]
<1>1. /\ pass = "check" /\ pc < Len(prog) /\ e.op \in {"param", "var", "assign", "use"}
      /\ nest' = nest /\ pc' = pc + 1
      /\ binds' = binds /\ prog' = prog /\ pass' = pass /\ scopeOf' = scopeOf
      /\ errors' \in IF Home(Inner.scope, e.name) = None THEN {errors, errors + 1} ELSE {errors}
  BY DEF CheckName, Here, This, Done
<1>2. CASE FunctionsOf(prog) = {}
  BY <1>1, <1>2, CheckWithoutFunctions
<1>3. CASE FunctionsOf(prog) # {}
  <2>1. NestStep(e, None, nest')
    BY <1>1 DEF NestStep
  <2>2. CheckStep(h, g, r, e)
    BY <1>1, <1>3, CheckStepIs
  <2>3. Fine(prog, h, g, pc + 1) /\ e.op \notin {"for", "array"}
    BY <1>1 DEF Fine
  <2>4. Home(Inner.scope, e.name) # None
    BY <1>1, <1>3, <2>2, CheckFindsAll DEF CheckStep
  <2>5. errors' = errors
    BY <1>1, <2>4
  <2> HIDE DEF e
  <2>6. QED
    BY <1>1, <2>1, <2>2, <2>3, <2>5, CheckQuiet
<1>4. QED
  BY <1>2, <1>3

\* Something is open where a name is used.
LEMMA UsedInside ==
    ASSUME NEW h, NEW g, NEW r, Inv(h, g, r), pc < Len(prog),
           prog[pc + 1].op \in {"elem", "call", "for", "end"}
    PROVE  g[pc] # 0 /\ FunctionsOf(prog) # {}
<1>1. /\ Moves(prog[pc + 1], pc + 1, h[pc], h[pc + 1], g[pc], g[pc + 1])
      /\ h[pc] \in Nat \ {0} /\ g[pc] \in Nat /\ (g[pc] = 0 <=> h[pc] = 1)
      /\ g[pc] # 0 => g[pc] \in FunctionsOf(prog)
  BY NextIs
<1>2. h[pc] > 1
  BY <1>1 DEF Moves, Declarators
<1>3. QED
  BY <1>1, <1>2

\* What a scope says of a name tells what its declaration is.
LEMMA SaysWhat ==
    ASSUME NEW e \in Event, NEW d, Says(d, e)
    PROVE  /\ (d.kind = "array" /\ d.mut) <=> Writable(e)
           /\ d.kind = "fun" <=> e.op = "fun"
           /\ d.kind = "fun" => d.n = e.n /\ d.n \in Nat
<1>1. e.n \in Nat
  BY NamesAssumption DEF Event, NamesAssumption
<1>2. CASE e.op \in {"assign", "for"}
  BY <1>2 DEF Says, Writable
<1>3. CASE e.op \notin {"assign", "for"}
  <2>1. d = Declares(e)
    BY <1>3 DEF Says
  <2>2. d.kind = Kind(e.op) /\ d.n = e.n /\ d.mut = e.mut
    BY <2>1 DEF Declares
  <2>3. QED
    BY <1>1, <2>2 DEF Kind, Writable
<1>4. QED
  BY <1>2, <1>3

\* An element is written.
LEMMA CheckElemJudged ==
    ASSUME NEW h, NEW g, NEW r, Inv(h, g, r), Judged(prog, h, g), CheckElem
    PROVE  Judged(prog, h, g)'
<1> DEFINE e == prog[pc + 1]
           n == e.name
           home == Home(Inner.scope, n)
           d == binds[home][n].decl
           good == home # None /\ d.kind = "array" /\ d.mut
<1>1. /\ pass = "check" /\ pc < Len(prog) /\ e.op = "elem" /\ nest' = nest /\ pc' = pc + 1
      /\ binds' = binds /\ prog' = prog /\ pass' = pass /\ scopeOf' = scopeOf
      /\ IF good THEN errors' = errors ELSE errors' = errors + 1
  BY DEF CheckElem, Here, This, Done
<1>2. g[pc] # 0 /\ FunctionsOf(prog) # {}
  BY <1>1, UsedInside
<1>3. CheckStep(h, g, r, e)
  BY <1>1, <1>2, CheckStepIs
<1>4. InCheck(h, g, r) /\ errors \in Nat /\ prog \in Seq(Event)
  BY <1>3 DEF CheckStep, Inv, ScopesOK, Text
<1>5. n \in Names /\ (DeclIn(prog, g, g[pc], n) # {} \/ DeclIn(prog, g, 0, n) # {})
  BY <1>1, <1>4, NameDeclared
<1> HIDE DEF n, home
<1>6. home # None /\ \E m \in DOMAIN prog : MeansIn(prog, h, g, pc + 1, m) /\ Says(d, prog[m])
  BY <1>2, <1>4, <1>5, CheckMeans DEF n, home
<1>7. PICK m \in DOMAIN prog : MeansIn(prog, h, g, pc + 1, m) /\ Says(d, prog[m])
  BY <1>6
<1>8. prog[m] \in Event
  BY <1>4
<1>9. (d.kind = "array" /\ d.mut) <=> Writable(prog[m])
  BY <1>7, <1>8, SaysWhat
<1>10. \/ errors' = errors /\ Fine(prog, h, g, pc + 1)
       \/ errors' # 0 /\ Wrong(prog, h, g, pc + 1)
  <2>1. CASE Writable(prog[m])
    BY <1>1, <1>6, <1>7, <1>9, <2>1 DEF Fine
  <2>2. CASE ~ Writable(prog[m])
    <3>1. errors' = errors + 1
      BY <1>1, <1>9, <2>2
    <3>2. errors' # 0
      BY <1>4, <3>1
    <3>3. QED
      BY <1>1, <1>7, <2>2, <3>2 DEF Wrong
  <2>3. QED
    BY <2>1, <2>2
<1>11. NestStep(e, None, nest')
  BY <1>1 DEF NestStep
<1> HIDE DEF e, d
<1>12. QED
  BY <1>1, <1>3, <1>10, <1>11, CheckQuiet

\* A function is called.
LEMMA CheckCallJudged ==
    ASSUME NEW h, NEW g, NEW r, Inv(h, g, r), Judged(prog, h, g), CheckCall
    PROVE  Judged(prog, h, g)'
<1> DEFINE e == prog[pc + 1]
           n == e.name
           home == Home(Inner.scope, n)
           d == binds[home][n].decl
<1>1. /\ pass = "check" /\ pc < Len(prog) /\ e.op = "call" /\ nest' = nest /\ pc' = pc + 1
      /\ binds' = binds /\ prog' = prog /\ scopeOf' = scopeOf
      /\ home # None /\ d.kind = "fun" =>
            /\ errors' = IF d.n = e.n THEN errors ELSE errors + 1
            /\ pass' \in IF e.n <= d.n THEN {pass}
                         ELSE IF d.n = 0 THEN {"crashed"} ELSE {pass, "crashed"}
      /\ pass' \in {pass, "crashed"}
  BY DEF CheckCall, Here, This, Done
<1>2. g[pc] # 0 /\ FunctionsOf(prog) # {}
  BY <1>1, UsedInside
<1>3. CheckStep(h, g, r, e)
  BY <1>1, <1>2, CheckStepIs
<1>4. InCheck(h, g, r) /\ errors \in Nat /\ prog \in Seq(Event) /\ e \in Event
  BY <1>1, <1>3, NextIs DEF CheckStep, Inv, ScopesOK, Text
<1>5. n \in Names /\ (DeclIn(prog, g, g[pc], n) # {} \/ DeclIn(prog, g, 0, n) # {})
  BY <1>1, <1>4, NameDeclared
<1> HIDE DEF n, home
<1>6. home # None /\ \E m \in DOMAIN prog : MeansIn(prog, h, g, pc + 1, m) /\ Says(d, prog[m])
  BY <1>2, <1>4, <1>5, CheckMeans DEF n, home
<1>7. PICK m \in DOMAIN prog : MeansIn(prog, h, g, pc + 1, m) /\ Says(d, prog[m])
  BY <1>6
<1>8. prog[m] \in Event /\ e.n \in Nat
  <2>1. prog[m] \in Event
    BY <1>4
  <2> HIDE DEF e
  <2>2. e.n \in Nat
    BY <1>4, NamesAssumption DEF Event, NamesAssumption
  <2>3. QED
    BY <2>1, <2>2
<1>9. /\ d.kind = "fun" <=> prog[m].op = "fun"
      /\ d.kind = "fun" => d.n = prog[m].n /\ d.n \in Nat
  BY <1>7, <1>8, SaysWhat
<1>10. NestStep(e, None, nest')
  BY <1>1 DEF NestStep
<1>11. CASE prog[m].op # "fun"
  <2>1. CallsVar(prog, h, g, pc + 1)
    BY <1>1, <1>7, <1>11 DEF CallsVar
  <2> HIDE DEF e, d
  <2>2. CASE pass' = "crashed"
    BY <1>1, <2>1, <2>2, CheckCrashes
  <2>3. CASE pass' = "check"
    BY <1>1, <1>3, <1>10, <2>1, <2>3, CheckQuiet
  <2>4. QED
    BY <1>1, <2>2, <2>3
<1>12. CASE prog[m].op = "fun"
  <2>1. /\ errors' = IF prog[m].n = e.n THEN errors ELSE errors + 1
        /\ pass' = "crashed" => prog[m].n < e.n
        /\ prog[m].n \in Nat
    BY <1>1, <1>6, <1>8, <1>9, <1>12
  <2>2. CASE pass' = "crashed"
    <3>1. TooMany(prog, h, g, pc + 1)
      BY <1>1, <1>7, <2>1, <2>2 DEF TooMany
    <3>2. QED
      BY <1>1, <2>2, <3>1, CheckCrashes
  <2>3. CASE pass' = "check"
    <3>1. \/ errors' = errors /\ Fine(prog, h, g, pc + 1)
          \/ errors' # 0 /\ Wrong(prog, h, g, pc + 1)
      <4>1. CASE prog[m].n = e.n
        BY <1>1, <1>7, <1>12, <2>1, <4>1 DEF Fine, Fitting
      <4>2. CASE prog[m].n # e.n
        <5>1. errors' # 0
          BY <1>4, <2>1, <4>2
        <5>2. Wrong(prog, h, g, pc + 1)
          BY <1>1, <1>7, <4>2 DEF Wrong, Fitting
        <5>3. QED
          BY <5>1, <5>2
      <4>3. QED
        BY <4>1, <4>2
    <3> HIDE DEF e, d
    <3>2. QED
      BY <1>1, <1>3, <1>10, <2>3, <3>1, CheckQuiet
  <2>4. QED
    BY <1>1, <2>2, <2>3
<1>13. QED
  BY <1>11, <1>12

\* An array with its initialiser: every scope around has the name already.
LEMMA CheckArrayAssignJudged ==
    ASSUME NEW h, NEW g, NEW r, Inv(h, g, r), Judged(prog, h, g), CheckArrayAssign
    PROVE  Judged(prog, h, g)'
<1> DEFINE e == prog[pc + 1]
<1>1. /\ pass = "check" /\ pc < Len(prog) /\ e.op = "arrayAssign" /\ nest' = nest /\ pc' = pc + 1
      /\ prog' = prog /\ scopeOf' = scopeOf /\ pass' \in {pass, "crashed"}
      /\ Inner.scope # None /\ Home(Inner.scope, e.name) # None =>
            errors' = errors /\ binds' = binds /\ pass' = pass
  BY DEF CheckArrayAssign, Here, This, Done, avars
<1>2. CASE FunctionsOf(prog) = {}
  BY <1>1, <1>2, CheckWithoutFunctions
<1>3. CASE FunctionsOf(prog) # {}
  <2>1. NestStep(e, None, nest')
    BY <1>1 DEF NestStep
  <2>2. CheckStep(h, g, r, e)
    BY <1>1, <1>3, CheckStepIs
  <2>3. Fine(prog, h, g, pc + 1) /\ e.op \notin {"for", "array"}
    BY <1>1 DEF Fine
  <2>4. Home(Inner.scope, e.name) # None /\ Inner.scope \in Opened
    BY <1>1, <1>3, <2>2, CheckFindsAll DEF CheckStep
  <2>5. Inner.scope # None
    BY <2>4, NamesAssumption DEF NamesAssumption, Opened
  <2>6. errors' = errors /\ binds' = binds /\ pass' = "check"
    BY <1>1, <2>4, <2>5
  <2> HIDE DEF e
  <2>7. QED
    BY <1>1, <2>1, <2>2, <2>3, <2>6, CheckQuiet
<1>4. QED
  BY <1>2, <1>3

\* A loop the checker has come to has a scope of its own.
LEMMA LoopsApart ==
    ASSUME NEW h, NEW g, NEW r, Inv(h, g, r), LoopBound(prog, h), NEW l \in ForsOf(prog), l <= pc
    PROVE  /\ scopeOf[l] \in Scopes /\ scopeOf[l] \in Opened /\ scopeOf[l] # None
           /\ \A f \in FunctionsOf(prog) \cup {0} : Where(f) # scopeOf[l]
           /\ \A k \in ForsOf(prog) : scopeOf[k] = scopeOf[l] => k = l
<1>1. /\ Text(prog, h, g) /\ OwnScopes /\ Len(prog) <= MaxLoopLen /\ MaxLoopLen \in Nat
      /\ Names # {} => scopeOf[l] # None
  BY NamesAssumption DEF Inv, Budget, NamesAssumption, LoopBound
<1>2. /\ DOMAIN prog = 1 .. Len(prog) /\ Len(prog) \in Nat /\ l \in DOMAIN prog /\ prog[l].op = "for"
  BY <1>1 DEF Text, ForsOf
<1>3. Names # {}
  <2>1. Moves(prog[l], l, h[l - 1], h[l], g[l - 1], g[l])
    BY <1>1, <1>2 DEF Text
  <2>2. prog[l].name \in Names
    BY <1>2, <2>1 DEF Moves
  <2>3. QED
    BY <2>2
<1>4. DOMAIN prog \subseteq 1 .. MaxLoopLen
  BY <1>1, <1>2
<1>5. scopeOf[l] # None /\ scopeOf[l] \in Opened \ {Package}
  BY <1>1, <1>2, <1>3, <1>4 DEF OwnScopes
<1>6. \A k \in DOMAIN prog : scopeOf[k] = scopeOf[l] => k = l
  BY <1>1, <1>2, <1>4, <1>5 DEF OwnScopes
<1>7. ASSUME NEW f \in FunctionsOf(prog) \cup {0} PROVE Where(f) # scopeOf[l]
  <2>1. CASE f = 0
    BY <1>5, <2>1 DEF Where
  <2>2. CASE f # 0
    <3>1. f \in DOMAIN prog /\ prog[f].op = "fun"
      BY <2>2 DEF FunctionsOf
    <3>2. QED
      BY <1>2, <1>6, <2>2, <3>1 DEF Where
  <2>3. QED
    BY <2>1, <2>2
<1>8. QED
  BY <1>5, <1>6, <1>7 DEF ForsOf, Opened

\* An array declared again goes well, or is reported, or is the wrong one.
ArrayGoes(h, g, e) ==
    /\ \/ errors' = errors /\ Fine(prog, h, g, pc + 1)
       \/ errors' # 0 /\ Wrong(prog, h, g, pc + 1)
    /\ \A l \in ForsOf(prog), n \in Names : l <= pc =>
          LET b == binds[scopeOf[l]][n]
              c == binds'[scopeOf[l]][n]
          IN  \/ c = b /\ (ArrayIn(prog, h, pc + 1, l, n) => b # None)
              \/ /\ ArrayIn(prog, h, pc + 1, l, n) /\ prog[l].name # n
                 /\ c # None /\ c.decl = Declares(e)
    /\ \A f \in FunctionsOf(prog) \cup {0}, n \in Names :
          LET b == binds[Where(f)][n]
              c == binds'[Where(f)][n]
          IN  \/ c = b
              \/ /\ b = None /\ n = e.name /\ f # 0 /\ \A k \in FunctionsOf(prog) : k <= f
                 /\ g[pc] = 0 /\ e.op = "array" /\ c.decl = Declares(e) /\ c # None

\* The insertion of the array of event e.
Again(h, g, r, e) ==
    /\ CheckStep(h, g, r, e) /\ e.op = "array" /\ errors \in Nat /\ FunctionsOf(prog) # {}
    /\ \/ errors' = errors /\ OneBinding(Inner.scope, e.name, Declares(e))
       \/ errors' = errors + 1 /\ binds' = binds /\ binds[Inner.scope][e.name] # None

\* What is known of it.
LEMMA AgainMeans ==
    ASSUME NEW h, NEW g, NEW r, NEW e, Again(h, g, r, e)
    PROVE  /\ Inv(h, g, r) /\ pass = "check" /\ pc < Len(prog) /\ Clean(prog, g) /\ Bound(prog, g)
           /\ LoopBound(prog, h) /\ LoopNest(prog, h) /\ e = prog[pc + 1]
           /\ e.name \in Names /\ errors + 1 # 0 /\ pc + 1 \in DeclIn(prog, g, g[pc], e.name)
           /\ Text(prog, h, g) /\ pc + 1 \in 1 .. Len(prog) + 1 /\ (pc + 1) - 1 = pc /\ pc \in Nat
           /\ pc + 1 \in DOMAIN prog /\ g[pc] \in FunctionsOf(prog) \cup {0}
           /\ DOMAIN prog = 1 .. Len(prog) /\ prog \in Seq(Event)
           /\ h[pc] \in Nat /\ (g[pc] = 0 <=> h[pc] = 1)
<1>1. InCheck(h, g, r) /\ e = prog[pc + 1] /\ e.op = "array" /\ errors \in Nat
  BY DEF Again, CheckStep
<1>2. /\ Inv(h, g, r) /\ pass = "check" /\ pc < Len(prog) /\ Clean(prog, g) /\ Bound(prog, g)
      /\ LoopBound(prog, h) /\ LoopNest(prog, h)
  BY <1>1 DEF InCheck
<1>3. e.name \in Names /\ pc + 1 \in DeclIn(prog, g, g[pc], e.name)
  BY <1>1, NameDeclared DEF DeclareOps, Declarators
<1>4. /\ Text(prog, h, g) /\ pc + 1 \in 1 .. Len(prog) + 1 /\ (pc + 1) - 1 = pc /\ pc \in Nat
      /\ pc + 1 \in DOMAIN prog /\ DOMAIN prog = 1 .. Len(prog)
      /\ h[pc] \in Nat \ {0} /\ g[pc] \in Nat /\ (g[pc] = 0 <=> h[pc] = 1)
      /\ g[pc] # 0 => g[pc] \in FunctionsOf(prog)
  BY <1>2, NextIs
<1>5. prog \in Seq(Event)
  BY <1>4 DEF Text
<1>6. g[pc] \in FunctionsOf(prog) \cup {0}
  BY <1>4
<1>7. errors + 1 # 0
  BY <1>1
<1>8. QED
  BY <1>1, <1>2, <1>3, <1>4, <1>5, <1>6, <1>7

\* At top level it goes into the scope of the last function.
LEMMA AgainOutside ==
    ASSUME NEW h, NEW g, NEW r, NEW e, Again(h, g, r, e), g[pc] = 0
    PROVE  ArrayGoes(h, g, e)
<1> DEFINE n == e.name
           s == Inner.scope
<1>1. /\ Inv(h, g, r) /\ pass = "check" /\ Clean(prog, g) /\ Bound(prog, g)
      /\ LoopBound(prog, h) /\ e = prog[pc + 1] /\ e.op = "array"
      /\ n \in Names /\ errors + 1 # 0 /\ pc + 1 \in DeclIn(prog, g, 0, n)
      /\ Text(prog, h, g) /\ pc + 1 \in 1 .. Len(prog) + 1 /\ (pc + 1) - 1 = pc /\ pc \in Nat
      /\ pc + 1 \in DOMAIN prog /\ prog \in Seq(Event) /\ DOMAIN prog = 1 .. Len(prog)
  BY AgainMeans DEF Again
<1>2. \/ errors' = errors /\ OneBinding(s, n, Declares(e))
      \/ errors' = errors + 1 /\ binds' = binds /\ binds[s][n] # None
  BY DEF Again
<1>3. LastScope(s) /\ FunctionsOf(prog) # {}
  BY <1>1, CheckInner DEF Again
<1>4. PICK f \in FunctionsOf(prog) : (\A k \in FunctionsOf(prog) : k <= f) /\ s = scopeOf[f]
  BY <1>3, FunctionsAre DEF LastScope
<1>5. /\ f \in 1 .. Len(prog) /\ f # 0 /\ s = Where(f) /\ f \in FunctionsOf(prog) \cup {0}
      /\ \A k \in FunctionsOf(prog) : k \in Nat
  <2>1. f \in 1 .. Len(prog) /\ f # 0 /\ \A k \in FunctionsOf(prog) : k \in Nat
    BY <1>1 DEF FunctionsOf
  <2>2. QED
    BY <1>4, <2>1 DEF Where
<1>6. /\ s \in Scopes /\ \A k \in FunctionsOf(prog) \cup {0} : Where(k) \in Scopes
      /\ \A k \in FunctionsOf(prog) \cup {0} : Where(k) = s => k = f
  BY <1>1, <1>5, WhereIsOwn
<1>7. \A l : ~ LoopAt(prog, h, pc + 1, l)
  BY <1>1, LoopFacts
<1>8. \A l, m : ~ ArrayIn(prog, h, pc + 1, l, m)
  BY <1>7 DEF ArrayIn, Around_
<1>9. binds[s][n] # None <=> DeclIn(prog, g, f, n) # {}
  <2>1. BoundAt(prog, g, f, n, binds[s][n])
    BY <1>1, <1>5 DEF Bound
  <2>2. \A b : ~ Stray(prog, g, n, b)
    <3>1. \A j \in DeclIn(prog, g, 0, n) : pc + 1 <= j
      BY <1>1 DEF Clean, Right, DeclareOps, Declarators
    <3>2. \A j \in DeclIn(prog, g, 0, n) : j \in Nat
      BY <1>1 DEF DeclIn
    <3>3. \A j \in DeclIn(prog, g, 0, n) : ~ (j <= pc)
      BY <1>1, <3>1, <3>2
    <3>4. QED
      BY <3>3 DEF Stray
  <2>3. DeclIn(prog, g, f, n) # {} => \E j \in DOMAIN prog : IsFirst(j, DeclIn(prog, g, f, n))
    BY <1>1, FirstExists
  <2>4. QED
    BY <2>1, <2>2, <2>3 DEF BoundAt
<1>10. StandsIn(prog, h, g, pc + 1) <=> DeclIn(prog, g, f, n) = {}
  <2>1. ASSUME NEW k \in FunctionsOf(prog), \A j \in FunctionsOf(prog) : j <= k PROVE k = f
    <3>1. k <= f /\ f <= k /\ k \in Nat /\ f \in Nat
      BY <1>4, <1>5, <2>1
    <3>2. QED
      BY <3>1
  <2>2. \A l : ~ Around_(prog, h, pc + 1, l)
    BY <1>7 DEF Around_
  <2>3. QED
    BY <1>1, <1>4, <2>1, <2>2 DEF StandsIn
<1>11. \/ errors' = errors /\ Fine(prog, h, g, pc + 1)
       \/ errors' # 0 /\ Wrong(prog, h, g, pc + 1)
  <2>1. CASE errors' = errors /\ OneBinding(s, n, Declares(e))
    <3>1. binds[s][n] = None
      BY <2>1 DEF OneBinding
    <3>2. Fine(prog, h, g, pc + 1)
      BY <1>1, <1>9, <1>10, <3>1 DEF Fine
    <3>3. QED
      BY <2>1, <3>2
  <2>2. CASE errors' = errors + 1 /\ binds[s][n] # None
    BY <1>1, <1>9, <1>10, <2>2 DEF Wrong
  <2>3. QED
    BY <1>2, <2>1, <2>2
<1> HIDE DEF s, n
<1>12. ASSUME NEW l \in ForsOf(prog), NEW m \in Names, l <= pc
       PROVE  binds'[scopeOf[l]][m] = binds[scopeOf[l]][m]
  <2>1. scopeOf[l] \in Scopes /\ scopeOf[l] # s
    BY <1>1, <1>5, <1>12, LoopsApart
  <2>2. QED
    BY <1>2, <2>1 DEF OneBinding
<1>13. ASSUME NEW k \in FunctionsOf(prog) \cup {0}, NEW m \in Names
       PROVE  LET b == binds[Where(k)][m]
                  c == binds'[Where(k)][m]
              IN  \/ c = b
                  \/ /\ b = None /\ m = n /\ k # 0 /\ \A j \in FunctionsOf(prog) : j <= k
                     /\ c.decl = Declares(e) /\ c # None
  <2>1. CASE Where(k) = s /\ m = n
    <3>1. k = f
      BY <1>6, <2>1
    <3>2. \/ binds'[s][n] = binds[s][n]
          \/ binds[s][n] = None /\ binds'[s][n].decl = Declares(e) /\ binds'[s][n] # None
      BY <1>2 DEF OneBinding
    <3>3. QED
      BY <1>4, <1>5, <2>1, <3>1, <3>2
  <2>2. CASE Where(k) # s \/ m # n
    <3>1. Where(k) \in Scopes
      BY <1>6
    <3>2. QED
      BY <1>2, <2>2, <3>1 DEF OneBinding
  <2>3. QED
    BY <2>1, <2>2
<1>14. QED
  BY <1>1, <1>8, <1>11, <1>12, <1>13 DEF ArrayGoes, n

\* In a function and no loop it is there already.
LEMMA AgainInFunction ==
    ASSUME NEW h, NEW g, NEW r, NEW e, Again(h, g, r, e), g[pc] # 0, Len(nest) = 2
    PROVE  ArrayGoes(h, g, e)
<1> DEFINE n == e.name
           s == Inner.scope
           f == g[pc]
<1>1. /\ Inv(h, g, r) /\ pass = "check" /\ Bound(prog, g) /\ e = prog[pc + 1] /\ e.op = "array"
      /\ n \in Names /\ errors + 1 # 0 /\ pc + 1 \in DeclIn(prog, g, f, n)
      /\ Text(prog, h, g) /\ pc + 1 \in 1 .. Len(prog) + 1 /\ (pc + 1) - 1 = pc
      /\ f \in FunctionsOf(prog) \cup {0} /\ prog \in Seq(Event) /\ h[pc] \in Nat
  BY AgainMeans DEF Again
<1>2. \/ errors' = errors /\ OneBinding(s, n, Declares(e))
      \/ errors' = errors + 1 /\ binds' = binds /\ binds[s][n] # None
  BY DEF Again
<1>3. s = Where(f) /\ h[pc] = 2
  BY <1>1, CheckInner DEF Where
<1>4. binds[s][n] # None
  <2>1. BoundAt(prog, g, f, n, binds[s][n])
    BY <1>1, <1>3 DEF Bound
  <2>2. \E j \in DOMAIN prog : IsFirst(j, DeclIn(prog, g, f, n))
    BY <1>1, FirstExists
  <2>3. QED
    BY <2>1, <2>2 DEF BoundAt
<1>5. errors' = errors + 1 /\ binds' = binds
  BY <1>2, <1>4 DEF OneBinding
<1>6. \A l : ~ Around_(prog, h, pc + 1, l)
  <2>1. SUFFICES ASSUME NEW l, LoopAt(prog, h, pc + 1, l), h[l] = h[pc] PROVE FALSE
    BY <1>1 DEF Around_
  <2>2. 3 <= h[l]
    BY <1>1, <2>1, LoopFacts
  <2>3. QED
    BY <1>3, <2>1, <2>2
<1>7. ~ StandsIn(prog, h, g, pc + 1)
  BY <1>1, <1>6 DEF StandsIn
<1>8. errors' # 0 /\ Wrong(prog, h, g, pc + 1)
  BY <1>1, <1>5, <1>7 DEF Wrong
<1>9. \A l, m : ~ ArrayIn(prog, h, pc + 1, l, m)
  BY <1>6 DEF ArrayIn
<1>10. QED
  BY <1>5, <1>8, <1>9 DEF ArrayGoes

\* In a loop it stands against the loop's variable alone.
LEMMA AgainInLoop ==
    ASSUME NEW h, NEW g, NEW r, NEW e, Again(h, g, r, e), g[pc] # 0, Len(nest) > 2
    PROVE  ArrayGoes(h, g, e)
<1> DEFINE n == e.name
           s == Inner.scope
           t == Len(nest)
<1>1. /\ Inv(h, g, r) /\ pass = "check" /\ pc < Len(prog) /\ Clean(prog, g) /\ LoopNest(prog, h)
      /\ LoopBound(prog, h) /\ e = prog[pc + 1] /\ e.op = "array"
      /\ n \in Names /\ errors + 1 # 0
      /\ Text(prog, h, g) /\ pc + 1 \in 1 .. Len(prog) + 1 /\ (pc + 1) - 1 = pc /\ pc \in Nat
      /\ pc + 1 \in DOMAIN prog /\ DOMAIN prog = 1 .. Len(prog)
  BY AgainMeans DEF Again
<1>2. \/ errors' = errors /\ OneBinding(s, n, Declares(e))
      \/ errors' = errors + 1 /\ binds' = binds /\ binds[s][n] # None
  BY DEF Again
<1>3. t = h[pc] /\ t \in Nat \ {0} /\ s = nest[t].scope
  BY <1>1, CheckInner DEF Inner
<1>4. t \in 3 .. t
  <2> HIDE DEF t
  <2>1. t > 2
    BY DEF t
  <2>2. QED
    BY <1>3, <2>1
<1>5. PICK l \in ForsOf(prog) : LoopAt(prog, h, pc + 1, l) /\ h[l] = t /\ s = scopeOf[l] /\ l <= pc
  <2>1. \A k \in 3 .. Len(nest) : \E l \in ForsOf(prog) :
           LoopAt(prog, h, pc + 1, l) /\ h[l] = k /\ nest[k].scope = scopeOf[l] /\ l <= pc
    BY <1>1, OpenLoops
  <2>2. QED
    BY <1>3, <1>4, <2>1
<1> HIDE DEF s, t
<1>6. Around_(prog, h, pc + 1, l)
  BY <1>1, <1>3, <1>5 DEF Around_
<1>7. \A k : Around_(prog, h, pc + 1, k) => k = l
  BY <1>1, <1>6, InnermostLast DEF Around_
<1>8. /\ s \in Scopes /\ \A f \in FunctionsOf(prog) \cup {0} : Where(f) # s
      /\ \A k \in ForsOf(prog) : scopeOf[k] = s => k = l
  BY <1>1, <1>5, LoopsApart
<1>9. binds[s][n] # None <=> prog[l].name = n
  <2>1. binds[s][n] # None <=> Has(prog, h, pc + 1, l, n)
    BY <1>1, <1>5 DEF LoopBound
  <2>2. ArrayIn(prog, h, pc + 1, l, n)
    BY <1>1, <1>6 DEF ArrayIn
  <2>3. \A j : ArrayIn(prog, h, j, l, n) => j = pc + 1
    BY <1>1, <2>2, ArraysOnce
  <2>4. \A j \in DOMAIN prog : ~ (j < pc + 1 /\ ArrayIn(prog, h, j, l, n))
    BY <1>1, <2>3
  <2>5. QED
    BY <2>1, <2>4 DEF Has
<1>10. \/ errors' = errors /\ Fine(prog, h, g, pc + 1)
       \/ errors' # 0 /\ Wrong(prog, h, g, pc + 1)
  <2>1. CASE errors' = errors /\ OneBinding(s, n, Declares(e))
    <3>1. prog[l].name # n
      BY <1>9, <2>1 DEF OneBinding
    <3>2. StandsIn(prog, h, g, pc + 1)
      BY <1>1, <1>6, <3>1 DEF StandsIn
    <3>3. QED
      BY <1>1, <2>1, <3>2 DEF Fine
  <2>2. CASE errors' = errors + 1 /\ binds[s][n] # None
    <3>1. ~ StandsIn(prog, h, g, pc + 1)
      BY <1>1, <1>7, <1>9, <2>2 DEF StandsIn
    <3>2. QED
      BY <1>1, <2>2, <3>1 DEF Wrong
  <2>3. QED
    BY <1>2, <2>1, <2>2
<1>11. ASSUME NEW k \in ForsOf(prog), NEW m \in Names, k <= pc
       PROVE  LET b == binds[scopeOf[k]][m]
                  c == binds'[scopeOf[k]][m]
              IN  \/ c = b /\ (ArrayIn(prog, h, pc + 1, k, m) => b # None)
                  \/ /\ ArrayIn(prog, h, pc + 1, k, m) /\ prog[k].name # m
                     /\ c # None /\ c.decl = Declares(e)
  <2>1. ArrayIn(prog, h, pc + 1, k, m) <=> k = l /\ m = n
    BY <1>1, <1>6, <1>7 DEF ArrayIn, n
  <2>2. CASE k = l /\ m = n
    <3>1. ArrayIn(prog, h, pc + 1, k, m) /\ scopeOf[k] = s
      BY <1>5, <2>1, <2>2
    <3>2. \/ binds'[s][n] = binds[s][n] /\ binds[s][n] # None
          \/ prog[l].name # n /\ binds'[s][n] # None /\ binds'[s][n].decl = Declares(e)
      BY <1>2, <1>9 DEF OneBinding
    <3>3. QED
      BY <2>2, <3>1, <3>2
  <2>3. CASE ~ (k = l /\ m = n)
    <3>1. scopeOf[k] \in Scopes
      BY <1>1, <1>11, LoopsApart
    <3>2. scopeOf[k] # s \/ m # n
      BY <1>8, <2>3
    <3>3. binds'[scopeOf[k]][m] = binds[scopeOf[k]][m]
      BY <1>2, <3>1, <3>2 DEF OneBinding
    <3>4. QED
      BY <2>1, <2>3, <3>3
  <2>4. QED
    BY <2>2, <2>3
<1>12. ASSUME NEW f \in FunctionsOf(prog) \cup {0}, NEW m \in Names
       PROVE  binds'[Where(f)][m] = binds[Where(f)][m]
  <2>1. Where(f) \in Scopes /\ Where(f) # s
    BY <1>1, <1>8, WhereIsOwn
  <2>2. QED
    BY <1>2, <2>1 DEF OneBinding
<1>13. QED
  BY <1>10, <1>11, <1>12 DEF ArrayGoes

\* An array is declared a second time.
LEMMA CheckArrayJudged ==
    ASSUME NEW h, NEW g, NEW r, Inv(h, g, r), Judged(prog, h, g), CheckArray
    PROVE  Judged(prog, h, g)'
<1> DEFINE e == prog[pc + 1]
<1>1. /\ pass = "check" /\ pc < Len(prog) /\ e.op = "array" /\ nest' = nest /\ pc' = pc + 1
      /\ prog' = prog /\ scopeOf' = scopeOf /\ pass' \in {pass, "crashed"}
      /\ Inner.scope # None => insert_symbol(Inner.scope, e.name, Declares(e)) /\ pass' = pass
  BY DEF CheckArray, Here, This, Done, avars
<1>2. CASE FunctionsOf(prog) = {}
  BY <1>1, <1>2, CheckWithoutFunctions
<1>3. CASE FunctionsOf(prog) # {}
  <2>1. CheckStep(h, g, r, e)
    BY <1>1, <1>3, CheckStepIs
  <2>2. InCheck(h, g, r)
    BY <2>1 DEF CheckStep
  <2>3. Inner.scope \in Opened
    BY <1>1, <1>3, <2>2, CheckFindsAll
  <2>4. Inner.scope # None /\ Inner.scope \in Scopes
    BY <2>3, NamesAssumption DEF NamesAssumption, Opened
  <2>5. pass' = "check" /\ insert_symbol(Inner.scope, e.name, Declares(e))
    BY <1>1, <2>4
  <2>6. ScopesOK /\ Ranked(r) /\ e.name \in Names /\ Declares(e) \in Declaration /\ errors \in Nat
    BY <1>1, NextEvent DEF Inv, ScopesOK
  <2> HIDE DEF e
  <2>7. \/ errors' = errors /\ OneBinding(Inner.scope, e.name, Declares(e))
        \/ errors' = errors + 1 /\ binds' = binds /\ binds[Inner.scope][e.name] # None
    BY <2>4, <2>5, <2>6, InsertsOnce
  <2>8. Again(h, g, r, e)
    BY <1>1, <1>3, <2>1, <2>6, <2>7 DEF Again
  <2>9. ArrayGoes(h, g, e)
    <3>1. Len(nest) \in Nat \ {0} /\ (g[pc] = 0 <=> Len(nest) = 1)
      BY <1>1, CheckInner
    <3> DEFINE m == Len(nest)
    <3>2. CASE g[pc] = 0
      BY <2>8, <3>2, AgainOutside
    <3>3. CASE g[pc] # 0 /\ m = 2
      BY <2>8, <3>3, AgainInFunction
    <3>4. CASE g[pc] # 0 /\ m > 2
      BY <2>8, <3>4, AgainInLoop
    <3>5. m \in Nat \ {0} /\ (g[pc] = 0 <=> m = 1)
      BY <3>1
    <3> HIDE DEF m
    <3>6. g[pc] = 0 \/ m = 2 \/ m > 2
      BY <3>5
    <3>7. QED
      BY <3>2, <3>3, <3>4, <3>6
  <2>10. NestStep(e, None, nest')
    BY <1>1 DEF NestStep
  <2>11. Verdict(prog, h, g)'
    BY <2>1, <2>9, VerdictStep DEF ArrayGoes
  <2>12. LoopNest(prog, h)'
    BY <1>1, <2>1, <2>10, LoopNestStep
  <2>13. Bound(prog, g)'
    BY <1>1, <2>1, <2>5, <2>9, BoundStep DEF ArrayGoes
  <2>14. LoopBound(prog, h)'
    BY <1>1, <2>1, <2>9, LoopBoundStep DEF ArrayGoes
  <2>15. prog' = prog /\ Clean(prog, g)
    BY <2>1 DEF CheckStep, InCheck
  <2>16. QED
    BY <2>5, <2>11, <2>12, <2>13, <2>14, <2>15 DEF Judged, Checks
<1>4. QED
  BY <1>2, <1>3

\* The checker enters a loop, and gives it a scope with its variable.
LEMMA CheckForJudged ==
    ASSUME NEW h, NEW g, NEW r, Inv(h, g, r), Judged(prog, h, g), CheckFor
    PROVE  Judged(prog, h, g)'
<1> DEFINE e == prog[pc + 1]
           n == e.name
           d == Declares(Ev("var", n, 0, FALSE))
<1>1. /\ pass = "check" /\ pc < Len(prog) /\ e.op = "for" /\ pc' = pc + 1
      /\ prog' = prog /\ pass' = pass /\ errors' = errors
  BY DEF CheckFor, Here, This, Done
<1>2. PICK s \in NewScope :
         /\ up' = [up EXCEPT ![s] = Inner.scope]
         /\ state' = [state EXCEPT ![s] = "open"]
         /\ binds' = [binds EXCEPT ![s][n] = [decl |-> d, slot |-> 0]]
         /\ used' = [used EXCEPT ![s] = {0}]
         /\ nest' = Push("for", s)
         /\ scopeOf' = [scopeOf EXCEPT ![pc + 1] = s]
  BY DEF CheckFor, This
<1>3. s \in Scopes /\ state[s] = "new" /\ s \notin Opened /\ s # None
  BY NewScopeIs, NamesAssumption DEF Opened, NamesAssumption
<1>4. g[pc] # 0 /\ FunctionsOf(prog) # {}
  BY <1>1, UsedInside
<1>5. CheckStep(h, g, r, e)
  BY <1>1, <1>4, CheckStepIs
<1>6. InCheck(h, g, r) /\ Clean(prog, g) /\ LoopBound(prog, h)
  BY <1>5 DEF CheckStep, InCheck
<1>7. Inner.scope \in Opened
  BY <1>1, <1>4, CheckInner
<1>8. /\ n \in Names /\ pc \in Nat /\ pc + 1 \in DOMAIN prog /\ DOMAIN prog = 1 .. Len(prog)
      /\ pc + 1 \in 1 .. MaxLoopLen /\ Len(prog) \in Nat
  <2>1. /\ pc \in Nat /\ Len(prog) \in Nat /\ pc + 1 \in 1 .. Len(prog)
        /\ Len(prog) <= MaxLoopLen /\ MaxLoopLen \in Nat /\ n \in Names
    BY <1>1, NextEvent
  <2>2. DOMAIN prog = 1 .. Len(prog)
    BY <1>1, NextIs
  <2> HIDE DEF n
  <2>3. QED
    BY <2>1, <2>2
<1>9. d \in Declaration /\ d.kind = "other"
  <2>1. d \in Declaration
    BY <1>8, EvMade, NamesAssumption DEF NamesAssumption
  <2>2. d.kind = "other"
    BY DEF Declares, Ev, Kind
  <2>3. QED
    BY <2>1, <2>2
<1>10. ScopesOK /\ Ranked(r) /\ OwnScopes
  BY DEF Inv
<1> HIDE DEF d, n
<1>11. OneBinding(s, n, d)
  BY <1>1, <1>2, <1>3, <1>7, <1>8, <1>9, <1>10, LoopKeeps
<1>12. \A m \in Names : binds[s][m] = None
  BY <1>3, <1>10 DEF ScopesOK, Store, Unbound
<1>13. /\ scopeOf'[pc + 1] = s /\ \A i \in 1 .. MaxLoopLen : i # pc + 1 => scopeOf'[i] = scopeOf[i]
  BY <1>2, <1>8, <1>10 DEF OwnScopes
<1>14. DOMAIN prog \subseteq 1 .. MaxLoopLen
  BY <1>1, <1>8, TextStays
<1>15. \A l \in ForsOf(prog) : l <= pc => scopeOf'[l] = scopeOf[l]
  BY <1>8, <1>13, <1>14 DEF ForsOf
<1>16. \A f \in FunctionsOf(prog) : scopeOf'[f] = scopeOf[f]
  BY <1>1, <1>13, <1>14 DEF FunctionsOf
<1>17. LoopNest(prog, h)'
  <2>1. NestStep(e, s, nest')
    BY <1>1, <1>2 DEF NestStep, Push
  <2> HIDE DEF e
  <2>2. QED
    BY <1>3, <1>5, <1>13, <1>15, <2>1, LoopNestStep
<1>18. Bound(prog, g)'
  <2>1. ASSUME NEW f \in FunctionsOf(prog) \cup {0}, NEW m \in Names
        PROVE  binds'[Where(f)][m] = binds[Where(f)][m]
    <3>1. Where(f) \in Scopes /\ Where(f) \in Opened
      BY WhereIsOwn
    <3>2. QED
      BY <1>3, <1>11, <3>1 DEF OneBinding
  <2> HIDE DEF e
  <2>2. QED
    BY <1>1, <1>5, <1>16, <2>1, BoundStep
<1>19. Verdict(prog, h, g)'
  <2>1. Fine(prog, h, g, pc + 1)
    BY <1>1 DEF Fine
  <2> HIDE DEF e
  <2>2. QED
    BY <1>1, <1>5, <2>1, VerdictStep
<1>20. LoopBound(prog, h)'
  <2>1. SUFFICES ASSUME NEW l \in ForsOf(prog), NEW m \in Names, l <= pc + 1
                 PROVE  LET c == binds'[scopeOf'[l]][m] IN
                        /\ scopeOf'[l] # None
                        /\ c # None <=> Has(prog, h, (pc + 1) + 1, l, m)
                        /\ prog[l].name = m => c.decl.kind = "other"
                        /\ prog[l].name # m /\ c # None =>
                              \E j \in DOMAIN prog :
                                 j <= pc + 1 /\ ArrayIn(prog, h, j, l, m) /\ c.decl = Declares(prog[j])
    BY <1>1 DEF LoopBound
  <2>2. l \in Nat /\ l \in DOMAIN prog
    BY <1>8 DEF ForsOf
  <2>3. CASE l <= pc
    <3> DEFINE b == binds[scopeOf[l]][m]
    <3>1. /\ scopeOf[l] # None
          /\ b # None <=> Has(prog, h, pc + 1, l, m)
          /\ prog[l].name = m => b.decl.kind = "other"
          /\ prog[l].name # m /\ b # None =>
                \E j \in DOMAIN prog : j <= pc /\ ArrayIn(prog, h, j, l, m) /\ b.decl = Declares(prog[j])
      BY <1>6, <2>3 DEF LoopBound
    <3>2. scopeOf'[l] = scopeOf[l] /\ scopeOf[l] \in Scopes /\ scopeOf[l] # s
      BY <1>3, <1>6, <1>15, <2>3, LoopsApart
    <3>3. binds'[scopeOf[l]][m] = b
      BY <1>11, <3>2 DEF OneBinding
    <3>4. Has(prog, h, (pc + 1) + 1, l, m) <=> Has(prog, h, pc + 1, l, m)
      <4>1. \A j \in DOMAIN prog : j < (pc + 1) + 1 <=> j < pc + 1 \/ j = pc + 1
        BY <1>8
      <4>2. ~ ArrayIn(prog, h, pc + 1, l, m)
        BY <1>1 DEF ArrayIn
      <4>3. QED
        BY <4>1, <4>2 DEF Has
    <3>5. \A j \in DOMAIN prog : j <= pc => j <= pc + 1
      BY <1>8
    <3> HIDE DEF b
    <3>6. QED
      BY <3>1, <3>2, <3>3, <3>4, <3>5
  <2>4. CASE l = pc + 1
    <3>1. scopeOf'[l] = s /\ prog[l].name = n
      BY <1>13, <2>4 DEF n
    <3>2. \A j \in DOMAIN prog : ~ (j < (pc + 1) + 1 /\ ArrayIn(prog, h, j, l, m))
      <4>1. \A j \in DOMAIN prog : j < (pc + 1) + 1 => ~ (l < j)
        BY <1>8, <2>4
      <4>2. QED
        BY <4>1 DEF ArrayIn, Around_, LoopAt
    <3>3. Has(prog, h, (pc + 1) + 1, l, m) <=> m = n
      BY <3>1, <3>2 DEF Has
    <3>4. /\ m = n => binds'[s][m] # None /\ binds'[s][m].decl = d
          /\ m # n => binds'[s][m] = None
      BY <1>3, <1>11, <1>12 DEF OneBinding
    <3>5. QED
      BY <1>3, <1>9, <3>1, <3>3, <3>4
  <2>5. QED
    BY <1>8, <2>1, <2>2, <2>3, <2>4
<1>21. QED
  BY <1>1, <1>6, <1>17, <1>18, <1>19, <1>20 DEF Judged, Checks

-----------------------------------------------------------------------------
\* The third pass, and every step

\* The third pass asks nothing of the names the second one has found fine.
LEMMA GenerateQuiet ==
    ASSUME NEW h, NEW g, Judged(prog, h, g), pass = "generate", prog' = prog,
           pass' = "generate", FunctionsOf(prog) # {}
    PROVE  Judged(prog, h, g)'
<1>1. Clean(prog', g) /\ AllFine(prog, h, g)
  BY DEF Judged
<1>2. AllFine(prog, h, g)'
  BY <1>1 DEF AllFine
<1>3. QED
  BY <1>1, <1>2 DEF Judged

\* Functions, loops and their ends find the third pass in a file with functions.
LEMMA GeneratePlainJudged ==
    ASSUME NEW h, NEW g, NEW r, Inv(h, g, r), Judged(prog, h, g),
           GenerateFun \/ GenerateEnd \/ GenerateFor
    PROVE  Judged(prog, h, g)'
<1>1. /\ pass = "generate" /\ pc < Len(prog) /\ prog[pc + 1].op \in {"fun", "end", "for"}
      /\ prog' = prog /\ pass' = "generate"
  BY DEF GenerateFun, GenerateEnd, GenerateFor, Here
<1>2. pc + 1 \in DOMAIN prog
  BY <1>1, NextIs
<1>3. FunctionsOf(prog) # {}
  <2>1. CASE prog[pc + 1].op = "fun"
    BY <1>2, <2>1 DEF FunctionsOf
  <2>2. CASE prog[pc + 1].op # "fun"
    BY <1>1, <2>2, UsedInside
  <2>3. QED
    BY <2>1, <2>2
<1>4. QED
  BY <1>1, <1>3, GenerateQuiet

\* A name is found, unless the file has no functions: then there is no table to
\* look in, and the compiler gives up.
LEMMA GenerateNameJudged ==
    ASSUME NEW h, NEW g, NEW r, Inv(h, g, r), Judged(prog, h, g), GenerateName
    PROVE  Judged(prog, h, g)'
<1> DEFINE e == prog[pc + 1]
<1>1. /\ pass = "generate" /\ pc < Len(prog) /\ prog' = prog
      /\ e.op \in {"param", "var", "array", "arrayAssign", "assign", "use", "call", "elem"}
      /\ pass' \in IF Home(current, e.name) = None THEN Missed(e.op) ELSE {pass}
  BY DEF GenerateName, Here, This
<1>2. /\ Moves(e, pc + 1, h[pc], h[pc + 1], g[pc], g[pc + 1])
      /\ h[pc] \in Nat \ {0} /\ (g[pc] = 0 <=> h[pc] = 1)
      /\ g[pc] # 0 => g[pc] \in FunctionsOf(prog)
  BY <1>1, NextIs
<1>3. g[pc + 1] = g[pc]
  BY <1>1, <1>2 DEF Moves, Declarators
<1>4. ScopesOK /\ GenerateNest(g)
  BY <1>1 DEF Inv, Nesting
<1>5. CASE FunctionsOf(prog) # {}
  <2>1. current = IF g[pc + 1] = 0 THEN nest[1].scope ELSE scopeOf[g[pc + 1]]
    BY <1>3, <1>4 DEF GenerateNest
  <2>2. Home(current, e.name) # None
    BY <1>1, <1>5, <2>1, GenerateHome, FunctionsAre
  <2>3. pass' = "generate"
    BY <1>1, <2>2
  <2>4. QED
    BY <1>1, <1>5, <2>3, GenerateQuiet
<1>6. CASE FunctionsOf(prog) = {}
  <2>1. g[pc] = 0 /\ h[pc] = 1
    BY <1>2, <1>6
  <2>2. e.op \in {"var", "array", "arrayAssign"}
    BY <1>1, <1>2, <2>1 DEF Moves, Declarators
  <2>3. current = None
    BY <1>4, <1>6, <2>1, FunctionsAre DEF GenerateNest, SomeScope
  <2>4. Home(current, e.name) = None
    BY <1>4, <2>3, HomeOfNone
  <2>5. pass' \in {"exited", "crashed"}
    BY <1>1, <2>2, <2>4 DEF Missed
  <2>6. Clean(prog', g) /\ FunctionsOf(prog') = {}
    BY <1>1, <1>6 DEF Judged
  <2>7. QED
    BY <2>5, <2>6 DEF Judged
<1>7. QED
  BY <1>5, <1>6

\* Nothing happens.
LEMMA StutterJudged ==
    ASSUME NEW h, NEW g, Judged(prog, h, g), UNCHANGED vars
    PROVE  Judged(prog, h, g)'
<1>1. /\ prog' = prog /\ pass' = pass /\ pc' = pc /\ nest' = nest /\ scopeOf' = scopeOf
      /\ binds' = binds /\ errors' = errors
  BY DEF vars, avars
<1>2. Bound(prog, g)' <=> Bound(prog, g)
  BY <1>1 DEF Bound, BoundAt, Stray, Where
<1>3. LoopBound(prog, h)' <=> LoopBound(prog, h)
  BY <1>1 DEF LoopBound
<1>4. LoopNest(prog, h)' <=> LoopNest(prog, h)
  BY <1>1 DEF LoopNest
<1>5. Verdict(prog, h, g)' <=> Verdict(prog, h, g)
  BY <1>1 DEF Verdict
<1>6. AllFine(prog, h, g)' <=> AllFine(prog, h, g)
  BY <1>1 DEF AllFine
<1>7. Checks(prog, h, g)' <=> Checks(prog, h, g)
  BY <1>2, <1>3, <1>4, <1>5 DEF Checks
<1>8. QED
  BY <1>1, <1>2, <1>6, <1>7 DEF Judged

\* The empty file.
LEMMA InitJudged ==
    ASSUME Init, NEW h, NEW g, NEW r, Inv(h, g, r)
    PROVE  Judged(prog, h, g)
<1>1. /\ pass = "collect" /\ errors = 0 /\ prog = <<>> /\ binds = [s \in Scopes |-> Unbound]
      /\ DOMAIN prog = {}
  BY DEF Init
<1>2. Clean(prog, g)
  BY <1>1 DEF Clean
<1>3. Bound(prog, g)
  <2>1. SUFFICES ASSUME NEW f \in FunctionsOf(prog) \cup {0}, NEW n \in Names
                 PROVE  BoundAt(prog, g, f, n, binds[Where(f)][n])
    BY DEF Bound
  <2>2. f = 0
    BY <1>1 DEF FunctionsOf
  <2>3. binds[Where(f)][n] = None
    BY <1>1, <2>2, NamesAssumption DEF Where, Unbound, NamesAssumption
  <2>4. QED
    BY <1>1, <2>3 DEF BoundAt
<1>4. QED
  BY <1>1, <1>2, <1>3 DEF Judged

\* What every step keeps: the text, and what the passes have found of it.
JInv == \E h, g, r : Inv(h, g, r) /\ Judged(prog, h, g)

\* A step of the first pass.
LEMMA CollectsJudge ==
    ASSUME NEW h, NEW g, NEW r, Inv(h, g, r), Judged(prog, h, g),
           NEW h2, NEW g2, NEW r2, Inv(h2, g2, r2)',
           \/ \E n \in Names, k \in Arities : CollectFun(n, k) \/ CollectName("call", n, k)
           \/ \E n \in Names, op \in Declarators, m \in BOOLEAN : CollectDeclaration(op, n, m)
           \/ \E n \in Names, op \in {"use", "elem"} : CollectName(op, n, 0)
           \/ \E n \in Names : CollectParam(n) \/ CollectAssign(n) \/ CollectFor(n)
           \/ CollectEnd
    PROVE  Judged(prog, h2, g2)'
<1>1. ASSUME NEW n \in Names, NEW k \in Arities, CollectFun(n, k) PROVE Judged(prog, h2, g2)'
  BY <1>1, CollectFunJudged
<1>2. ASSUME NEW n \in Names, NEW k \in Arities, CollectName("call", n, k) PROVE Judged(prog, h2, g2)'
  <2>1. "call" \in {"use", "call", "elem"}
    OBVIOUS
  <2>2. QED
    BY <1>2, <2>1, CollectNameJudged
<1>3. ASSUME NEW n \in Names, NEW op \in Declarators, NEW m \in BOOLEAN, CollectDeclaration(op, n, m)
      PROVE  Judged(prog, h2, g2)'
  BY <1>3, CollectDeclarationJudged
<1>4. ASSUME NEW n \in Names, NEW op \in {"use", "elem"}, CollectName(op, n, 0) PROVE Judged(prog, h2, g2)'
  <2>1. 0 \in Arities /\ op \in {"use", "call", "elem"}
    BY NamesAssumption DEF NamesAssumption
  <2>2. QED
    BY <1>4, <2>1, CollectNameJudged
<1>5. ASSUME NEW n \in Names, CollectParam(n) PROVE Judged(prog, h2, g2)'
  BY <1>5, CollectParamJudged
<1>6. ASSUME NEW n \in Names, CollectAssign(n) PROVE Judged(prog, h2, g2)'
  BY <1>6, CollectAssignJudged
<1>7. ASSUME NEW n \in Names, CollectFor(n) PROVE Judged(prog, h2, g2)'
  BY <1>7, CollectForJudged
<1>8. CASE CollectEnd
  BY <1>8, CollectEndJudged
<1>9. CASE \E n \in Names, k \in Arities : CollectFun(n, k) \/ CollectName("call", n, k)
  BY <1>1, <1>2, <1>9
<1>10. CASE \E n \in Names, op \in Declarators, m \in BOOLEAN : CollectDeclaration(op, n, m)
  BY <1>3, <1>10
<1>11. CASE \E n \in Names, op \in {"use", "elem"} : CollectName(op, n, 0)
  BY <1>4, <1>11
<1>12. CASE \E n \in Names : CollectParam(n) \/ CollectAssign(n) \/ CollectFor(n)
  BY <1>5, <1>6, <1>7, <1>12
<1>13. QED
  BY <1>8, <1>9, <1>10, <1>11, <1>12

\* A step that adds nothing to the text keeps h and g.
LEMMA SameText ==
    ASSUME NEW h, NEW g, NEW r, Inv(h, g, r), IInv', prog' = prog, Judged(prog, h, g)'
    PROVE  JInv'
<1>1. PICK h2, g2, r2 : Inv(h2, g2, r2)'
  BY DEF IInv
<1>2. Text(prog', h2, g2)
  BY <1>1 DEF Inv
<1>3. Text(prog', h, g)
  BY DEF Inv
<1>4. h2 = h /\ g2 = g
  BY <1>2, <1>3, TextOnce
<1>5. Inv(h, g, r2)'
  BY <1>1, <1>4
<1>6. QED
  BY <1>5 DEF JInv

\* Every step.
LEMMA StepJudges ==
    ASSUME JInv, [Next]_vars
    PROVE  JInv'
<1>1. PICK h, g, r : Inv(h, g, r) /\ Judged(prog, h, g)
  BY DEF JInv
<1>2. IInv
  BY <1>1 DEF IInv
<1>3. IInv'
  BY <1>2, StepKeeps
<1>4. CASE \/ \E n \in Names, k \in Arities : CollectFun(n, k) \/ CollectName("call", n, k)
           \/ \E n \in Names, op \in Declarators, m \in BOOLEAN : CollectDeclaration(op, n, m)
           \/ \E n \in Names, op \in {"use", "elem"} : CollectName(op, n, 0)
           \/ \E n \in Names : CollectParam(n) \/ CollectAssign(n) \/ CollectFor(n)
           \/ CollectEnd
  <2>1. PICK h2, g2, r2 : Inv(h2, g2, r2)'
    BY <1>3 DEF IInv
  <2>2. Judged(prog, h2, g2)'
    BY <1>1, <1>4, <2>1, CollectsJudge
  <2>3. QED
    BY <2>1, <2>2 DEF JInv
<1>5. CASE NextPass
  <2>1. prog' = prog
    BY <1>5 DEF NextPass
  <2>2. Judged(prog, h, g)'
    BY <1>1, <1>5, NextPassJudged
  <2>3. QED
    BY <1>1, <1>3, <2>1, <2>2, SameText
<1>6. CASE CheckFun \/ CheckEnd \/ CheckName \/ CheckArray
  <2>1. prog' = prog
    BY <1>6 DEF CheckFun, CheckEnd, CheckName, CheckArray
  <2>2. Judged(prog, h, g)'
    BY <1>1, <1>6, CheckFunJudged, CheckEndJudged, CheckNameJudged, CheckArrayJudged
  <2>3. QED
    BY <1>1, <1>3, <2>1, <2>2, SameText
<1>7. CASE CheckArrayAssign \/ CheckFor \/ CheckElem \/ CheckCall
  <2>1. prog' = prog
    BY <1>7 DEF CheckArrayAssign, CheckFor, CheckElem, CheckCall
  <2>2. Judged(prog, h, g)'
    BY <1>1, <1>7, CheckArrayAssignJudged, CheckForJudged, CheckElemJudged, CheckCallJudged
  <2>3. QED
    BY <1>1, <1>3, <2>1, <2>2, SameText
<1>8. CASE GenerateFun \/ GenerateEnd \/ GenerateName \/ GenerateFor
  <2>1. prog' = prog
    BY <1>8 DEF GenerateFun, GenerateEnd, GenerateName, GenerateFor
  <2>2. Judged(prog, h, g)'
    BY <1>1, <1>8, GeneratePlainJudged, GenerateNameJudged
  <2>3. QED
    BY <1>1, <1>3, <2>1, <2>2, SameText
<1>9. CASE UNCHANGED vars
  <2>1. prog' = prog
    BY <1>9 DEF vars
  <2>2. Judged(prog, h, g)'
    BY <1>1, <1>9, StutterJudged
  <2>3. QED
    BY <1>1, <1>3, <2>1, <2>2, SameText
<1>10. Finished => UNCHANGED vars
  BY DEF Finished
<1>11. QED
  BY <1>4, <1>5, <1>6, <1>7, <1>8, <1>9, <1>10 DEF Next

\* The passes have found of the text, throughout, what its names make of it.
THEOREM AlwaysJudged == Spec => []JInv
<1>1. Init => JInv
  <2>1. SUFFICES ASSUME Init PROVE JInv
    OBVIOUS
  <2>2. PICK h, g, r : Inv(h, g, r)
    BY <2>1, InitHolds DEF IInv
  <2>3. Judged(prog, h, g)
    BY <2>1, <2>2, InitJudged
  <2>4. QED
    BY <2>2, <2>3 DEF JInv
<1>2. JInv /\ [Next]_vars => JInv'
  BY StepJudges
<1>3. QED
  BY <1>1, <1>2, PTL DEF Spec

-----------------------------------------------------------------------------
\* What h and g say of the text is what the rules say

\* Every depth beyond a function's body is a loop's.
LEMMA LoopOfDepth ==
    ASSUME NEW p, NEW h, NEW g, Text(p, h, g), NEW i \in 0 .. Len(p), NEW d \in 3 .. h[i]
    PROVE  \E l \in ForsOf(p) : l <= i /\ h[l] = d /\ \A k \in l .. i : h[l] <= h[k]
<1> DEFINE Standing(j, c) ==
             \E l \in ForsOf(p) : l <= j /\ h[l] = c /\ \A k \in l .. j : h[l] <= h[k]
           Good == {j \in 0 .. Len(p) : \A c \in 3 .. h[j] : Standing(j, c)}
<1>1. Len(p) \in Nat /\ DOMAIN p = 1 .. Len(p)
  BY DEF Text
<1>2. 0 \in Good
  <2>1. h[0] = 1 /\ 0 \in 0 .. Len(p)
    BY <1>1 DEF Text
  <2>2. \A c \in 3 .. h[0] : FALSE
    BY <2>1
  <2>3. QED
    BY <2>1, <2>2
<1>3. ASSUME NEW j \in 0 .. Len(p) - 1, j \in Good PROVE j + 1 \in Good
  <2>1. /\ j + 1 \in 1 .. Len(p) /\ (j + 1) - 1 = j /\ j + 1 \in 0 .. Len(p) /\ j \in Nat
        /\ j \in 0 .. Len(p) /\ j + 1 \in Nat
    BY <1>1
  <2>2. /\ Moves(p[j + 1], j + 1, h[j], h[j + 1], g[j], g[j + 1])
        /\ h[j] \in Nat \ {0} /\ h[j + 1] \in Nat \ {0}
    BY <2>1, TextMoves
  <2>3. SUFFICES ASSUME NEW c \in 3 .. h[j + 1] PROVE Standing(j + 1, c)
    BY <2>1
  <2>4. CASE c <= h[j]
    <3>1. c \in 3 .. h[j]
      BY <2>2, <2>4
    <3>2. PICK l \in ForsOf(p) : l <= j /\ h[l] = c /\ \A k \in l .. j : h[l] <= h[k]
      BY <1>3, <3>1
    <3>3. l \in Nat
      BY <1>1 DEF ForsOf
    <3>4. \A k \in l .. j + 1 : k \in l .. j \/ k = j + 1
      BY <2>1, <3>3
    <3>5. h[l] <= h[j + 1]
      BY <2>2, <3>2
    <3>6. \A k \in l .. j + 1 : h[l] <= h[k]
      BY <3>2, <3>4, <3>5
    <3>7. l <= j + 1
      BY <2>1, <3>2, <3>3
    <3>8. QED
      BY <3>2, <3>6, <3>7
  <2>5. CASE ~ (c <= h[j])
    <3>1. c \in Nat /\ h[j] < c /\ c <= h[j + 1] /\ 3 <= c
      BY <2>2, <2>5
    <3>2. p[j + 1].op = "for" /\ c = h[j + 1]
      BY <2>2, <3>1 DEF Moves
    <3>3. j + 1 \in ForsOf(p)
      BY <1>1, <2>1, <3>2 DEF ForsOf
    <3>4. \A k \in j + 1 .. j + 1 : h[j + 1] <= h[k]
      <4>1. \A k \in j + 1 .. j + 1 : k = j + 1
        BY <2>1
      <4>2. h[j + 1] <= h[j + 1]
        BY <2>2
      <4>3. QED
        BY <4>1, <4>2
    <3>5. j + 1 <= j + 1
      BY <2>1
    <3>6. QED
      BY <3>2, <3>3, <3>4, <3>5
  <2>6. QED
    BY <2>4, <2>5
<1>4. \A j \in 0 .. Len(p) : j \in Good
  <2> HIDE DEF Good
  <2>1. QED
    BY <1>1, <1>2, <1>3, InductionUpTo
<1>5. Standing(i, d)
  BY <1>4
<1>6. QED
  BY <1>5

\* The loops open at an event.
LEMMA LoopsAre ==
    ASSUME NEW h, NEW g, Text(prog, h, g), NEW i \in Events
    PROVE  \A l : l \in Loops(i) <=> LoopAt(prog, h, i, l)
<1>1. Len(prog) \in Nat /\ DOMAIN prog = 1 .. Len(prog) /\ Events = 1 .. Len(prog)
  BY DEF Text, Events
<1>2. \A k \in 1 .. Len(prog) : Depth(k) = h[k - 1] - 1
  BY DepthIs
<1>3. SUFFICES ASSUME NEW l \in ForsOf(prog), l < i
               PROVE  (\A k \in l + 1 .. i : Depth(k) > Depth(l)) <=> (\A k \in l .. i - 1 : h[l] <= h[k])
  BY <1>1 DEF Loops, Open_, Of, Events, LoopAt, ForsOf
<1>4. l \in 1 .. Len(prog) /\ prog[l].op = "for" /\ i \in 1 .. Len(prog) /\ l \in Nat /\ i \in Nat
  BY <1>1 DEF ForsOf
<1>5. /\ h[l] = h[l - 1] + 1 /\ h[l - 1] \in Nat /\ h[l] \in Nat
  <2>1. Moves(prog[l], l, h[l - 1], h[l], g[l - 1], g[l]) /\ h[l - 1] \in Nat \ {0} /\ h[l] \in Nat \ {0}
    BY <1>4, TextMoves
  <2>2. QED
    BY <1>4, <2>1 DEF Moves, Declarators
<1>6. \A k \in l .. i - 1 : k + 1 \in l + 1 .. i /\ k + 1 \in 1 .. Len(prog) /\ (k + 1) - 1 = k
                            /\ k \in 0 .. Len(prog)
  BY <1>1, <1>4
<1>7. \A k \in l + 1 .. i : k - 1 \in l .. i - 1 /\ k \in 1 .. Len(prog) /\ k - 1 \in 0 .. Len(prog)
  BY <1>1, <1>4
<1>8. \A k \in 0 .. Len(prog) : h[k] \in Nat
  BY TextMeans
<1>9. Depth(l) = h[l - 1] - 1
  BY <1>2, <1>4
<1>10. ASSUME \A k \in l + 1 .. i : Depth(k) > Depth(l), NEW k \in l .. i - 1 PROVE h[l] <= h[k]
  <2>1. Depth(k + 1) > Depth(l) /\ Depth(k + 1) = h[k] - 1 /\ h[k] \in Nat
    <3>1. k + 1 \in l + 1 .. i /\ k + 1 \in 1 .. Len(prog) /\ (k + 1) - 1 = k /\ k \in 0 .. Len(prog)
      BY <1>6
    <3>2. QED
      BY <1>2, <1>8, <1>10, <3>1
  <2>2. h[k] - 1 > h[l - 1] - 1
    BY <1>9, <2>1
  <2>3. QED
    BY <1>5, <2>1, <2>2
<1>11. ASSUME \A k \in l .. i - 1 : h[l] <= h[k], NEW k \in l + 1 .. i PROVE Depth(k) > Depth(l)
  <2>1. h[l] <= h[k - 1] /\ Depth(k) = h[k - 1] - 1 /\ h[k - 1] \in Nat
    <3>1. k - 1 \in l .. i - 1 /\ k \in 1 .. Len(prog) /\ k - 1 \in 0 .. Len(prog)
      BY <1>7
    <3>2. QED
      BY <1>2, <1>8, <1>11, <3>1
  <2>2. h[k - 1] - 1 > h[l - 1] - 1
    BY <1>5, <2>1
  <2>3. QED
    BY <1>9, <2>1, <2>2
<1>12. QED
  BY <1>10, <1>11

\* The innermost is the last of them.
LEMMA InnermostIs ==
    ASSUME NEW h, NEW g, Text(prog, h, g), NEW i \in Events, NEW l
    PROVE  Around_(prog, h, i, l) <=> Loops(i) # {} /\ Last(Loops(i)) = l
<1>1. Len(prog) \in Nat /\ DOMAIN prog = 1 .. Len(prog) /\ i \in 1 .. Len(prog) /\ i \in 1 .. Len(prog) + 1
      /\ i - 1 \in 0 .. Len(prog) /\ i \in Nat
  BY DEF Text, Events
<1>2. \A k : k \in Loops(i) <=> LoopAt(prog, h, i, k)
  BY LoopsAre
<1>3. Loops(i) \subseteq Nat
  BY <1>1, <1>2, LoopFacts
<1>4. ASSUME NEW k, Around_(prog, h, i, k) PROVE Loops(i) # {} /\ Last(Loops(i)) = k
  <2>1. k \in Loops(i)
    BY <1>2, <1>4 DEF Around_
  <2>2. \A j \in Loops(i) : j <= k
    BY <1>1, <1>2, <1>4, InnermostLast
  <2>3. QED
    BY <1>3, <2>1, <2>2, LastIs
<1>5. ASSUME Loops(i) # {} PROVE \E k : Around_(prog, h, i, k)
  <2>1. PICK j : LoopAt(prog, h, i, j)
    BY <1>2, <1>5
  <2>2. h[i - 1] \in Nat /\ 3 <= h[i - 1]
    <3>1. h[j] \in Nat /\ 3 <= h[j] /\ h[j] <= h[i - 1] /\ h[i - 1] \in Nat
      BY <1>1, <2>1, LoopFacts
    <3>2. QED
      BY <3>1
  <2>3. h[i - 1] \in 3 .. h[i - 1]
    BY <2>2
  <2>4. PICK k \in ForsOf(prog) : /\ k <= i - 1 /\ h[k] = h[i - 1]
                                  /\ \A m \in k .. i - 1 : h[k] <= h[m]
    BY <1>1, <2>3, LoopOfDepth
  <2>5. k < i
    BY <1>1, <2>4 DEF ForsOf
  <2>6. QED
    BY <2>4, <2>5 DEF Around_, LoopAt
<1>6. QED
  BY <1>4, <1>5

\* The declarations of a scope.
LEMMA DeclaredIs ==
    ASSUME NEW h, NEW g, Text(prog, h, g), NEW f, NEW n
    PROVE  Of_(Scope(f), n) = DeclIn(prog, g, f, n)
<1>1. \A i \in Events : Function(i) = g[i - 1]
  BY FunctionIs
<1>2. QED
  BY <1>1 DEF Of_, Scope, Of, Events, DeclIn, DeclareOps

\* A text the first pass accepts.
LEMMA CleanIs ==
    ASSUME NEW h, NEW g, Text(prog, h, g)
    PROVE  /\ Clean(prog, g) <=> NamesUnique /\ UsesKnown /\ LoopVariablesKnown /\ CalleesKnown
           /\ \A i \in Events : Clean(prog, g) /\ prog[i].op = "call" => Known(i)
<1>1. Len(prog) \in Nat /\ Events = 1 .. Len(prog) /\ DOMAIN prog = 1 .. Len(prog)
  BY DEF Text, Events
<1>2. \A i \in Events : Function(i) = g[i - 1]
  BY FunctionIs
<1>3. ASSUME NEW i \in Events
      PROVE  Unique(i) <=> \A j \in DeclIn(prog, g, g[i - 1], prog[i].name) : i <= j
  <2>1. Of_(Before(Scope(Function(i)), i), prog[i].name) =
           {j \in DeclIn(prog, g, g[i - 1], prog[i].name) : j < i}
    <3>1. Of_(Scope(Function(i)), prog[i].name) = DeclIn(prog, g, g[i - 1], prog[i].name)
      BY <1>2, DeclaredIs
    <3>2. QED
      BY <3>1 DEF Of_, Before
  <2>2. \A j \in DeclIn(prog, g, g[i - 1], prog[i].name) : j < i <=> ~ (i <= j)
    BY <1>1 DEF DeclIn
  <2>3. QED
    BY <2>1, <2>2 DEF Unique
<1>4. ASSUME NEW i \in Events
      PROVE  Known(i) <=> \E j \in DeclIn(prog, g, g[i - 1], prog[i].name)
                                  \cup DeclIn(prog, g, 0, prog[i].name) : j < i
  <2>1. Of_(Scope(Function(i)), prog[i].name) = DeclIn(prog, g, g[i - 1], prog[i].name)
    BY <1>2, DeclaredIs
  <2>2. Of_(Scope(0), prog[i].name) = DeclIn(prog, g, 0, prog[i].name)
    BY DeclaredIs
  <2>3. Of_(Before(Scope(Function(i)) \cup Scope(0), i), prog[i].name) =
           {j \in Of_(Scope(Function(i)), prog[i].name) \cup Of_(Scope(0), prog[i].name) : j < i}
    BY DEF Of_, Before
  <2>4. QED
    BY <2>1, <2>2, <2>3 DEF Known
<1> DEFINE passed(i) == /\ prog[i].op \in DeclareOps => Unique(i)
                        /\ prog[i].op \in {"use", "elem", "call", "for"} => Known(i)
<1>5. \A i \in Events : Right(prog, g, i) <=> passed(i)
  BY <1>3, <1>4 DEF Right
<1>6. Clean(prog, g) <=> \A i \in Events : passed(i)
  <2> HIDE DEF passed
  <2>1. QED
    BY <1>5 DEF Clean, Events
<1>7. (\A i \in Events : passed(i)) <=> NamesUnique /\ UsesKnown /\ LoopVariablesKnown /\ CalleesKnown
  BY DEF NamesUnique, UsesKnown, LoopVariablesKnown, CalleesKnown, Of, DeclareOps
<1>8. \A i \in Events : passed(i) /\ prog[i].op = "call" => Known(i)
  OBVIOUS
<1> HIDE DEF passed
<1>9. QED
  BY <1>6, <1>7, <1>8

\* The first of a set is one number.
LEMMA FirstIs ==
    ASSUME NEW S, S \subseteq Nat, NEW j, IsFirst(j, S)
    PROVE  First(S) = j
<1>1. j \in S /\ \A k \in S : j <= k
  BY DEF IsFirst
<1>2. First(S) \in S /\ \A k \in S : First(S) <= k
  BY <1>1 DEF First
<1> DEFINE f == First(S)
<1>3. f \in Nat /\ j \in Nat /\ f <= j /\ j <= f
  BY <1>1, <1>2
<1> HIDE DEF f
<1>4. f = j
  BY <1>3
<1>5. QED
  BY <1>4 DEF f

\* What a name means is one declaration.
LEMMA MeaningIs ==
    ASSUME NEW h, NEW g, Text(prog, h, g), NEW i \in Events, NEW m, MeansIn(prog, h, g, i, m)
    PROVE  m = Meaning(i)
<1> DEFINE n == prog[i].name
           in(j, l) == Loops(j) # {} /\ Last(Loops(j)) = l
           hit == {l \in Loops(i) : \/ prog[l].name = n
                                    \/ \E j \in Before(Of_(Of({"array"}), n), i) : in(j, l)}
           here == Of_(Scope(Function(i)), n)
           arrays(l) == {j \in Of_(Of({"array"}), n) : in(j, l)}
<1>1. Len(prog) \in Nat /\ DOMAIN prog = 1 .. Len(prog) /\ Events = 1 .. Len(prog)
      /\ i \in 1 .. Len(prog) + 1
  BY DEF Text, Events
<1>2. \A l : l \in Loops(i) <=> LoopAt(prog, h, i, l)
  BY LoopsAre
<1>3. \A j, l : ArrayIn(prog, h, j, l, n) <=> j \in Of_(Of({"array"}), n) /\ in(j, l)
  <2>1. \A j \in Events : \A l : Around_(prog, h, j, l) <=> in(j, l)
    BY InnermostIs
  <2> HIDE DEF n, in
  <2>2. QED
    BY <2>1 DEF ArrayIn, Of_, Of, Events
<1>4. \A l : l \in hit <=> LoopAt(prog, h, i, l) /\ Has(prog, h, i, l, n)
  <2>1. \A j : j \in DOMAIN prog /\ j < i <=> j \in Events /\ j < i
    BY DEF Events
  <2>2. \A l : (\E j \in DOMAIN prog : j < i /\ ArrayIn(prog, h, j, l, n))
               <=> \E j \in Before(Of_(Of({"array"}), n), i) : in(j, l)
    <3> HIDE DEF n, in
    <3>1. QED
      BY <1>3 DEF Before, ArrayIn
  <2> HIDE DEF n, in
  <2>3. QED
    BY <1>2, <2>2 DEF Has
<1>5. Meaning(i) = IF hit # {}
                   THEN IF prog[Last(hit)].name = n THEN Last(hit) ELSE First(arrays(Last(hit)))
                   ELSE IF here # {} THEN First(here) ELSE First(Of_(Scope(0), n))
  BY DEF Meaning
<1>6. here = DeclIn(prog, g, g[i - 1], n) /\ Of_(Scope(0), n) = DeclIn(prog, g, 0, n)
  <2>1. Function(i) = g[i - 1]
    BY FunctionIs
  <2>2. here = DeclIn(prog, g, g[i - 1], n)
    BY <2>1, DeclaredIs
  <2>3. Of_(Scope(0), n) = DeclIn(prog, g, 0, n)
    BY DeclaredIs
  <2>4. QED
    BY <2>2, <2>3
<1>7. DeclIn(prog, g, g[i - 1], n) \subseteq Nat /\ DeclIn(prog, g, 0, n) \subseteq Nat
  BY <1>1 DEF DeclIn
<1>8. \A l : arrays(l) \subseteq Nat
  BY <1>1 DEF Of_, Of
<1>9. \A l : {j \in DOMAIN prog : ArrayIn(prog, h, j, l, n)} = arrays(l)
  <2> HIDE DEF n, in
  <2>1. QED
    BY <1>3 DEF ArrayIn
<1>10. hit \subseteq Nat
  <2>1. ForsOf(prog) \subseteq Nat
    BY <1>1 DEF ForsOf
  <2> HIDE DEF hit
  <2>2. QED
    BY <1>4, <2>1 DEF LoopAt
<1> HIDE DEF hit, here, arrays, n
<1>11. CASE MeansOutside(prog, h, g, i, m)
  <2>1. hit = {}
    BY <1>4, <1>11 DEF MeansOutside, n, LoopAt
  <2>2. CASE IsFirst(m, DeclIn(prog, g, g[i - 1], n))
    <3>1. here # {} /\ First(here) = m
      BY <1>6, <1>7, <2>2, FirstIs DEF IsFirst
    <3>2. QED
      BY <1>5, <2>1, <3>1
  <2>3. CASE DeclIn(prog, g, g[i - 1], n) = {} /\ IsFirst(m, DeclIn(prog, g, 0, n))
    <3>1. First(Of_(Scope(0), n)) = m
      BY <1>6, <1>7, <2>3, FirstIs
    <3>2. here = {}
      BY <1>6, <2>3
    <3>3. QED
      BY <1>5, <2>1, <3>1, <3>2
  <2>4. QED
    BY <1>11, <2>2, <2>3 DEF MeansOutside, n
<1>12. CASE \E l \in ForsOf(prog) : MeansInLoop(prog, h, i, m, l)
  <2>1. PICK l \in ForsOf(prog) : MeansInLoop(prog, h, i, m, l)
    BY <1>12
  <2>2. /\ LoopAt(prog, h, i, l) /\ Has(prog, h, i, l, n)
        /\ \A k \in ForsOf(prog) : LoopAt(prog, h, i, k) /\ Has(prog, h, i, k, n) => k <= l
        /\ IF prog[l].name = n THEN m = l ELSE IsFirst(m, {j \in DOMAIN prog : ArrayIn(prog, h, j, l, n)})
    BY <2>1 DEF MeansInLoop, n
  <2>3. l \in hit /\ \A k \in hit : k <= l
    BY <1>4, <2>2 DEF LoopAt
  <2>4. hit # {} /\ Last(hit) = l
    BY <1>10, <2>3, LastIs
  <2>5. CASE prog[l].name = n
    BY <1>5, <2>2, <2>4, <2>5
  <2>6. CASE prog[l].name # n
    <3>1. IsFirst(m, arrays(l))
      BY <1>9, <2>2, <2>6
    <3>2. First(arrays(l)) = m
      BY <1>8, <3>1, FirstIs
    <3>3. QED
      BY <1>5, <2>4, <2>6, <3>2
  <2>7. QED
    BY <2>5, <2>6
<1>13. QED
  BY <1>11, <1>12 DEF MeansIn

\* An array that stands.
LEMMA StandsIs ==
    ASSUME NEW h, NEW g, Text(prog, h, g), NEW i \in Events
    PROVE  StandsIn(prog, h, g, i) <=> ArrayStands(i)
<1>1. Len(prog) \in Nat /\ DOMAIN prog = 1 .. Len(prog) /\ i \in 1 .. Len(prog) + 1
      /\ Function(i) = g[i - 1]
  <2>1. Len(prog) \in Nat /\ DOMAIN prog = 1 .. Len(prog)
    BY DEF Text
  <2>2. i \in 1 .. Len(prog) /\ Function(i) = g[i - 1]
    BY FunctionIs
  <2>3. QED
    BY <2>1, <2>2
<1>2. \A l : Around_(prog, h, i, l) <=> Loops(i) # {} /\ Last(Loops(i)) = l
  BY InnermostIs
<1>3. CASE g[i - 1] # 0
  <2>1. \A l : Around_(prog, h, i, l) => l \in ForsOf(prog)
    BY DEF Around_, LoopAt
  <2>2. StandsIn(prog, h, g, i) <=> \E l : Around_(prog, h, i, l) /\ prog[l].name # prog[i].name
    BY <1>3, <2>1 DEF StandsIn
  <2>3. QED
    BY <1>1, <1>2, <1>3, <2>2 DEF ArrayStands
<1>4. CASE g[i - 1] = 0
  <2>1. \A l : ~ Around_(prog, h, i, l)
    BY <1>1, <1>4, LoopFacts DEF Around_
  <2>2. FunctionsOf(prog) = Of({"fun"}) /\ FunctionsOf(prog) \subseteq 1 .. Len(prog)
    BY <1>1 DEF FunctionsOf, Of, Events
  <2>3. StandsIn(prog, h, g, i) <=>
          \E f \in FunctionsOf(prog) : /\ \A k \in FunctionsOf(prog) : k <= f
                                       /\ DeclIn(prog, g, f, prog[i].name) = {}
    BY <1>4, <2>1 DEF StandsIn
  <2>4. CASE FunctionsOf(prog) = {}
    BY <1>1, <1>4, <2>2, <2>3, <2>4 DEF ArrayStands
  <2>5. CASE FunctionsOf(prog) # {}
    <3>1. PICK f \in FunctionsOf(prog) : \A k \in FunctionsOf(prog) : k <= f
      BY <1>1, <2>2, <2>5, LastExists
    <3>2. FunctionsOf(prog) \subseteq Nat
      BY <2>2
    <3>3. Last(Of({"fun"})) = f
      BY <2>2, <3>1, <3>2, LastIs
    <3>4. \A k \in FunctionsOf(prog) : (\A j \in FunctionsOf(prog) : j <= k) => k = f
      <4>1. ASSUME NEW k \in FunctionsOf(prog), \A j \in FunctionsOf(prog) : j <= k PROVE k = f
        <5>1. k <= f /\ f <= k /\ k \in Nat /\ f \in Nat
          BY <3>1, <3>2, <4>1
        <5>2. QED
          BY <5>1
      <4>2. QED
        BY <4>1
    <3>5. StandsIn(prog, h, g, i) <=> DeclIn(prog, g, f, prog[i].name) = {}
      BY <2>3, <3>1, <3>4
    <3>6. Of_(Scope(f), prog[i].name) = DeclIn(prog, g, f, prog[i].name)
      BY DeclaredIs
    <3>7. QED
      BY <1>1, <1>4, <2>2, <2>5, <3>3, <3>5, <3>6 DEF ArrayStands
  <2>6. QED
    BY <2>4, <2>5
<1>5. QED
  BY <1>3, <1>4

\* What the second pass and the crashes ask of a call, an element and an array is
\* what the rules ask.
LEMMA AskedIs ==
    ASSUME NEW h, NEW g, Text(prog, h, g), Clean(prog, g)
    PROVE  /\ (\E i \in DOMAIN prog : CallsVar(prog, h, g, i)) => CallsVariable
           /\ (\A i \in DOMAIN prog : Fine(prog, h, g, i)) => ArraysStand /\ ElementsWritable /\ CallsFit
           /\ (\E i \in DOMAIN prog : Wrong(prog, h, g, i)) =>
                 ~ (ArraysStand /\ ElementsWritable /\ CallsFit)
           /\ \A i \in DOMAIN prog : TooMany(prog, h, g, i) =>
                 /\ i \in Of({"call"}) /\ Known(i) /\ prog[i].n > prog[Meaning(i)].n
                 /\ ~ CallsFit
<1>1. \A i \in Events : \A m : MeansIn(prog, h, g, i, m) => m = Meaning(i)
  BY MeaningIs
<1>2. \A i \in Events : StandsIn(prog, h, g, i) <=> ArrayStands(i)
  BY StandsIs
<1>3. \A i \in Events : prog[i].op = "call" => Known(i)
  BY CleanIs
<1>4. ASSUME NEW i \in DOMAIN prog, CallsVar(prog, h, g, i) PROVE CallsVariable
  <2>1. prog[i].op = "call" /\ prog[Meaning(i)].op # "fun" /\ i \in Events
    BY <1>1, <1>4 DEF CallsVar, Events
  <2>2. QED
    BY <1>3, <2>1 DEF CallsVariable, Of
<1>5. ASSUME NEW i \in DOMAIN prog, Fine(prog, h, g, i)
      PROVE  /\ prog[i].op = "array" => ArrayStands(i)
             /\ prog[i].op = "elem" => Writable(prog[Meaning(i)])
             /\ prog[i].op = "call" => Fitting(prog[Meaning(i)], prog[i].n)
  BY <1>1, <1>2, <1>5 DEF Fine, Events
<1>6. ASSUME NEW i \in DOMAIN prog, Wrong(prog, h, g, i)
      PROVE  \/ prog[i].op = "array" /\ ~ ArrayStands(i)
             \/ prog[i].op = "elem" /\ ~ Writable(prog[Meaning(i)])
             \/ prog[i].op = "call" /\ ~ Fitting(prog[Meaning(i)], prog[i].n)
  BY <1>1, <1>2, <1>6 DEF Wrong, Events
<1>7. /\ ArraysStand <=> \A i \in DOMAIN prog : prog[i].op = "array" => ArrayStands(i)
      /\ ElementsWritable <=> \A i \in DOMAIN prog : prog[i].op = "elem" => Writable(prog[Meaning(i)])
      /\ CallsFit <=> \A i \in DOMAIN prog : prog[i].op = "call" => Fitting(prog[Meaning(i)], prog[i].n)
  <2>1. ArraysStand <=> \A i \in DOMAIN prog : prog[i].op = "array" => ArrayStands(i)
    BY DEF ArraysStand, Of, Events
  <2>2. ElementsWritable <=> \A i \in DOMAIN prog : prog[i].op = "elem" => Writable(prog[Meaning(i)])
    BY DEF ElementsWritable, Of, Events, Writable
  <2>3. CallsFit <=> \A i \in DOMAIN prog : prog[i].op = "call" => Fitting(prog[Meaning(i)], prog[i].n)
    BY DEF CallsFit, Of, Events, Fitting
  <2>4. QED
    BY <2>1, <2>2, <2>3
<1>8. ASSUME NEW i \in DOMAIN prog, TooMany(prog, h, g, i)
      PROVE  /\ i \in Of({"call"}) /\ Known(i) /\ prog[i].n > prog[Meaning(i)].n
             /\ ~ CallsFit
  <2>1. PICK m \in DOMAIN prog : prog[i].op = "call" /\ MeansIn(prog, h, g, i, m) /\ prog[m].n < prog[i].n
    BY <1>8 DEF TooMany
  <2>2. m = Meaning(i) /\ i \in Of({"call"}) /\ Known(i)
    BY <1>1, <1>3, <2>1 DEF Events, Of
  <2>3. prog[m] \in Event /\ prog[i] \in Event
    BY DEF Text
  <2>4. prog[m].n \in Nat /\ prog[i].n \in Nat
    <3> DEFINE a == prog[m]
               b == prog[i]
    <3>1. a \in Event /\ b \in Event
      BY <2>3
    <3> HIDE DEF a, b
    <3>2. a.n \in Nat /\ b.n \in Nat
      BY <3>1, NamesAssumption DEF Event, NamesAssumption
    <3>3. QED
      BY <3>2 DEF a, b
  <2>5. ~ Fitting(prog[m], prog[i].n) /\ prog[i].n > prog[m].n
    BY <2>1, <2>4 DEF Fitting
  <2>6. QED
    BY <1>7, <2>1, <2>2, <2>5
<1>9. (\E i \in DOMAIN prog : CallsVar(prog, h, g, i)) => CallsVariable
  BY <1>4
<1>10. (\A i \in DOMAIN prog : Fine(prog, h, g, i)) => ArraysStand /\ ElementsWritable /\ CallsFit
  BY <1>5, <1>7
<1>11. (\E i \in DOMAIN prog : Wrong(prog, h, g, i)) => ~ (ArraysStand /\ ElementsWritable /\ CallsFit)
  BY <1>6, <1>7
<1>12. QED
  BY <1>8, <1>9, <1>10, <1>11

\* The passes end with code for exactly the files the rules accept, calls of
\* variables apart: whatever the names, the scopes and the length of the file,
\* what three lookups in changing tables come to is what the text alone says.
THEOREM AcceptsRight == Spec => []AcceptsExactly
<1>1. JInv => AcceptsExactly
  <2>1. SUFFICES ASSUME JInv, pass \in Ends, ~ CallsVariable PROVE pass = "compiled" <=> Accepts
    BY DEF AcceptsExactly
  <2>2. PICK h, g, r : Inv(h, g, r) /\ Judged(prog, h, g)
    BY <2>1 DEF JInv
  <2>3. Text(prog, h, g)
    BY <2>2 DEF Inv
  <2>4. HasFunction <=> FunctionsOf(prog) # {}
    BY DEF HasFunction, Of, Events, FunctionsOf
  <2>5. Clean(prog, g) <=> NamesUnique /\ UsesKnown /\ LoopVariablesKnown /\ CalleesKnown
    BY <2>3, CleanIs
  <2>6. CASE pass = "compiled"
    <3>1. Clean(prog, g) /\ FunctionsOf(prog) # {} /\ AllFine(prog, h, g)
      BY <2>2, <2>6 DEF Judged
    <3>2. ~ \E i \in DOMAIN prog : CallsVar(prog, h, g, i)
      BY <2>1, <2>3, <3>1, AskedIs
    <3>3. ArraysStand /\ ElementsWritable /\ CallsFit
      BY <2>3, <3>1, <3>2, AskedIs DEF AllFine
    <3>4. QED
      BY <2>4, <2>5, <2>6, <3>1, <3>3 DEF Accepts
  <2>7. CASE pass = "rejected"
    <3>1. SUFFICES ASSUME Clean(prog, g), FunctionsOf(prog) # {} PROVE ~ Accepts
      BY <2>4, <2>5, <2>7 DEF Accepts
    <3>2. \E i \in DOMAIN prog : CallsVar(prog, h, g, i) \/ Wrong(prog, h, g, i)
      BY <2>2, <2>7, <3>1 DEF Judged
    <3>3. ~ \E i \in DOMAIN prog : CallsVar(prog, h, g, i)
      BY <2>1, <2>3, <3>1, AskedIs
    <3>4. \E i \in DOMAIN prog : Wrong(prog, h, g, i)
      BY <3>2, <3>3
    <3>5. QED
      BY <2>3, <3>1, <3>4, AskedIs DEF Accepts
  <2>8. CASE pass \in {"crashed", "exited"}
    <3>1. Clean(prog, g)
      BY <2>2, <2>8 DEF Judged
    <3>2. FunctionsOf(prog) = {} \/ \E i \in DOMAIN prog : CallsVar(prog, h, g, i) \/ TooMany(prog, h, g, i)
      BY <2>2, <2>8 DEF Judged
    <3>3. ~ \E i \in DOMAIN prog : CallsVar(prog, h, g, i)
      BY <2>1, <2>3, <3>1, AskedIs
    <3>4. (\E i \in DOMAIN prog : TooMany(prog, h, g, i)) => ~ CallsFit
      BY <2>3, <3>1, AskedIs
    <3>5. QED
      BY <2>4, <2>8, <3>2, <3>3, <3>4 DEF Accepts
  <2>9. QED
    BY <2>1, <2>6, <2>7, <2>8 DEF Ends
<1>2. Spec => []JInv
  BY AlwaysJudged
<1>3. QED
  BY <1>1, <1>2, PTL

\* The compiler crashes only on a file without functions, on a call of a
\* variable, and on a call with too many arguments.
THEOREM CrashesHaveCause == Spec => []CrashesExplained
<1>1. JInv => CrashesExplained
  <2>1. SUFFICES ASSUME JInv, pass \in {"crashed", "exited"}, Of({"fun"}) # {}, ~ CallsVariable
                 PROVE  \E i \in Of({"call"}) : Known(i) /\ prog[i].n > prog[Meaning(i)].n
    BY DEF CrashesExplained
  <2>2. PICK h, g, r : Inv(h, g, r) /\ Judged(prog, h, g)
    BY <2>1 DEF JInv
  <2>3. Text(prog, h, g) /\ Clean(prog, g)
    BY <2>1, <2>2 DEF Inv, Judged
  <2>4. FunctionsOf(prog) # {}
    BY <2>1 DEF Of, Events, FunctionsOf
  <2>5. \E i \in DOMAIN prog : CallsVar(prog, h, g, i) \/ TooMany(prog, h, g, i)
    BY <2>1, <2>2, <2>4 DEF Judged
  <2>6. ~ \E i \in DOMAIN prog : CallsVar(prog, h, g, i)
    BY <2>1, <2>3, AskedIs
  <2>7. PICK i \in DOMAIN prog : TooMany(prog, h, g, i)
    BY <2>5, <2>6
  <2>8. QED
    BY <2>3, <2>7, AskedIs
<1>2. Spec => []JInv
  BY AlwaysJudged
<1>3. QED
  BY <1>1, <1>2, PTL
=============================================================================
