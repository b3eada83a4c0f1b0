----------------------------- MODULE CodegenProofs -----------------------------
(***************************************************************************)
(* The labels of Codegen, for every program: each is placed once, each     *)
(* branch has its label in its own function, break has the right one; and  *)
(* the code of a finished file follows its text.                           *)
(*                                                                         *)
(* Core says so of a piece of code c while the labels of D are still owed  *)
(* and those of S start loops under way; Grow, that the instructions of    *)
(* one step keep it; the stack supplies D and S.                           *)
(*                                                                         *)
(* Layout says which stretch of the code is that of which event, and what  *)
(* each event that opens something is closed by.  Each step adds one event *)
(* to it.  That the code follows the text is then shown of the finished    *)
(* file alone, from its last event back to its first.                      *)
(***************************************************************************)
EXTENDS CodegenRules, Induction, TLAPS

IsLabel(i) == i.op = "LABEL"
IsBranch(i) == i.op \in {"BR", "BZ", "BNZ"}
IsEnd(i) == i.op = "END"

Puts(c, l) == \E m \in DOMAIN c : IsLabel(c[m]) /\ c[m].label = l

Unique(c) == \A j, k \in DOMAIN c :
    IsLabel(c[j]) /\ IsLabel(c[k]) /\ c[j].label = c[k].label => j = k

\* Labels placed are below the counter L.
Counted(c, L) == \A k \in DOMAIN c : IsLabel(c[k]) => c[k].label \in Nat /\ c[k].label < L

Waiting(c, D, L) == \A l \in D : l \in Nat /\ l < L /\ ~Puts(c, l)

Reached(c, D) == \A k \in DOMAIN c : IsBranch(c[k]) => c[k].label \in D \/ Puts(c, c[k].label)

\* A branch to a label still owed is in the function being generated.
Near(c, D) == \A k, e \in DOMAIN c : IsBranch(c[k]) /\ c[k].label \in D /\ IsEnd(c[e]) => e < k

Inside(c) == \A k, m, e \in DOMAIN c :
    IsBranch(c[k]) /\ IsLabel(c[m]) /\ c[m].label = c[k].label /\ IsEnd(c[e]) => (e < k <=> e < m)

Heads(c, S) == \A l \in S : \E m \in DOMAIN c :
    IsLabel(c[m]) /\ c[m].label = l /\ \A e \in DOMAIN c : IsEnd(c[e]) => e < m

Core(c, D, S, L) ==
    /\ c \in Seq(Instr)
    /\ L \in Nat
    /\ Unique(c)
    /\ Counted(c, L)
    /\ Waiting(c, D, L)
    /\ Reached(c, D)
    /\ Near(c, D)
    /\ Inside(c)
    /\ Heads(c, S)

\* What a step may add: labels owed or new, branches to labels owed, placed by
\* the step itself, or at the head of a loop under way.
Chunk(s, D, S, L, D1, S1, L1) ==
    /\ s \in Seq(Instr)
    /\ L1 \in Nat /\ L <= L1
    /\ \A k \in DOMAIN s : ~IsEnd(s[k])
    /\ Unique(s)
    /\ \A k \in DOMAIN s : IsLabel(s[k]) =>
          /\ s[k].label \in Nat /\ s[k].label < L1
          /\ s[k].label \in D \/ s[k].label >= L
          /\ s[k].label \notin D1
    /\ \A l \in D1 : l \in Nat /\ l < L1 /\ (l \in D \/ l >= L)
    /\ \A l \in D : l \in D1 \/ Puts(s, l)
    /\ \A k \in DOMAIN s : IsBranch(s[k]) => s[k].label \in D1 \cup S \/ Puts(s, s[k].label)
    /\ \A l \in S1 : l \in S \/ Puts(s, l)

\* Where the instructions of a longer piece of code come from.
LEMMA Longer ==
  ASSUME NEW c \in Seq(Instr), NEW s \in Seq(Instr)
  PROVE  /\ c \o s \in Seq(Instr)
         /\ \A k \in DOMAIN c : k \in DOMAIN (c \o s) /\ (c \o s)[k] = c[k]
         /\ \A k \in DOMAIN s : Len(c) + k \in DOMAIN (c \o s) /\ (c \o s)[Len(c) + k] = s[k]
         /\ \A k \in DOMAIN (c \o s) : \/ k \in DOMAIN c
                                       \/ \E j \in DOMAIN s : k = Len(c) + j
         /\ DOMAIN c = 1 .. Len(c) /\ Len(c) \in Nat
         /\ DOMAIN s = 1 .. Len(s) /\ Len(s) \in Nat
<1>1. Len(c) \in Nat /\ Len(s) \in Nat /\ DOMAIN c = 1 .. Len(c) /\ DOMAIN s = 1 .. Len(s)
  OBVIOUS
<1>2. c \o s \in Seq(Instr) /\ Len(c \o s) = Len(c) + Len(s) /\ DOMAIN (c \o s) = 1 .. Len(c) + Len(s)
  OBVIOUS
<1>3. \A k \in 1 .. Len(c) + Len(s) :
        (c \o s)[k] = IF k <= Len(c) THEN c[k] ELSE s[k - Len(c)]
  OBVIOUS
<1>4. \A k \in DOMAIN c : k \in DOMAIN (c \o s) /\ (c \o s)[k] = c[k]
  BY <1>1, <1>2, <1>3
<1>5. \A k \in DOMAIN s : Len(c) + k \in DOMAIN (c \o s) /\ (c \o s)[Len(c) + k] = s[k]
  <2> SUFFICES ASSUME NEW k \in DOMAIN s
               PROVE  Len(c) + k \in DOMAIN (c \o s) /\ (c \o s)[Len(c) + k] = s[k]
    OBVIOUS
  <2>1. k \in Nat /\ 1 <= k /\ k <= Len(s) /\ (Len(c) + k) - Len(c) = k /\ ~(Len(c) + k <= Len(c))
    BY <1>1
  <2>2. Len(c) + k \in 1 .. Len(c) + Len(s)
    BY <2>1, <1>1
  <2>3. QED
    BY <2>1, <2>2, <1>2, <1>3
<1>6. ASSUME NEW k \in DOMAIN (c \o s), k \notin DOMAIN c
      PROVE  \E j \in DOMAIN s : k = Len(c) + j
  <2>1. k - Len(c) \in 1 .. Len(s) /\ k = Len(c) + (k - Len(c))
    BY <1>1, <1>2, <1>6
  <2>2. QED
    BY <2>1, <1>1
<1>7. QED
  BY <1>1, <1>2, <1>4, <1>5, <1>6

\* One step of the generator keeps what is said of the code.
LEMMA Grow ==
  ASSUME NEW c, NEW s, NEW D, NEW S, NEW L, NEW D1, NEW S1, NEW L1,
         Core(c, D, S, L), Chunk(s, D, S, L, D1, S1, L1)
  PROVE  Core(c \o s, D1, S1, L1)
<1> DEFINE t == c \o s
<1>a. c \in Seq(Instr) /\ s \in Seq(Instr) /\ L \in Nat /\ L1 \in Nat /\ L <= L1
  BY DEF Core, Chunk
<1>b. /\ t \in Seq(Instr)
      /\ \A k \in DOMAIN c : k \in DOMAIN t /\ t[k] = c[k]
      /\ \A k \in DOMAIN s : Len(c) + k \in DOMAIN t /\ t[Len(c) + k] = s[k]
      /\ \A k \in DOMAIN t : k \in DOMAIN c \/ \E j \in DOMAIN s : k = Len(c) + j
      /\ DOMAIN c = 1 .. Len(c) /\ Len(c) \in Nat
      /\ DOMAIN s = 1 .. Len(s) /\ Len(s) \in Nat
  BY <1>a, Longer
<1> HIDE DEF t
\* Labels the step places are new to c, and c's branches to them were owed.
<1>c. \A k \in DOMAIN s : IsLabel(s[k]) => ~Puts(c, s[k].label)
  BY <1>a DEF Core, Chunk, Waiting, Counted, Puts
<1>d. \A l \in D1 : ~Puts(c, l) /\ ~Puts(s, l)
  BY <1>a DEF Core, Chunk, Waiting, Counted, Puts
<1>e. \A l : Puts(t, l) <=> Puts(c, l) \/ Puts(s, l)
  BY <1>b DEF Puts
<1>f. \A k \in DOMAIN c : IsBranch(c[k]) => c[k].label \in Nat /\ c[k].label < L
  BY <1>a DEF Core, Reached, Waiting, Counted, Puts
<1>g. \A k \in DOMAIN c, j \in DOMAIN s : k < Len(c) + j
  BY <1>b
<1>h. \A e \in DOMAIN t : IsEnd(t[e]) => e \in DOMAIN c /\ IsEnd(c[e])
  BY <1>b DEF Chunk
<1>1. Unique(t)
  <2> SUFFICES ASSUME NEW j \in DOMAIN t, NEW k \in DOMAIN t, IsLabel(t[j]), IsLabel(t[k]),
                      t[j].label = t[k].label
               PROVE  j = k
    BY DEF Unique
  <2>1. CASE j \in DOMAIN c /\ k \in DOMAIN c
    BY <2>1, <1>b DEF Core, Unique
  <2>2. CASE j \in DOMAIN c /\ k \notin DOMAIN c
    <3>1. PICK i \in DOMAIN s : k = Len(c) + i
      BY <2>2, <1>b
    <3>2. t[k] = s[i] /\ t[j] = c[j]
      BY <3>1, <2>2, <1>b
    <3>3. QED
      BY <3>2, <2>2, <1>c DEF Puts
  <2>3. CASE j \notin DOMAIN c /\ k \in DOMAIN c
    <3>1. PICK i \in DOMAIN s : j = Len(c) + i
      BY <2>3, <1>b
    <3>2. t[j] = s[i] /\ t[k] = c[k]
      BY <3>1, <2>3, <1>b
    <3>3. QED
      BY <3>2, <2>3, <1>c DEF Puts
  <2>4. CASE j \notin DOMAIN c /\ k \notin DOMAIN c
    <3>1. PICK i \in DOMAIN s : j = Len(c) + i
      BY <2>4, <1>b
    <3>2. PICK m \in DOMAIN s : k = Len(c) + m
      BY <2>4, <1>b
    <3>3. t[j] = s[i] /\ t[k] = s[m]
      BY <3>1, <3>2, <1>b
    <3>4. i = m
      BY <3>3 DEF Chunk, Unique
    <3>5. QED
      BY <3>1, <3>2, <3>4
  <2>5. QED
    BY <2>1, <2>2, <2>3, <2>4
<1>2. Counted(t, L1)
  <2> SUFFICES ASSUME NEW k \in DOMAIN t, IsLabel(t[k])
               PROVE  t[k].label \in Nat /\ t[k].label < L1
    BY DEF Counted
  <2>1. CASE k \in DOMAIN c
    BY <2>1, <1>a, <1>b DEF Core, Counted
  <2>2. CASE k \notin DOMAIN c
    BY <2>2, <1>b DEF Chunk
  <2>3. QED
    BY <2>1, <2>2
<1>3. Waiting(t, D1, L1)
  BY <1>d, <1>e DEF Waiting, Chunk
<1>4. Reached(t, D1)
  <2> SUFFICES ASSUME NEW k \in DOMAIN t, IsBranch(t[k])
               PROVE  t[k].label \in D1 \/ Puts(c, t[k].label) \/ Puts(s, t[k].label)
    BY <1>e DEF Reached
  <2>1. CASE k \in DOMAIN c
    <3>1. c[k].label \in D \/ Puts(c, c[k].label)
      BY <2>1, <1>b DEF Core, Reached
    <3>2. QED
      BY <3>1, <2>1, <1>b DEF Chunk
  <2>2. CASE k \notin DOMAIN c
    <3>1. PICK i \in DOMAIN s : t[k] = s[i]
      BY <2>2, <1>b
    <3>2. s[i].label \in D1 \cup S \/ Puts(s, s[i].label)
      BY <3>1 DEF Chunk
    <3>3. s[i].label \in S => Puts(c, s[i].label)
      BY DEF Core, Heads, Puts
    <3>4. QED
      BY <3>1, <3>2, <3>3
  <2>3. QED
    BY <2>1, <2>2
<1>5. Near(t, D1)
  <2> SUFFICES ASSUME NEW k \in DOMAIN t, NEW e \in DOMAIN t,
                      IsBranch(t[k]), t[k].label \in D1, IsEnd(t[e])
               PROVE  e < k
    BY DEF Near
  <2>1. e \in DOMAIN c /\ IsEnd(c[e])
    BY <1>h
  <2>2. CASE k \in DOMAIN c
    <3>1. c[k].label \in D
      BY <2>2, <1>b, <1>f, <1>a DEF Chunk
    <3>2. QED
      BY <3>1, <2>1, <2>2, <1>b DEF Core, Near
  <2>3. CASE k \notin DOMAIN c
    BY <2>1, <2>3, <1>b, <1>g
  <2>4. QED
    BY <2>2, <2>3
<1>6. Inside(t)
  <2> SUFFICES ASSUME NEW k \in DOMAIN t, NEW m \in DOMAIN t, NEW e \in DOMAIN t,
                      IsBranch(t[k]), IsLabel(t[m]), t[m].label = t[k].label, IsEnd(t[e])
               PROVE  e < k <=> e < m
    BY DEF Inside
  <2>1. e \in DOMAIN c /\ IsEnd(c[e]) /\ e \in Nat
    BY <1>h, <1>b
  <2>2. CASE k \in DOMAIN c /\ m \in DOMAIN c
    BY <2>1, <2>2, <1>b DEF Core, Inside
  <2>3. CASE k \in DOMAIN c /\ m \notin DOMAIN c
    <3>1. PICK i \in DOMAIN s : m = Len(c) + i /\ t[m] = s[i]
      BY <2>3, <1>b
    <3>2. c[k].label \in D
      BY <3>1, <2>3, <1>b, <1>f, <1>a DEF Chunk
    <3>3. e < k
      BY <3>2, <2>1, <2>3, <1>b DEF Core, Near
    <3>4. e < m
      BY <2>1, <3>1, <1>g
    <3>5. QED
      BY <3>3, <3>4
  <2>4. CASE k \notin DOMAIN c /\ m \in DOMAIN c
    <3>1. PICK i \in DOMAIN s : k = Len(c) + i /\ t[k] = s[i]
      BY <2>4, <1>b
    <3>2. e < k
      BY <2>1, <3>1, <1>g
    <3>3. t[m] = c[m] /\ Puts(c, s[i].label)
      BY <3>1, <2>4, <1>b DEF Puts
    <3>4. ~Puts(s, s[i].label) /\ s[i].label \notin D1
      BY <3>3, <1>c, <1>d DEF Puts
    <3>5. s[i].label \in S
      BY <3>1, <3>4 DEF Chunk
    <3>6. PICK h \in DOMAIN c : /\ IsLabel(c[h]) /\ c[h].label = s[i].label
                                 /\ \A f \in DOMAIN c : IsEnd(c[f]) => f < h
      BY <3>5 DEF Core, Heads
    <3>7. h = m
      BY <3>1, <3>3, <3>6, <2>4 DEF Core, Unique
    <3>8. QED
      BY <3>2, <3>6, <3>7, <2>1
  <2>5. CASE k \notin DOMAIN c /\ m \notin DOMAIN c
    BY <2>1, <2>5, <1>b, <1>g
  <2>6. QED
    BY <2>2, <2>3, <2>4, <2>5
<1>7. Heads(t, S1)
  <2> SUFFICES ASSUME NEW l \in S1
               PROVE  \E m \in DOMAIN t : /\ IsLabel(t[m]) /\ t[m].label = l
                                           /\ \A e \in DOMAIN t : IsEnd(t[e]) => e < m
    BY DEF Heads
  <2>1. CASE l \in S
    <3>1. PICK m \in DOMAIN c : /\ IsLabel(c[m]) /\ c[m].label = l
                                 /\ \A e \in DOMAIN c : IsEnd(c[e]) => e < m
      BY <2>1 DEF Core, Heads
    <3>2. QED
      BY <3>1, <1>b, <1>h
  <2>2. CASE Puts(s, l)
    <3>1. PICK i \in DOMAIN s : IsLabel(s[i]) /\ s[i].label = l
      BY <2>2 DEF Puts
    <3>2. Len(c) + i \in DOMAIN t /\ t[Len(c) + i] = s[i]
      BY <1>b
    <3>3. QED
      BY <3>1, <3>2, <1>g, <1>h
  <2>3. QED
    BY <2>1, <2>2 DEF Chunk
<1>8. QED
  BY <1>a, <1>b, <1>1, <1>2, <1>3, <1>4, <1>5, <1>6, <1>7 DEF Core, t

\* The end of a function: with nothing owed, instructions without label or branch.
LEMMA Ended ==
  ASSUME NEW c, NEW s, NEW L, Core(c, {}, {}, L), s \in Seq(Instr),
         \A k \in DOMAIN s : ~IsLabel(s[k]) /\ ~IsBranch(s[k])
  PROVE  Core(c \o s, {}, {}, L)
<1> DEFINE t == c \o s
<1>a. c \in Seq(Instr) /\ L \in Nat
  BY DEF Core
<1>b. /\ t \in Seq(Instr)
      /\ \A k \in DOMAIN c : k \in DOMAIN t /\ t[k] = c[k]
      /\ \A k \in DOMAIN s : Len(c) + k \in DOMAIN t /\ t[Len(c) + k] = s[k]
      /\ \A k \in DOMAIN t : k \in DOMAIN c \/ \E j \in DOMAIN s : k = Len(c) + j
      /\ DOMAIN c = 1 .. Len(c) /\ Len(c) \in Nat
      /\ DOMAIN s = 1 .. Len(s) /\ Len(s) \in Nat
  BY <1>a, Longer
<1> HIDE DEF t
<1>c. \A k \in DOMAIN t : IsLabel(t[k]) \/ IsBranch(t[k]) => k \in DOMAIN c /\ t[k] = c[k]
  BY <1>b
<1>d. \A e \in DOMAIN t, k \in DOMAIN c : e \in DOMAIN c \/ ~(e < k)
  BY <1>b
<1>1. Unique(t) /\ Counted(t, L)
  BY <1>c DEF Core, Unique, Counted
<1>2. Waiting(t, {}, L) /\ Near(t, {}) /\ Heads(t, {})
  BY DEF Waiting, Near, Heads
<1>3. Reached(t, {})
  BY <1>b, <1>c, SMTT(30) DEF Core, Reached, Puts
<1>4. Inside(t)
  <2> SUFFICES ASSUME NEW k \in DOMAIN t, NEW m \in DOMAIN t, NEW e \in DOMAIN t,
                      IsBranch(t[k]), IsLabel(t[m]), t[m].label = t[k].label, IsEnd(t[e])
               PROVE  e < k <=> e < m
    BY DEF Inside
  <2>1. k \in DOMAIN c /\ m \in DOMAIN c /\ t[k] = c[k] /\ t[m] = c[m]
    BY <1>c
  <2>2. CASE e \in DOMAIN c
    BY <2>1, <2>2, <1>b DEF Core, Inside
  <2>3. CASE e \notin DOMAIN c
    BY <2>1, <2>3, <1>d
  <2>4. QED
    BY <2>2, <2>3
<1>5. QED
  BY <1>a, <1>b, <1>1, <1>2, <1>3, <1>4 DEF Core, t

-----------------------------------------------------------------------------
\* The constructs under way

HeadsOf(st) == {st[i].start : i \in {j \in DOMAIN st : st[j].kind \in {"while", "for", "range"}}}

\* The function is outermost, and no two constructs owe the same label.
StackOK(st) ==
    /\ st \in Seq(Frame)
    /\ \A i \in DOMAIN st : st[i].kind = "fun" <=> i = 1
    /\ \A i \in DOMAIN st : st[i].kind = "ifElse" => st[i].start # st[i].end
    /\ \A i, j \in DOMAIN st : i # j => Pending(st[i]) \cap Pending(st[j]) = {}

\* b is right for st, and what each loop saved for what is around it.
BreakOK(st, b) ==
    /\ BreakIs(st, b, Len(st))
    /\ \A i \in DOMAIN st : st[i].kind \in {"while", "for"} => BreakIs(st, st[i].saved, i - 1)

\* What the stack looks like with one more construct on it.
LEMMA AppendFacts ==
  ASSUME NEW st \in Seq(Frame), NEW f \in Frame
  PROVE  /\ Append(st, f) \in Seq(Frame)
         /\ Len(st) \in Nat /\ DOMAIN st = 1 .. Len(st)
         /\ Len(Append(st, f)) = Len(st) + 1
         /\ DOMAIN Append(st, f) = 1 .. Len(st) + 1
         /\ \A i \in 1 .. Len(st) : Append(st, f)[i] = st[i]
         /\ Append(st, f)[Len(st) + 1] = f
OBVIOUS

\* What the stack looks like with its innermost construct gone.
LEMMA PopFacts ==
  ASSUME NEW st \in Seq(Frame), st # <<>>, NEW p, p = SubSeq(st, 1, Len(st) - 1)
  PROVE  /\ p \in Seq(Frame)
         /\ Len(st) \in Nat /\ Len(st) >= 1 /\ DOMAIN st = 1 .. Len(st)
         /\ Len(p) = Len(st) - 1
         /\ DOMAIN p = 1 .. Len(st) - 1
         /\ \A i \in 1 .. Len(st) - 1 : p[i] = st[i]
         /\ st[Len(st)] \in Frame
<1>1. Len(st) \in Nat /\ Len(st) >= 1 /\ DOMAIN st = 1 .. Len(st) /\ st[Len(st)] \in Frame
  OBVIOUS
<1>2. p \in Seq(Frame) /\ Len(p) = Len(st) - 1 /\ DOMAIN p = 1 .. Len(st) - 1
  BY <1>1
<1>3. \A i \in 1 .. Len(st) - 1 : p[i] = st[i]
  BY <1>1
<1>4. QED
  BY <1>1, <1>2, <1>3

\* What the stack looks like with its innermost construct replaced.
LEMMA SwapFacts ==
  ASSUME NEW st \in Seq(Frame), st # <<>>, NEW f \in Frame
  PROVE  /\ [st EXCEPT ![Len(st)] = f] \in Seq(Frame)
         /\ Len(st) \in Nat /\ Len(st) >= 1 /\ DOMAIN st = 1 .. Len(st)
         /\ Len([st EXCEPT ![Len(st)] = f]) = Len(st)
         /\ DOMAIN [st EXCEPT ![Len(st)] = f] = 1 .. Len(st)
         /\ \A i \in 1 .. Len(st) - 1 : [st EXCEPT ![Len(st)] = f][i] = st[i]
         /\ [st EXCEPT ![Len(st)] = f][Len(st)] = f
OBVIOUS

\* A construct that owes new labels only.
LEMMA Push ==
  ASSUME NEW st, StackOK(st), st # <<>>, NEW f \in Frame, f.kind # "fun",
         f.kind = "ifElse" => f.start # f.end,
         Pending(f) \cap Owed(st) = {}
  PROVE  /\ StackOK(Append(st, f))
         /\ Owed(Append(st, f)) = Owed(st) \cup Pending(f)
         /\ HeadsOf(Append(st, f)) \subseteq
               HeadsOf(st) \cup (IF f.kind \in {"while", "for", "range"} THEN {f.start} ELSE {})
<1> DEFINE q == Append(st, f)
<1>1. st \in Seq(Frame)
  BY DEF StackOK
<1>2. /\ q \in Seq(Frame) /\ Len(st) \in Nat /\ DOMAIN st = 1 .. Len(st)
      /\ DOMAIN q = 1 .. Len(st) + 1
      /\ \A i \in 1 .. Len(st) : q[i] = st[i]
      /\ q[Len(st) + 1] = f
  BY <1>1, AppendFacts
<1>3. Len(st) >= 1
  BY <1>1
<1> HIDE DEF q
<1>4. \A i \in DOMAIN q : (i \in DOMAIN st /\ q[i] = st[i]) \/ (i = Len(st) + 1 /\ q[i] = f)
  BY <1>2
<1>5. Owed(q) = Owed(st) \cup Pending(f)
  <2>1. \A i \in DOMAIN st : i \in DOMAIN q /\ q[i] = st[i]
    BY <1>2
  <2>2. Len(st) + 1 \in DOMAIN q /\ q[Len(st) + 1] = f
    BY <1>2
  <2>3. QED
    BY <1>4, <2>1, <2>2 DEF Owed
<1>6. HeadsOf(q) \subseteq
         HeadsOf(st) \cup (IF f.kind \in {"while", "for", "range"} THEN {f.start} ELSE {})
  BY <1>4 DEF HeadsOf
<1>7. \A i \in DOMAIN st : Pending(st[i]) \cap Pending(f) = {}
  BY DEF Owed
<1>8. \A i \in DOMAIN q : q[i].kind = "fun" <=> i = 1
  BY <1>2, <1>3, <1>4 DEF StackOK
<1>9. \A i \in DOMAIN q : q[i].kind = "ifElse" => q[i].start # q[i].end
  BY <1>4 DEF StackOK
<1>10. \A i, j \in DOMAIN q : i # j => Pending(q[i]) \cap Pending(q[j]) = {}
  <2> SUFFICES ASSUME NEW i \in DOMAIN q, NEW j \in DOMAIN q, i # j
               PROVE  Pending(q[i]) \cap Pending(q[j]) = {}
    OBVIOUS
  <2>1. CASE i \in DOMAIN st /\ j \in DOMAIN st
    BY <2>1, <1>2 DEF StackOK
  <2>2. CASE i \notin DOMAIN st
    <3>1. q[i] = f /\ j \in DOMAIN st /\ q[j] = st[j]
      BY <2>2, <1>4
    <3>2. QED
      BY <3>1, <1>7
  <2>3. CASE j \notin DOMAIN st
    <3>1. q[j] = f /\ i \in DOMAIN st /\ q[i] = st[i]
      BY <2>3, <1>4
    <3>2. QED
      BY <3>1, <1>7
  <2>4. QED
    BY <2>1, <2>2, <2>3
<1>11. QED
  BY <1>2, <1>5, <1>6, <1>8, <1>9, <1>10 DEF StackOK, q

\* The innermost construct is done.
LEMMA Popped ==
  ASSUME NEW st, StackOK(st), st # <<>>, NEW p, p = SubSeq(st, 1, Len(st) - 1)
  PROVE  /\ StackOK(p)
         /\ Owed(p) = Owed(st) \ Pending(st[Len(st)])
         /\ HeadsOf(p) \subseteq HeadsOf(st)
<1>1. st \in Seq(Frame)
  BY DEF StackOK
<1>2. /\ p \in Seq(Frame) /\ Len(st) \in Nat /\ Len(st) >= 1 /\ DOMAIN st = 1 .. Len(st)
      /\ DOMAIN p = 1 .. Len(st) - 1
      /\ \A i \in 1 .. Len(st) - 1 : p[i] = st[i]
  BY <1>1, PopFacts
<1>3. \A i \in DOMAIN p : i \in DOMAIN st /\ p[i] = st[i] /\ i # Len(st)
  BY <1>2
<1>4. \A i \in DOMAIN st : i = Len(st) \/ i \in DOMAIN p
  BY <1>2
<1>5. Len(st) \in DOMAIN st
  BY <1>2
<1>6. \A i \in DOMAIN p : Pending(p[i]) \cap Pending(st[Len(st)]) = {}
  BY <1>3, <1>5 DEF StackOK
<1>7. Owed(p) = Owed(st) \ Pending(st[Len(st)])
  BY <1>3, <1>4, <1>6 DEF Owed
<1>8. HeadsOf(p) \subseteq HeadsOf(st)
  BY <1>3 DEF HeadsOf
<1>9. StackOK(p)
  BY <1>2, <1>3 DEF StackOK
<1>10. QED
  BY <1>7, <1>8, <1>9

\* The first half of an if with an else is done.
LEMMA Halved ==
  ASSUME NEW st, StackOK(st), st # <<>>, NEW f \in Frame,
         st[Len(st)].kind = "ifElse", f.kind = "else", f.end = st[Len(st)].end,
         NEW q, q = [st EXCEPT ![Len(st)] = f]
  PROVE  /\ StackOK(q)
         /\ Owed(q) = Owed(st) \ {st[Len(st)].start}
         /\ HeadsOf(q) \subseteq HeadsOf(st)
         /\ st[Len(st)].start \in Owed(st) /\ st[Len(st)].end \in Owed(q)
<1>1. st \in Seq(Frame)
  BY DEF StackOK
<1>2. /\ q \in Seq(Frame) /\ Len(st) \in Nat /\ Len(st) >= 1 /\ DOMAIN st = 1 .. Len(st)
      /\ DOMAIN q = DOMAIN st
      /\ \A i \in 1 .. Len(st) - 1 : q[i] = st[i]
      /\ q[Len(st)] = f
  BY <1>1, SwapFacts
<1> DEFINE n == Len(st)
<1>3. n \in DOMAIN st /\ \A i \in DOMAIN st : i # n => q[i] = st[i]
  BY <1>2
<1>4. Pending(st[n]) = {st[n].start, st[n].end} /\ Pending(f) = {st[n].end}
  BY DEF Pending, Unknown
<1>5. st[n].start # st[n].end
  BY <1>3 DEF StackOK
<1>6. \A i \in DOMAIN st : i # n => Pending(st[i]) \cap Pending(st[n]) = {}
  BY <1>3 DEF StackOK
<1>7. Owed(q) = Owed(st) \ {st[n].start}
  BY <1>2, <1>3, <1>4, <1>5, <1>6 DEF Owed
<1>8. HeadsOf(q) \subseteq HeadsOf(st)
  BY <1>2, <1>3 DEF HeadsOf
<1>9. StackOK(q)
  <2>1. \A i \in DOMAIN q : q[i].kind = "fun" <=> i = 1
    BY <1>2, <1>3 DEF StackOK
  <2>2. \A i \in DOMAIN q : q[i].kind = "ifElse" => q[i].start # q[i].end
    BY <1>2, <1>3 DEF StackOK
  <2>3. \A i, j \in DOMAIN q : i # j => Pending(q[i]) \cap Pending(q[j]) = {}
    BY <1>2, <1>3, <1>4, <1>6, ZenonT(30) DEF StackOK
  <2>4. QED
    BY <1>2, <2>1, <2>2, <2>3 DEF StackOK
<1>10. Pending(st[n]) \subseteq Owed(st)
  BY <1>3 DEF Owed
<1>11. st[n].start \in Owed(st) /\ st[n].end \in Owed(q)
  BY <1>4, <1>5, <1>7, <1>10
<1>12. QED
  BY <1>7, <1>8, <1>9, <1>11

\* Only the n outermost constructs matter to BreakIs.
LEMMA SamePrefix ==
  ASSUME NEW st, NEW q, NEW n \in Int, NEW b, \A i \in 1 .. n : q[i].kind = st[i].kind /\ q[i].end = st[i].end
  PROVE  BreakIs(st, b, n) <=> BreakIs(q, b, n)
BY DEF BreakIs

\* Opening a construct, with the break label of a loop that sets it.
LEMMA PushBreak ==
  ASSUME NEW st \in Seq(Frame), NEW f \in Frame, NEW b, NEW b1, BreakOK(st, b),
         IF f.kind \in {"while", "for"} THEN f.saved = b /\ b1 = f.end ELSE b1 = b
  PROVE  BreakOK(Append(st, f), b1)
<1> DEFINE q == Append(st, f)
<1>1. /\ Len(st) \in Nat /\ DOMAIN st = 1 .. Len(st)
      /\ Len(q) = Len(st) + 1 /\ DOMAIN q = 1 .. Len(st) + 1
      /\ \A i \in 1 .. Len(st) : q[i] = st[i]
      /\ q[Len(st) + 1] = f
  BY AppendFacts
<1> HIDE DEF q
<1>2. \A n \in 0 .. Len(st) : \A x : BreakIs(st, x, n) <=> BreakIs(q, x, n)
  <2> SUFFICES ASSUME NEW n \in 0 .. Len(st), NEW x PROVE BreakIs(st, x, n) <=> BreakIs(q, x, n)
    OBVIOUS
  <2>1. n \in Int /\ \A i \in 1 .. n : q[i] = st[i]
    BY <1>1
  <2>2. QED
    BY <2>1, SamePrefix
<1>3. BreakIs(q, b, Len(st))
  BY <1>1, <1>2 DEF BreakOK
<1>4. BreakIs(q, b1, Len(q))
  <2>1. CASE f.kind \in {"while", "for"}
    BY <1>1, <2>1 DEF BreakIs
  <2>2. CASE f.kind \notin {"while", "for"}
    <3>1. \A i \in 1 .. Len(q) : q[i].kind \in {"while", "for"} <=>
             i \in 1 .. Len(st) /\ q[i].kind \in {"while", "for"}
      BY <1>1, <2>2
    <3>2. {i \in 1 .. Len(q) : q[i].kind \in {"while", "for"}} =
          {i \in 1 .. Len(st) : q[i].kind \in {"while", "for"}}
      BY <1>1, <3>1
    <3>3. QED
      BY <1>3, <2>2, <3>2 DEF BreakIs
  <2>3. QED
    BY <2>1, <2>2
<1>5. ASSUME NEW i \in DOMAIN q, q[i].kind \in {"while", "for"}
      PROVE  BreakIs(q, q[i].saved, i - 1)
  <2>1. CASE i \in 1 .. Len(st)
    <3>1. BreakIs(st, st[i].saved, i - 1) /\ i - 1 \in 0 .. Len(st) /\ q[i] = st[i]
      BY <1>1, <1>5, <2>1 DEF BreakOK
    <3>2. QED
      BY <3>1, <1>2
  <2>2. CASE i = Len(st) + 1
    BY <1>1, <1>3, <1>5, <2>2
  <2>3. QED
    BY <1>1, <2>1, <2>2
<1>6. QED
  BY <1>4, <1>5 DEF BreakOK, q

\* Closing a construct, restoring the break label where it was saved.
LEMMA PopBreak ==
  ASSUME NEW st \in Seq(Frame), st # <<>>, NEW b, BreakOK(st, b),
         NEW p, p = SubSeq(st, 1, Len(st) - 1)
  PROVE  BreakOK(p, IF st[Len(st)].kind \in {"while", "for"} THEN st[Len(st)].saved ELSE b)
<1> DEFINE b1 == IF st[Len(st)].kind \in {"while", "for"} THEN st[Len(st)].saved ELSE b
<1>1. /\ Len(st) \in Nat /\ Len(st) >= 1 /\ DOMAIN st = 1 .. Len(st)
      /\ Len(p) = Len(st) - 1 /\ DOMAIN p = 1 .. Len(st) - 1
      /\ \A i \in 1 .. Len(st) - 1 : p[i] = st[i]
  BY PopFacts
<1>2. \A n \in 0 .. Len(st) - 1 : \A x : BreakIs(st, x, n) <=> BreakIs(p, x, n)
  <2> SUFFICES ASSUME NEW n \in 0 .. Len(st) - 1, NEW x PROVE BreakIs(st, x, n) <=> BreakIs(p, x, n)
    OBVIOUS
  <2>1. n \in Int /\ \A i \in 1 .. n : p[i] = st[i]
    BY <1>1
  <2>2. QED
    BY <2>1, SamePrefix
<1>3. BreakIs(st, b1, Len(st) - 1)
  <2>1. CASE st[Len(st)].kind \in {"while", "for"}
    BY <1>1, <2>1 DEF BreakOK
  <2>2. CASE st[Len(st)].kind \notin {"while", "for"}
    <3>1. {i \in 1 .. Len(st) : st[i].kind \in {"while", "for"}} =
          {i \in 1 .. Len(st) - 1 : st[i].kind \in {"while", "for"}}
      BY <1>1, <2>2
    <3>2. QED
      BY <2>2, <3>1 DEF BreakOK, BreakIs
  <2>3. QED
    BY <2>1, <2>2
<1>4. ASSUME NEW i \in DOMAIN p, p[i].kind \in {"while", "for"}
      PROVE  BreakIs(p, p[i].saved, i - 1)
  <2>1. BreakIs(st, st[i].saved, i - 1) /\ i - 1 \in 0 .. Len(st) - 1 /\ p[i] = st[i]
    BY <1>1, <1>4 DEF BreakOK
  <2>2. QED
    BY <2>1, <1>2
<1>5. QED
  BY <1>1, <1>2, <1>3, <1>4 DEF BreakOK

\* An element of a stack is its last one or comes before.
LEMMA LastOrBefore ==
  ASSUME NEW n \in Nat
  PROVE  \A i \in 1 .. n : i \in 1 .. n - 1 \/ i = n
OBVIOUS

\* A construct that is no while or for, replaced by another.
LEMMA ReplaceBreak ==
  ASSUME NEW st \in Seq(Frame), NEW q \in Seq(Frame), NEW b, BreakOK(st, b),
         Len(st) >= 1, Len(q) = Len(st),
         \A i \in 1 .. Len(st) - 1 : q[i] = st[i],
         st[Len(st)].kind \notin {"while", "for"}, q[Len(st)].kind \notin {"while", "for"}
  PROVE  BreakOK(q, b)
<1>1. /\ Len(st) \in Nat /\ DOMAIN st = 1 .. Len(st) /\ DOMAIN q = 1 .. Len(st)
  OBVIOUS
<1>2. \A i \in 1 .. Len(st) : i \in 1 .. Len(st) - 1 \/ i = Len(st)
  BY <1>1, LastOrBefore
<1>3. {i \in 1 .. Len(q) : q[i].kind \in {"while", "for"}} =
      {i \in 1 .. Len(st) : st[i].kind \in {"while", "for"}}
  BY <1>1, <1>2
<1>4. \A i \in 1 .. Len(st) : st[i].kind \in {"while", "for"} => q[i].end = st[i].end
  BY <1>1, <1>2
<1>5. BreakIs(q, b, Len(q))
  <2>1. BreakIs(st, b, Len(st))
    BY DEF BreakOK
  <2>2. CASE b = NULL /\ {i \in 1 .. Len(st) : st[i].kind \in {"while", "for"}} = {}
    BY <1>3, <2>2 DEF BreakIs
  <2>3. CASE \E i \in {j \in 1 .. Len(st) : st[j].kind \in {"while", "for"}} :
               /\ b = st[i].end
               /\ \A j \in {k \in 1 .. Len(st) : st[k].kind \in {"while", "for"}} : j <= i
    BY <1>3, <1>4, <2>3 DEF BreakIs
  <2>4. QED
    BY <2>1, <2>2, <2>3 DEF BreakIs
<1>6. ASSUME NEW i \in DOMAIN q, q[i].kind \in {"while", "for"}
      PROVE  BreakIs(q, q[i].saved, i - 1)
  <2>1. i \in 1 .. Len(st) - 1 /\ q[i] = st[i]
    BY <1>1, <1>2, <1>6
  <2>2. BreakIs(st, st[i].saved, i - 1)
    BY <1>1, <1>6, <2>1 DEF BreakOK
  <2>3. i - 1 \in Int /\ \A j \in 1 .. i - 1 : q[j] = st[j]
    BY <1>1, <2>1
  <2>4. QED
    BY <2>1, <2>2, <2>3, SamePrefix
<1>7. QED
  BY <1>5, <1>6 DEF BreakOK

-----------------------------------------------------------------------------
\* The steps

IInv ==
    /\ TypeOK
    /\ Core(code, Owed(stack), HeadsOf(stack), labelcounter)
    /\ StackOK(stack)
    /\ BreakOK(stack, current_break_label)

\* The instructions the generator makes are well formed, and pieces of code too.
LEMMA IFacts ==
  ASSUME NEW l \in Nat, NEW op \in {"END", "LABEL", "BR"}
  PROVE  I(op, l) \in Instr /\ I(op, l).op = op /\ I(op, l).label = l
BY DEF Instr, Point, Place, I, Label

\* Act makes an instruction without a label.
LEMMA ActFacts ==
  ASSUME NEW i \in Nat, NEW part \in {"init", "do", "step", "test"}
  PROVE  Act(i, part) \in Instr /\ Act(i, part).op = "DO"
BY DEF Instr, Point, Place, Act, Label

\* Test makes a branch to the label it is given.
LEMMA TestFacts ==
  ASSUME NEW l \in Nat, NEW i \in Nat
  PROVE  Test(l, i) \in Instr /\ Test(l, i).op = "BZ" /\ Test(l, i).label = l
BY DEF Instr, Point, Place, Test, Label

\* One instruction is a piece of code.
LEMMA OneInstr ==
  ASSUME NEW x \in Instr
  PROVE  <<x>> \in Seq(Instr) /\ DOMAIN <<x>> = {1} /\ <<x>>[1] = x
OBVIOUS

\* So are two.
LEMMA TwoInstrs ==
  ASSUME NEW x \in Instr, NEW y \in Instr
  PROVE  /\ <<x, y>> \in Seq(Instr) /\ DOMAIN <<x, y>> = {1, 2}
         /\ <<x, y>>[1] = x /\ <<x, y>>[2] = y
<1>1. <<x, y>> \in Seq(Instr) /\ DOMAIN <<x, y>> = 1 .. 2
  OBVIOUS
<1>2. QED
  BY <1>1

\* So are three.
LEMMA ThreeInstrs ==
  ASSUME NEW x \in Instr, NEW y \in Instr, NEW z \in Instr
  PROVE  /\ <<x, y, z>> \in Seq(Instr) /\ DOMAIN <<x, y, z>> = {1, 2, 3}
         /\ <<x, y, z>>[1] = x /\ <<x, y, z>>[2] = y /\ <<x, y, z>>[3] = z
<1>1. <<x, y, z>> \in Seq(Instr) /\ DOMAIN <<x, y, z>> = 1 .. 3
  OBVIOUS
<1>2. QED
  BY <1>1

\* A statement with a body of its own or none leaves the stack: what its code may be.
LEMMA Plain ==
  ASSUME IInv, NEW s \in Seq(Instr), NEW L1 \in Nat, labelcounter <= L1,
         \A k \in DOMAIN s : ~IsEnd(s[k]),
         Unique(s),
         \A k \in DOMAIN s : IsLabel(s[k]) =>
            s[k].label \in Nat /\ labelcounter <= s[k].label /\ s[k].label < L1,
         \A k \in DOMAIN s : IsBranch(s[k]) => s[k].label \in Owed(stack) \/ Puts(s, s[k].label)
  PROVE  Core(code \o s, Owed(stack), HeadsOf(stack), L1)
<1>1. Waiting(code, Owed(stack), labelcounter) /\ labelcounter \in Nat
  BY DEF IInv, Core
<1>2. Chunk(s, Owed(stack), HeadsOf(stack), labelcounter, Owed(stack), HeadsOf(stack), L1)
  BY <1>1 DEF Chunk, Waiting
<1>3. QED
  BY <1>2, Grow DEF IInv

\* The text stays a sequence of events.
LEMMA ReadsTyped ==
  ASSUME TypeOK, NEW op \in {"fun", "end", "else"} \cup Simple \cup Compound, Reads(op)
  PROVE  /\ prog' \in Seq({"fun", "end", "else"} \cup Simple \cup Compound)
         /\ Here \in Nat
BY DEF TypeOK, Reads, Here

\* Straight-line code has no labels.
LEMMA StraightPreserves == IInv /\ Straight => IInv'
<1> SUFFICES ASSUME IInv, Straight PROVE IInv'
  OBVIOUS
<1>1. Reads("do") \/ Reads("value")
  BY DEF Straight, Statement
<1>2. prog' \in Seq({"fun", "end", "else"} \cup Simple \cup Compound) /\ Here \in Nat
  BY <1>1, ReadsTyped DEF IInv, Simple
<1> DEFINE s == <<Act(Here, "do")>>
<1>3. s \in Seq(Instr) /\ DOMAIN s = {1} /\ s[1].op = "DO"
  BY <1>2, ActFacts, OneInstr
<1> HIDE DEF s
<1>4. labelcounter \in Nat
  BY DEF IInv, TypeOK
<1>5. Core(code \o s, Owed(stack), HeadsOf(stack), labelcounter)
  <2>1. \A k \in DOMAIN s : ~IsEnd(s[k]) /\ ~IsLabel(s[k]) /\ ~IsBranch(s[k])
    BY <1>3 DEF IsEnd, IsLabel, IsBranch
  <2>2. Unique(s)
    BY <2>1 DEF Unique
  <2>3. QED
    BY <1>3, <1>4, <2>1, <2>2, Plain
<1>6. code' = code \o s /\ UNCHANGED <<stack, labelcounter, current_break_label, crashed>>
  BY DEF Straight, Emit, s
<1>7. QED
  BY <1>2, <1>5, <1>6 DEF IInv, TypeOK, Core

\* The loop that fills an array places the two labels it takes.
LEMMA ArrayDeclarationPreserves == IInv /\ ArrayDeclaration => IInv'
<1> SUFFICES ASSUME IInv, ArrayDeclaration PROVE IInv'
  OBVIOUS
<1>1. Reads("array")
  BY DEF ArrayDeclaration, Statement
<1>2. prog' \in Seq({"fun", "end", "else"} \cup Simple \cup Compound) /\ Here \in Nat
  BY <1>1, ReadsTyped DEF IInv, Simple
<1> DEFINE top == labelcounter
           exit == labelcounter + 1
           a1 == Act(Here, "init")
           a2 == I("LABEL", top)
           a3 == [op |-> "BNZ", label |-> exit, src |-> <<Here, "test">>]
           a4 == Act(Here, "step")
           a5 == I("BR", top)
           a6 == I("LABEL", exit)
           s == <<a1, a2, a3, a4, a5, a6>>
           next == labelcounter + 2
<1>4. /\ top \in Nat /\ exit \in Nat /\ top # exit /\ labelcounter <= top /\ labelcounter <= exit
      /\ top < next /\ exit < next /\ next \in Nat /\ labelcounter <= next
  BY DEF IInv, TypeOK
<1>3. /\ s \in Seq(Instr) /\ DOMAIN s = 1 .. 6
      /\ s[1].op = "DO" /\ s[2].op = "LABEL" /\ s[2].label = top
      /\ s[3].op = "BNZ" /\ s[3].label = exit /\ s[4].op = "DO"
      /\ s[5].op = "BR" /\ s[5].label = top /\ s[6].op = "LABEL" /\ s[6].label = exit
  <2> HIDE DEF top, exit
  <2>1. a1 \in Instr /\ a4 \in Instr /\ a1.op = "DO" /\ a4.op = "DO"
    BY <1>2, ActFacts
  <2>3. /\ a2 \in Instr /\ a2.op = "LABEL" /\ a2.label = top
        /\ a5 \in Instr /\ a5.op = "BR" /\ a5.label = top
        /\ a6 \in Instr /\ a6.op = "LABEL" /\ a6.label = exit
    BY <1>4, IFacts
  <2>4. a3 \in Instr /\ a3.op = "BNZ" /\ a3.label = exit
    BY <1>2, <1>4 DEF Instr, Point, Place, Label
  <2> HIDE DEF a1, a2, a3, a4, a5, a6
  <2>2. QED
    BY <2>1, <2>3, <2>4
<1>6. code' = code \o s /\ labelcounter' = next
      /\ UNCHANGED <<stack, current_break_label, crashed>>
  BY DEF ArrayDeclaration, Emit, genlabels
<1> HIDE DEF s, top, exit, next, a1, a2, a3, a4, a5, a6
<1>a. \A k \in DOMAIN s : k = 1 \/ k = 2 \/ k = 3 \/ k = 4 \/ k = 5 \/ k = 6
  BY <1>3
<1>5. Core(code \o s, Owed(stack), HeadsOf(stack), next)
  <2>1. \A k \in DOMAIN s :
           /\ ~IsEnd(s[k])
           /\ IsLabel(s[k]) => (k = 2 /\ s[k].label = top) \/ (k = 6 /\ s[k].label = exit)
           /\ IsBranch(s[k]) => s[k].label = top \/ s[k].label = exit
    BY <1>3, <1>a DEF IsEnd, IsLabel, IsBranch
  <2>2. Unique(s)
    BY <2>1, <1>4 DEF Unique
  <2>3. Puts(s, top) /\ Puts(s, exit)
    BY <1>3 DEF Puts, IsLabel
  <2>4. \A k \in DOMAIN s : IsBranch(s[k]) => s[k].label \in Owed(stack) \/ Puts(s, s[k].label)
    BY <2>1, <2>3
  <2>5. \A k \in DOMAIN s : IsLabel(s[k]) =>
           s[k].label \in Nat /\ labelcounter <= s[k].label /\ s[k].label < next
    BY <2>1, <1>4
  <2>6. QED
    BY <1>3, <1>4, <2>1, <2>2, <2>4, <2>5, Plain
<1>7. QED
  BY <1>2, <1>4, <1>5, <1>6 DEF IInv, TypeOK, Core

\* A break goes to a label that a loop around it owes.
LEMMA BreakPreserves == IInv /\ Break => IInv'
<1> SUFFICES ASSUME IInv, Break PROVE IInv'
  OBVIOUS
<1>1. Reads("break")
  BY DEF Break, Statement
<1>2. prog' \in Seq({"fun", "end", "else"} \cup Simple \cup Compound) /\ Here \in Nat
  BY <1>1, ReadsTyped DEF IInv, Simple
<1>4. labelcounter \in Nat /\ code \in Seq(Instr)
  BY DEF IInv, TypeOK
<1>5. UNCHANGED <<stack, labelcounter, current_break_label, crashed>>
  BY DEF Break
<1>6. CASE current_break_label = NULL
  <2>1. code' = code
    BY <1>4, <1>6 DEF Break, Emit
  <2>2. QED
    BY <1>2, <1>5, <2>1 DEF IInv, TypeOK
<1>7. CASE current_break_label # NULL
  <2> DEFINE s == <<I("BR", current_break_label)>>
  <2>1. current_break_label \in Nat
    BY <1>7 DEF IInv, TypeOK, Label
  <2>2. s \in Seq(Instr) /\ DOMAIN s = {1} /\ s[1].op = "BR" /\ s[1].label = current_break_label
    BY <2>1, IFacts, OneInstr
  <2>3. code' = code \o s
    BY <1>7 DEF Break, Emit
  <2> HIDE DEF s
  <2>4. current_break_label \in Owed(stack)
    <3>1. PICK i \in 1 .. Len(stack) : stack[i].kind \in {"while", "for"} /\ current_break_label = stack[i].end
      BY <1>7 DEF IInv, BreakOK, BreakIs
    <3>2. i \in DOMAIN stack /\ Pending(stack[i]) = {stack[i].end}
      BY <3>1 DEF IInv, StackOK, Pending, Unknown
    <3>3. QED
      BY <3>1, <3>2 DEF Owed
  <2>5. Core(code \o s, Owed(stack), HeadsOf(stack), labelcounter)
    <3>1. \A k \in DOMAIN s : ~IsEnd(s[k]) /\ ~IsLabel(s[k]) /\ s[k].label \in Owed(stack)
      BY <2>2, <2>4 DEF IsEnd, IsLabel
    <3>2. Unique(s)
      BY <3>1 DEF Unique
    <3>3. QED
      BY <1>4, <2>2, <3>1, <3>2, Plain
  <2>6. QED
    BY <1>2, <1>5, <2>3, <2>5 DEF IInv, TypeOK, Core
<1>8. QED
  BY <1>6, <1>7

\* A return has no label.
LEMMA ReturnPreserves == IInv /\ Return => IInv'
<1> SUFFICES ASSUME IInv, Return PROVE IInv'
  OBVIOUS
<1>1. Reads("return")
  BY DEF Return, Statement
<1>2. prog' \in Seq({"fun", "end", "else"} \cup Simple \cup Compound) /\ Here \in Nat
  BY <1>1, ReadsTyped DEF IInv, Simple
<1> DEFINE s == <<[op |-> "RET", label |-> NULL, src |-> <<Here, "do">>]>>
<1>3. s \in Seq(Instr) /\ DOMAIN s = {1} /\ s[1].op = "RET"
  <2> DEFINE r == [op |-> "RET", label |-> NULL, src |-> <<Here, "do">>]
  <2>1. r \in Instr /\ r.op = "RET"
    BY <1>2 DEF Instr, Point, Place
  <2> HIDE DEF r
  <2>2. <<r>> \in Seq(Instr) /\ DOMAIN <<r>> = {1} /\ <<r>>[1] = r
    BY <2>1, OneInstr
  <2>3. QED
    BY <2>1, <2>2 DEF r
<1>6. code' = code \o s /\ UNCHANGED <<stack, labelcounter, current_break_label, crashed>>
  BY DEF Return, Emit
<1> HIDE DEF s
<1>4. labelcounter \in Nat
  BY DEF IInv, TypeOK
<1>5. Core(code \o s, Owed(stack), HeadsOf(stack), labelcounter)
  <2>1. \A k \in DOMAIN s : ~IsEnd(s[k]) /\ ~IsLabel(s[k]) /\ ~IsBranch(s[k])
    BY <1>3 DEF IsEnd, IsLabel, IsBranch
  <2>2. Unique(s)
    BY <2>1 DEF Unique
  <2>3. QED
    BY <1>3, <1>4, <2>1, <2>2, Plain
<1>7. QED
  BY <1>2, <1>5, <1>6 DEF IInv, TypeOK, Core

\* A loop's first instructions and its last, with one more before them or none.
LEMMA PairAfter ==
  ASSUME NEW y \in Instr, NEW z \in Instr
  PROVE  <<>> \o <<y, z>> = <<y, z>>
OBVIOUS

\* The same with an instruction before the pair.
LEMMA PairAfterOne ==
  ASSUME NEW x \in Instr, NEW y \in Instr, NEW z \in Instr
  PROVE  <<x>> \o <<y, z>> = <<x, y, z>>
<1> DEFINE a == <<x>> \o <<y, z>>
           b == <<x, y, z>>
<1>1. a \in Seq(Instr) /\ b \in Seq(Instr)
  OBVIOUS
<1>2. Len(a) = 3 /\ Len(b) = 3
  OBVIOUS
<1>3. \A i \in 1 .. 3 : a[i] = b[i]
  OBVIOUS
<1> HIDE DEF a, b
<1>4. a = b
  BY <1>1, <1>2, <1>3
<1>5. QED
  BY <1>4 DEF a, b

\* A construct opened within a function.
LEMMA Opened ==
  ASSUME IInv, stack # <<>>, NEW f \in Frame, f.kind # "fun",
         f.kind = "ifElse" => f.start # f.end,
         NEW L1 \in Nat, labelcounter <= L1,
         \A l \in Pending(f) : l \in Nat /\ labelcounter <= l /\ l < L1,
         NEW s \in Seq(Instr), Unique(s),
         \A k \in DOMAIN s : ~IsEnd(s[k]),
         \A k \in DOMAIN s : IsLabel(s[k]) =>
            /\ s[k].label \in Nat /\ labelcounter <= s[k].label /\ s[k].label < L1
            /\ s[k].label \notin Pending(f),
         \A k \in DOMAIN s : IsBranch(s[k]) => s[k].label \in Pending(f),
         f.kind \in {"while", "for", "range"} => Puts(s, f.start)
  PROVE  /\ Core(code \o s, Owed(Append(stack, f)), HeadsOf(Append(stack, f)), L1)
         /\ StackOK(Append(stack, f))
<1>1. labelcounter \in Nat /\ Waiting(code, Owed(stack), labelcounter) /\ StackOK(stack)
  BY DEF IInv, Core
<1>2. \A l \in Owed(stack) : l \in Nat /\ l < labelcounter
  BY <1>1 DEF Waiting
<1>3. Pending(f) \cap Owed(stack) = {}
  BY <1>1, <1>2
<1>4. /\ StackOK(Append(stack, f))
      /\ Owed(Append(stack, f)) = Owed(stack) \cup Pending(f)
      /\ HeadsOf(Append(stack, f)) \subseteq
            HeadsOf(stack) \cup (IF f.kind \in {"while", "for", "range"} THEN {f.start} ELSE {})
  BY <1>1, <1>3, Push
<1> DEFINE D1 == Owed(Append(stack, f))
           S1 == HeadsOf(Append(stack, f))
<1>5. \A l \in D1 : l \in Nat /\ l < L1 /\ (l \in Owed(stack) \/ l >= labelcounter)
  BY <1>1, <1>2, <1>4
<1>6. \A l \in Owed(stack) : l \in D1
  BY <1>4
<1>7. \A k \in DOMAIN s : IsLabel(s[k]) => s[k].label \notin D1
  BY <1>1, <1>2, <1>4
<1>8. \A k \in DOMAIN s : IsBranch(s[k]) => s[k].label \in D1
  BY <1>4
<1>9. \A l \in S1 : l \in HeadsOf(stack) \/ Puts(s, l)
  BY <1>4
<1> HIDE DEF D1, S1
<1>10. Chunk(s, Owed(stack), HeadsOf(stack), labelcounter, D1, S1, L1)
  BY <1>1, <1>5, <1>6, <1>7, <1>8, <1>9 DEF Chunk
<1>11. Core(code \o s, D1, S1, L1)
  BY <1>10, Grow DEF IInv
<1>12. QED
  BY <1>4, <1>11 DEF D1, S1

\* The innermost construct closed, with the labels it owes.
LEMMA Closed ==
  ASSUME IInv, stack # <<>>,
         NEW s \in Seq(Instr), Unique(s),
         \A k \in DOMAIN s : ~IsEnd(s[k]),
         \A k \in DOMAIN s : IsLabel(s[k]) => s[k].label \in Pending(Inner),
         \A l \in Pending(Inner) : Puts(s, l),
         \A k \in DOMAIN s : IsBranch(s[k]) => s[k].label \in HeadsOf(stack)
  PROVE  /\ Core(code \o s, Owed(Pop), HeadsOf(Pop), labelcounter)
         /\ StackOK(Pop)
<1>1. labelcounter \in Nat /\ Waiting(code, Owed(stack), labelcounter) /\ StackOK(stack)
  BY DEF IInv, Core
<1>2. \A l \in Owed(stack) : l \in Nat /\ l < labelcounter
  BY <1>1 DEF Waiting
<1>3. /\ StackOK(Pop)
      /\ Owed(Pop) = Owed(stack) \ Pending(Inner)
      /\ HeadsOf(Pop) \subseteq HeadsOf(stack)
  BY <1>1, Popped DEF Pop, Inner
<1>4. Pending(Inner) \subseteq Owed(stack)
  <2>1. stack \in Seq(Frame)
    BY <1>1 DEF StackOK
  <2>2. Len(stack) \in DOMAIN stack
    BY <2>1
  <2>3. QED
    BY <2>2 DEF Inner, Owed
<1> HIDE DEF Pop, Inner
<1>5. Chunk(s, Owed(stack), HeadsOf(stack), labelcounter, Owed(Pop), HeadsOf(Pop), labelcounter)
  BY <1>1, <1>2, <1>3, <1>4 DEF Chunk
<1>6. QED
  BY <1>3, <1>5, Grow DEF IInv

\* The frames Open pushes.
FrameOf(kind, at, start, end, saved) ==
    [kind |-> kind, at |-> at, body |-> at, start |-> start, end |-> end, saved |-> saved]

\* An if owes the label its test goes to.
LEMMA IfBeginPreserves == IInv /\ IfBegin => IInv'
<1> SUFFICES ASSUME IInv, IfBegin PROVE IInv'
  OBVIOUS
<1>1. Reads("if") /\ stack # <<>>
  BY DEF IfBegin, Statement, InFunction
<1>2. prog' \in Seq({"fun", "end", "else"} \cup Simple \cup Compound) /\ Here \in Nat
  BY <1>1, ReadsTyped DEF IInv, Compound
<1>3. labelcounter \in Nat /\ stack \in Seq(Frame)
  BY DEF IInv, TypeOK
<1> DEFINE l == labelcounter
           next == labelcounter + 1
           f == FrameOf("if", Here, l, l, NULL)
           s == <<Test(l, Here)>>
<1>4. l \in Nat /\ next \in Nat /\ l < next /\ labelcounter <= l /\ labelcounter <= next
  BY <1>3
<1>5. f \in Frame /\ f.kind = "if" /\ f.end = l
  BY <1>2, <1>4 DEF FrameOf, Frame, Label, Compound
<1>6. s \in Seq(Instr) /\ DOMAIN s = {1} /\ s[1].op = "BZ" /\ s[1].label = l
  BY <1>2, <1>4, TestFacts, OneInstr
<1>7. /\ stack' = Append(stack, f) /\ code' = code \o s /\ labelcounter' = next
      /\ UNCHANGED <<current_break_label, crashed>>
  BY DEF IfBegin, Open, FrameOf, Emit, genlabels
<1> HIDE DEF f, s, next, l
<1>8. Pending(f) = {l}
  BY <1>5 DEF Pending, Unknown
<1>9. \A k \in DOMAIN s : ~IsEnd(s[k]) /\ ~IsLabel(s[k]) /\ s[k].label = l
  BY <1>6 DEF IsEnd, IsLabel
<1>10. Core(code \o s, Owed(Append(stack, f)), HeadsOf(Append(stack, f)), next)
       /\ StackOK(Append(stack, f))
  <2>1. Unique(s)
    BY <1>9 DEF Unique
  <2>2. QED
    BY <1>1, <1>4, <1>5, <1>6, <1>8, <1>9, <2>1, Opened
<1>11. BreakOK(Append(stack, f), current_break_label)
  BY <1>3, <1>5, PushBreak DEF IInv
<1>12. QED
  BY <1>2, <1>4, <1>5, <1>7, <1>10, <1>11 DEF IInv, TypeOK, StackOK, Core

\* An if with an else owes two labels, one for each half.
LEMMA IfElseBeginPreserves == IInv /\ IfElseBegin => IInv'
<1> SUFFICES ASSUME IInv, IfElseBegin PROVE IInv'
  OBVIOUS
<1>1. Reads("ifElse") /\ stack # <<>>
  BY DEF IfElseBegin, Statement, InFunction
<1>2. prog' \in Seq({"fun", "end", "else"} \cup Simple \cup Compound) /\ Here \in Nat
  BY <1>1, ReadsTyped DEF IInv, Compound
<1>3. labelcounter \in Nat /\ stack \in Seq(Frame)
  BY DEF IInv, TypeOK
<1> DEFINE l == labelcounter
           m == labelcounter + 1
           next == labelcounter + 2
           f == FrameOf("ifElse", Here, l, m, NULL)
           s == <<Test(l, Here)>>
<1>4. /\ l \in Nat /\ m \in Nat /\ next \in Nat /\ l # m /\ l < next /\ m < next
      /\ labelcounter <= l /\ labelcounter <= m /\ labelcounter <= next
  BY <1>3
<1>6. s \in Seq(Instr) /\ DOMAIN s = {1} /\ s[1].op = "BZ" /\ s[1].label = l
  BY <1>2, <1>4, TestFacts, OneInstr
<1>7. /\ stack' = Append(stack, f) /\ code' = code \o s /\ labelcounter' = next
      /\ UNCHANGED <<current_break_label, crashed>>
  BY DEF IfElseBegin, Open, FrameOf, Emit, genlabels
<1> HIDE DEF s, next, l, m
<1>5. f \in Frame /\ f.kind = "ifElse" /\ f.start = l /\ f.end = m
  BY <1>2, <1>4 DEF FrameOf, Frame, Label, Compound
<1> HIDE DEF f
<1>8. Pending(f) = {l, m}
  BY <1>5 DEF Pending, Unknown
<1>9. \A k \in DOMAIN s : ~IsEnd(s[k]) /\ ~IsLabel(s[k]) /\ s[k].label = l
  BY <1>6 DEF IsEnd, IsLabel
<1>10. Core(code \o s, Owed(Append(stack, f)), HeadsOf(Append(stack, f)), next)
       /\ StackOK(Append(stack, f))
  <2>1. Unique(s)
    BY <1>9 DEF Unique
  <2>2. QED
    BY <1>1, <1>4, <1>5, <1>6, <1>8, <1>9, <2>1, Opened
<1>11. BreakOK(Append(stack, f), current_break_label)
  BY <1>3, <1>5, PushBreak DEF IInv
<1>12. QED
  BY <1>2, <1>4, <1>5, <1>7, <1>10, <1>11 DEF IInv, TypeOK, StackOK, Core

\* A loop of a kind generate_code knows, after one instruction or none.
LEMMA LoopHeadPreserves ==
  ASSUME IInv, NEW kind \in {"while", "for", "range"},
         NEW before \in {<<>>, <<Act(Here, "init")>>}, LoopHead(kind, before),
         current_break_label' = IF kind \in {"while", "for"} THEN labelcounter + 1
                                ELSE current_break_label
  PROVE  IInv'
<1>1. Reads(kind) /\ stack # <<>>
  BY DEF LoopHead, Statement, InFunction
<1>2. prog' \in Seq({"fun", "end", "else"} \cup Simple \cup Compound) /\ Here \in Nat
  BY <1>1, ReadsTyped DEF IInv, Compound, Loops
<1>3. labelcounter \in Nat /\ stack \in Seq(Frame) /\ current_break_label \in Nat \cup {NULL}
  BY DEF IInv, TypeOK, Label
<1> DEFINE l == labelcounter
           m == labelcounter + 1
           next == labelcounter + 2
           f == FrameOf(kind, Here, l, m, current_break_label)
           s == before \o <<I("LABEL", l), Test(m, Here)>>
<1>4. /\ l \in Nat /\ m \in Nat /\ next \in Nat /\ l # m /\ l < next /\ m < next
      /\ labelcounter <= l /\ labelcounter <= m /\ labelcounter <= next
  BY <1>3
<1>7. /\ stack' = Append(stack, f) /\ code' = code \o s /\ labelcounter' = next
      /\ current_break_label' = (IF kind \in {"while", "for"} THEN m ELSE current_break_label)
      /\ crashed' = crashed
  BY DEF LoopHead, Open, FrameOf, Emit, genlabels
<1> HIDE DEF next, l, m
<1>5. f \in Frame /\ f.kind = kind /\ f.start = l /\ f.end = m /\ f.saved = current_break_label
  BY <1>2, <1>3, <1>4 DEF FrameOf, Frame, Label, Compound, Loops
<1> HIDE DEF f
<1>6. /\ s \in Seq(Instr)
      /\ \A k \in DOMAIN s : \/ s[k].op = "DO"
                              \/ (s[k].op = "LABEL" /\ s[k].label = l /\ k = Len(before) + 1)
                              \/ (s[k].op = "BZ" /\ s[k].label = m)
      /\ \E k \in DOMAIN s : s[k].op = "LABEL" /\ s[k].label = l
  <2> DEFINE y == I("LABEL", l)
             z == Test(m, Here)
             x == Act(Here, "init")
  <2>1. /\ y \in Instr /\ y.op = "LABEL" /\ y.label = l
        /\ z \in Instr /\ z.op = "BZ" /\ z.label = m
        /\ x \in Instr /\ x.op = "DO"
    BY <1>2, <1>4, IFacts, TestFacts, ActFacts
  <2>2. s = before \o <<y, z>> /\ before \in {<<>>, <<x>>}
    OBVIOUS
  <2> HIDE DEF x, y, z, s
  <2>3. CASE before = <<>>
    <3>1. s = <<y, z>> /\ Len(before) + 1 = 1
      BY <2>1, <2>2, <2>3, PairAfter
    <3>2. s \in Seq(Instr) /\ DOMAIN s = {1, 2} /\ s[1] = y /\ s[2] = z
      BY <2>1, <3>1, TwoInstrs
    <3>3. \A k \in DOMAIN s : (k = Len(before) + 1 /\ s[k] = y) \/ s[k] = z
      <4>1. \A k \in DOMAIN s : k = 1 \/ k = 2 \/ k = 3
        BY <3>2
      <4>2. QED
        BY <3>1, <3>2, <4>1
    <3>4. \E k \in DOMAIN s : s[k] = y
      BY <3>2
    <3>5. QED
      BY <2>1, <3>2, <3>3, <3>4
  <2>4. CASE before = <<x>>
    <3>1. s = <<x, y, z>> /\ Len(before) + 1 = 2
      BY <2>1, <2>2, <2>4, PairAfterOne
    <3>2. s \in Seq(Instr) /\ DOMAIN s = {1, 2, 3} /\ s[1] = x /\ s[2] = y /\ s[3] = z
      BY <2>1, <3>1, ThreeInstrs
    <3>3. \A k \in DOMAIN s : s[k] = x \/ (k = Len(before) + 1 /\ s[k] = y) \/ s[k] = z
      <4>1. \A k \in DOMAIN s : k = 1 \/ k = 2 \/ k = 3
        BY <3>2
      <4>2. QED
        BY <3>1, <3>2, <4>1
    <3>4. \E k \in DOMAIN s : s[k] = y
      BY <3>2
    <3>5. QED
      BY <2>1, <3>2, <3>3, <3>4
  <2>5. QED
    BY <2>2, <2>3, <2>4
<1> HIDE DEF s
<1>8. Pending(f) = {m}
  BY <1>5 DEF Pending, Unknown
<1>9. \A k \in DOMAIN s :
         /\ ~IsEnd(s[k])
         /\ IsLabel(s[k]) => s[k].label = l /\ k = Len(before) + 1
         /\ IsBranch(s[k]) => s[k].label = m
  BY <1>6 DEF IsEnd, IsLabel, IsBranch
<1>10. Core(code \o s, Owed(Append(stack, f)), HeadsOf(Append(stack, f)), next)
       /\ StackOK(Append(stack, f))
  <2>1. Unique(s)
    BY <1>9 DEF Unique
  <2>2. Puts(s, l)
    BY <1>6 DEF Puts, IsLabel
  <2>3. f.kind # "fun" /\ f.kind # "ifElse"
    BY <1>5
  <2>4. \A j \in DOMAIN s : IsLabel(s[j]) => s[j].label \notin Pending(f)
    BY <1>4, <1>8, <1>9
  <2>5. \A j \in DOMAIN s : IsBranch(s[j]) => s[j].label \in Pending(f)
    BY <1>8, <1>9
  <2>6. \A j \in DOMAIN s : IsLabel(s[j]) =>
            s[j].label \in Nat /\ labelcounter <= s[j].label /\ s[j].label < next
    BY <1>4, <1>9
  <2>7. \A p \in Pending(f) : p \in Nat /\ labelcounter <= p /\ p < next
    BY <1>4, <1>8
  <2>8. \A j \in DOMAIN s : ~IsEnd(s[j])
    BY <1>9
  <2>9. QED
    BY <1>1, <1>4, <1>5, <1>6, <2>1, <2>2, <2>3, <2>4, <2>5, <2>6, <2>7, <2>8, Opened
<1>11. BreakOK(Append(stack, f), current_break_label')
  BY <1>3, <1>5, <1>7, PushBreak DEF IInv
<1>12. current_break_label' \in Label \cup {NULL}
  BY <1>3, <1>4, <1>7 DEF Label
<1>13. QED
  BY <1>2, <1>4, <1>5, <1>7, <1>10, <1>11, <1>12 DEF IInv, TypeOK, StackOK, Core

\* A loop generate_code has no case for.
LEMMA UnknownBeginPreserves ==
  ASSUME IInv, NEW kind \in Unknown, NEW before \in {<<>>, <<Act(Here, "init")>>},
         UnknownBegin(kind, before)
  PROVE  IInv'
<1>1. Reads(kind) /\ stack # <<>>
  BY DEF UnknownBegin, Statement, InFunction
<1>2. prog' \in Seq({"fun", "end", "else"} \cup Simple \cup Compound) /\ Here \in Nat
  BY <1>1, ReadsTyped DEF IInv, Compound, Loops, Unknown
<1>3. labelcounter \in Nat /\ stack \in Seq(Frame)
  BY DEF IInv, TypeOK
<1> DEFINE f == FrameOf(kind, Here, labelcounter, labelcounter, NULL)
<1>5. f \in Frame /\ f.kind = kind
  BY <1>2, <1>3 DEF FrameOf, Frame, Label, Compound, Loops, Unknown
<1>6. before \in Seq(Instr) /\ \A k \in DOMAIN before : before[k].op = "DO"
  <2>1. CASE before = <<>>
    BY <2>1
  <2>2. CASE before = <<Act(Here, "init")>>
    BY <1>2, <2>2, ActFacts, OneInstr
  <2>3. QED
    BY <2>1, <2>2
<1>7. /\ stack' = Append(stack, f) /\ code' = code \o before
      /\ UNCHANGED <<labelcounter, current_break_label, crashed>>
  BY DEF UnknownBegin, Open, FrameOf, Emit
<1> HIDE DEF f
<1>8. Pending(f) = {} /\ f.kind # "fun" /\ f.kind # "ifElse" /\ f.kind \notin {"while", "for", "range"}
  BY <1>5 DEF Pending, Unknown
<1>9. \A k \in DOMAIN before : ~IsEnd(before[k]) /\ ~IsLabel(before[k]) /\ ~IsBranch(before[k])
  BY <1>6 DEF IsEnd, IsLabel, IsBranch
<1>10. Core(code \o before, Owed(Append(stack, f)), HeadsOf(Append(stack, f)), labelcounter)
       /\ StackOK(Append(stack, f))
  <2>1. Unique(before)
    BY <1>9 DEF Unique
  <2>2. labelcounter <= labelcounter
    BY <1>3
  <2>3. QED
    BY <1>1, <1>3, <1>5, <1>6, <1>8, <1>9, <2>1, <2>2, Opened
<1>11. BreakOK(Append(stack, f), current_break_label)
  BY <1>3, <1>5, <1>8, PushBreak DEF IInv
<1>12. QED
  BY <1>2, <1>5, <1>7, <1>10, <1>11 DEF IInv, TypeOK, StackOK, Core

\* What the step after a body leaves typed.
LEMMA EndTyped ==
  ASSUME IInv, Reads("end"), stack # <<>>
  PROVE  /\ prog' \in Seq({"fun", "end", "else"} \cup Simple \cup Compound)
         /\ labelcounter \in Nat /\ stack \in Seq(Frame) /\ Inner \in Frame
         /\ Len(stack) \in DOMAIN stack
<1>1. TypeOK
  BY DEF IInv
<1>2. stack \in Seq(Frame) /\ labelcounter \in Nat
  BY <1>1 DEF TypeOK
<1>3. Inner \in Frame /\ Len(stack) \in DOMAIN stack
  BY <1>2 DEF Inner
<1>4. QED
  BY <1>1, <1>2, <1>3, ReadsTyped

\* The end of an if places the label it owes.
LEMMA IfEndPreserves == IInv /\ IfEnd => IInv'
<1> SUFFICES ASSUME IInv, IfEnd PROVE IInv'
  OBVIOUS
<1>1. Reads("end") /\ stack # <<>> /\ Inner.kind \in {"if", "else"}
  BY DEF IfEnd, Closes, InFunction
<1>2. /\ prog' \in Seq({"fun", "end", "else"} \cup Simple \cup Compound)
      /\ labelcounter \in Nat /\ stack \in Seq(Frame) /\ Inner \in Frame
  BY <1>1, EndTyped
<1> DEFINE l == Inner.end
           s == <<I("LABEL", l)>>
<1>3. l \in Nat
  BY <1>2 DEF Frame, Label
<1>4. s \in Seq(Instr) /\ DOMAIN s = {1} /\ s[1].op = "LABEL" /\ s[1].label = l
  BY <1>3, IFacts, OneInstr
<1>5. /\ stack' = Pop /\ code' = code \o s
      /\ UNCHANGED <<labelcounter, current_break_label, crashed>>
  BY DEF IfEnd, Emit
<1>6. Pending(Inner) = {l}
  BY <1>1 DEF Pending, Unknown
<1> HIDE DEF l, s
<1>7. \A k \in DOMAIN s : ~IsEnd(s[k]) /\ ~IsBranch(s[k]) /\ s[k].label = l /\ k = 1
  BY <1>4 DEF IsEnd, IsBranch
<1>8. Core(code \o s, Owed(Pop), HeadsOf(Pop), labelcounter) /\ StackOK(Pop)
  <2>1. Unique(s)
    BY <1>7 DEF Unique
  <2>2. Puts(s, l)
    BY <1>4 DEF Puts, IsLabel
  <2>3. QED
    BY <1>1, <1>4, <1>6, <1>7, <2>1, <2>2, Closed
<1>9. BreakOK(Pop, current_break_label)
  BY <1>1, <1>2, PopBreak DEF IInv, Pop, Inner
<1>10. QED
  BY <1>2, <1>5, <1>8, <1>9 DEF IInv, TypeOK, StackOK, Core

\* The else places the first label owed, and branches to the second.
LEMMA ElsePreserves == IInv /\ Else => IInv'
<1> SUFFICES ASSUME IInv, Else PROVE IInv'
  OBVIOUS
<1>1. Reads("else") /\ stack # <<>> /\ Inner.kind = "ifElse"
  BY DEF Else, Closes, InFunction
<1>2. prog' \in Seq({"fun", "end", "else"} \cup Simple \cup Compound) /\ Here \in Nat
  BY <1>1, ReadsTyped DEF IInv
<1>3. labelcounter \in Nat /\ stack \in Seq(Frame) /\ Inner \in Frame
  BY <1>1 DEF IInv, TypeOK, Inner
<1> DEFINE l == Inner.start
           m == Inner.end
           f == [Inner EXCEPT !.kind = "else", !.body = Here]
           q == [stack EXCEPT ![Len(stack)] = f]
           s == <<I("BR", m), I("LABEL", l)>>
<1>4. l \in Nat /\ m \in Nat
  BY <1>3 DEF Frame, Label
<1>5. f \in Frame /\ f.kind = "else" /\ f.end = m
  BY <1>2, <1>3 DEF Frame
<1>6. stack' = q /\ code' = code \o s /\ UNCHANGED <<labelcounter, current_break_label, crashed>>
  BY DEF Else, Emit
<1> DEFINE x == I("BR", m)
           y == I("LABEL", l)
<1>7. /\ s \in Seq(Instr) /\ DOMAIN s = {1, 2}
      /\ s[1].op = "BR" /\ s[1].label = m /\ s[2].op = "LABEL" /\ s[2].label = l
  <2>1. /\ x \in Instr /\ x.op = "BR" /\ x.label = m
        /\ y \in Instr /\ y.op = "LABEL" /\ y.label = l
    BY <1>4, IFacts
  <2> HIDE DEF x, y
  <2>2. QED
    BY <2>1, TwoInstrs DEF x, y
<1> HIDE DEF s, f, x, y
<1>8. /\ StackOK(q)
      /\ Owed(q) = Owed(stack) \ {l}
      /\ HeadsOf(q) \subseteq HeadsOf(stack)
      /\ l \in Owed(stack) /\ m \in Owed(q)
  BY <1>1, <1>3, <1>5, Halved DEF IInv, Inner
<1>9. BreakOK(q, current_break_label)
  <2>1. /\ q \in Seq(Frame) /\ Len(stack) >= 1 /\ Len(q) = Len(stack)
        /\ \A i \in 1 .. Len(stack) - 1 : q[i] = stack[i]
        /\ q[Len(stack)] = f
    BY <1>1, <1>3, <1>5, SwapFacts
  <2>2. stack[Len(stack)].kind \notin {"while", "for"} /\ q[Len(stack)].kind \notin {"while", "for"}
    BY <1>1, <1>5, <2>1 DEF Inner
  <2> HIDE DEF q
  <2>3. QED
    BY <1>3, <2>1, <2>2, ReplaceBreak DEF IInv
<1> HIDE DEF q, l, m
<1>10. Core(code \o s, Owed(q), HeadsOf(q), labelcounter)
  <2>1. \A k \in DOMAIN s : /\ ~IsEnd(s[k])
                              /\ (IsLabel(s[k]) => s[k].label = l /\ k = 2)
                              /\ (IsBranch(s[k]) => s[k].label = m)
    BY <1>7 DEF IsEnd, IsLabel, IsBranch
  <2>2. Unique(s) /\ Puts(s, l)
    BY <1>7, <2>1 DEF Unique, Puts, IsLabel
  <2>3. \A p \in Owed(stack) : p \in Nat /\ p < labelcounter
    BY DEF IInv, Core, Waiting
  <2>4. Chunk(s, Owed(stack), HeadsOf(stack), labelcounter, Owed(q), HeadsOf(q), labelcounter)
    BY <1>3, <1>7, <1>8, <2>1, <2>2, <2>3 DEF Chunk
  <2>5. QED
    BY <2>4, Grow DEF IInv
<1>11. QED
  BY <1>2, <1>3, <1>6, <1>8, <1>9, <1>10 DEF IInv, TypeOK, StackOK, Core

\* The end of a loop of a kind generate_code knows.
LEMMA LoopTailPreserves ==
  ASSUME IInv, stack # <<>>, Inner.kind \in {"while", "for", "range"},
         NEW after \in {<<>>, <<Act(Inner.at, "step")>>}, LoopTail(after),
         current_break_label' = IF Inner.kind \in {"while", "for"} THEN Inner.saved
                                ELSE current_break_label
  PROVE  IInv'
<1>1. Reads("end")
  BY DEF LoopTail
<1>2. /\ prog' \in Seq({"fun", "end", "else"} \cup Simple \cup Compound)
      /\ labelcounter \in Nat /\ stack \in Seq(Frame) /\ Inner \in Frame
      /\ Len(stack) \in DOMAIN stack
  BY <1>1, EndTyped
<1> DEFINE l == Inner.start
           m == Inner.end
           s == after \o <<I("BR", l), I("LABEL", m)>>
<1>3. l \in Nat /\ m \in Nat /\ Inner.at \in Nat /\ Inner.saved \in Label \cup {NULL}
  BY <1>2 DEF Frame, Label
<1>4. stack' = Pop /\ code' = code \o s /\ UNCHANGED <<labelcounter, crashed>>
  BY DEF LoopTail, Emit
<1>5. Pending(Inner) = {m} /\ l \in HeadsOf(stack)
  BY <1>2 DEF Pending, Unknown, HeadsOf, Inner
<1> DEFINE x == Act(Inner.at, "step")
           y == I("BR", l)
           z == I("LABEL", m)
<1>6. /\ y \in Instr /\ y.op = "BR" /\ y.label = l
      /\ z \in Instr /\ z.op = "LABEL" /\ z.label = m
      /\ x \in Instr /\ x.op = "DO"
  BY <1>3, IFacts, ActFacts
<1>7. s = after \o <<y, z>> /\ after \in {<<>>, <<x>>}
  OBVIOUS
<1> HIDE DEF x, y, z, s, l, m
<1>8. /\ s \in Seq(Instr)
      /\ \A k \in DOMAIN s : s[k] = x \/ s[k] = y \/ (k = Len(after) + 2 /\ s[k] = z)
      /\ \E k \in DOMAIN s : s[k] = z
  <2>1. CASE after = <<>>
    <3>1. s = <<y, z>> /\ Len(after) + 2 = 2
      BY <1>6, <1>7, <2>1, PairAfter
    <3>2. s \in Seq(Instr) /\ DOMAIN s = {1, 2} /\ s[1] = y /\ s[2] = z
      BY <1>6, <3>1, TwoInstrs
    <3>3. \A k \in DOMAIN s : k = 1 \/ k = 2
      BY <3>2
    <3>4. QED
      BY <3>1, <3>2, <3>3
  <2>2. CASE after = <<x>>
    <3>1. s = <<x, y, z>> /\ Len(after) + 2 = 3
      BY <1>6, <1>7, <2>2, PairAfterOne
    <3>2. s \in Seq(Instr) /\ DOMAIN s = {1, 2, 3} /\ s[1] = x /\ s[2] = y /\ s[3] = z
      BY <1>6, <3>1, ThreeInstrs
    <3>3. \A k \in DOMAIN s : k = 1 \/ k = 2 \/ k = 3
      BY <3>2
    <3>4. QED
      BY <3>1, <3>2, <3>3
  <2>3. QED
    BY <1>7, <2>1, <2>2
<1>9. \A k \in DOMAIN s :
         /\ ~IsEnd(s[k])
         /\ IsLabel(s[k]) => s[k].label = m /\ k = Len(after) + 2
         /\ IsBranch(s[k]) => s[k].label = l
  BY <1>6, <1>8 DEF IsEnd, IsLabel, IsBranch
<1>10. Core(code \o s, Owed(Pop), HeadsOf(Pop), labelcounter) /\ StackOK(Pop)
  <2>1. Unique(s)
    BY <1>9 DEF Unique
  <2>2. Puts(s, m)
    BY <1>6, <1>8 DEF Puts, IsLabel
  <2>3. QED
    BY <1>5, <1>8, <1>9, <2>1, <2>2, Closed
<1>11. BreakOK(Pop, current_break_label')
  <2> DEFINE b == IF Inner.kind \in {"while", "for"} THEN Inner.saved ELSE current_break_label
  <2>1. BreakOK(stack, current_break_label) /\ current_break_label' = b
    BY DEF IInv
  <2>2. b = IF stack[Len(stack)].kind \in {"while", "for"} THEN stack[Len(stack)].saved
            ELSE current_break_label
    BY DEF Inner
  <2> HIDE DEF b
  <2>3. stack \in Seq(Frame) /\ stack # <<>> /\ Pop = SubSeq(stack, 1, Len(stack) - 1)
    BY <1>2 DEF Pop
  <2>5. BreakOK(Pop, b)
    BY <2>1, <2>2, <2>3, PopBreak
  <2>4. QED
    BY <2>1, <2>5
<1>12. current_break_label' \in Label \cup {NULL}
  BY <1>3 DEF IInv, TypeOK
<1>13. QED
  BY <1>2, <1>4, <1>10, <1>11, <1>12 DEF IInv, TypeOK, StackOK, Core

\* The end of a loop without labels adds none.
LEMMA UnknownEndPreserves ==
  ASSUME IInv, NEW kind \in Unknown, NEW after \in {<<>>, <<Act(Inner.at, "test")>>},
         UnknownEnd(kind, after)
  PROVE  IInv'
<1>1. Reads("end") /\ stack # <<>> /\ Inner.kind = kind
  BY DEF UnknownEnd, Closes, InFunction
<1>2. /\ prog' \in Seq({"fun", "end", "else"} \cup Simple \cup Compound)
      /\ labelcounter \in Nat /\ stack \in Seq(Frame) /\ Inner \in Frame
  BY <1>1, EndTyped
<1>3. after \in Seq(Instr) /\ \A k \in DOMAIN after : after[k].op = "DO"
  <2>1. CASE after = <<>>
    BY <2>1
  <2>2. CASE after = <<Act(Inner.at, "test")>>
    <3>1. Inner.at \in Nat
      BY <1>2 DEF Frame
    <3>2. QED
      BY <2>2, <3>1, ActFacts, OneInstr
  <2>3. QED
    BY <2>1, <2>2
<1>4. /\ stack' = Pop /\ code' = code \o after
      /\ UNCHANGED <<labelcounter, current_break_label, crashed>>
  BY DEF UnknownEnd, Emit
<1>5. Pending(Inner) = {} /\ Inner.kind \notin {"while", "for"}
  BY <1>1 DEF Pending, Unknown
<1>6. \A k \in DOMAIN after : ~IsEnd(after[k]) /\ ~IsLabel(after[k]) /\ ~IsBranch(after[k])
  BY <1>3 DEF IsEnd, IsLabel, IsBranch
<1>7. Core(code \o after, Owed(Pop), HeadsOf(Pop), labelcounter) /\ StackOK(Pop)
  <2>1. Unique(after)
    BY <1>6 DEF Unique
  <2>2. QED
    BY <1>1, <1>3, <1>5, <1>6, <2>1, Closed
<1>8. BreakOK(Pop, current_break_label)
  BY <1>1, <1>2, <1>5, PopBreak DEF IInv, Pop, Inner
<1>9. QED
  BY <1>2, <1>4, <1>7, <1>8 DEF IInv, TypeOK, StackOK, Core

\* A function begins with no construct open.
LEMMA FunctionBeginPreserves == IInv /\ FunctionBegin => IInv'
<1> SUFFICES ASSUME IInv, FunctionBegin PROVE IInv'
  OBVIOUS
<1>1. Reads("fun") /\ stack = <<>>
  BY DEF FunctionBegin, InFunction
<1>2. prog' \in Seq({"fun", "end", "else"} \cup Simple \cup Compound) /\ Here \in Nat
  BY <1>1, ReadsTyped DEF IInv
<1>3. labelcounter \in Nat /\ stack \in Seq(Frame)
  BY DEF IInv, TypeOK
<1> DEFINE l == labelcounter
           next == labelcounter + 1
           f == FrameOf("fun", Here, l, l, NULL)
           r == [op |-> "PROC", label |-> l, src |-> <<Here, "entry">>]
           q == Append(stack, f)
<1>4. next \in Nat /\ labelcounter <= next
  BY <1>3
<1>5. f \in Frame /\ f.kind = "fun"
  BY <1>2, <1>3 DEF FrameOf, Frame, Label
<1>6. r \in Instr /\ r.op = "PROC"
  BY <1>2, <1>3 DEF Instr, Point, Place, Label
<1>7. /\ stack' = q /\ code' = code \o <<r>> /\ labelcounter' = next
      /\ UNCHANGED <<current_break_label, crashed>>
  BY DEF FunctionBegin, Open, FrameOf, Emit, genlabels
<1> HIDE DEF f, r, next
<1>8. q \in Seq(Frame) /\ DOMAIN q = {1} /\ q[1] = f
  <2>1. q = <<f>>
    BY <1>1, <1>5
  <2>2. QED
    BY <1>5, <2>1
<1> HIDE DEF q
<1>9. StackOK(q) /\ Owed(q) = {} /\ HeadsOf(q) = {}
  BY <1>5, <1>8 DEF StackOK, Owed, Pending, HeadsOf
<1>10. Owed(stack) = {} /\ HeadsOf(stack) = {}
  BY <1>1 DEF Owed, HeadsOf
<1>11. BreakOK(q, current_break_label)
  BY <1>3, <1>5, PushBreak DEF IInv, q
<1>12. Core(code \o <<r>>, {}, {}, next)
  <2> DEFINE s == <<r>>
  <2>1. s \in Seq(Instr) /\ DOMAIN s = {1} /\ s[1] = r
    BY <1>6, OneInstr
  <2> HIDE DEF s
  <2>2. \A k \in DOMAIN s : ~IsEnd(s[k]) /\ ~IsLabel(s[k]) /\ ~IsBranch(s[k])
    BY <1>6, <2>1 DEF IsEnd, IsLabel, IsBranch
  <2>3. Chunk(s, {}, {}, labelcounter, {}, {}, next)
    BY <1>3, <1>4, <2>1, <2>2 DEF Chunk, Unique
  <2>4. QED
    BY <1>10, <2>3, Grow DEF IInv, s
<1>13. QED
  BY <1>2, <1>4, <1>7, <1>8, <1>9, <1>11, <1>12 DEF IInv, TypeOK, Core

\* A function ends with no label owed, so no branch of it is left over.
LEMMA FunctionEndPreserves == IInv /\ FunctionEnd => IInv'
<1> SUFFICES ASSUME IInv, FunctionEnd PROVE IInv'
  OBVIOUS
<1>1. Reads("end") /\ stack # <<>> /\ Inner.kind = "fun"
  BY DEF FunctionEnd, InFunction
<1>2. /\ prog' \in Seq({"fun", "end", "else"} \cup Simple \cup Compound)
      /\ labelcounter \in Nat /\ stack \in Seq(Frame) /\ Inner \in Frame
      /\ Len(stack) \in DOMAIN stack
  BY <1>1, EndTyped
<1> DEFINE x == I("RET", NULL)
           y == I("END", Inner.end)
           s == IF code[Len(code)].op = "RET" THEN <<y>> ELSE <<x, y>>
<1>3. /\ stack' = Pop /\ code' = code \o s
      /\ UNCHANGED <<labelcounter, current_break_label, crashed>>
  BY DEF FunctionEnd, Emit
<1>4. x \in Instr /\ x.op = "RET" /\ y \in Instr /\ y.op = "END"
  <2>1. Inner.end \in Nat
    BY <1>2 DEF Frame, Label
  <2>2. x \in Instr /\ x.op = "RET"
    BY DEF Instr, Point, Place, I
  <2>3. QED
    BY <2>1, <2>2, IFacts
<1>5. s \in Seq(Instr) /\ \A k \in DOMAIN s : ~IsLabel(s[k]) /\ ~IsBranch(s[k])
  <2>1. s = <<y>> \/ s = <<x, y>>
    OBVIOUS
  <2> HIDE DEF s, x, y
  <2>3. CASE s = <<y>>
    BY <1>4, <2>3, OneInstr DEF IsLabel, IsBranch
  <2>4. CASE s = <<x, y>>
    <3>1. s \in Seq(Instr) /\ DOMAIN s = {1, 2} /\ s[1] = x /\ s[2] = y
      BY <1>4, <2>4, TwoInstrs
    <3>2. QED
      BY <1>4, <3>1 DEF IsLabel, IsBranch
  <2>5. QED
    BY <2>1, <2>3, <2>4
<1> HIDE DEF s
\* Only the function itself is open.
<1>6. DOMAIN stack = {1} /\ stack[1] = Inner
  <2>1. Len(stack) = 1
    BY <1>1, <1>2 DEF IInv, StackOK, Inner
  <2>2. QED
    BY <1>2, <2>1 DEF Inner
<1>7. Owed(stack) = {} /\ HeadsOf(stack) = {}
  BY <1>1, <1>6 DEF Owed, Pending, HeadsOf
<1>8. StackOK(Pop) /\ Owed(Pop) = {} /\ HeadsOf(Pop) = {}
  BY <1>1, <1>7, Popped DEF IInv, Pop, Inner
<1>9. BreakOK(Pop, current_break_label)
  BY <1>1, <1>2, PopBreak DEF IInv, Pop, Inner
<1>10. Core(code \o s, {}, {}, labelcounter)
  BY <1>5, <1>7, Ended DEF IInv
<1>11. QED
  BY <1>2, <1>3, <1>8, <1>9, <1>10 DEF IInv, TypeOK, StackOK, Core

\* Steps that add no instruction.
LEMMA QuietPreserves ==
  ASSUME IInv, NEW op \in {"fun", "end", "else"} \cup Simple \cup Compound, Reads(op),
         UNCHANGED <<code, stack, labelcounter, current_break_label>>, crashed' \in BOOLEAN
  PROVE  IInv'
BY ReadsTyped DEF IInv, TypeOK

\* An empty file satisfies the invariant.
LEMMA InitInv == Init => IInv
<1> SUFFICES ASSUME Init PROVE IInv
  OBVIOUS
<1>1. TypeOK
  <2>1. \A S : <<>> \in Seq(S)
    OBVIOUS
  <2>2. QED
    BY <2>1 DEF Init, TypeOK
<1>2. StackOK(stack) /\ Owed(stack) = {} /\ HeadsOf(stack) = {}
  BY DEF Init, StackOK, Owed, HeadsOf
<1>3. BreakOK(stack, current_break_label)
  BY DEF Init, BreakOK, BreakIs
<1>4. Core(code, {}, {}, labelcounter)
  BY DEF Init, Core, Unique, Counted, Waiting, Reached, Near, Inside, Heads
<1>5. QED
  BY <1>1, <1>2, <1>3, <1>4 DEF IInv

\* Every step of the generator keeps the invariant.
LEMMA NextInv == IInv /\ [Next]_vars => IInv'
<1> SUFFICES ASSUME IInv, [Next]_vars PROVE IInv'
  OBVIOUS
<1>1. CASE UNCHANGED vars
  BY <1>1 DEF IInv, TypeOK, vars
<1>2. CASE FunctionBegin
  BY <1>2, FunctionBeginPreserves
<1>3. CASE FunctionEnd
  BY <1>3, FunctionEndPreserves
<1>4. CASE Straight
  BY <1>4, StraightPreserves
<1>5. CASE ArrayDeclaration
  BY <1>5, ArrayDeclarationPreserves
<1>6. CASE Break
  BY <1>6, BreakPreserves
<1>7. CASE Continue
  <2>1. Reads("continue") /\ UNCHANGED <<code, stack, labelcounter, current_break_label, crashed>>
    BY <1>7 DEF Continue, Statement
  <2>2. crashed' \in BOOLEAN
    BY <2>1 DEF IInv, TypeOK
  <2>3. QED
    BY <2>1, <2>2, QuietPreserves DEF Simple
<1>8. CASE Return
  BY <1>8, ReturnPreserves
<1>9. CASE IfBegin
  BY <1>9, IfBeginPreserves
<1>10. CASE IfElseBegin
  BY <1>10, IfElseBeginPreserves
<1>11. CASE WhileBegin
  BY <1>11, LoopHeadPreserves DEF WhileBegin
<1>12. CASE ForBegin
  BY <1>12, LoopHeadPreserves DEF ForBegin
<1>13. CASE ForIncomplete
  <2>1. Reads("for") /\ UNCHANGED <<code, stack, labelcounter, current_break_label>> /\ crashed' = TRUE
    BY <1>13 DEF ForIncomplete, Statement
  <2>2. QED
    BY <2>1, QuietPreserves DEF Compound, Loops
<1>14. CASE RangeBegin
  BY <1>14, LoopHeadPreserves DEF RangeBegin
<1>15. CASE UntilBegin
  BY <1>15, UnknownBeginPreserves DEF UntilBegin, Unknown
<1>16. CASE DoBegin
  BY <1>16, UnknownBeginPreserves DEF DoBegin, Unknown
<1>17. CASE EmptyBlock
  <2>1. Reads("end") /\ UNCHANGED <<code, stack, labelcounter, current_break_label>> /\ crashed' = TRUE
    BY <1>17 DEF EmptyBlock
  <2>2. QED
    BY <2>1, QuietPreserves
<1>18. CASE Else
  BY <1>18, ElsePreserves
<1>19. CASE IfEnd
  BY <1>19, IfEndPreserves
<1>20. CASE WhileEnd
  BY <1>20, LoopTailPreserves DEF WhileEnd, Closes, InFunction
<1>21. CASE ForEnd
  BY <1>21, LoopTailPreserves DEF ForEnd, Closes, InFunction
<1>22. CASE RangeEnd
  BY <1>22, LoopTailPreserves DEF RangeEnd, Closes, InFunction
<1>23. CASE UntilEnd
  BY <1>23, UnknownEndPreserves DEF UntilEnd, Unknown
<1>24. CASE DoEnd
  BY <1>24, UnknownEndPreserves DEF DoEnd, Unknown
<1>25. CASE Stop
  BY <1>25 DEF Stop, vars, IInv, TypeOK
<1>26. QED
  BY <1>1, <1>2, <1>3, <1>4, <1>5, <1>6, <1>7, <1>8, <1>9, <1>10, <1>11, <1>12, <1>13, <1>14,
     <1>15, <1>16, <1>17, <1>18, <1>19, <1>20, <1>21, <1>22, <1>23, <1>24, <1>25 DEF Next

-----------------------------------------------------------------------------
\* Theorems

\* The invariant of the generator holds for programs of any size and nesting.
THEOREM Invariance == Spec => []IInv
BY InitInv, NextInv, PTL DEF Spec

\* The generator's state keeps its types (generate_code, genlabel).
THEOREM TypeCorrect == Spec => []TypeOK
<1>1. IInv => TypeOK
  BY DEF IInv
<1>2. QED
  BY Invariance, <1>1, PTL

\* No label is placed twice in a file, whatever the nesting (genlabel and the
\* D_LABEL instructions of generate_code).
THEOREM LabelsPlacedOnce == Spec => []LabelsUnique
<1>1. IInv => LabelsUnique
  BY DEF IInv, Core, Unique, IsLabel, LabelsUnique, Code
<1>2. QED
  BY Invariance, <1>1, PTL

\* Every branch has its label, placed or owed by a statement under way; in a
\* finished file every branch lands (O_BR, O_BZ and O_BNZ of generate_code).
THEOREM BranchesAlwaysLand == Spec => []BranchesLand
<1>1. IInv => BranchesLand
  BY DEF IInv, Core, Reached, Puts, IsLabel, IsBranch, BranchesLand, Branches, Placed, Code
<1>2. QED
  BY Invariance, <1>1, PTL

\* No branch, a break's included, goes to another function (generate_code and
\* its global current_break_label).
THEOREM BranchesNeverLeave == Spec => []BranchesStayInside
<1>1. IInv => BranchesStayInside
  BY DEF IInv, Core, Inside, IsLabel, IsBranch, IsEnd, BranchesStayInside, Branches, Code
<1>2. QED
  BY Invariance, <1>1, PTL

\* current_break_label is the end of the innermost while or for under way, at any
\* depth (the saves and restores around generate_code(body)).
THEOREM BreakLabelRestored == Spec => []BreakGoesToInnermost
<1>1. IInv => BreakGoesToInnermost
  BY DEF IInv, BreakOK, BreakGoesToInnermost
<1>2. QED
  BY Invariance, <1>1, PTL
-----------------------------------------------------------------------------
\* Where the code of each event is.  A layout y of the text p and the code c has,
\* by event, the depth after it, the place its code begins, its code (piece), and
\* of a construct the labels, the event that closes it and its else, 0 when none.

Opens == {"fun"} \cup Compound
Words == {"fun", "end", "else"} \cup Simple \cup Compound

Level(v, n) == IF v \in Opens THEN n + 1 ELSE IF v = "end" THEN n - 1 ELSE n

Nested(p, y) ==
    /\ y.depth \in [Nat -> Nat] /\ y.depth[0] = 0
    /\ \A i \in 1 .. Len(p) : y.depth[i] = Level(p[i], y.depth[i - 1])
                              /\ (p[i] = "fun" <=> y.depth[i - 1] = 0)

\* The construct o is open just before event i.
Around(p, y, i, o) ==
    /\ o \in 1 .. Len(p) /\ o < i /\ p[o] \in Opens
    /\ \A k \in o .. i - 1 : y.depth[k] >= y.depth[o]

LaidAt(c, a, s) == \A k \in 1 .. Len(s) : c[a + k - 1] = s[k]

Placing(p, c, y) ==
    /\ y.place \in [Nat -> Nat] /\ y.piece \in [Nat -> Seq(Instr)]
    /\ y.place[1] = 1 /\ y.place[Len(p) + 1] = Len(c) + 1
    /\ \A i \in 1 .. Len(p) : /\ y.place[i + 1] = y.place[i] + Len(y.piece[i])
                              /\ LaidAt(c, y.place[i], y.piece[i])
    /\ \A i, j \in 1 .. Len(p) + 1 : i <= j => y.place[i] <= y.place[j]
    /\ \A k \in 1 .. Len(c) : \E i \in 1 .. Len(p) : y.place[i] <= k /\ k < y.place[i + 1]

Matched(p, y) ==
    /\ y.close \in [Nat -> Nat] /\ y.els \in [Nat -> Nat]
    /\ \A o \in 1 .. Len(p) : y.close[o] # 0 =>
          /\ y.close[o] \in 1 .. Len(p) /\ p[y.close[o]] = "end"
          /\ Around(p, y, y.close[o], o)
          /\ y.depth[y.close[o]] = y.depth[o] - 1
          /\ p[o] = "ifElse" => y.els[o] # 0
    /\ \A o \in 1 .. Len(p) : y.els[o] # 0 =>
          /\ y.els[o] \in 1 .. Len(p) /\ p[y.els[o]] = "else" /\ p[o] = "ifElse"
          /\ Around(p, y, y.els[o], o)
          /\ y.depth[y.els[o]] = y.depth[o]

Fill(v, i, s, a, b) ==
    CASE v \in {"do", "value"} -> s = <<Act(i, "do")>>
      [] v = "return" -> s = <<[op |-> "RET", label |-> NULL, src |-> <<i, "do">>]>>
      [] v = "array" -> s = <<Act(i, "init"), I("LABEL", a),
                              [op |-> "BNZ", label |-> b, src |-> <<i, "test">>],
                              Act(i, "step"), I("BR", a), I("LABEL", b)>>
      [] v \in {"continue", "doWhile"} -> s = <<>>
      [] v = "fun" -> s = <<[op |-> "PROC", label |-> a, src |-> <<i, "entry">>]>>
      [] v = "if" -> s = <<Test(b, i)>>
      [] v = "ifElse" -> s = <<Test(a, i)>>
      [] v = "while" -> s = <<I("LABEL", a), Test(b, i)>>
      [] v \in {"for", "range"} -> s = <<Act(i, "init"), I("LABEL", a), Test(b, i)>>
      [] v = "until" -> s = <<Act(i, "init")>>
      [] OTHER -> TRUE

\* What break can leave.
Leavable(p, y, i) == {o \in 1 .. Len(p) : p[o] \in {"while", "for"} /\ Around(p, y, i, o)}

Leaving(p, y, i, s) ==
    \/ s = <<>> /\ Leavable(p, y, i) = {}
    \/ \E o \in Leavable(p, y, i) : s = <<I("BR", y.end[o])>>
                                    /\ \A q \in Leavable(p, y, i) : q <= o

Turning(p, y, i, s) ==
    \E o \in 1 .. Len(p) : /\ y.els[o] = i
                           /\ s = <<I("BR", y.end[o]), I("LABEL", y.start[o])>>

\* The end of a function whose last instruction is a RET already has END only.
FunEnds(c, y, i, o, s) ==
    \/ s = <<I("RET", NULL), I("END", y.end[o])>>
    \/ s = <<I("END", y.end[o])>> /\ y.place[i] > 1 /\ c[y.place[i] - 1].op = "RET"

EndFill(v, o, s, a, b) ==
    CASE v \in {"if", "ifElse"} -> s = <<I("LABEL", b)>>
      [] v = "while" -> s = <<I("BR", a), I("LABEL", b)>>
      [] v \in {"for", "range"} -> s = <<Act(o, "step"), I("BR", a), I("LABEL", b)>>
      [] v = "until" -> s = <<>>
      [] v = "doWhile" -> s = <<Act(o, "test")>>

Ends(c, y, i, o, s, v) ==
    IF v = "fun" THEN FunEnds(c, y, i, o, s) ELSE EndFill(v, o, s, y.start[o], y.end[o])

Ending(p, c, y, i, s) ==
    \E o \in 1 .. Len(p) : y.close[o] = i /\ Ends(c, y, i, o, s, p[o])

\* The code of event i is what generate_code makes of it.
Filled(p, c, y, i) ==
    /\ Fill(p[i], i, y.piece[i], y.start[i], y.end[i])
    /\ p[i] = "break" => Leaving(p, y, i, y.piece[i])
    /\ p[i] = "else" => Turning(p, y, i, y.piece[i])
    /\ p[i] = "end" => Ending(p, c, y, i, y.piece[i])

KindOf(f) == IF f.kind = "else" THEN "ifElse" ELSE f.kind

FrameIs(p, y, f, k) ==
    /\ Around(p, y, Len(p) + 1, f.at) /\ y.depth[f.at] = k
    /\ p[f.at] = KindOf(f) /\ y.close[f.at] = 0
    /\ y.start[f.at] = f.start /\ y.end[f.at] = f.end
    /\ f.kind = "ifElse" => y.els[f.at] = 0
    /\ f.kind = "else" => y.els[f.at] # 0

\* The constructs under way are those not closed.
Stacked(p, st, y) ==
    /\ st \in Seq(Frame) /\ y.depth[Len(p)] = Len(st)
    /\ \A k \in 1 .. Len(st) : FrameIs(p, y, st[k], k)
    /\ \A o \in 1 .. Len(p) : p[o] \in Opens /\ y.close[o] = 0 =>
          \E k \in 1 .. Len(st) : st[k].at = o

Layout(p, c, st, y) ==
    /\ p \in Seq(Words)
    /\ c \in Seq(Instr)
    /\ y.start \in [Nat -> Nat] /\ y.end \in [Nat -> Nat]
    /\ Nested(p, y) /\ Placing(p, c, y) /\ Matched(p, y) /\ Stacked(p, st, y)
    /\ \A i \in 1 .. Len(p) : Filled(p, c, y, i)

\* The layout after one more event v with the code s; e is the construct it
\* closes, h the one it is the else of, 0 for none.
Further(y, n, m, v, s, a, b, e, h) ==
    [depth |-> [y.depth EXCEPT ![n + 1] = Level(v, y.depth[n])],
     place |-> [y.place EXCEPT ![n + 2] = m + Len(s) + 1],
     piece |-> [y.piece EXCEPT ![n + 1] = s],
     start |-> [y.start EXCEPT ![n + 1] = a],
     end |-> [y.end EXCEPT ![n + 1] = b],
     close |-> [k \in Nat |-> IF k = e THEN n + 1 ELSE IF k = n + 1 THEN 0 ELSE y.close[k]],
     els |-> [k \in Nat |-> IF k = h THEN n + 1 ELSE IF k = n + 1 THEN 0 ELSE y.els[k]]]

\* What z keeps of y when it goes on with one more event.
GoesOn(y, z, n, m, v, s, a, b, e, h) ==
    /\ z.depth \in [Nat -> Nat] /\ z.place \in [Nat -> Nat] /\ z.piece \in [Nat -> Seq(Instr)]
    /\ z.start \in [Nat -> Nat] /\ z.end \in [Nat -> Nat]
    /\ z.close \in [Nat -> Nat] /\ z.els \in [Nat -> Nat]
    /\ \A k \in 0 .. n : z.depth[k] = y.depth[k]
    /\ z.depth[n + 1] = Level(v, y.depth[n])
    /\ \A k \in 1 .. n + 1 : z.place[k] = y.place[k]
    /\ z.place[n + 2] = m + Len(s) + 1
    /\ \A k \in 1 .. n : z.piece[k] = y.piece[k] /\ z.start[k] = y.start[k] /\ z.end[k] = y.end[k]
    /\ z.piece[n + 1] = s /\ z.start[n + 1] = a /\ z.end[n + 1] = b
    /\ \A k \in 1 .. n : z.close[k] = IF k = e THEN n + 1 ELSE y.close[k]
    /\ \A k \in 1 .. n : z.els[k] = IF k = h THEN n + 1 ELSE y.els[k]
    /\ z.close[n + 1] = 0 /\ z.els[n + 1] = 0

\* A function changed at one place.
LEMMA SetOne ==
  ASSUME NEW T, NEW f \in [Nat -> T], NEW m \in Nat, NEW x \in T, NEW g, g = [f EXCEPT ![m] = x]
  PROVE  g \in [Nat -> T] /\ g[m] = x /\ \A k \in Nat : k # m => g[k] = f[k]
OBVIOUS

\* Numbers beyond a range.
LEMMA Beyond ==
  ASSUME NEW n \in Nat
  PROVE  /\ n + 1 \in Nat /\ n + 2 \in Nat /\ \A k \in 0 .. n : k \in Nat /\ k # n + 1
         /\ \A k \in 1 .. n + 1 : k \in Nat /\ k # n + 2
         /\ \A k \in 1 .. n : k \in Nat /\ k # n + 1
OBVIOUS

\* A layout can be carried on.
LEMMA FurtherGoesOn ==
  ASSUME NEW y, NEW n \in Nat, NEW m \in Nat, NEW v, NEW s \in Seq(Instr),
         NEW a \in Nat, NEW b \in Nat, NEW e \in 0 .. n, NEW h \in 0 .. n,
         y.depth \in [Nat -> Nat], y.place \in [Nat -> Nat], y.piece \in [Nat -> Seq(Instr)],
         y.start \in [Nat -> Nat], y.end \in [Nat -> Nat],
         y.close \in [Nat -> Nat], y.els \in [Nat -> Nat], Level(v, y.depth[n]) \in Nat
  PROVE  GoesOn(y, Further(y, n, m, v, s, a, b, e, h), n, m, v, s, a, b, e, h)
<1> DEFINE z == Further(y, n, m, v, s, a, b, e, h)
<1>1. /\ z.depth = [y.depth EXCEPT ![n + 1] = Level(v, y.depth[n])]
      /\ z.place = [y.place EXCEPT ![n + 2] = m + Len(s) + 1]
      /\ z.piece = [y.piece EXCEPT ![n + 1] = s]
      /\ z.start = [y.start EXCEPT ![n + 1] = a]
      /\ z.end = [y.end EXCEPT ![n + 1] = b]
  BY DEF Further
<1>2. /\ z.close = [k \in Nat |-> IF k = e THEN n + 1 ELSE IF k = n + 1 THEN 0 ELSE y.close[k]]
      /\ z.els = [k \in Nat |-> IF k = h THEN n + 1 ELSE IF k = n + 1 THEN 0 ELSE y.els[k]]
  BY DEF Further
<1> HIDE DEF z
<1>n. n + 1 \in Nat /\ n + 2 \in Nat /\ \A k \in 0 .. n : k \in Nat /\ k # n + 1
  BY Beyond, Zenon
<1>m. \A k \in 1 .. n + 1 : k \in Nat /\ k # n + 2
  BY Beyond, Zenon
<1>k. \A k \in 1 .. n : k \in Nat /\ k # n + 1
  BY Beyond, Zenon
<1>3. /\ z.depth \in [Nat -> Nat]
      /\ \A k \in 0 .. n : z.depth[k] = y.depth[k]
      /\ z.depth[n + 1] = Level(v, y.depth[n])
  <2> DEFINE f == y.depth
             x == Level(v, y.depth[n])
             g == z.depth
  <2>1. f \in [Nat -> Nat] /\ x \in Nat /\ g = [f EXCEPT ![n + 1] = x]
    BY <1>1
  <2> HIDE DEF f, x, g
  <2>2. g \in [Nat -> Nat] /\ g[n + 1] = x /\ \A k \in Nat : k # n + 1 => g[k] = f[k]
    BY <2>1, <1>n, SetOne
  <2>3. QED
    BY <2>2, <1>n DEF f, x, g
<1>4. /\ z.place \in [Nat -> Nat]
      /\ \A k \in 1 .. n + 1 : z.place[k] = y.place[k]
      /\ z.place[n + 2] = m + Len(s) + 1
  <2> DEFINE f == y.place
             x == m + Len(s) + 1
             g == z.place
             w == n + 2
  <2>1. Len(s) \in Nat
    OBVIOUS
  <2>2. x \in Nat
    BY <2>1
  <2>3. w \in Nat /\ f \in [Nat -> Nat] /\ g = [f EXCEPT ![w] = x]
    BY <1>n, <1>1
  <2> HIDE DEF f, x, g, w
  <2>4. g \in [Nat -> Nat] /\ g[w] = x /\ \A k \in Nat : k # w => g[k] = f[k]
    BY <2>2, <2>3, SetOne, Zenon
  <2>5. QED
    BY <2>4, <1>m DEF f, x, g, w
<1>5. /\ z.piece \in [Nat -> Seq(Instr)] /\ z.piece[n + 1] = s
      /\ \A k \in 1 .. n : z.piece[k] = y.piece[k]
  <2> DEFINE f == y.piece
             g == z.piece
  <2>1. f \in [Nat -> Seq(Instr)] /\ g = [f EXCEPT ![n + 1] = s]
    BY <1>1
  <2> HIDE DEF f, g
  <2>2. g \in [Nat -> Seq(Instr)] /\ g[n + 1] = s /\ \A k \in Nat : k # n + 1 => g[k] = f[k]
    BY <2>1, <1>n, SetOne
  <2>3. QED
    BY <2>2, <1>k DEF f, g
<1>6. /\ z.start \in [Nat -> Nat] /\ z.start[n + 1] = a
      /\ \A k \in 1 .. n : z.start[k] = y.start[k]
  <2> DEFINE f == y.start
             g == z.start
             w == n + 1
  <2>1. f \in [Nat -> Nat] /\ g = [f EXCEPT ![w] = a] /\ w \in Nat
    BY <1>1, <1>n
  <2> HIDE DEF f, g, w
  <2>2. g \in [Nat -> Nat] /\ g[w] = a /\ \A k \in Nat : k # w => g[k] = f[k]
    BY <2>1, SetOne, Zenon
  <2>3. QED
    BY <2>2, <1>k DEF f, g, w
<1>7. /\ z.end \in [Nat -> Nat] /\ z.end[n + 1] = b
      /\ \A k \in 1 .. n : z.end[k] = y.end[k]
  <2> DEFINE f == y.end
             g == z.end
             w == n + 1
  <2>1. f \in [Nat -> Nat] /\ g = [f EXCEPT ![w] = b] /\ w \in Nat
    BY <1>1, <1>n
  <2> HIDE DEF f, g, w
  <2>2. g \in [Nat -> Nat] /\ g[w] = b /\ \A k \in Nat : k # w => g[k] = f[k]
    BY <2>1, SetOne, Zenon
  <2>3. QED
    BY <2>2, <1>k DEF f, g, w
<1>8. /\ z.close \in [Nat -> Nat] /\ z.close[n + 1] = 0
      /\ \A k \in 1 .. n : z.close[k] = IF k = e THEN n + 1 ELSE y.close[k]
  <2> DEFINE f == y.close
             g == z.close
             w == n + 1
  <2>1. f \in [Nat -> Nat] /\ w \in Nat /\ e \in Nat /\ e # w
    BY <1>n
  <2>2. g = [k \in Nat |-> IF k = e THEN w ELSE IF k = w THEN 0 ELSE f[k]]
    BY <1>2
  <2> HIDE DEF f, g, w
  <2>3. /\ g \in [Nat -> Nat] /\ g[w] = 0 /\ g[e] = w
        /\ \A k \in Nat : k # w /\ k # e => g[k] = f[k]
    BY <2>1, <2>2
  <2>4. QED
    BY <2>3, <1>k DEF f, g, w
<1>9. /\ z.els \in [Nat -> Nat] /\ z.els[n + 1] = 0
      /\ \A k \in 1 .. n : z.els[k] = IF k = h THEN n + 1 ELSE y.els[k]
  <2> DEFINE f == y.els
             g == z.els
             w == n + 1
  <2>1. f \in [Nat -> Nat] /\ w \in Nat /\ h \in Nat /\ h # w
    BY <1>n
  <2>2. g = [k \in Nat |-> IF k = h THEN w ELSE IF k = w THEN 0 ELSE f[k]]
    BY <1>2
  <2> HIDE DEF f, g, w
  <2>3. /\ g \in [Nat -> Nat] /\ g[w] = 0 /\ g[h] = w
        /\ \A k \in Nat : k # w /\ k # h => g[k] = f[k]
    BY <2>1, <2>2
  <2>4. QED
    BY <2>3, <1>k DEF f, g, w
<1>10. GoesOn(y, z, n, m, v, s, a, b, e, h)
  BY <1>3, <1>4, <1>5, <1>6, <1>7, <1>8, <1>9 DEF GoesOn
<1>11. QED
  BY <1>10 DEF z

\* v closes e, or begins the else of h.
CanClose(p, y, v, e) ==
    /\ Around(p, y, Len(p) + 1, e) /\ y.close[e] = 0 /\ v = "end"
    /\ y.depth[Len(p)] = y.depth[e]
    /\ p[e] = "ifElse" => y.els[e] # 0

CanTurn(p, y, v, h) ==
    /\ Around(p, y, Len(p) + 1, h) /\ y.els[h] = 0 /\ v = "else"
    /\ y.depth[Len(p)] = y.depth[h]
    /\ p[h] = "ifElse"

\* One more event, v, with the code s, after a layout y of p and c.
OneEvent(p, c, st, y, v, s, a, b, e, h, z) ==
    /\ Layout(p, c, st, y)
    /\ v \in Words /\ s \in Seq(Instr)
    /\ v = "fun" <=> y.depth[Len(p)] = 0
    /\ GoesOn(y, z, Len(p), Len(c), v, s, a, b, e, h)
    /\ e # 0 => CanClose(p, y, v, e)
    /\ h # 0 => CanTurn(p, y, v, h)

\* A text with one more event.
LEMMA TextGrows ==
  ASSUME NEW p \in Seq(Words), NEW v \in Words
  PROVE  /\ Append(p, v) \in Seq(Words) /\ Len(p) \in Nat /\ Len(Append(p, v)) = Len(p) + 1
         /\ \A i \in 1 .. Len(p) : Append(p, v)[i] = p[i]
         /\ Append(p, v)[Len(p) + 1] = v
OBVIOUS

\* The depth of the longer text.
LEMMA NestedGrows ==
  ASSUME NEW p, NEW c, NEW st, NEW y, NEW v, NEW s, NEW a, NEW b, NEW e, NEW h, NEW z,
         OneEvent(p, c, st, y, v, s, a, b, e, h, z)
  PROVE  Nested(Append(p, v), z)
<1> DEFINE q == Append(p, v)
           n == Len(p)
<1>1. /\ q \in Seq(Words) /\ n \in Nat /\ Len(q) = n + 1
      /\ \A i \in 1 .. n : q[i] = p[i]
      /\ q[n + 1] = v
  BY TextGrows DEF OneEvent, Layout, Words
<1>2. /\ z.depth \in [Nat -> Nat] /\ \A k \in 0 .. n : z.depth[k] = y.depth[k]
      /\ z.depth[n + 1] = Level(v, y.depth[n])
  BY DEF OneEvent, GoesOn
<1>3. /\ y.depth[0] = 0
      /\ \A i \in 1 .. n : y.depth[i] = Level(p[i], y.depth[i - 1])
                           /\ (p[i] = "fun" <=> y.depth[i - 1] = 0)
      /\ v = "fun" <=> y.depth[n] = 0
  BY DEF OneEvent, Layout, Nested
<1> HIDE DEF q, n
<1>0. 0 \in 0 .. n /\ n \in 0 .. n /\ (n + 1) - 1 = n
  BY <1>1
<1>4. z.depth[0] = 0
  BY <1>0, <1>2, <1>3
<1>5. ASSUME NEW i \in 1 .. n + 1
      PROVE  /\ z.depth[i] = Level(q[i], z.depth[i - 1])
             /\ q[i] = "fun" <=> z.depth[i - 1] = 0
  <2>1. CASE i = n + 1
    <3>1. i - 1 = n /\ z.depth[n] = y.depth[n] /\ z.depth[i] = Level(v, y.depth[n]) /\ q[i] = v
      BY <2>1, <1>0, <1>1, <1>2
    <3>2. QED
      BY <3>1, <1>3
  <2>2. CASE i # n + 1
    <3>1. i \in 1 .. n /\ i \in 0 .. n /\ i - 1 \in 0 .. n
      BY <2>2, <1>1
    <3>2. QED
      BY <3>1, <1>1, <1>2, <1>3
  <2>3. QED
    BY <2>1, <2>2
<1>6. QED
  BY <1>1, <1>2, <1>4, <1>5 DEF Nested, q

\* The places of the longer code.
LEMMA PlacingGrows ==
  ASSUME NEW p, NEW c, NEW st, NEW y, NEW v, NEW s, NEW a, NEW b, NEW e, NEW h, NEW z,
         OneEvent(p, c, st, y, v, s, a, b, e, h, z)
  PROVE  /\ Placing(Append(p, v), c \o s, z) /\ c \o s \in Seq(Instr)
         /\ \A k \in 1 .. Len(c) : (c \o s)[k] = c[k]
<1> DEFINE q == Append(p, v)
           n == Len(p)
           t == c \o s
           m == Len(c)
           x == Len(s)
<1>1. n \in Nat /\ Len(q) = n + 1
  BY TextGrows DEF OneEvent, Layout, Words
<1>2. c \in Seq(Instr) /\ s \in Seq(Instr)
  BY DEF OneEvent, Layout
<1>3. /\ t \in Seq(Instr) /\ m \in Nat /\ x \in Nat /\ Len(t) = m + x
      /\ \A k \in 1 .. m : t[k] = c[k]
  BY <1>2
<1>a. \A k \in 1 .. x : t[m + 1 + k - 1] = s[k]
  <2>1. ASSUME NEW k \in 1 .. x PROVE t[m + 1 + k - 1] = s[k]
    <3>1. m + 1 + k - 1 = m + k /\ k \in DOMAIN s
      BY <1>2, <1>3
    <3>2. t[m + k] = s[k]
      BY <1>2, <3>1, Longer
    <3>3. QED
      BY <3>1, <3>2
  <2>2. QED
    BY <2>1
<1>4. /\ z.place \in [Nat -> Nat] /\ z.piece \in [Nat -> Seq(Instr)]
      /\ \A k \in 1 .. n + 1 : z.place[k] = y.place[k]
      /\ z.place[n + 2] = m + x + 1
      /\ \A k \in 1 .. n : z.piece[k] = y.piece[k]
      /\ z.piece[n + 1] = s
  BY DEF OneEvent, GoesOn
<1>5. /\ y.place \in [Nat -> Nat] /\ y.place[1] = 1 /\ y.place[n + 1] = m + 1
      /\ \A i \in 1 .. n : y.place[i + 1] = y.place[i] + Len(y.piece[i])
      /\ \A i \in 1 .. n : LaidAt(c, y.place[i], y.piece[i])
      /\ \A i, j \in 1 .. n + 1 : i <= j => y.place[i] <= y.place[j]
      /\ \A k \in 1 .. m : \E i \in 1 .. n : y.place[i] <= k /\ k < y.place[i + 1]
  BY DEF OneEvent, Layout, Placing
<1>n. \A i \in 1 .. n : Len(y.piece[i]) \in Nat
  <2>1. y.piece \in [Nat -> Seq(Instr)]
    BY DEF OneEvent, Layout, Placing
  <2>2. ASSUME NEW i \in 1 .. n PROVE Len(y.piece[i]) \in Nat
    <3>1. y.piece[i] \in Seq(Instr)
      BY <2>1
    <3>2. QED
      BY <3>1
  <2>3. QED
    BY <2>2
<1> HIDE DEF q, n, t, m, x
<1>0. 1 \in 1 .. n + 1 /\ n + 1 \in 1 .. n + 1 /\ n + 1 + 1 = n + 2
  BY <1>1
<1>6. /\ z.place[1] = 1 /\ z.place[n + 1 + 1] = m + x + 1 /\ z.place[n + 1] = m + 1
      /\ \A i \in 1 .. n + 1 : y.place[i] \in Nat
  <2>1. \A i \in 1 .. n + 1 : i \in Nat
    BY <1>1
  <2>2. \A i \in 1 .. n + 1 : y.place[i] \in Nat
    BY <2>1, <1>5
  <2>3. QED
    BY <2>2, <1>0, <1>4, <1>5
<1>7. ASSUME NEW i \in 1 .. n + 1
      PROVE  /\ z.place[i + 1] = z.place[i] + Len(z.piece[i])
             /\ LaidAt(t, z.place[i], z.piece[i])
  <2>1. CASE i = n + 1
    <3>1. z.place[i] = m + 1 /\ z.piece[i] = s /\ z.place[i + 1] = m + x + 1
      BY <2>1, <1>1, <1>4, <1>5
    <3>2. LaidAt(t, m + 1, s)
      BY <1>a DEF LaidAt, x
    <3>3. QED
      BY <3>1, <3>2, <1>3 DEF x
  <2>2. CASE i # n + 1
    <3>1. i \in 1 .. n /\ i \in 1 .. n + 1 /\ i + 1 \in 1 .. n + 1
      BY <2>2, <1>1
    <3>2. z.place[i] = y.place[i] /\ z.piece[i] = y.piece[i] /\ z.place[i + 1] = y.place[i + 1]
      BY <3>1, <1>4
    <3>3. y.place[i + 1] = y.place[i] + Len(y.piece[i]) /\ LaidAt(c, y.place[i], y.piece[i])
      BY <3>1, <1>5
    <3>4. y.place[1] <= y.place[i] /\ y.place[i + 1] <= y.place[n + 1] /\ y.place[i] \in Nat
      <4>1. 1 <= i /\ i + 1 <= n + 1
        BY <3>1, <1>1
      <4>2. y.place[i + 1] <= y.place[n + 1]
        BY <3>1, <4>1, <1>5, <1>0
      <4>3. QED
        BY <3>1, <4>1, <4>2, <1>5, <1>0, <1>6
    <3>5. \A k \in 1 .. Len(y.piece[i]) : y.place[i] + k - 1 \in 1 .. m
      <4>1. /\ Len(y.piece[i]) \in Nat /\ y.place[i] \in Nat /\ 1 <= y.place[i]
            /\ y.place[i] + Len(y.piece[i]) <= m + 1
        BY <3>1, <3>3, <3>4, <1>5, <1>n
      <4> DEFINE r == y.place[i]
                 w == Len(y.piece[i])
      <4> HIDE DEF r, w
      <4>2. \A k \in 1 .. w : r + k - 1 \in 1 .. m
        BY <4>1, <1>3, SMTT(30) DEF r, w
      <4>3. QED
        BY <4>2 DEF r, w
    <3>6. LaidAt(t, y.place[i], y.piece[i])
      BY <3>3, <3>5, <1>3 DEF LaidAt
    <3>7. QED
      BY <3>2, <3>3, <3>6
  <2>3. QED
    BY <2>1, <2>2
<1>8. ASSUME NEW i \in 1 .. n + 1 + 1, NEW j \in 1 .. n + 1 + 1, i <= j
      PROVE  z.place[i] <= z.place[j]
  <2>1. CASE j = n + 2
    <3>1. CASE i = n + 2
      <4>1. z.place[i] = m + x + 1 /\ z.place[j] = m + x + 1
        BY <2>1, <3>1, <1>4
      <4>2. QED
        BY <4>1, <1>3
    <3>2. CASE i # n + 2
      <4>1. i \in 1 .. n + 1 /\ n + 1 \in 1 .. n + 1 /\ i <= n + 1
        BY <3>2, <1>1
      <4>2. z.place[i] = y.place[i] /\ y.place[i] <= m + 1 /\ y.place[i] \in Nat
        BY <4>1, <1>4, <1>5, <1>6
      <4>3. z.place[j] = m + x + 1
        BY <2>1, <1>4
      <4>4. QED
        BY <4>2, <4>3, <1>3
    <3>3. QED
      BY <3>1, <3>2
  <2>2. CASE j # n + 2
    <3>1. i \in 1 .. n + 1 /\ j \in 1 .. n + 1
      BY <2>2, <1>1, <1>8
    <3>2. QED
      BY <3>1, <1>4, <1>5, <1>8
  <2>3. QED
    BY <2>1, <2>2
<1>9. ASSUME NEW k \in 1 .. m + x
      PROVE  \E i \in 1 .. n + 1 : z.place[i] <= k /\ k < z.place[i + 1]
  <2>1. CASE k \in 1 .. m
    <3>1. PICK i \in 1 .. n : y.place[i] <= k /\ k < y.place[i + 1]
      BY <2>1, <1>5
    <3>2. i \in 1 .. n + 1 /\ i + 1 \in 1 .. n + 1
      BY <3>1, <1>1
    <3>3. z.place[i] = y.place[i] /\ z.place[i + 1] = y.place[i + 1]
      BY <3>2, <1>4
    <3>4. QED
      BY <3>1, <3>2, <3>3
  <2>2. CASE k \notin 1 .. m
    <3>1. m + 1 <= k /\ k < m + x + 1
      BY <2>2, <1>3
    <3>2. n + 1 \in 1 .. n + 1 /\ z.place[n + 1] = m + 1 /\ z.place[n + 1 + 1] = m + x + 1
      BY <1>0, <1>6
    <3>3. QED
      BY <3>1, <3>2
  <2>3. QED
    BY <2>1, <2>2
<1>10. Placing(q, t, z)
  BY <1>1, <1>3, <1>4, <1>6, <1>7, <1>8, <1>9 DEF Placing
<1>11. QED
  BY <1>3, <1>10 DEF q, t, m

\* What was around the events there were.
LEMMA AroundStays ==
  ASSUME NEW p, NEW c, NEW st, NEW y, NEW v, NEW s, NEW a, NEW b, NEW e, NEW h, NEW z,
         OneEvent(p, c, st, y, v, s, a, b, e, h, z),
         NEW i \in 1 .. Len(p) + 1, NEW o
  PROVE  Around(Append(p, v), z, i, o) <=> Around(p, y, i, o)
<1> DEFINE q == Append(p, v)
           n == Len(p)
<1>1. /\ n \in Nat /\ Len(q) = n + 1
      /\ \A k \in 1 .. n : q[k] = p[k]
  BY TextGrows DEF OneEvent, Layout, Words
<1>2. \A k \in 0 .. n : z.depth[k] = y.depth[k]
  BY DEF OneEvent, GoesOn
<1>3. i \in 1 .. n + 1
  OBVIOUS
<1> HIDE DEF q, n
<1>4. o \in 1 .. n + 1 /\ o < i => o \in 1 .. n /\ o \in 0 .. n /\ \A k \in o .. i - 1 : k \in 0 .. n
  BY <1>1, <1>3
<1>5. o \in 1 .. n => o \in 1 .. n + 1
  BY <1>1
<1>6. o \in 1 .. n + 1 /\ o < i =>
         /\ q[o] = p[o]
         /\ (\A k \in o .. i - 1 : z.depth[k] >= z.depth[o])
               <=> (\A k \in o .. i - 1 : y.depth[k] >= y.depth[o])
  BY <1>1, <1>2, <1>4
<1>7. QED
  BY <1>1, <1>4, <1>5, <1>6 DEF Around, q, n

\* What was made of the events there were.
LEMMA FilledStays ==
  ASSUME NEW p, NEW c, NEW st, NEW y, NEW v, NEW s, NEW a, NEW b, NEW e, NEW h, NEW z,
         OneEvent(p, c, st, y, v, s, a, b, e, h, z),
         NEW i \in 1 .. Len(p)
  PROVE  Filled(Append(p, v), c \o s, z, i)
<1> DEFINE q == Append(p, v)
           n == Len(p)
           t == c \o s
<1>1. /\ n \in Nat /\ Len(q) = n + 1
      /\ \A k \in 1 .. n : q[k] = p[k]
  BY TextGrows DEF OneEvent, Layout, Words
<1>2. /\ \A k \in 1 .. n : z.piece[k] = y.piece[k] /\ z.start[k] = y.start[k] /\ z.end[k] = y.end[k]
      /\ \A k \in 1 .. n : z.close[k] = IF k = e THEN n + 1 ELSE y.close[k]
      /\ \A k \in 1 .. n : z.els[k] = IF k = h THEN n + 1 ELSE y.els[k]
      /\ \A k \in 1 .. n + 1 : z.place[k] = y.place[k]
  BY DEF OneEvent, GoesOn
<1>3. (e # 0 => y.close[e] = 0) /\ (h # 0 => y.els[h] = 0)
  <2>1. (e # 0 => CanClose(p, y, v, e)) /\ (h # 0 => CanTurn(p, y, v, h))
    BY DEF OneEvent
  <2>2. QED
    BY <2>1 DEF CanClose, CanTurn
<1>4. i \in 1 .. n /\ i \in 1 .. n + 1 /\ i # 0 /\ \A o \in 1 .. n : o # 0 /\ o \in 1 .. n + 1
  BY <1>1
<1>5. Filled(p, c, y, i)
  BY DEF OneEvent, Layout
<1>6. \A o : Around(q, z, i, o) <=> Around(p, y, i, o)
  BY <1>4, AroundStays DEF n, q
<1>7. \A k \in 1 .. Len(c) : t[k] = c[k]
  BY PlacingGrows
<1>8. y.place[i] > 1 => y.place[i] - 1 \in 1 .. Len(c)
  <2>1. Placing(p, c, y) /\ c \in Seq(Instr)
    BY DEF OneEvent, Layout
  <2>2. i <= n + 1 /\ n + 1 \in 1 .. n + 1 /\ i \in Nat
    BY <1>1, <1>4
  <2>3. y.place[i] <= y.place[n + 1] /\ y.place[n + 1] = Len(c) + 1
    BY <1>4, <2>1, <2>2 DEF Placing
  <2>6. y.place \in [Nat -> Nat]
    BY <2>1 DEF Placing
  <2>4. Len(c) \in Nat
    BY <2>1
  <2>7. y.place[i] \in Nat
    BY <2>2, <2>6
  <2>5. QED
    BY <2>3, <2>4, <2>7
<1> HIDE DEF q, n, t
<1>9. q[i] = p[i] /\ z.piece[i] = y.piece[i] /\ z.start[i] = y.start[i] /\ z.end[i] = y.end[i]
      /\ z.place[i] = y.place[i]
  BY <1>1, <1>2, <1>4
<1>10. Fill(q[i], i, z.piece[i], z.start[i], z.end[i])
  BY <1>5, <1>9 DEF Filled
<1>11. ASSUME q[i] = "break" PROVE Leaving(q, z, i, z.piece[i])
  <2>1. Leaving(p, y, i, y.piece[i])
    BY <1>5, <1>9, <1>11 DEF Filled
  <2>2. ASSUME NEW o PROVE o \in Leavable(q, z, i) <=> o \in Leavable(p, y, i)
    <3>1. Around(q, z, i, o) <=> Around(p, y, i, o)
      BY <1>6
    <3>2. Around(p, y, i, o) => o \in 1 .. n
      BY DEF Around, n
    <3>3. QED
      BY <3>1, <3>2, <1>1, <1>4 DEF Leavable, n
  <2>3. \A o \in Leavable(p, y, i) : z.end[o] = y.end[o]
    BY <1>2 DEF Leavable, n
  <2>4. QED
    BY <2>1, <2>2, <2>3, <1>9 DEF Leaving
<1>12. ASSUME q[i] = "else" PROVE Turning(q, z, i, z.piece[i])
  <2>1. PICK o \in 1 .. n : /\ y.els[o] = i
                            /\ y.piece[i] = <<I("BR", y.end[o]), I("LABEL", y.start[o])>>
    BY <1>5, <1>9, <1>12 DEF Filled, Turning, n
  <2>2. o # h
    BY <2>1, <1>3, <1>4
  <2>3. z.els[o] = i /\ z.end[o] = y.end[o] /\ z.start[o] = y.start[o] /\ o \in 1 .. Len(q)
    BY <2>1, <2>2, <1>1, <1>2, <1>4
  <2>4. QED
    BY <2>1, <2>3, <1>9 DEF Turning
<1>13. ASSUME q[i] = "end" PROVE Ending(q, t, z, i, z.piece[i])
  <2>1. PICK o \in 1 .. n : y.close[o] = i /\ Ends(c, y, i, o, y.piece[i], p[o])
    BY <1>5, <1>9, <1>13 DEF Filled, Ending, n
  <2>2. o # e
    BY <2>1, <1>3, <1>4
  <2>3. /\ z.close[o] = i /\ z.end[o] = y.end[o] /\ z.start[o] = y.start[o]
        /\ o \in 1 .. Len(q) /\ q[o] = p[o]
    BY <2>1, <2>2, <1>1, <1>2, <1>4
  <2>4. FunEnds(c, y, i, o, y.piece[i]) => FunEnds(t, z, i, o, z.piece[i])
    BY <2>3, <1>7, <1>8, <1>9 DEF FunEnds
  <2>5. Ends(t, z, i, o, z.piece[i], q[o])
    <3>1. z.piece[i] = y.piece[i] /\ z.start[o] = y.start[o] /\ z.end[o] = y.end[o] /\ q[o] = p[o]
      BY <2>3, <1>9
    <3>2. QED
      BY <2>1, <2>4, <3>1 DEF Ends
  <2>6. QED
    BY <2>3, <2>5 DEF Ending
<1>14. QED
  BY <1>10, <1>11, <1>12, <1>13 DEF Filled, q, t

\* What closes what.
LEMMA MatchedGrows ==
  ASSUME NEW p, NEW c, NEW st, NEW y, NEW v, NEW s, NEW a, NEW b, NEW e, NEW h, NEW z,
         OneEvent(p, c, st, y, v, s, a, b, e, h, z)
  PROVE  Matched(Append(p, v), z)
<1> DEFINE q == Append(p, v)
           n == Len(p)
<1>1. /\ n \in Nat /\ Len(q) = n + 1
      /\ \A k \in 1 .. n : q[k] = p[k]
      /\ q[n + 1] = v
  BY TextGrows DEF OneEvent, Layout, Words
<1>2. /\ z.close \in [Nat -> Nat] /\ z.els \in [Nat -> Nat]
      /\ \A k \in 1 .. n : z.close[k] = IF k = e THEN n + 1 ELSE y.close[k]
      /\ \A k \in 1 .. n : z.els[k] = IF k = h THEN n + 1 ELSE y.els[k]
      /\ z.close[n + 1] = 0 /\ z.els[n + 1] = 0
      /\ \A k \in 0 .. n : z.depth[k] = y.depth[k]
      /\ z.depth[n + 1] = Level(v, y.depth[n])
  BY DEF OneEvent, GoesOn
<1>3. /\ e # 0 => /\ Around(p, y, n + 1, e) /\ v = "end"
                  /\ y.depth[n] = y.depth[e]
                  /\ p[e] = "ifElse" => y.els[e] # 0
      /\ h # 0 => /\ Around(p, y, n + 1, h) /\ v = "else"
                  /\ y.depth[n] = y.depth[h]
                  /\ p[h] = "ifElse"
  <2>1. (e # 0 => CanClose(p, y, v, e)) /\ (h # 0 => CanTurn(p, y, v, h))
    BY DEF OneEvent
  <2>2. QED
    BY <2>1 DEF CanClose, CanTurn
<1>4. ASSUME NEW i \in 1 .. n + 1, NEW o PROVE Around(q, z, i, o) <=> Around(p, y, i, o)
  BY AroundStays
<1>5. \A o \in 1 .. n : y.close[o] # 0 =>
         /\ y.close[o] \in 1 .. n /\ p[y.close[o]] = "end"
         /\ Around(p, y, y.close[o], o)
         /\ y.depth[y.close[o]] = y.depth[o] - 1
         /\ p[o] = "ifElse" => y.els[o] # 0
  BY DEF OneEvent, Layout, Matched
<1>6. \A o \in 1 .. n : y.els[o] # 0 =>
         /\ y.els[o] \in 1 .. n /\ p[y.els[o]] = "else" /\ p[o] = "ifElse"
         /\ Around(p, y, y.els[o], o)
         /\ y.depth[y.els[o]] = y.depth[o]
  BY DEF OneEvent, Layout, Matched
<1> HIDE DEF q, n
<1>0. /\ n + 1 \in 1 .. n + 1
      /\ \A o \in 1 .. n : o \in 0 .. n /\ o \in 1 .. n + 1 /\ o # 0
      /\ \A o \in 1 .. n + 1 : o # n + 1 => o \in 1 .. n
  BY <1>1
<1>7. ASSUME NEW o \in 1 .. n + 1, z.close[o] # 0
      PROVE  /\ z.close[o] \in 1 .. n + 1 /\ q[z.close[o]] = "end"
             /\ Around(q, z, z.close[o], o)
             /\ z.depth[z.close[o]] = z.depth[o] - 1
             /\ q[o] = "ifElse" => z.els[o] # 0
  <2>1. o \in 1 .. n /\ q[o] = p[o] /\ z.depth[o] = y.depth[o]
    BY <1>7, <1>0, <1>1, <1>2
  <2>2. y.els[o] # 0 => z.els[o] # 0
    <3>1. n + 1 # 0
      BY <1>1
    <3>2. QED
      BY <2>1, <3>1, <1>2
  <2>3. CASE o = e
    <3>1. z.close[o] = n + 1 /\ e # 0
      BY <2>1, <2>3, <1>0, <1>2
    <3>2. Around(p, y, n + 1, o) /\ v = "end" /\ y.depth[n] = y.depth[o]
          /\ (p[o] = "ifElse" => y.els[o] # 0)
      BY <3>1, <2>3, <1>3
    <3>3. Around(q, z, n + 1, o)
      BY <3>2, <1>0, <1>4
    <3>4. z.depth[n + 1] = z.depth[o] - 1
      BY <3>2, <2>1, <1>2 DEF Level, Opens, Compound, Loops
    <3>5. QED
      BY <3>1, <3>2, <3>3, <3>4, <2>1, <2>2, <1>0, <1>1
  <2>4. CASE o # e
    <3> DEFINE k == y.close[o]
    <3>1. z.close[o] = k /\ k # 0
      BY <2>1, <2>4, <1>2, <1>7
    <3>2. /\ k \in 1 .. n /\ p[k] = "end" /\ Around(p, y, k, o) /\ y.depth[k] = y.depth[o] - 1
          /\ p[o] = "ifElse" => y.els[o] # 0
      BY <3>1, <2>1, <1>5
    <3> HIDE DEF k
    <3>3. k \in 1 .. n + 1 /\ q[k] = p[k] /\ z.depth[k] = y.depth[k]
      BY <3>2, <1>0, <1>1, <1>2
    <3>4. Around(q, z, k, o)
      BY <3>2, <3>3, <1>4
    <3>5. QED
      BY <3>1, <3>2, <3>3, <3>4, <2>1, <2>2
  <2>5. QED
    BY <2>3, <2>4
<1>8. ASSUME NEW o \in 1 .. n + 1, z.els[o] # 0
      PROVE  /\ z.els[o] \in 1 .. n + 1 /\ q[z.els[o]] = "else" /\ q[o] = "ifElse"
             /\ Around(q, z, z.els[o], o)
             /\ z.depth[z.els[o]] = z.depth[o]
  <2>1. o \in 1 .. n /\ q[o] = p[o] /\ z.depth[o] = y.depth[o]
    BY <1>8, <1>0, <1>1, <1>2
  <2>3. CASE o = h
    <3>1. z.els[o] = n + 1 /\ h # 0
      BY <2>1, <2>3, <1>0, <1>2
    <3>2. Around(p, y, n + 1, o) /\ v = "else" /\ y.depth[n] = y.depth[o] /\ p[o] = "ifElse"
      BY <3>1, <2>3, <1>3
    <3>3. Around(q, z, n + 1, o)
      BY <3>2, <1>0, <1>4
    <3>4. z.depth[n + 1] = z.depth[o]
      BY <3>2, <2>1, <1>2 DEF Level, Opens, Compound, Loops
    <3>5. QED
      BY <3>1, <3>2, <3>3, <3>4, <2>1, <1>0, <1>1
  <2>4. CASE o # h
    <3> DEFINE k == y.els[o]
    <3>1. z.els[o] = k /\ k # 0
      BY <2>1, <2>4, <1>2, <1>8
    <3>2. k \in 1 .. n /\ p[k] = "else" /\ Around(p, y, k, o) /\ y.depth[k] = y.depth[o]
          /\ p[o] = "ifElse"
      BY <3>1, <2>1, <1>6
    <3> HIDE DEF k
    <3>3. k \in 1 .. n + 1 /\ q[k] = p[k] /\ z.depth[k] = y.depth[k]
      BY <3>2, <1>0, <1>1, <1>2
    <3>4. Around(q, z, k, o)
      BY <3>2, <3>3, <1>4
    <3>5. QED
      BY <3>1, <3>2, <3>3, <3>4, <2>1
  <2>5. QED
    BY <2>3, <2>4
<1>9. QED
  BY <1>1, <1>2, <1>7, <1>8 DEF Matched, q

\* A construct that stays under way.
LEMMA FrameStays ==
  ASSUME NEW p, NEW c, NEW st, NEW y, NEW v, NEW s, NEW a, NEW b, NEW e, NEW h, NEW z,
         OneEvent(p, c, st, y, v, s, a, b, e, h, z),
         NEW f, NEW k \in Nat, FrameIs(p, y, f, k), f.at # e, f.at # h,
         Level(v, y.depth[Len(p)]) >= k
  PROVE  FrameIs(Append(p, v), z, f, k)
<1> DEFINE q == Append(p, v)
           n == Len(p)
           o == f.at
<1>1. /\ n \in Nat /\ Len(q) = n + 1
      /\ \A i \in 1 .. n : q[i] = p[i]
  BY TextGrows DEF OneEvent, Layout, Words
<1>2. /\ \A i \in 1 .. n : z.start[i] = y.start[i] /\ z.end[i] = y.end[i]
      /\ \A i \in 1 .. n : z.close[i] = IF i = e THEN n + 1 ELSE y.close[i]
      /\ \A i \in 1 .. n : z.els[i] = IF i = h THEN n + 1 ELSE y.els[i]
      /\ \A i \in 0 .. n : z.depth[i] = y.depth[i]
      /\ z.depth[n + 1] = Level(v, y.depth[n])
  BY DEF OneEvent, GoesOn
<1>3. /\ Around(p, y, n + 1, o) /\ y.depth[o] = k
      /\ p[o] = KindOf(f) /\ y.close[o] = 0
      /\ y.start[o] = f.start /\ y.end[o] = f.end
      /\ f.kind = "ifElse" => y.els[o] = 0
      /\ f.kind = "else" => y.els[o] # 0
  BY DEF FrameIs
<1>4. o \in 1 .. n /\ p[o] \in Opens /\ \A i \in o .. n : y.depth[i] >= k
  BY <1>1, <1>3 DEF Around
<1>5. Level(v, y.depth[n]) >= k /\ o # e /\ o # h
  OBVIOUS
<1> HIDE DEF q, n, o
<1>6. /\ q[o] = p[o] /\ z.depth[o] = k /\ z.close[o] = y.close[o] /\ z.els[o] = y.els[o]
      /\ z.start[o] = y.start[o] /\ z.end[o] = y.end[o]
  <2>1. o \in 0 .. n
    BY <1>1, <1>4
  <2>2. QED
    BY <2>1, <1>1, <1>2, <1>3, <1>4, <1>5
<1>7. \A i \in o .. n + 1 : z.depth[i] >= k
  <2>1. ASSUME NEW i \in o .. n + 1 PROVE z.depth[i] >= k
    <3>1. CASE i = n + 1
      BY <3>1, <1>2, <1>5
    <3>2. CASE i # n + 1
      <4>1. i \in o .. n /\ i \in 0 .. n
        BY <3>2, <1>1, <1>4
      <4>2. QED
        BY <4>1, <1>2, <1>4
    <3>3. QED
      BY <3>1, <3>2
  <2>2. QED
    BY <2>1
<1>8. Around(q, z, n + 1 + 1, o)
  <2>1. o \in 1 .. n + 1 /\ o < n + 1 + 1 /\ (n + 1 + 1) - 1 = n + 1
    BY <1>1, <1>4
  <2>2. QED
    BY <2>1, <1>1, <1>4, <1>6, <1>7 DEF Around
<1>9. QED
  BY <1>1, <1>3, <1>6, <1>8 DEF FrameIs, q, o

\* All but the constructs under way after one more event.
LEMMA LayoutGrows ==
  ASSUME NEW p, NEW c, NEW st, NEW y, NEW v, NEW s, NEW a, NEW b, NEW e, NEW h, NEW z,
         OneEvent(p, c, st, y, v, s, a, b, e, h, z),
         NEW st1, Stacked(Append(p, v), st1, z),
         Filled(Append(p, v), c \o s, z, Len(p) + 1)
  PROVE  Layout(Append(p, v), c \o s, st1, z)
<1> DEFINE q == Append(p, v)
           n == Len(p)
<1>1. q \in Seq(Words) /\ n \in Nat /\ Len(q) = n + 1
  BY TextGrows DEF OneEvent, Layout, Words
<1>2. z.start \in [Nat -> Nat] /\ z.end \in [Nat -> Nat]
  BY DEF OneEvent, GoesOn
<1>3. ASSUME NEW i \in 1 .. n + 1 PROVE Filled(q, c \o s, z, i)
  <2>1. CASE i = n + 1
    BY <2>1
  <2>2. CASE i # n + 1
    BY <2>2, <1>1, FilledStays
  <2>3. QED
    BY <2>1, <2>2
<1>4. Nested(q, z) /\ Placing(q, c \o s, z) /\ Matched(q, z) /\ c \o s \in Seq(Instr)
  BY NestedGrows, PlacingGrows, MatchedGrows
<1> HIDE DEF q, n
<1>5. QED
  BY <1>1, <1>2, <1>3, <1>4 DEF Layout, Words, q

\* What is known of an event in a layout of st.
LEMMA LayoutFacts ==
  ASSUME NEW p, NEW c, NEW st, NEW y, Layout(p, c, st, y)
  PROVE  /\ p \in Seq(Words) /\ Len(p) \in Nat /\ c \in Seq(Instr) /\ Len(c) \in Nat
         /\ y.depth \in [Nat -> Nat] /\ y.place \in [Nat -> Nat] /\ y.piece \in [Nat -> Seq(Instr)]
         /\ y.start \in [Nat -> Nat] /\ y.end \in [Nat -> Nat]
         /\ y.close \in [Nat -> Nat] /\ y.els \in [Nat -> Nat]
         /\ st \in Seq(Frame) /\ Len(st) \in Nat /\ y.depth[Len(p)] = Len(st)
         /\ \A k \in 1 .. Len(st) : FrameIs(p, y, st[k], k)
         /\ \A k \in 1 .. Len(st) : st[k].at \in 1 .. Len(p)
<1>1. p \in Seq(Words) /\ Len(p) \in Nat /\ c \in Seq(Instr) /\ Len(c) \in Nat
  <2>1. p \in Seq(Words) /\ c \in Seq(Instr)
    BY DEF Layout
  <2>2. QED
    BY <2>1
<1>2. Nested(p, y) /\ Placing(p, c, y) /\ Matched(p, y) /\ Stacked(p, st, y)
  BY DEF Layout
<1>3. y.depth \in [Nat -> Nat]
  BY <1>2 DEF Nested
<1>4. y.place \in [Nat -> Nat] /\ y.piece \in [Nat -> Seq(Instr)]
  BY <1>2 DEF Placing
<1>5. y.close \in [Nat -> Nat] /\ y.els \in [Nat -> Nat]
  BY <1>2 DEF Matched
<1>6. /\ st \in Seq(Frame) /\ y.depth[Len(p)] = Len(st)
      /\ \A k \in 1 .. Len(st) : FrameIs(p, y, st[k], k)
  BY <1>2 DEF Stacked
<1>7. y.start \in [Nat -> Nat] /\ y.end \in [Nat -> Nat]
  BY DEF Layout
<1>8. \A k \in 1 .. Len(st) : st[k].at \in 1 .. Len(p)
  BY <1>6 DEF FrameIs, Around
<1>9. Len(st) \in Nat
  BY <1>6
<1>10. QED
  BY <1>1, <1>3, <1>4, <1>5, <1>6, <1>7, <1>8, <1>9, Zenon

\* An event that opens and closes nothing.
LEMMA PlainLayout ==
  ASSUME NEW p, NEW c, NEW st, NEW y, NEW v \in Simple, NEW s, NEW a, NEW b, NEW z,
         OneEvent(p, c, st, y, v, s, a, b, 0, 0, z),
         Filled(Append(p, v), c \o s, z, Len(p) + 1)
  PROVE  Layout(Append(p, v), c \o s, st, z)
<1> DEFINE q == Append(p, v)
           n == Len(p)
           m == Len(st)
<1>1. /\ q \in Seq(Words) /\ n \in Nat /\ Len(q) = n + 1
      /\ \A i \in 1 .. n : q[i] = p[i]
      /\ q[n + 1] = v
  BY TextGrows DEF OneEvent, Layout, Words
<1>2. /\ \A i \in 1 .. n : z.close[i] = IF i = 0 THEN n + 1 ELSE y.close[i]
      /\ z.depth[n + 1] = Level(v, y.depth[n])
  BY DEF OneEvent, GoesOn
<1>3. Layout(p, c, st, y)
  BY DEF OneEvent
<1>4. /\ st \in Seq(Frame) /\ m \in Nat /\ y.depth[n] = m
      /\ \A k \in 1 .. m : FrameIs(p, y, st[k], k)
      /\ \A k \in 1 .. m : st[k].at \in 1 .. n
  <2>1. st \in Seq(Frame) /\ m \in Nat /\ y.depth[n] = m
    BY <1>3, LayoutFacts
  <2>2. \A k \in 1 .. m : FrameIs(p, y, st[k], k)
    BY <1>3 DEF Layout, Stacked
  <2>3. \A k \in 1 .. m : st[k].at \in 1 .. n
    BY <2>2 DEF FrameIs, Around
  <2>4. QED
    BY <2>1, <2>2, <2>3
<1>5. v \notin Opens /\ v # "end" /\ Level(v, y.depth[n]) = m
  BY <1>4 DEF Level, Opens, Simple, Compound, Loops
<1>6. ASSUME NEW k \in 1 .. m PROVE FrameIs(q, z, st[k], k)
  <2>1. k \in Nat /\ m >= k /\ st[k].at # 0 /\ FrameIs(p, y, st[k], k)
    BY <1>1, <1>4
  <2>2. Level(v, y.depth[Len(p)]) >= k
    BY <2>1, <1>5
  <2>3. QED
    BY <2>1, <2>2, FrameStays
<1>7. \A o \in 1 .. n : p[o] \in Opens /\ y.close[o] = 0 => \E k \in 1 .. m : st[k].at = o
  BY <1>3 DEF Layout, Stacked
<1> HIDE DEF q, n, m
<1>8. ASSUME NEW o \in 1 .. n + 1, q[o] \in Opens, z.close[o] = 0
      PROVE  \E k \in 1 .. m : st[k].at = o
  <2>1. o # n + 1
    BY <1>1, <1>5, <1>8
  <2>2. o \in 1 .. n /\ o # 0
    BY <2>1, <1>1
  <2>3. QED
    BY <2>2, <1>1, <1>2, <1>7, <1>8
<1>9. Stacked(q, st, z)
  BY <1>1, <1>2, <1>4, <1>5, <1>6, <1>8 DEF Stacked, m
<1>10. QED
  BY <1>9, LayoutGrows DEF q

\* An event that opens a construct.
LEMMA OpenLayout ==
  ASSUME NEW p, NEW c, NEW st, NEW y, NEW v \in Opens, NEW s, NEW a, NEW b, NEW z,
         OneEvent(p, c, st, y, v, s, a, b, 0, 0, z),
         NEW f \in Frame, f.kind = v, f.at = Len(p) + 1, f.start = a, f.end = b,
         Filled(Append(p, v), c \o s, z, Len(p) + 1)
  PROVE  Layout(Append(p, v), c \o s, Append(st, f), z)
<1> DEFINE q == Append(p, v)
           n == Len(p)
           r == Append(st, f)
           m == Len(st)
<1>1. /\ q \in Seq(Words) /\ n \in Nat /\ Len(q) = n + 1
      /\ \A i \in 1 .. n : q[i] = p[i]
      /\ q[n + 1] = v
  BY TextGrows DEF OneEvent, Layout, Words
<1>2. /\ \A i \in 1 .. n : z.close[i] = IF i = 0 THEN n + 1 ELSE y.close[i]
      /\ z.depth[n + 1] = Level(v, y.depth[n])
      /\ z.close[n + 1] = 0 /\ z.els[n + 1] = 0
      /\ z.start[n + 1] = a /\ z.end[n + 1] = b
  BY DEF OneEvent, GoesOn
<1>3. Layout(p, c, st, y)
  BY DEF OneEvent
<1>4. /\ st \in Seq(Frame) /\ m \in Nat /\ y.depth[n] = m
      /\ \A k \in 1 .. m : FrameIs(p, y, st[k], k)
      /\ \A k \in 1 .. m : st[k].at \in 1 .. n
  BY <1>3, LayoutFacts
<1>5. Level(v, y.depth[n]) = m + 1
  BY <1>4 DEF Level
<1>a. /\ r \in Seq(Frame) /\ Len(r) = m + 1 /\ \A k \in 1 .. m : r[k] = st[k]
      /\ r[m + 1] = f
  BY <1>4, AppendFacts
<1>6. ASSUME NEW k \in 1 .. m PROVE FrameIs(q, z, st[k], k)
  <2>1. k \in Nat /\ m + 1 >= k /\ st[k].at # 0 /\ FrameIs(p, y, st[k], k)
    BY <1>1, <1>4
  <2>2. Level(v, y.depth[Len(p)]) >= k
    BY <2>1, <1>5
  <2>3. QED
    BY <2>1, <2>2, FrameStays
<1>7. \A o \in 1 .. n : p[o] \in Opens /\ y.close[o] = 0 => \E k \in 1 .. m : st[k].at = o
  BY <1>3 DEF Layout, Stacked
<1>b. f.at = n + 1 /\ f.kind = v /\ f.start = a /\ f.end = b /\ v \in Opens
  OBVIOUS
<1> HIDE DEF q, n, r, m
<1>8. ASSUME NEW o \in 1 .. n + 1, q[o] \in Opens, z.close[o] = 0
      PROVE  \E k \in 1 .. m + 1 : r[k].at = o
  <2>1. CASE o = n + 1
    BY <2>1, <1>4, <1>a, <1>b
  <2>2. CASE o # n + 1
    <3>1. o \in 1 .. n /\ o # 0
      BY <2>2, <1>1
    <3>2. PICK k \in 1 .. m : st[k].at = o
      BY <3>1, <1>1, <1>2, <1>7, <1>8
    <3>3. QED
      BY <3>2, <1>4, <1>a
  <2>3. QED
    BY <2>1, <2>2
<1>9. FrameIs(q, z, f, m + 1)
  <2>0. z.depth[n + 1] = m + 1 /\ \A k \in n + 1 .. (n + 1 + 1) - 1 : k = n + 1
    BY <1>1, <1>2, <1>5
  <2>1. Around(q, z, n + 1 + 1, n + 1)
    <3>1. n + 1 \in 1 .. Len(q) /\ n + 1 < n + 1 + 1 /\ q[n + 1] \in Opens
      BY <1>1, <1>b
    <3>2. \A k \in n + 1 .. (n + 1 + 1) - 1 : z.depth[k] >= z.depth[n + 1]
      BY <2>0, <1>4
    <3>3. QED
      BY <3>1, <3>2 DEF Around
  <2>2. KindOf(f) = v /\ v # "else"
    BY <1>b DEF KindOf, Opens, Compound, Loops
  <2>3. QED
    BY <2>1, <2>2, <1>1, <1>2, <1>5, <1>b DEF FrameIs
<1>10. ASSUME NEW k \in 1 .. m + 1 PROVE FrameIs(q, z, r[k], k)
  BY <1>4, <1>6, <1>9, <1>a
<1>11. Stacked(q, r, z)
  BY <1>1, <1>2, <1>5, <1>8, <1>10, <1>a DEF Stacked, m
<1>12. QED
  BY <1>11, LayoutGrows DEF q, r

\* An event that closes the innermost construct.
LEMMA CloseLayout ==
  ASSUME NEW p, NEW c, NEW st, NEW y, NEW s, NEW a, NEW b, NEW z, st # <<>>,
         OneEvent(p, c, st, y, "end", s, a, b, st[Len(st)].at, 0, z),
         Filled(Append(p, "end"), c \o s, z, Len(p) + 1)
  PROVE  Layout(Append(p, "end"), c \o s, SubSeq(st, 1, Len(st) - 1), z)
<1> DEFINE q == Append(p, "end")
           n == Len(p)
           m == Len(st)
           r == SubSeq(st, 1, Len(st) - 1)
           e == st[m].at
<1>1. /\ q \in Seq(Words) /\ n \in Nat /\ Len(q) = n + 1
      /\ \A i \in 1 .. n : q[i] = p[i]
      /\ q[n + 1] = "end"
  BY TextGrows DEF OneEvent, Layout, Words
<1>2. /\ \A i \in 1 .. n : z.close[i] = IF i = e THEN n + 1 ELSE y.close[i]
      /\ z.depth[n + 1] = Level("end", y.depth[n])
  BY DEF OneEvent, GoesOn
<1>3. Layout(p, c, st, y)
  BY DEF OneEvent
<1>4. /\ st \in Seq(Frame) /\ m \in Nat /\ y.depth[n] = m
      /\ \A k \in 1 .. m : FrameIs(p, y, st[k], k)
      /\ \A k \in 1 .. m : st[k].at \in 1 .. n
  <2>1. st \in Seq(Frame) /\ m \in Nat /\ y.depth[n] = m
    BY <1>3, LayoutFacts
  <2>2. \A k \in 1 .. m : FrameIs(p, y, st[k], k)
    BY <1>3 DEF Layout, Stacked
  <2>3. \A k \in 1 .. m : st[k].at \in 1 .. n
    BY <2>2 DEF FrameIs, Around
  <2>4. QED
    BY <2>1, <2>2, <2>3
<1>a. /\ r \in Seq(Frame) /\ m >= 1 /\ Len(r) = m - 1 /\ \A k \in 1 .. m - 1 : r[k] = st[k]
  BY <1>4, PopFacts
<1>5. Level("end", y.depth[n]) = m - 1
  BY <1>4 DEF Level, Opens, Compound, Loops
<1>6. ASSUME NEW k \in 1 .. m - 1 PROVE FrameIs(q, z, st[k], k)
  <2>1. k \in Nat /\ m - 1 >= k /\ k \in 1 .. m /\ m \in 1 .. m /\ k # m
    BY <1>1, <1>4
  <2>2. st[k].at # 0 /\ FrameIs(p, y, st[k], k) /\ FrameIs(p, y, st[m], m)
    BY <2>1, <1>1, <1>4
  <2>3. st[k].at # e
    BY <2>1, <2>2 DEF FrameIs
  <2>4. Level("end", y.depth[Len(p)]) >= k
    BY <2>1, <1>5
  <2>5. QED
    BY <2>1, <2>2, <2>3, <2>4, FrameStays
<1>7. \A o \in 1 .. n : p[o] \in Opens /\ y.close[o] = 0 => \E k \in 1 .. m : st[k].at = o
  BY <1>3 DEF Layout, Stacked
<1> HIDE DEF q, n, m, r
<1>8. ASSUME NEW o \in 1 .. n + 1, q[o] \in Opens, z.close[o] = 0
      PROVE  \E k \in 1 .. m - 1 : r[k].at = o
  <2>1. o # n + 1
    BY <1>1, <1>8 DEF Opens, Compound, Loops
  <2>2. o \in 1 .. n /\ n + 1 # 0
    BY <2>1, <1>1
  <2>3. o # e /\ y.close[o] = 0 /\ p[o] \in Opens
    BY <2>2, <1>1, <1>2, <1>8
  <2>4. PICK k \in 1 .. m : st[k].at = o
    BY <2>2, <2>3, <1>7
  <2>5. k # m /\ k \in 1 .. m - 1
    BY <2>3, <2>4, <1>4
  <2>6. QED
    BY <2>4, <2>5, <1>a
<1>9. Stacked(q, r, z)
  <2>1. \A k \in 1 .. m - 1 : FrameIs(q, z, r[k], k)
    BY <1>6, <1>a
  <2>2. QED
    BY <1>1, <1>2, <1>5, <1>8, <2>1, <1>a DEF Stacked, m
<1>10. QED
  BY <1>9, LayoutGrows DEF q, r, m

\* An event that ends the first half of an if with an else.
LEMMA TurnLayout ==
  ASSUME NEW p, NEW c, NEW st, NEW y, NEW s, NEW a, NEW b, NEW z, st # <<>>,
         st[Len(st)].kind = "ifElse",
         OneEvent(p, c, st, y, "else", s, a, b, 0, st[Len(st)].at, z),
         NEW f \in Frame, f.kind = "else", f.at = st[Len(st)].at,
         f.start = st[Len(st)].start, f.end = st[Len(st)].end,
         Filled(Append(p, "else"), c \o s, z, Len(p) + 1)
  PROVE  Layout(Append(p, "else"), c \o s, [st EXCEPT ![Len(st)] = f], z)
<1> DEFINE q == Append(p, "else")
           n == Len(p)
           m == Len(st)
           r == [st EXCEPT ![Len(st)] = f]
           g == st[m]
           h == g.at
<1>1. /\ q \in Seq(Words) /\ n \in Nat /\ Len(q) = n + 1
      /\ \A i \in 1 .. n : q[i] = p[i]
      /\ q[n + 1] = "else"
  BY TextGrows DEF OneEvent, Layout, Words
<1>2. /\ \A i \in 1 .. n : z.start[i] = y.start[i] /\ z.end[i] = y.end[i]
      /\ \A i \in 1 .. n : z.close[i] = IF i = 0 THEN n + 1 ELSE y.close[i]
      /\ \A i \in 1 .. n : z.els[i] = IF i = h THEN n + 1 ELSE y.els[i]
      /\ \A i \in 0 .. n : z.depth[i] = y.depth[i]
      /\ z.depth[n + 1] = Level("else", y.depth[n])
  BY DEF OneEvent, GoesOn
<1>3. Layout(p, c, st, y)
  BY DEF OneEvent
<1>4. /\ st \in Seq(Frame) /\ m \in Nat /\ y.depth[n] = m
      /\ \A k \in 1 .. m : FrameIs(p, y, st[k], k)
      /\ \A k \in 1 .. m : st[k].at \in 1 .. n
  <2>1. st \in Seq(Frame) /\ m \in Nat /\ y.depth[n] = m
    BY <1>3, LayoutFacts
  <2>2. \A k \in 1 .. m : FrameIs(p, y, st[k], k)
    BY <1>3 DEF Layout, Stacked
  <2>3. \A k \in 1 .. m : st[k].at \in 1 .. n
    BY <2>2 DEF FrameIs, Around
  <2>4. QED
    BY <2>1, <2>2, <2>3
<1>a. /\ r \in Seq(Frame) /\ m >= 1 /\ Len(r) = m /\ \A k \in 1 .. m - 1 : r[k] = st[k]
      /\ r[m] = f
  BY <1>4, SwapFacts
<1>5. Level("else", y.depth[n]) = m
  BY <1>4 DEF Level, Opens, Compound, Loops
<1>b. f.kind = "else" /\ f.at = h /\ f.start = g.start /\ f.end = g.end /\ g.kind = "ifElse"
  OBVIOUS
<1>6. ASSUME NEW k \in 1 .. m - 1 PROVE FrameIs(q, z, st[k], k)
  <2>1. k \in Nat /\ m >= k /\ k \in 1 .. m /\ m \in 1 .. m /\ k # m
    BY <1>1, <1>4
  <2>2. st[k].at # 0 /\ FrameIs(p, y, st[k], k) /\ FrameIs(p, y, st[m], m)
    BY <2>1, <1>1, <1>4
  <2>3. st[k].at # h
    BY <2>1, <2>2 DEF FrameIs
  <2>4. Level("else", y.depth[Len(p)]) >= k
    BY <2>1, <1>5
  <2>5. QED
    BY <2>1, <2>2, <2>3, <2>4, FrameStays
<1>7. \A o \in 1 .. n : p[o] \in Opens /\ y.close[o] = 0 => \E k \in 1 .. m : st[k].at = o
  BY <1>3 DEF Layout, Stacked
<1>c. FrameIs(p, y, g, m)
  <2>1. m \in Nat /\ m >= 1
    BY <1>4, <1>a
  <2>2. \A k \in 1 .. m : FrameIs(p, y, st[k], k)
    BY <1>4
  <2> HIDE DEF m
  <2>3. FrameIs(p, y, st[m], m)
    BY <2>1, <2>2
  <2>4. QED
    BY <2>3
<1> HIDE DEF q, n, m, r, g
<1>8. ASSUME NEW o \in 1 .. n + 1, q[o] \in Opens, z.close[o] = 0
      PROVE  \E k \in 1 .. m : r[k].at = o
  <2>1. o # n + 1
    BY <1>1, <1>8 DEF Opens, Compound, Loops
  <2>2. o \in 1 .. n /\ o # 0
    BY <2>1, <1>1
  <2>3. PICK k \in 1 .. m : st[k].at = o
    BY <2>2, <1>1, <1>2, <1>7, <1>8
  <2>4. CASE k = m
    BY <2>3, <2>4, <1>a, <1>b, <1>4 DEF g
  <2>5. CASE k # m
    <3>1. k \in 1 .. m - 1
      BY <2>5, <1>4
    <3>2. QED
      BY <2>3, <3>1, <1>a
  <2>6. QED
    BY <2>4, <2>5
<1>9. FrameIs(q, z, f, m)
  <2>1. /\ Around(p, y, n + 1, h) /\ y.depth[h] = m
        /\ p[h] = "ifElse" /\ y.close[h] = 0
        /\ y.start[h] = g.start /\ y.end[h] = g.end
    BY <1>b, <1>c DEF FrameIs, KindOf, n
  <2>2. h \in 1 .. n /\ p[h] \in Opens /\ \A i \in h .. n : y.depth[i] >= m
    BY <2>1, <1>1 DEF Around, n
  <2>3. h \in 0 .. n /\ h # 0 /\ n + 1 # 0
    BY <2>2, <1>1
  <2> HIDE DEF h
  <2>4. /\ q[h] = p[h] /\ z.depth[h] = m /\ z.close[h] = 0 /\ z.els[h] # 0
        /\ z.start[h] = y.start[h] /\ z.end[h] = y.end[h]
    BY <2>1, <2>2, <2>3, <1>1, <1>2
  <2>5. \A i \in h .. n + 1 : z.depth[i] >= m
    <3>1. ASSUME NEW i \in h .. n + 1 PROVE z.depth[i] >= m
      <4>1. CASE i = n + 1
        BY <4>1, <1>2, <1>4, <1>5
      <4>2. CASE i # n + 1
        <5>1. i \in h .. n /\ i \in 0 .. n
          BY <4>2, <1>1, <2>2
        <5>2. QED
          BY <5>1, <1>2, <2>2
      <4>3. QED
        BY <4>1, <4>2
    <3>2. QED
      BY <3>1
  <2>6. Around(q, z, n + 1 + 1, h)
    <3>1. h \in 1 .. n + 1 /\ h < n + 1 + 1 /\ (n + 1 + 1) - 1 = n + 1
      BY <2>2, <1>1
    <3>2. QED
      BY <3>1, <2>2, <2>4, <2>5, <1>1 DEF Around
  <2>7. QED
    BY <2>1, <2>4, <2>6, <1>1, <1>b DEF FrameIs, KindOf
<1>10. Stacked(q, r, z)
  <2>1. ASSUME NEW k \in 1 .. m PROVE FrameIs(q, z, r[k], k)
    <3>1. CASE k = m
      BY <3>1, <1>9, <1>a
    <3>2. CASE k # m
      <4>1. k \in 1 .. m - 1
        BY <3>2, <1>4
      <4>2. QED
        BY <4>1, <1>6, <1>a
    <3>3. QED
      BY <3>1, <3>2
  <2>2. QED
    BY <1>1, <1>2, <1>5, <1>8, <2>1, <1>a DEF Stacked
<1>11. QED
  BY <1>10, LayoutGrows DEF q, r, m, g

\* There is a layout to go on with.
LEMMA OneEventExists ==
  ASSUME NEW p, NEW c, NEW st, NEW y, Layout(p, c, st, y), NEW v \in Words, NEW s \in Seq(Instr),
         NEW a \in Nat, NEW b \in Nat, v = "fun" <=> st = <<>>, v = "end" => st # <<>>,
         NEW e \in 0 .. Len(p), NEW h \in 0 .. Len(p),
         e # 0 => CanClose(p, y, v, e), h # 0 => CanTurn(p, y, v, h)
  PROVE  \E z : OneEvent(p, c, st, y, v, s, a, b, e, h, z)
<1> DEFINE n == Len(p)
           m == Len(c)
           z == Further(y, n, m, v, s, a, b, e, h)
<1>1. /\ n \in Nat /\ m \in Nat
      /\ y.depth \in [Nat -> Nat] /\ y.place \in [Nat -> Nat] /\ y.piece \in [Nat -> Seq(Instr)]
      /\ y.start \in [Nat -> Nat] /\ y.end \in [Nat -> Nat]
      /\ y.close \in [Nat -> Nat] /\ y.els \in [Nat -> Nat]
  BY LayoutFacts
<1>2. st \in Seq(Frame) /\ Len(st) \in Nat /\ y.depth[n] = Len(st)
  BY LayoutFacts
<1>3. st = <<>> <=> Len(st) = 0
  BY <1>2
<1>4. Level(v, y.depth[n]) \in Nat
  BY <1>2, <1>3 DEF Level
<1>5. e \in 0 .. n /\ h \in 0 .. n
  OBVIOUS
<1> HIDE DEF n, m
<1>6. GoesOn(y, z, n, m, v, s, a, b, e, h)
  BY <1>1, <1>4, <1>5, FurtherGoesOn
<1> HIDE DEF z
<1>7. v = "fun" <=> y.depth[n] = 0
  BY <1>2, <1>3
<1>8. OneEvent(p, c, st, y, v, s, a, b, e, h, z)
  BY <1>6, <1>7 DEF OneEvent, n, m
<1>9. QED
  BY <1>8

\* The code of the event added.
LEMMA NewFilled ==
  ASSUME NEW p, NEW c, NEW st, NEW y, NEW v, NEW s, NEW a, NEW b, NEW e, NEW h, NEW z,
         OneEvent(p, c, st, y, v, s, a, b, e, h, z),
         Fill(v, Len(p) + 1, s, a, b),
         v = "break" => Leaving(p, y, Len(p) + 1, s),
         v = "else" => h # 0 /\ s = <<I("BR", y.end[h]), I("LABEL", y.start[h])>>,
         v = "end" => e # 0 /\ Ends(c, y, Len(p) + 1, e, s, p[e])
  PROVE  Filled(Append(p, v), c \o s, z, Len(p) + 1)
<1> DEFINE q == Append(p, v)
           n == Len(p)
           i == n + 1
           t == c \o s
<1>1. /\ n \in Nat /\ Len(q) = n + 1
      /\ \A k \in 1 .. n : q[k] = p[k]
      /\ q[n + 1] = v
  BY TextGrows DEF OneEvent, Layout, Words
<1>2. /\ \A k \in 1 .. n : z.start[k] = y.start[k] /\ z.end[k] = y.end[k]
      /\ z.piece[i] = s /\ z.start[i] = a /\ z.end[i] = b
      /\ \A k \in 1 .. n : z.close[k] = IF k = e THEN n + 1 ELSE y.close[k]
      /\ \A k \in 1 .. n : z.els[k] = IF k = h THEN n + 1 ELSE y.els[k]
      /\ \A k \in 1 .. n + 1 : z.place[k] = y.place[k]
  BY DEF OneEvent, GoesOn
<1>3. (e # 0 => CanClose(p, y, v, e)) /\ (h # 0 => CanTurn(p, y, v, h))
  BY DEF OneEvent
<1>4. (e # 0 => e \in 1 .. n) /\ (h # 0 => h \in 1 .. n)
  BY <1>3 DEF CanClose, CanTurn, Around
<1>5. i \in 1 .. n + 1
  BY <1>1
<1>6. \A o : Around(q, z, i, o) <=> Around(p, y, i, o)
  BY <1>5, AroundStays
<1>7. \A k \in 1 .. Len(c) : t[k] = c[k]
  BY PlacingGrows
<1>8. Len(c) \in Nat /\ y.place[i] = Len(c) + 1
  <2>1. Placing(p, c, y) /\ c \in Seq(Instr)
    BY DEF OneEvent, Layout
  <2>2. QED
    BY <2>1 DEF Placing
<1>9. /\ Fill(v, i, s, a, b)
      /\ v = "break" => Leaving(p, y, i, s)
      /\ v = "else" => h # 0 /\ s = <<I("BR", y.end[h]), I("LABEL", y.start[h])>>
      /\ v = "end" => e # 0 /\ Ends(c, y, i, e, s, p[e])
  OBVIOUS
<1> HIDE DEF q, t
<1>10. Fill(q[i], i, z.piece[i], z.start[i], z.end[i])
  BY <1>1, <1>2, <1>9
<1>11. ASSUME v = "break" PROVE Leaving(q, z, i, z.piece[i])
  <2>2. ASSUME NEW o PROVE o \in Leavable(q, z, i) <=> o \in Leavable(p, y, i)
    <3>1. Around(q, z, i, o) <=> Around(p, y, i, o)
      BY <1>6
    <3>2. Around(p, y, i, o) => o \in 1 .. n /\ o \in 1 .. n + 1
      BY <1>1 DEF Around
    <3>3. QED
      BY <3>1, <3>2, <1>1 DEF Leavable
  <2>3. \A o \in Leavable(p, y, i) : z.end[o] = y.end[o]
    BY <1>2 DEF Leavable
  <2>4. QED
    BY <1>9, <1>11, <2>2, <2>3, <1>2 DEF Leaving
<1>12. ASSUME v = "else" PROVE Turning(q, z, i, z.piece[i])
  <2>1. h \in 1 .. n /\ s = <<I("BR", y.end[h]), I("LABEL", y.start[h])>>
    BY <1>4, <1>9, <1>12
  <2>2. z.els[h] = i /\ z.end[h] = y.end[h] /\ z.start[h] = y.start[h] /\ h \in 1 .. Len(q)
    BY <2>1, <1>1, <1>2
  <2>3. QED
    BY <2>1, <2>2, <1>2 DEF Turning
<1>13. ASSUME v = "end" PROVE Ending(q, t, z, i, z.piece[i])
  <2>1. e \in 1 .. n /\ Ends(c, y, i, e, s, p[e])
    BY <1>4, <1>9, <1>13
  <2>2. /\ z.close[e] = i /\ z.end[e] = y.end[e] /\ z.start[e] = y.start[e]
        /\ e \in 1 .. Len(q) /\ q[e] = p[e] /\ z.piece[i] = s /\ z.place[i] = y.place[i]
    BY <2>1, <1>1, <1>2, <1>5
  <2>3. y.place[i] > 1 => y.place[i] - 1 \in 1 .. Len(c)
    BY <1>8
  <2>4. FunEnds(c, y, i, e, s) => FunEnds(t, z, i, e, s)
    BY <2>2, <2>3, <1>7 DEF FunEnds
  <2>5. Ends(t, z, i, e, z.piece[i], q[e])
    BY <2>1, <2>2, <2>4 DEF Ends
  <2>6. QED
    BY <2>2, <2>5 DEF Ending
<1>14. q[i] = v
  BY <1>1
<1>15. QED
  BY <1>10, <1>11, <1>12, <1>13, <1>14 DEF Filled, q, t

\* A layout for one more event that opens and closes nothing.
LEMMA PlainStep ==
  ASSUME NEW p, NEW c, NEW st, NEW y, Layout(p, c, st, y), NEW v \in Simple, st # <<>>,
         NEW s \in Seq(Instr), NEW a \in Nat, NEW b \in Nat,
         Fill(v, Len(p) + 1, s, a, b), v = "break" => Leaving(p, y, Len(p) + 1, s)
  PROVE  \E z : Layout(Append(p, v), c \o s, st, z)
<1>1. v \in Words /\ v # "fun" /\ v # "end" /\ v # "else"
  BY DEF Words, Simple
<1>2. Len(p) \in Nat
  BY LayoutFacts
<1>3. 0 \in 0 .. Len(p)
  BY <1>2
<1>4. PICK z : OneEvent(p, c, st, y, v, s, a, b, 0, 0, z)
  BY <1>1, <1>3, OneEventExists
<1>5. Filled(Append(p, v), c \o s, z, Len(p) + 1)
  BY <1>1, <1>4, NewFilled
<1>6. QED
  BY <1>4, <1>5, PlainLayout

\* A layout for one more event that opens a construct.
LEMMA OpenStep ==
  ASSUME NEW p, NEW c, NEW st, NEW y, Layout(p, c, st, y), NEW v \in Opens,
         v = "fun" <=> st = <<>>, NEW s \in Seq(Instr), NEW f \in Frame, f.kind = v,
         f.at = Len(p) + 1, Fill(v, Len(p) + 1, s, f.start, f.end)
  PROVE  \E z : Layout(Append(p, v), c \o s, Append(st, f), z)
<1>1. v \in Words /\ v # "break" /\ v # "end" /\ v # "else"
  BY DEF Words, Opens, Compound, Loops
<1>2. Len(p) \in Nat /\ f.start \in Nat /\ f.end \in Nat
  BY LayoutFacts DEF Frame, Label
<1>3. 0 \in 0 .. Len(p)
  BY <1>2
<1>4. PICK z : OneEvent(p, c, st, y, v, s, f.start, f.end, 0, 0, z)
  BY <1>1, <1>2, <1>3, OneEventExists
<1>5. Filled(Append(p, v), c \o s, z, Len(p) + 1)
  BY <1>1, <1>4, NewFilled
<1>6. QED
  BY <1>4, <1>5, OpenLayout

\* The innermost construct, in a layout.
LEMMA InnermostFacts ==
  ASSUME NEW p, NEW c, NEW st, NEW y, Layout(p, c, st, y), st # <<>>,
         NEW f, f = st[Len(st)]
  PROVE  /\ FrameIs(p, y, f, Len(st)) /\ f.at \in 1 .. Len(p) /\ Len(p) \in Nat
         /\ y.depth[Len(p)] = y.depth[f.at] /\ f \in Frame
<1> DEFINE m == Len(st)
<1>1. st \in Seq(Frame) /\ m \in Nat /\ y.depth[Len(p)] = m /\ Len(p) \in Nat
  BY LayoutFacts
<1>2. m >= 1 /\ f \in Frame
  BY <1>1
<1>3. \A k \in 1 .. m : FrameIs(p, y, st[k], k)
  BY DEF Layout, Stacked
<1>4. f = st[m]
  OBVIOUS
<1> HIDE DEF m
<1>5. FrameIs(p, y, f, m)
  BY <1>1, <1>2, <1>3, <1>4
<1>6. f.at \in 1 .. Len(p) /\ y.depth[f.at] = m
  BY <1>5 DEF FrameIs, Around
<1>7. QED
  BY <1>1, <1>2, <1>5, <1>6 DEF m

\* A layout for the end of the innermost construct.
LEMMA CloseStep ==
  ASSUME NEW p, NEW c, NEW st, NEW y, Layout(p, c, st, y), st # <<>>,
         NEW s \in Seq(Instr), NEW f, f = st[Len(st)], f.kind # "ifElse",
         Ends(c, y, Len(p) + 1, f.at, s, KindOf(f))
  PROVE  \E z : Layout(Append(p, "end"), c \o s, SubSeq(st, 1, Len(st) - 1), z)
<1>1. /\ FrameIs(p, y, f, Len(st)) /\ f.at \in 1 .. Len(p) /\ Len(p) \in Nat
      /\ y.depth[Len(p)] = y.depth[f.at]
  BY InnermostFacts
<1>2. /\ Around(p, y, Len(p) + 1, f.at) /\ y.close[f.at] = 0 /\ p[f.at] = KindOf(f)
      /\ f.kind = "else" => y.els[f.at] # 0
  BY <1>1 DEF FrameIs
<1>3. p[f.at] = "ifElse" => y.els[f.at] # 0
  BY <1>2 DEF KindOf
<1>4. CanClose(p, y, "end", f.at)
  BY <1>1, <1>2, <1>3 DEF CanClose
<1>5. "end" \in Words /\ 0 \in 0 .. Len(p) /\ f.at \in 0 .. Len(p) /\ f.at # 0 /\ 0 \in Nat
  BY <1>1 DEF Words
<1>6. PICK z : OneEvent(p, c, st, y, "end", s, 0, 0, f.at, 0, z)
  BY <1>4, <1>5, OneEventExists
<1>7. Filled(Append(p, "end"), c \o s, z, Len(p) + 1)
  <2>1. Fill("end", Len(p) + 1, s, 0, 0)
    BY DEF Fill
  <2>2. Ends(c, y, Len(p) + 1, f.at, s, p[f.at])
    BY <1>2
  <2>3. QED
    BY <2>1, <2>2, <1>5, <1>6, NewFilled
<1>8. QED
  BY <1>6, <1>7, CloseLayout

\* A layout for the else of the innermost construct.
LEMMA TurnStep ==
  ASSUME NEW p, NEW c, NEW st, NEW y, Layout(p, c, st, y), st # <<>>,
         NEW g, g = st[Len(st)], g.kind = "ifElse",
         NEW s \in Seq(Instr), s = <<I("BR", g.end), I("LABEL", g.start)>>,
         NEW f \in Frame, f.kind = "else", f.at = g.at, f.start = g.start, f.end = g.end
  PROVE  \E z : Layout(Append(p, "else"), c \o s, [st EXCEPT ![Len(st)] = f], z)
<1>1. /\ FrameIs(p, y, g, Len(st)) /\ g.at \in 1 .. Len(p) /\ Len(p) \in Nat
      /\ y.depth[Len(p)] = y.depth[g.at]
  BY InnermostFacts
<1>2. /\ Around(p, y, Len(p) + 1, g.at) /\ y.els[g.at] = 0 /\ p[g.at] = "ifElse"
      /\ y.start[g.at] = g.start /\ y.end[g.at] = g.end
  BY <1>1 DEF FrameIs, KindOf
<1>4. CanTurn(p, y, "else", g.at)
  BY <1>1, <1>2 DEF CanTurn
<1>5. "else" \in Words /\ 0 \in 0 .. Len(p) /\ g.at \in 0 .. Len(p) /\ g.at # 0 /\ 0 \in Nat
  BY <1>1 DEF Words
<1>6. PICK z : OneEvent(p, c, st, y, "else", s, 0, 0, 0, g.at, z)
  BY <1>4, <1>5, OneEventExists
<1>7. Filled(Append(p, "else"), c \o s, z, Len(p) + 1)
  <2>1. Fill("else", Len(p) + 1, s, 0, 0)
    BY DEF Fill
  <2>2. s = <<I("BR", y.end[g.at]), I("LABEL", y.start[g.at])>>
    BY <1>2
  <2>3. QED
    BY <2>1, <2>2, <1>5, <1>6, NewFilled
<1>8. QED
  BY <1>6, <1>7, TurnLayout

\* There is a layout, unless the generator crashed.
HasLayout == ~crashed => \E y : Layout(prog, code, stack, y)

\* Reaching a state that has one.
LEMMA Arrives ==
  ASSUME NEW p, NEW c, NEW st, \E z : Layout(p, c, st, z), prog' = p, code' = c, stack' = st
  PROVE  HasLayout'
BY DEF HasLayout

\* What break leaves is the loop whose end current_break_label is.
LEMMA BreakLeaves ==
  ASSUME IInv, NEW y, Layout(prog, code, stack, y), NEW s,
         s = IF current_break_label = NULL THEN <<>> ELSE <<I("BR", current_break_label)>>
  PROVE  Leaving(prog, y, Len(prog) + 1, s)
<1> DEFINE n == Len(prog)
           m == Len(stack)
           b == current_break_label
           loops == {i \in 1 .. m : stack[i].kind \in {"while", "for"}}
           left == Leavable(prog, y, n + 1)
<1>1. /\ n \in Nat /\ m \in Nat /\ y.depth \in [Nat -> Nat] /\ y.close \in [Nat -> Nat]
      /\ stack \in Seq(Frame)
  BY LayoutFacts
<1>2. \A k \in 1 .. m : FrameIs(prog, y, stack[k], k)
  BY DEF Layout, Stacked
<1>3. /\ \A o \in 1 .. n : y.close[o] # 0 =>
            /\ y.close[o] \in 1 .. n /\ Around(prog, y, y.close[o], o)
            /\ y.depth[y.close[o]] = y.depth[o] - 1
      /\ \A o \in 1 .. n : prog[o] \in Opens /\ y.close[o] = 0 => \E k \in 1 .. m : stack[k].at = o
  BY DEF Layout, Matched, Stacked
<1>4. \/ b = NULL /\ loops = {}
      \/ \E i \in loops : b = stack[i].end /\ \A j \in loops : j <= i
  BY DEF IInv, BreakOK, BreakIs
<1>5. \A i \in 1 .. m : stack[i].end \in Nat
  <2>1. \A i \in 1 .. m : stack[i] \in Frame
    BY <1>1
  <2>2. QED
    BY <2>1 DEF Frame, Label
<1>a. (n + 1) - 1 = n
  BY <1>1
<1>b. \A o \in left : /\ o \in 1 .. n /\ prog[o] \in {"while", "for"}
                     /\ \A k \in o .. n : y.depth[k] >= y.depth[o]
  <2>1. ASSUME NEW o \in left
        PROVE  /\ o \in 1 .. n /\ prog[o] \in {"while", "for"}
               /\ \A k \in o .. (n + 1) - 1 : y.depth[k] >= y.depth[o]
    BY DEF Leavable, Around
  <2> HIDE DEF n, left
  <2>2. QED
    BY <2>1, <1>a
<1>c. \A k \in 1 .. m : k \in Nat
  BY <1>1
<1>d. \A k \in 1 .. n : k \in Nat
  BY <1>1
<1> HIDE DEF n, m
<1>6. ASSUME NEW o \in left PROVE \E k \in loops : stack[k].at = o
  <2>1. /\ o \in 1 .. n /\ prog[o] \in {"while", "for"}
        /\ \A k \in o .. n : y.depth[k] >= y.depth[o]
    BY <1>b
  <2>2. y.close[o] = 0
    <3>1. SUFFICES ASSUME y.close[o] # 0 PROVE FALSE
      OBVIOUS
    <3> DEFINE e == y.close[o]
    <3>2. e \in 1 .. n /\ o < e /\ y.depth[e] = y.depth[o] - 1
      BY <2>1, <3>1, <1>3 DEF Around
    <3> HIDE DEF e
    <3>5. o \in Nat /\ e \in Nat
      BY <1>d, <2>1, <3>2
    <3>6. n \in Nat
      BY <1>1
    <3>3. e \in o .. n
      BY <3>2, <3>5, <3>6
    <3>7. y.depth[o] \in Nat
      BY <1>1, <3>5
    <3>4. QED
      BY <2>1, <3>2, <3>3, <3>7
  <2>3. PICK k \in 1 .. m : stack[k].at = o
    BY <2>1, <2>2, <1>3 DEF Opens, Compound, Loops
  <2>4. stack[k].kind \in {"while", "for"}
    BY <2>1, <2>3, <1>2 DEF FrameIs, KindOf
  <2>5. QED
    BY <2>3, <2>4
<1>7. ASSUME NEW k \in loops
      PROVE  /\ stack[k].at \in left /\ y.end[stack[k].at] = stack[k].end
             /\ y.depth[stack[k].at] = k
  BY <1>2 DEF FrameIs, KindOf, Leavable, Around, n
<1>8. CASE b = NULL
  <2>1. loops = {}
    BY <1>4, <1>5, <1>8, CodegenAssumption
  <2>2. left = {}
    BY <2>1, <1>6
  <2>3. QED
    BY <2>2, <1>8 DEF Leaving, n
<1>9. CASE b # NULL
  <2>1. PICK i \in loops : b = stack[i].end /\ \A j \in loops : j <= i
    BY <1>4, <1>9
  <2> DEFINE o == stack[i].at
  <2>2. o \in left /\ y.end[o] = b /\ y.depth[o] = i
    BY <2>1, <1>7
  <2>3. \A k \in o .. n : y.depth[k] >= i
    BY <1>b, <2>2
  <2> HIDE DEF o
  <2>4. ASSUME NEW q \in left PROVE q <= o
    <3>1. PICK j \in loops : stack[j].at = q
      BY <1>6
    <3>2. j <= i /\ y.depth[q] = j /\ i \in Nat /\ j \in Nat
      <4>1. j <= i /\ y.depth[q] = j
        BY <3>1, <2>1, <1>7
      <4>2. i \in 1 .. m /\ j \in 1 .. m
        OBVIOUS
      <4>3. QED
        BY <4>1, <4>2, <1>c
    <3>3. q \in 1 .. n /\ o \in 1 .. n
      BY <2>2, <1>b
    <3>4. CASE j = i
      <4>1. q = o
        BY <3>1, <3>4 DEF o
      <4>2. QED
        BY <4>1, <3>3, <1>1
    <3>5. CASE j # i
      <4>1. q \in o .. n => j >= i
        BY <2>3, <3>2
      <4>2. QED
        BY <4>1, <3>2, <3>3, <3>5, <1>1
    <3>6. QED
      BY <3>4, <3>5
  <2>5. s = <<I("BR", y.end[o])>>
    BY <2>2, <1>9
  <2>6. QED
    BY <2>2, <2>4, <2>5 DEF Leaving, n
<1>10. QED
  BY <1>8, <1>9

\* A statement without a body, in a layout.
LEMMA PlainLaid ==
  ASSUME HasLayout, NEW v \in Simple, ~crashed, InFunction, Reads(v),
         NEW s \in Seq(Instr), code' = code \o s, UNCHANGED stack,
         NEW a \in Nat, NEW b \in Nat, Fill(v, Here, s, a, b),
         v = "break" => \A y : Layout(prog, code, stack, y) => Leaving(prog, y, Here, s)
  PROVE  HasLayout'
<1>1. PICK y : Layout(prog, code, stack, y)
  BY DEF HasLayout
<1>2. \E z : Layout(Append(prog, v), code \o s, stack, z)
  BY <1>1, PlainStep DEF Here, InFunction
<1>3. prog' = Append(prog, v) /\ stack' = stack
  BY DEF Reads
<1>4. QED
  BY <1>2, <1>3, Arrives

\* What the steps of a statement have in common.
LEMMA StatementFacts ==
  ASSUME IInv, NEW v, NEW more, Statement(v, more)
  PROVE  /\ ~crashed /\ InFunction /\ Reads(v) /\ stack # <<>>
         /\ Here \in Nat /\ labelcounter \in Nat /\ labelcounter + 1 \in Nat
         /\ code \in Seq(Instr) /\ 0 \in Nat
  BY DEF Statement, IInv, TypeOK, Here, InFunction

\* Straight-line code is laid.
LEMMA StraightLaid == IInv /\ HasLayout /\ Straight => HasLayout'
<1> SUFFICES ASSUME IInv, HasLayout, Straight PROVE HasLayout'
  OBVIOUS
<1> DEFINE s == <<Act(Here, "do")>>
<1>1. ASSUME NEW v \in {"do", "value"}, Statement(v, 1) PROVE HasLayout'
  <2>1. ~crashed /\ InFunction /\ Reads(v) /\ Here \in Nat /\ 0 \in Nat
    BY <1>1, StatementFacts
  <2>2. s \in Seq(Instr)
    BY <2>1, ActFacts, OneInstr
  <2>3. code' = code \o s /\ UNCHANGED stack
    BY DEF Straight, Emit
  <2>4. Fill(v, Here, s, 0, 0)
    BY DEF Fill
  <2> HIDE DEF s
  <2>5. v \in Simple /\ v # "break"
    BY DEF Simple
  <2>6. QED
    BY <2>1, <2>2, <2>3, <2>4, <2>5, PlainLaid
<1>2. QED
  BY <1>1 DEF Straight

\* So is the loop that fills an array.
LEMMA ArrayLaid == IInv /\ HasLayout /\ ArrayDeclaration => HasLayout'
<1> SUFFICES ASSUME IInv, HasLayout, ArrayDeclaration PROVE HasLayout'
  OBVIOUS
<1> DEFINE l == labelcounter
           m == labelcounter + 1
           i == Here
           a1 == Act(i, "init")
           a2 == I("LABEL", l)
           a3 == [op |-> "BNZ", label |-> m, src |-> <<i, "test">>]
           a4 == Act(i, "step")
           a5 == I("BR", l)
           a6 == I("LABEL", m)
           s == <<a1, a2, a3, a4, a5, a6>>
<1>1. Statement("array", 1) /\ code' = code \o s /\ UNCHANGED stack
  BY DEF ArrayDeclaration, Emit
<1>2. ~crashed /\ InFunction /\ Reads("array") /\ Here \in Nat /\ l \in Nat /\ m \in Nat
  BY <1>1, StatementFacts
<1>3. s \in Seq(Instr)
  <2> HIDE DEF l, m, i
  <2>0. i \in Nat
    BY <1>2 DEF i
  <2>1. a1 \in Instr /\ a4 \in Instr
    BY <2>0, ActFacts
  <2>2. a2 \in Instr /\ a5 \in Instr /\ a6 \in Instr
    BY <1>2, IFacts
  <2>3. a3 \in Instr
    BY <2>0, <1>2 DEF Instr, Point, Place, Label
  <2> HIDE DEF a1, a2, a3, a4, a5, a6
  <2>4. QED
    BY <2>1, <2>2, <2>3
<1>4. Fill("array", Here, s, l, m)
  BY DEF Fill
<1> HIDE DEF s, l, m
<1>5. "array" \in Simple
  BY DEF Simple
<1>6. QED
  BY <1>1, <1>2, <1>3, <1>4, <1>5, PlainLaid

\* So is break, and continue, which has no code.
LEMMA BreakLaid == IInv /\ HasLayout /\ Break => HasLayout'
<1> SUFFICES ASSUME IInv, HasLayout, Break PROVE HasLayout'
  OBVIOUS
<1> DEFINE s == IF current_break_label = NULL THEN <<>> ELSE <<I("BR", current_break_label)>>
<1>1. Statement("break", 1) /\ code' = code \o s /\ UNCHANGED stack
  BY DEF Break, Emit
<1>2. ~crashed /\ InFunction /\ Reads("break") /\ 0 \in Nat
  BY <1>1, StatementFacts
<1>3. s \in Seq(Instr)
  <2>1. current_break_label \in Nat \cup {NULL}
    BY DEF IInv, TypeOK, Label
  <2>2. CASE current_break_label = NULL
    BY <2>2
  <2>3. CASE current_break_label # NULL
    <3>1. I("BR", current_break_label) \in Instr
      BY <2>1, <2>3, IFacts
    <3>2. QED
      BY <2>3, <3>1, OneInstr
  <2>4. QED
    BY <2>2, <2>3
<1>4. \A y : Layout(prog, code, stack, y) => Leaving(prog, y, Here, s)
  BY BreakLeaves DEF Here
<1>5. Fill("break", Here, s, 0, 0)
  BY DEF Fill
<1> HIDE DEF s
<1>6. "break" \in Simple
  BY DEF Simple
<1>7. QED
  BY <1>1, <1>2, <1>3, <1>4, <1>5, <1>6, PlainLaid

\* A statement without code is laid.
LEMMA ContinueLaid == IInv /\ HasLayout /\ Continue => HasLayout'
<1> SUFFICES ASSUME IInv, HasLayout, Continue PROVE HasLayout'
  OBVIOUS
<1>1. Statement("continue", 1) /\ UNCHANGED <<code, stack>>
  BY DEF Continue
<1>2. ~crashed /\ InFunction /\ Reads("continue") /\ 0 \in Nat /\ code \in Seq(Instr)
  BY <1>1, StatementFacts
<1>3. code' = code \o <<>> /\ <<>> \in Seq(Instr)
  BY <1>1, <1>2
<1>4. Fill("continue", Here, <<>>, 0, 0) /\ "continue" \in Simple
  BY DEF Fill, Simple
<1>5. QED
  BY <1>1, <1>2, <1>3, <1>4, PlainLaid

\* So is return.
LEMMA ReturnLaid == IInv /\ HasLayout /\ Return => HasLayout'
<1> SUFFICES ASSUME IInv, HasLayout, Return PROVE HasLayout'
  OBVIOUS
<1> DEFINE r == [op |-> "RET", label |-> NULL, src |-> <<Here, "do">>]
           s == <<r>>
<1>1. Statement("return", 1) /\ code' = code \o s /\ UNCHANGED stack
  BY DEF Return, Emit
<1>2. ~crashed /\ InFunction /\ Reads("return") /\ 0 \in Nat /\ Here \in Nat
  BY <1>1, StatementFacts
<1>3. r \in Instr
  BY <1>2 DEF Instr, Point, Place
<1>4. s \in Seq(Instr)
  BY <1>3, OneInstr
<1>5. Fill("return", Here, s, 0, 0)
  BY DEF Fill
<1> HIDE DEF s
<1>6. "return" \in Simple
  BY DEF Simple
<1>7. QED
  BY <1>1, <1>2, <1>4, <1>5, <1>6, PlainLaid

\* A construct opened, in a layout.
LEMMA OpenLaid ==
  ASSUME HasLayout, NEW v \in Opens, ~crashed, v = "fun" <=> stack = <<>>, Reads(v),
         NEW s \in Seq(Instr), code' = code \o s,
         NEW f \in Frame, f.kind = v, f.at = Here, stack' = Append(stack, f),
         Fill(v, Here, s, f.start, f.end)
  PROVE  HasLayout'
<1>1. PICK y : Layout(prog, code, stack, y)
  BY DEF HasLayout
<1>2. \E z : Layout(Append(prog, v), code \o s, Append(stack, f), z)
  BY <1>1, OpenStep DEF Here
<1>3. prog' = Append(prog, v)
  BY DEF Reads
<1>4. QED
  BY <1>2, <1>3, Arrives

\* The frame Open pushes.
LEMMA OpenFacts ==
  ASSUME NEW v \in Opens, NEW a \in Nat, NEW b \in Nat, NEW saved \in Label \cup {NULL},
         Here \in Nat, Open(v, a, b, saved), NEW f, f = FrameOf(v, Here, a, b, saved)
  PROVE  /\ f \in Frame /\ f.kind = v /\ f.at = Here /\ f.start = a /\ f.end = b
         /\ stack' = Append(stack, f)
<1>1. stack' = Append(stack, f)
  BY DEF Open, FrameOf
<1>2. f \in Frame /\ f.kind = v /\ f.at = Here /\ f.start = a /\ f.end = b
  BY DEF FrameOf, Frame, Label, Opens
<1>3. QED
  BY <1>1, <1>2

\* The beginning of a function is laid.
LEMMA FunctionBeginLaid == IInv /\ HasLayout /\ FunctionBegin => HasLayout'
<1> SUFFICES ASSUME IInv, HasLayout, FunctionBegin PROVE HasLayout'
  OBVIOUS
<1> DEFINE l == labelcounter
           r == [op |-> "PROC", label |-> l, src |-> <<Here, "entry">>]
           s == <<r>>
           f == FrameOf("fun", Here, l, l, NULL)
<1>1. /\ ~crashed /\ stack = <<>> /\ Reads("fun") /\ code' = code \o s
      /\ Open("fun", l, l, NULL)
  BY DEF FunctionBegin, Emit, InFunction
<1>2. l \in Nat /\ Here \in Nat
  BY DEF IInv, TypeOK, Here
<1>3. "fun" \in Opens
  BY DEF Opens
<1>4. r \in Instr
  BY <1>2 DEF Instr, Point, Place, Label
<1>5. s \in Seq(Instr)
  BY <1>4, OneInstr
<1>6. Fill("fun", Here, s, l, l)
  BY DEF Fill
<1> HIDE DEF s, l
<1>7. f \in Frame /\ f.kind = "fun" /\ f.at = Here /\ f.start = l /\ f.end = l
      /\ stack' = Append(stack, f)
  <2>1. NULL \in Label \cup {NULL} /\ f = FrameOf("fun", Here, l, l, NULL)
    OBVIOUS
  <2> HIDE DEF f
  <2>2. QED
    BY <2>1, <1>1, <1>2, <1>3, OpenFacts
<1> HIDE DEF f
<1>8. QED
  BY <1>1, <1>3, <1>5, <1>6, <1>7, OpenLaid

\* So is the test of an if.
LEMMA IfBeginLaid == IInv /\ HasLayout /\ (IfBegin \/ IfElseBegin) => HasLayout'
<1> SUFFICES ASSUME IInv, HasLayout, IfBegin \/ IfElseBegin PROVE HasLayout'
  OBVIOUS
<1> DEFINE l == labelcounter
           m == labelcounter + 1
           s == <<Test(l, Here)>>
<1>1. ASSUME NEW v \in {"if", "ifElse"}, NEW more, NEW e \in {l, m}, Statement(v, more),
             Open(v, l, e, NULL), code' = code \o s, v = "if" => e = l
      PROVE  HasLayout'
  <2> DEFINE f == FrameOf(v, Here, l, e, NULL)
  <2>1. ~crashed /\ stack # <<>> /\ Reads(v) /\ Here \in Nat /\ l \in Nat /\ m \in Nat
    BY <1>1, StatementFacts
  <2>2. v \in Opens /\ v # "fun" /\ e \in Nat
    BY <2>1 DEF Opens, Compound
  <2>3. s \in Seq(Instr)
    BY <2>1, TestFacts, OneInstr
  <2>4. Fill(v, Here, s, l, e)
    BY <1>1 DEF Fill
  <2> HIDE DEF s, l
  <2>5. f \in Frame /\ f.kind = v /\ f.at = Here /\ f.start = l /\ f.end = e
        /\ stack' = Append(stack, f)
    <3>1. NULL \in Label \cup {NULL} /\ Open(v, l, e, NULL) /\ v \in Opens /\ Here \in Nat
          /\ l \in Nat /\ e \in Nat
      BY <1>1, <2>1, <2>2
    <3>2. f = FrameOf(v, Here, l, e, NULL)
      OBVIOUS
    <3> HIDE DEF f
    <3>3. QED
      BY <3>1, <3>2, OpenFacts
  <2> HIDE DEF f
  <2>6. code' = code \o s
    BY <1>1
  <2>7. QED
    BY <2>1, <2>2, <2>3, <2>4, <2>5, <2>6, OpenLaid
<1>2. CASE IfBegin
  <2>1. Statement("if", 2) /\ Open("if", l, l, NULL) /\ code' = code \o s
    BY <1>2 DEF IfBegin, Emit
  <2>2. QED
    BY <2>1, <1>1
<1>3. CASE IfElseBegin
  <2>1. Statement("ifElse", 3) /\ Open("ifElse", l, m, NULL) /\ code' = code \o s
    BY <1>3 DEF IfElseBegin, Emit
  <2>2. QED
    BY <2>1, <1>1
<1>4. QED
  BY <1>2, <1>3

\* So is the beginning of a loop.
LEMMA LoopHeadLaid ==
  ASSUME IInv, HasLayout, NEW kind \in {"while", "for", "range"}, NEW before, LoopHead(kind, before),
         before = IF kind = "while" THEN <<>> ELSE <<Act(Here, "init")>>
  PROVE  HasLayout'
<1> DEFINE l == labelcounter
           m == labelcounter + 1
           x == I("LABEL", l)
           w == Test(m, Here)
           d == Act(Here, "init")
           s == IF kind = "while" THEN <<x, w>> ELSE <<d, x, w>>
           f == FrameOf(kind, Here, l, m, current_break_label)
<1>1. /\ Statement(kind, 2) /\ Open(kind, l, m, current_break_label)
      /\ code' = code \o (before \o <<x, w>>)
  BY DEF LoopHead, Emit
<1>2. ~crashed /\ stack # <<>> /\ Reads(kind) /\ Here \in Nat /\ l \in Nat /\ m \in Nat
  BY <1>1, StatementFacts
<1>3. current_break_label \in Label \cup {NULL} /\ kind \in Opens /\ kind # "fun"
  BY DEF IInv, TypeOK, Opens, Compound, Loops
<1>4. Fill(kind, Here, s, l, m)
  BY DEF Fill
<1>5. x \in Instr /\ w \in Instr /\ d \in Instr
  BY <1>2, IFacts, TestFacts, ActFacts
<1>6. before = IF kind = "while" THEN <<>> ELSE <<d>>
  OBVIOUS
<1> HIDE DEF x, w, d, l, m
<1>7. before \o <<x, w>> = s /\ s \in Seq(Instr)
  <2>1. CASE kind = "while"
    BY <2>1, <1>5, <1>6, PairAfter, TwoInstrs
  <2>2. CASE kind # "while"
    BY <2>2, <1>5, <1>6, PairAfterOne, ThreeInstrs
  <2>3. QED
    BY <2>1, <2>2
<1> HIDE DEF s
<1>8. f \in Frame /\ f.kind = kind /\ f.at = Here /\ f.start = l /\ f.end = m
      /\ stack' = Append(stack, f)
  BY <1>1, <1>2, <1>3, OpenFacts
<1> HIDE DEF f
<1>9. QED
  BY <1>1, <1>2, <1>3, <1>4, <1>7, <1>8, OpenLaid

\* So is the beginning of a loop without labels.
LEMMA UnknownBeginLaid ==
  ASSUME IInv, HasLayout, NEW kind \in Unknown, NEW before, UnknownBegin(kind, before),
         before = IF kind = "doWhile" THEN <<>> ELSE <<Act(Here, "init")>>
  PROVE  HasLayout'
<1> DEFINE l == labelcounter
           f == FrameOf(kind, Here, l, l, NULL)
<1>1. Statement(kind, 2) /\ Open(kind, l, l, NULL) /\ code' = code \o before
  BY DEF UnknownBegin, Emit
<1>2. ~crashed /\ stack # <<>> /\ Reads(kind) /\ Here \in Nat /\ l \in Nat
  BY <1>1, StatementFacts
<1>3. kind \in Opens /\ kind # "fun"
  BY DEF Unknown, Opens, Compound, Loops
<1>4. Fill(kind, Here, before, l, l)
  BY DEF Fill, Unknown
<1>5. before \in Seq(Instr)
  <2>1. Act(Here, "init") \in Instr
    BY <1>2, ActFacts
  <2>2. QED
    BY <2>1, OneInstr
<1> HIDE DEF l
<1>6. f \in Frame /\ f.kind = kind /\ f.at = Here /\ f.start = l /\ f.end = l
      /\ stack' = Append(stack, f)
  <2>1. NULL \in Label \cup {NULL} /\ f = FrameOf(kind, Here, l, l, NULL)
    OBVIOUS
  <2> HIDE DEF f
  <2>2. QED
    BY <2>1, <1>1, <1>2, <1>3, OpenFacts
<1> HIDE DEF f
<1>7. QED
  BY <1>1, <1>2, <1>3, <1>4, <1>5, <1>6, OpenLaid

\* The innermost construct closed, in a layout.
LEMMA CloseLaid ==
  ASSUME HasLayout, ~crashed, stack # <<>>, Reads("end"), NEW s \in Seq(Instr),
         code' = code \o s, stack' = Pop, Inner.kind # "ifElse",
         \A y : Layout(prog, code, stack, y) => Ends(code, y, Here, Inner.at, s, KindOf(Inner))
  PROVE  HasLayout'
<1>1. PICK y : Layout(prog, code, stack, y)
  BY DEF HasLayout
<1>2. Ends(code, y, Len(prog) + 1, Inner.at, s, KindOf(Inner))
  BY <1>1 DEF Here
<1>3. \E z : Layout(Append(prog, "end"), code \o s, Pop, z)
  BY <1>1, <1>2, CloseStep DEF Inner, Pop
<1>4. prog' = Append(prog, "end")
  BY DEF Reads
<1>5. QED
  BY <1>3, <1>4, Arrives

\* A construct that is no function closed, in a layout.
LEMMA BodyCloseLaid ==
  ASSUME HasLayout, ~crashed, stack # <<>>, Reads("end"), NEW s \in Seq(Instr),
         code' = code \o s, stack' = Pop, Inner.kind # "ifElse", KindOf(Inner) # "fun",
         EndFill(KindOf(Inner), Inner.at, s, Inner.start, Inner.end)
  PROVE  HasLayout'
<1>1. ASSUME NEW y, Layout(prog, code, stack, y)
      PROVE  Ends(code, y, Here, Inner.at, s, KindOf(Inner))
  <2>1. FrameIs(prog, y, Inner, Len(stack))
    BY <1>1, InnermostFacts DEF Inner
  <2>2. y.start[Inner.at] = Inner.start /\ y.end[Inner.at] = Inner.end
    BY <2>1 DEF FrameIs
  <2>3. QED
    BY <2>2 DEF Ends
<1>2. QED
  BY <1>1, CloseLaid

\* What the steps that close have in common.
LEMMA InnerFacts ==
  ASSUME IInv, stack # <<>>
  PROVE  /\ Inner \in Frame /\ Inner.at \in Nat /\ Inner.start \in Nat /\ Inner.end \in Nat
         /\ stack \in Seq(Frame)
<1>1. stack \in Seq(Frame)
  BY DEF IInv, TypeOK
<1>2. Inner \in Frame
  BY <1>1 DEF Inner
<1>3. QED
  BY <1>1, <1>2 DEF Frame, Label

\* The end of an if is laid.
LEMMA IfEndLaid == IInv /\ HasLayout /\ IfEnd => HasLayout'
<1> SUFFICES ASSUME IInv, HasLayout, IfEnd PROVE HasLayout'
  OBVIOUS
<1> DEFINE s == <<I("LABEL", Inner.end)>>
<1>1. /\ ~crashed /\ stack # <<>> /\ Inner.kind \in {"if", "else"} /\ Reads("end")
      /\ code' = code \o s /\ stack' = Pop
  BY DEF IfEnd, Closes, Emit, InFunction
<1>2. s \in Seq(Instr)
  BY <1>1, InnerFacts, IFacts, OneInstr
<1>3. KindOf(Inner) \in {"if", "ifElse"} /\ Inner.kind # "ifElse"
  BY <1>1 DEF KindOf
<1>4. EndFill(KindOf(Inner), Inner.at, s, Inner.start, Inner.end)
  BY <1>3 DEF EndFill
<1> HIDE DEF s
<1>5. KindOf(Inner) # "fun"
  BY <1>3
<1>6. QED
  BY <1>1, <1>2, <1>3, <1>4, <1>5, BodyCloseLaid

\* So is the end of a loop.
LEMMA LoopTailLaid ==
  ASSUME IInv, HasLayout, NEW kind \in {"while", "for", "range"}, NEW after,
         Closes(kind), LoopTail(after),
         after = IF kind = "while" THEN <<>> ELSE <<Act(Inner.at, "step")>>
  PROVE  HasLayout'
<1> DEFINE x == I("BR", Inner.start)
           w == I("LABEL", Inner.end)
           d == Act(Inner.at, "step")
           s == IF kind = "while" THEN <<x, w>> ELSE <<d, x, w>>
<1>1. /\ ~crashed /\ stack # <<>> /\ Inner.kind = kind /\ Reads("end")
      /\ code' = code \o (after \o <<x, w>>) /\ stack' = Pop
  BY DEF Closes, LoopTail, Emit, InFunction
<1>2. KindOf(Inner) = kind /\ kind # "ifElse" /\ kind # "fun"
  BY <1>1 DEF KindOf
<1>3. EndFill(kind, Inner.at, s, Inner.start, Inner.end)
  BY DEF EndFill
<1>4. x \in Instr /\ w \in Instr /\ d \in Instr
  BY <1>1, InnerFacts, IFacts, ActFacts
<1>5. after = IF kind = "while" THEN <<>> ELSE <<d>>
  OBVIOUS
<1> HIDE DEF x, w, d
<1>6. after \o <<x, w>> = s /\ s \in Seq(Instr)
  <2>1. CASE kind = "while"
    BY <2>1, <1>4, <1>5, PairAfter, TwoInstrs
  <2>2. CASE kind # "while"
    BY <2>2, <1>4, <1>5, PairAfterOne, ThreeInstrs
  <2>3. QED
    BY <2>1, <2>2
<1> HIDE DEF s
<1>7. QED
  BY <1>1, <1>2, <1>3, <1>6, BodyCloseLaid

\* So is the end of a loop without labels.
LEMMA UnknownEndLaid ==
  ASSUME IInv, HasLayout, NEW kind \in Unknown, NEW after, UnknownEnd(kind, after),
         after = IF kind = "until" THEN <<>> ELSE <<Act(Inner.at, "test")>>
  PROVE  HasLayout'
<1>1. /\ ~crashed /\ stack # <<>> /\ Inner.kind = kind /\ Reads("end")
      /\ code' = code \o after /\ stack' = Pop
  BY DEF UnknownEnd, Closes, Emit, InFunction
<1>2. KindOf(Inner) = kind /\ kind # "ifElse" /\ kind # "fun"
  BY <1>1 DEF KindOf, Unknown
<1>3. EndFill(kind, Inner.at, after, Inner.start, Inner.end)
  BY DEF EndFill, Unknown
<1>4. after \in Seq(Instr)
  <2>1. Act(Inner.at, "test") \in Instr
    BY <1>1, InnerFacts, ActFacts
  <2>2. QED
    BY <2>1, OneInstr
<1>5. QED
  BY <1>1, <1>2, <1>3, <1>4, BodyCloseLaid

\* So is the end of a function.
LEMMA FunctionEndLaid == IInv /\ HasLayout /\ FunctionEnd => HasLayout'
<1> SUFFICES ASSUME IInv, HasLayout, FunctionEnd PROVE HasLayout'
  OBVIOUS
<1> DEFINE x == I("RET", NULL)
           w == I("END", Inner.end)
           s == IF code[Len(code)].op = "RET" THEN <<w>> ELSE <<x, w>>
<1>1. /\ ~crashed /\ stack # <<>> /\ Inner.kind = "fun" /\ Reads("end")
      /\ code' = code \o s /\ stack' = Pop
  BY DEF FunctionEnd, Emit, InFunction
<1>2. x \in Instr /\ w \in Instr
  <2>1. x \in Instr
    BY DEF Instr, Point, I
  <2>2. QED
    BY <2>1, <1>1, InnerFacts, IFacts
<1>3. s \in Seq(Instr)
  <2> HIDE DEF x, w
  <2>1. QED
    BY <1>2, OneInstr, TwoInstrs
<1>4. ASSUME NEW y, Layout(prog, code, stack, y)
      PROVE  Ends(code, y, Here, Inner.at, s, KindOf(Inner))
  <2>1. FrameIs(prog, y, Inner, Len(stack)) /\ Inner.at \in 1 .. Len(prog) /\ Len(prog) \in Nat
    BY <1>1, <1>4, InnermostFacts DEF Inner
  <2>2. y.end[Inner.at] = Inner.end /\ prog[Inner.at] = "fun"
    BY <2>1, <1>1 DEF FrameIs, KindOf
  <2> DEFINE n == Len(prog)
             o == Inner.at
  <2>3. /\ Placing(prog, code, y) /\ Len(code) \in Nat /\ y.place \in [Nat -> Nat]
        /\ Filled(prog, code, y, o)
    BY <1>4, <2>1, LayoutFacts DEF Layout
  <2>4. Len(y.piece[o]) = 1
    <3>1. y.piece[o] = <<[op |-> "PROC", label |-> y.start[o], src |-> <<o, "entry">>]>>
      BY <2>2, <2>3 DEF Filled, Fill
    <3>2. QED
      BY <3>1
  <2>5. y.place[n + 1] = Len(code) + 1 /\ Len(code) >= 1
    <3>1. o \in 1 .. n + 1 /\ o + 1 \in 1 .. n + 1 /\ n + 1 \in 1 .. n + 1 /\ 1 \in 1 .. n + 1
          /\ 1 <= o /\ o + 1 <= n + 1 /\ o \in Nat
      BY <2>1
    <3>2. /\ y.place[1] = 1 /\ y.place[n + 1] = Len(code) + 1
          /\ y.place[o + 1] = y.place[o] + 1
      BY <2>1, <2>3, <2>4 DEF Placing
    <3>3. y.place[1] <= y.place[o] /\ y.place[o + 1] <= y.place[n + 1]
      BY <3>1, <2>3 DEF Placing
    <3>4. y.place[o] \in Nat
      BY <3>1, <2>3
    <3> DEFINE u == y.place[o]
               t == Len(code)
    <3>5. 1 <= u /\ u + 1 <= t + 1 /\ t \in Nat /\ u \in Nat
      BY <3>2, <3>3, <3>4, <2>3
    <3> HIDE DEF u, t
    <3>6. t >= 1
      BY <3>5
    <3>7. QED
      BY <3>2, <3>6 DEF t
  <2>6. y.place[Here] = Len(code) + 1 /\ y.place[Here] > 1 /\ y.place[Here] - 1 = Len(code)
    BY <2>5, <2>3 DEF Here
  <2>7. w = I("END", y.end[o])
    BY <2>2
  <2>8. FunEnds(code, y, Here, o, s)
    BY <2>6, <2>7 DEF FunEnds
  <2>9. KindOf(Inner) = "fun"
    BY <1>1 DEF KindOf
  <2>10. QED
    BY <2>8, <2>9 DEF Ends
<1>5. Inner.kind # "ifElse"
  BY <1>1
<1>6. QED
  BY <1>1, <1>3, <1>4, <1>5, CloseLaid

\* So is the turn from the first half of an if to the second.
LEMMA ElseLaid == IInv /\ HasLayout /\ Else => HasLayout'
<1> SUFFICES ASSUME IInv, HasLayout, Else PROVE HasLayout'
  OBVIOUS
<1> DEFINE f == [Inner EXCEPT !.kind = "else", !.body = Here]
           s == <<I("BR", Inner.end), I("LABEL", Inner.start)>>
<1>1. /\ ~crashed /\ stack # <<>> /\ Inner.kind = "ifElse" /\ Reads("else")
      /\ code' = code \o s /\ stack' = [stack EXCEPT ![Len(stack)] = f]
  BY DEF Else, Closes, Emit, InFunction
<1>2. Inner \in Frame /\ Inner.start \in Nat /\ Inner.end \in Nat /\ Here \in Nat
  BY <1>1, InnerFacts DEF IInv, TypeOK, Here
<1>3. /\ f \in Frame /\ f.kind = "else" /\ f.at = Inner.at
      /\ f.start = Inner.start /\ f.end = Inner.end
  BY <1>2 DEF Frame
<1>4. s \in Seq(Instr)
  BY <1>2, IFacts, TwoInstrs
<1>5. s = <<I("BR", Inner.end), I("LABEL", Inner.start)>>
  OBVIOUS
<1> HIDE DEF s, f
<1>6. PICK y : Layout(prog, code, stack, y)
  BY <1>1 DEF HasLayout
<1>7. \E z : Layout(Append(prog, "else"), code \o s, [stack EXCEPT ![Len(stack)] = f], z)
  BY <1>1, <1>3, <1>4, <1>5, <1>6, TurnStep DEF Inner
<1>8. prog' = Append(prog, "else")
  BY <1>1 DEF Reads
<1>9. QED
  BY <1>1, <1>7, <1>8, Arrives

\* Nothing is laid out in no place.
LEMMA InitLaid == Init => HasLayout
<1> SUFFICES ASSUME Init PROVE HasLayout
  OBVIOUS
<1> DEFINE zero == [k \in Nat |-> 0]
           one == [k \in Nat |-> 1]
           none == [k \in Nat |-> <<>>]
           y == [depth |-> zero, place |-> one, piece |-> none, start |-> zero, end |-> zero,
                 close |-> zero, els |-> zero]
<1>1. prog = <<>> /\ code = <<>> /\ stack = <<>>
  BY DEF Init
<1>2. /\ zero \in [Nat -> Nat] /\ zero[0] = 0 /\ one \in [Nat -> Nat] /\ one[1] = 1
      /\ none \in [Nat -> Seq(Instr)]
  OBVIOUS
<1>3. /\ prog \in Seq(Words) /\ code \in Seq(Instr) /\ stack \in Seq(Frame)
      /\ Len(prog) = 0 /\ Len(code) = 0 /\ Len(stack) = 0
  BY <1>1
<1>4. /\ y.depth = zero /\ y.place = one /\ y.piece = none /\ y.start = zero /\ y.end = zero
      /\ y.close = zero /\ y.els = zero
  OBVIOUS
<1>5. 1 .. Len(prog) = {} /\ 1 .. Len(code) = {} /\ 1 .. Len(stack) = {}
      /\ 1 .. Len(prog) + 1 = {1} /\ Len(prog) + 1 = 1 /\ Len(code) + 1 = 1
  BY <1>3
<1> HIDE DEF zero, one, none, y
<1>6. Nested(prog, y)
  BY <1>2, <1>4, <1>5 DEF Nested
<1>7. Placing(prog, code, y)
  <2>1. y.place[1] <= y.place[1]
    BY <1>2, <1>4
  <2>2. QED
    BY <2>1, <1>2, <1>4, <1>5 DEF Placing
<1>8. Matched(prog, y)
  BY <1>2, <1>4, <1>5 DEF Matched
<1>9. Stacked(prog, stack, y)
  BY <1>2, <1>3, <1>4, <1>5 DEF Stacked
<1>10. Layout(prog, code, stack, y)
  BY <1>2, <1>3, <1>4, <1>5, <1>6, <1>7, <1>8, <1>9 DEF Layout
<1>11. QED
  BY <1>10 DEF HasLayout

\* Every step keeps the layout.
LEMMA NextLaid == IInv /\ HasLayout /\ [Next]_vars => HasLayout'
<1> SUFFICES ASSUME IInv, HasLayout, [Next]_vars PROVE HasLayout'
  OBVIOUS
<1>1. ASSUME crashed' = TRUE PROVE HasLayout'
  BY <1>1 DEF HasLayout
<1>2. ASSUME UNCHANGED vars PROVE HasLayout'
  BY <1>2 DEF HasLayout, vars
<1>3. CASE ForIncomplete \/ EmptyBlock
  BY <1>3, <1>1 DEF ForIncomplete, EmptyBlock
<1>4. CASE Stop \/ UNCHANGED vars
  BY <1>4, <1>2 DEF Stop
<1>5. CASE WhileBegin
  <2>1. LoopHead("while", <<>>)
    BY <1>5 DEF WhileBegin
  <2>2. QED
    BY <2>1, LoopHeadLaid
<1>6. CASE ForBegin
  <2>1. LoopHead("for", <<Act(Here, "init")>>)
    BY <1>6 DEF ForBegin
  <2>2. QED
    BY <2>1, LoopHeadLaid
<1>7. CASE RangeBegin
  <2>1. LoopHead("range", <<Act(Here, "init")>>)
    BY <1>7 DEF RangeBegin
  <2>2. QED
    BY <2>1, LoopHeadLaid
<1>8. CASE UntilBegin
  <2>1. UnknownBegin("until", <<Act(Here, "init")>>) /\ "until" \in Unknown
    BY <1>8 DEF UntilBegin, Unknown
  <2>2. QED
    BY <2>1, UnknownBeginLaid
<1>9. CASE DoBegin
  <2>1. UnknownBegin("doWhile", <<>>) /\ "doWhile" \in Unknown
    BY <1>9 DEF DoBegin, Unknown
  <2>2. QED
    BY <2>1, UnknownBeginLaid
<1>10. CASE WhileEnd
  <2>1. Closes("while") /\ LoopTail(<<>>)
    BY <1>10 DEF WhileEnd
  <2>2. QED
    BY <2>1, LoopTailLaid
<1>11. CASE ForEnd
  <2>1. Closes("for") /\ LoopTail(<<Act(Inner.at, "step")>>)
    BY <1>11 DEF ForEnd
  <2>2. QED
    BY <2>1, LoopTailLaid
<1>12. CASE RangeEnd
  <2>1. Closes("range") /\ LoopTail(<<Act(Inner.at, "step")>>)
    BY <1>12 DEF RangeEnd
  <2>2. QED
    BY <2>1, LoopTailLaid
<1>13. CASE UntilEnd
  <2>1. UnknownEnd("until", <<>>) /\ "until" \in Unknown
    BY <1>13 DEF UntilEnd, Unknown
  <2>2. QED
    BY <2>1, UnknownEndLaid
<1>14. CASE DoEnd
  <2>1. UnknownEnd("doWhile", <<Act(Inner.at, "test")>>) /\ "doWhile" \in Unknown
    BY <1>14 DEF DoEnd, Unknown
  <2>2. QED
    BY <2>1, UnknownEndLaid
<1>15. CASE FunctionBegin \/ FunctionEnd
  BY <1>15, FunctionBeginLaid, FunctionEndLaid
<1>16. CASE Straight \/ ArrayDeclaration \/ Break \/ Continue \/ Return
  BY <1>16, StraightLaid, ArrayLaid, BreakLaid, ContinueLaid, ReturnLaid
<1>17. CASE IfBegin \/ IfElseBegin \/ Else \/ IfEnd
  BY <1>17, IfBeginLaid, ElseLaid, IfEndLaid
<1>18. QED
  BY <1>3, <1>4, <1>5, <1>6, <1>7, <1>8, <1>9, <1>10, <1>11, <1>12, <1>13, <1>14, <1>15,
     <1>16, <1>17 DEF Next

\* The code generated so far is, event by event, what generate_code makes of the
\* text so far, in one piece, with the labels of each construct where they belong.
THEOREM CodeLaidOut == Spec => []HasLayout
<1>1. IInv /\ HasLayout /\ [Next]_vars => HasLayout'
  BY NextLaid
<1>2. QED
  BY InitLaid, <1>1, Invariance, PTL DEF Spec

-----------------------------------------------------------------------------
\* The text of a finished file, read off its layout.

Final(y) == Layout(prog, code, <<>>, y)

\* What is known of the layout of a finished file.
LEMMA FinalFacts ==
  ASSUME NEW y, Final(y)
  PROVE  /\ prog \in Seq(Words) /\ Len(prog) \in Nat /\ y.depth \in [Nat -> Nat]
         /\ y.depth[0] = 0 /\ y.depth[Len(prog)] = 0
         /\ \A i \in 1 .. Len(prog) : y.depth[i] = Level(prog[i], y.depth[i - 1])
         /\ \A i \in 1 .. Len(prog) : prog[i] = "fun" <=> y.depth[i - 1] = 0
         /\ \A o \in 1 .. Len(prog) : prog[o] \in Opens => y.close[o] # 0
         /\ Events = 1 .. Len(prog)
         /\ \A o : o \in Opening <=> o \in 1 .. Len(prog) /\ prog[o] \in Opens
         /\ \A i \in 1 .. Len(prog) : i \in 0 .. Len(prog) /\ i - 1 \in 0 .. Len(prog)
         /\ \A i \in 1 .. Len(prog) : /\ i \in Nat /\ i - 1 \in Nat /\ i # 0
                                      /\ y.depth[i] \in Nat /\ y.depth[i - 1] \in Nat
<1>1. prog \in Seq(Words) /\ Len(prog) \in Nat /\ y.depth \in [Nat -> Nat]
      /\ y.depth[Len(prog)] = 0
  <2>1. Len(<<>>) = 0
    OBVIOUS
  <2>2. y.depth[Len(prog)] = Len(<<>>)
    BY LayoutFacts DEF Final
  <2>3. QED
    BY <2>1, <2>2, LayoutFacts DEF Final
<1>2. Nested(prog, y) /\ Stacked(prog, <<>>, y)
  BY DEF Final, Layout
<1>3. \A o \in 1 .. Len(prog) : prog[o] \in Opens => y.close[o] # 0
  BY <1>2 DEF Stacked
<1>4. Events = 1 .. Len(prog)
  BY <1>1 DEF Events
<1>5. \A o : o \in Opening <=> o \in 1 .. Len(prog) /\ prog[o] \in Opens
  BY <1>4 DEF Opening, Opens
<1>6. \A i \in 1 .. Len(prog) : i \in 0 .. Len(prog) /\ i - 1 \in 0 .. Len(prog)
  BY <1>1
<1>7. ASSUME NEW i \in 1 .. Len(prog)
      PROVE  i \in Nat /\ i - 1 \in Nat /\ i # 0 /\ y.depth[i] \in Nat /\ y.depth[i - 1] \in Nat
  <2>1. i \in Nat /\ i - 1 \in Nat /\ i # 0
    OBVIOUS
  <2>2. QED
    BY <2>1, <1>1
<1>8. QED
  BY <1>1, <1>2, <1>3, <1>4, <1>5, <1>6, <1>7 DEF Nested

\* What the layout says of an end and of an else.
LEMMA MatchFacts ==
  ASSUME NEW y, Final(y), NEW o \in 1 .. Len(prog), NEW i \in Nat, i # 0
  PROVE  /\ y.close[o] = i => /\ i \in 1 .. Len(prog) /\ prog[i] = "end" /\ Around(prog, y, i, o)
                              /\ y.depth[i] = y.depth[o] - 1
                              /\ prog[o] = "ifElse" => y.els[o] # 0
         /\ y.els[o] = i => /\ i \in 1 .. Len(prog) /\ prog[i] = "else" /\ prog[o] = "ifElse"
                            /\ Around(prog, y, i, o) /\ y.depth[i] = y.depth[o]
<1>1. Matched(prog, y)
  BY DEF Final, Layout
<1> DEFINE e == y.close[o]
           h == y.els[o]
<1>2. e # 0 => /\ e \in 1 .. Len(prog) /\ prog[e] = "end" /\ Around(prog, y, e, o)
               /\ y.depth[e] = y.depth[o] - 1
               /\ prog[o] = "ifElse" => h # 0
  BY <1>1 DEF Matched
<1>3. h # 0 => /\ h \in 1 .. Len(prog) /\ prog[h] = "else" /\ prog[o] = "ifElse"
               /\ Around(prog, y, h, o) /\ y.depth[h] = y.depth[o]
  BY <1>1 DEF Matched
<1> HIDE DEF e, h
<1>4. CASE e = i
  <2>1. e # 0
    BY <1>4
  <2>2. /\ e \in 1 .. Len(prog) /\ prog[e] = "end" /\ Around(prog, y, e, o)
        /\ y.depth[e] = y.depth[o] - 1
        /\ prog[o] = "ifElse" => h # 0
    BY <1>2, <2>1, Zenon
  <2>3. /\ i \in 1 .. Len(prog) /\ prog[i] = "end" /\ Around(prog, y, i, o)
        /\ y.depth[i] = y.depth[o] - 1
        /\ prog[o] = "ifElse" => h # 0
    BY <2>2, <1>4, Zenon
  <2>4. h = i => /\ i \in 1 .. Len(prog) /\ prog[i] = "else" /\ prog[o] = "ifElse"
                 /\ Around(prog, y, i, o) /\ y.depth[i] = y.depth[o]
    BY <1>3
  <2>5. QED
    BY <2>3, <2>4, Zenon DEF e, h
<1>5. CASE e # i
  <2>1. h = i => /\ i \in 1 .. Len(prog) /\ prog[i] = "else" /\ prog[o] = "ifElse"
                 /\ Around(prog, y, i, o) /\ y.depth[i] = y.depth[o]
    BY <1>3
  <2>2. QED
    BY <1>5, <2>1, Zenon DEF e, h
<1>6. QED
  BY <1>4, <1>5

\* The depth of the text is that of the layout.
LEMMA DepthIs ==
  ASSUME NEW y, Final(y)
  PROVE  \A i \in 0 .. Len(prog) : Depth[i] = y.depth[i]
<1> DEFINE n == Len(prog)
           Step(i) == IF i \in Opening THEN 1 ELSE IF prog[i] = "end" THEN -1 ELSE 0
           d == [i \in 0 .. n |-> y.depth[i]]
<1>1. /\ prog \in Seq(Words) /\ n \in Nat /\ y.depth \in [Nat -> Nat] /\ y.depth[0] = 0
      /\ \A i \in 1 .. n : y.depth[i] = Level(prog[i], y.depth[i - 1])
  BY FinalFacts
<1>2. \A i \in 1 .. n : y.depth[i] = y.depth[i - 1] + Step(i)
  <2> SUFFICES ASSUME NEW i \in 1 .. n PROVE y.depth[i] = y.depth[i - 1] + Step(i)
    OBVIOUS
  <2>1. i \in Opening <=> prog[i] \in Opens
    BY FinalFacts
  <2>2. y.depth[i - 1] \in Nat /\ y.depth[i] = Level(prog[i], y.depth[i - 1])
    BY <1>1
  <2>3. QED
    BY <2>1, <2>2 DEF Level
<1> HIDE DEF Step
<1>3. d = [i \in 0 .. n |-> IF i = 0 THEN 0 ELSE d[i - 1] + Step(i)]
  <2>1. \A i \in 0 .. n : i # 0 => i \in 1 .. n /\ i - 1 \in 0 .. n
    BY <1>1
  <2>2. \A i \in 0 .. n : d[i] = IF i = 0 THEN 0 ELSE d[i - 1] + Step(i)
    BY <1>1, <1>2, <2>1
  <2>3. QED
    BY <2>2
<1>4. Depth = CHOOSE f : f = [i \in 0 .. n |-> IF i = 0 THEN 0 ELSE f[i - 1] + Step(i)]
  BY DEF Depth, Step
<1>5. Depth = [i \in 0 .. n |-> IF i = 0 THEN 0 ELSE Depth[i - 1] + Step(i)]
  <2> HIDE DEF d, n
  <2>1. QED
    BY <1>3, <1>4, Zenon
<1>6. Depth[0] = 0 /\ \A i \in 0 .. n - 1 : Depth[i + 1] = Depth[i] + Step(i + 1)
  <2>1. \A i \in 0 .. n - 1 : i + 1 \in 0 .. n /\ i + 1 # 0 /\ (i + 1) - 1 = i
    BY <1>1
  <2>2. 0 \in 0 .. n
    BY <1>1
  <2> HIDE DEF n
  <2>3. \A i \in 0 .. n : Depth[i] = IF i = 0 THEN 0 ELSE Depth[i - 1] + Step(i)
    BY <1>5
  <2>4. QED
    BY <2>1, <2>2, <2>3
<1> DEFINE T == {k \in 0 .. n : Depth[k] = y.depth[k]}
<1>7. 0 \in T
  BY <1>1, <1>6, SMTT(30)
<1>8. \A k \in 0 .. n - 1 : k \in T => k + 1 \in T
  <2> SUFFICES ASSUME NEW k \in 0 .. n - 1, k \in T PROVE k + 1 \in T
    OBVIOUS
  <2>1. k + 1 \in 1 .. n /\ k + 1 \in 0 .. n /\ (k + 1) - 1 = k
    BY <1>1
  <2>2. y.depth[k + 1] = y.depth[k] + Step(k + 1)
    BY <2>1, <1>2
  <2>3. QED
    BY <2>1, <2>2, <1>6
<1>9. \A k \in 0 .. n : k \in T
  <2> HIDE DEF T, n
  <2>1. QED
    BY <1>1, <1>7, <1>8, InductionUpTo
<1>10. QED
  BY <1>9

\* What is within a construct in the text is so in the layout.
LEMMA WithinIs ==
  ASSUME NEW y, Final(y), NEW i \in 1 .. Len(prog), NEW o
  PROVE  Within(i, o) <=> Around(prog, y, i, o)
<1>1. Len(prog) \in Nat /\ prog \in Seq(Words)
  BY FinalFacts
<1>2. o \in Opening <=> o \in 1 .. Len(prog) /\ prog[o] \in Opens
  BY <1>1 DEF Opening, Events, Opens
<1>3. ASSUME o \in 1 .. Len(prog), o < i
      PROVE  /\ o \in 0 .. Len(prog) /\ \A k \in o .. i - 1 : k \in 0 .. Len(prog)
  BY <1>1, <1>3
<1>4. ASSUME o \in 1 .. Len(prog), o < i
      PROVE  (\A k \in o .. i - 1 : Depth[k] >= Depth[o])
                <=> (\A k \in o .. i - 1 : y.depth[k] >= y.depth[o])
  BY <1>3, <1>4, DepthIs
<1>5. QED
  BY <1>2, <1>4 DEF Within, Around

\* Only one construct of its depth is open before an event.
LEMMA OneAround ==
  ASSUME NEW y, Final(y), NEW i \in 1 .. Len(prog), NEW o, NEW q,
         Around(prog, y, i, o), Around(prog, y, i, q), y.depth[o] = y.depth[q]
  PROVE  o = q
<1>1. Len(prog) \in Nat /\ y.depth \in [Nat -> Nat]
      /\ \A k \in 1 .. Len(prog) : y.depth[k] = Level(prog[k], y.depth[k - 1])
  BY FinalFacts
<1>2. ASSUME NEW a \in 1 .. Len(prog), NEW b \in 1 .. Len(prog), a < b, prog[b] \in Opens,
             Around(prog, y, i, a), Around(prog, y, i, b), y.depth[a] = y.depth[b]
      PROVE  FALSE
  <2>1. b - 1 \in a .. i - 1 /\ b - 1 \in Nat /\ a \in Nat
    BY <1>2 DEF Around
  <2>2. y.depth[b - 1] >= y.depth[a] /\ y.depth[b] = y.depth[b - 1] + 1
    BY <1>1, <1>2, <2>1 DEF Around, Level
  <2>3. y.depth[b - 1] \in Nat /\ y.depth[a] \in Nat
    BY <1>1, <2>1
  <2>4. QED
    BY <1>2, <2>2, <2>3
<1>3. o \in 1 .. Len(prog) /\ q \in 1 .. Len(prog) /\ prog[o] \in Opens /\ prog[q] \in Opens
  BY DEF Around
<1>4. QED
  BY <1>2, <1>3

\* The construct an end or an else belongs to.
LEMMA OpenerIs ==
  ASSUME NEW y, Final(y), NEW i \in 1 .. Len(prog), NEW o, Around(prog, y, i, o),
         y.depth[o] = y.depth[i - 1]
  PROVE  OpenerOf(i) = o
<1>1. Len(prog) \in Nat /\ prog \in Seq(Words)
  BY FinalFacts
<1>2. i - 1 \in 0 .. Len(prog) /\ o \in 0 .. Len(prog) /\ o \in 1 .. Len(prog)
  BY <1>1 DEF Around
<1>3. o \in Opening
  BY <1>1 DEF Around, Opening, Events, Opens
<1>4. Within(i, o) /\ Depth[o] = Depth[i - 1]
  BY <1>2, WithinIs, DepthIs
<1>5. ASSUME NEW q \in Opening, Within(i, q), Depth[q] = Depth[i - 1] PROVE q = o
  <2>1. Around(prog, y, i, q)
    BY <1>5, WithinIs
  <2>2. q \in 0 .. Len(prog)
    BY <1>1, <2>1 DEF Around
  <2>3. y.depth[q] = y.depth[o]
    BY <1>2, <1>5, <2>2, DepthIs
  <2>4. QED
    BY <2>1, <2>3, OneAround
<1>6. QED
  BY <1>3, <1>4, <1>5 DEF OpenerOf

\* The event that ends a construct.
LEMMA CloseIs ==
  ASSUME NEW y, Final(y), NEW o \in 1 .. Len(prog), y.close[o] # 0
  PROVE  Close(o) = y.close[o]
<1> DEFINE e == y.close[o]
           Closing(i) == prog[i] = "end" /\ Within(i, o) /\ Depth[i] = Depth[o] - 1
<1>1. Len(prog) \in Nat /\ prog \in Seq(Words) /\ y.depth \in [Nat -> Nat]
  BY FinalFacts
<1>2. /\ e \in 1 .. Len(prog) /\ prog[e] = "end" /\ Around(prog, y, e, o)
      /\ y.depth[e] = y.depth[o] - 1
  BY DEF Final, Layout, Matched
<1> HIDE DEF e
<1>3. e \in Events /\ Closing(e)
  <2>1. e \in 0 .. Len(prog) /\ o \in 0 .. Len(prog)
    BY <1>2, FinalFacts
  <2>2. Depth[e] = y.depth[e] /\ Depth[o] = y.depth[o]
    BY <2>1, DepthIs
  <2>3. QED
    BY <1>1, <1>2, <2>2, WithinIs DEF Events
<1>4. ASSUME NEW i \in Events, Closing(i) PROVE i = e
  <2>1. i \in 1 .. Len(prog)
    BY FinalFacts
  <2>2. i \in 0 .. Len(prog) /\ o \in 0 .. Len(prog)
    BY <2>1, FinalFacts
  <2>3. Around(prog, y, i, o) /\ y.depth[i] = y.depth[o] - 1
    BY <1>4, <2>1, <2>2, WithinIs, DepthIs
  <2>4. ASSUME NEW a \in 1 .. Len(prog), NEW b \in 1 .. Len(prog), a < b,
               Around(prog, y, a, o), Around(prog, y, b, o), y.depth[a] = y.depth[o] - 1
        PROVE  FALSE
    <3>1. a \in o .. b - 1
      BY <2>4 DEF Around
    <3>2. y.depth[a] >= y.depth[o]
      BY <3>1, <2>4 DEF Around
    <3>3. o \in Nat
      OBVIOUS
    <3>4. y.depth[o] \in Nat
      BY <1>1, <3>3
    <3>5. QED
      BY <3>2, <3>4, <2>4
  <2>5. QED
    BY <2>1, <2>3, <2>4, <1>2
<1>5. Close(o) = CHOOSE i \in Events : Closing(i)
  BY DEF Close
<1> HIDE DEF Closing
<1>6. Close(o) = e
  BY <1>3, <1>4, <1>5
<1>7. QED
  BY <1>6 DEF e

\* What an else in the text is the else of.
LEMMA ElseHasIf ==
  ASSUME NEW y, Final(y), NEW i \in 1 .. Len(prog), prog[i] = "else"
  PROVE  \E o \in 1 .. Len(prog) : /\ y.els[o] = i /\ Around(prog, y, i, o) /\ prog[o] = "ifElse"
                                   /\ y.depth[i] = y.depth[o] /\ y.depth[i - 1] = y.depth[o]
                                   /\ y.piece[i] = <<I("BR", y.end[o]), I("LABEL", y.start[o])>>
<1>1. Turning(prog, y, i, y.piece[i])
  BY DEF Final, Layout, Filled
<1>2. PICK o \in 1 .. Len(prog) : /\ y.els[o] = i
                                  /\ y.piece[i] = <<I("BR", y.end[o]), I("LABEL", y.start[o])>>
  BY <1>1 DEF Turning
<1>3. i # 0
  OBVIOUS
<1>4. Around(prog, y, i, o) /\ prog[o] = "ifElse" /\ y.depth[i] = y.depth[o]
  BY <1>2, <1>3 DEF Final, Layout, Matched
<1>5. y.depth[i] = y.depth[i - 1]
  <2>1. y.depth[i] = Level(prog[i], y.depth[i - 1])
    BY FinalFacts
  <2>2. QED
    BY <2>1 DEF Level, Opens, Compound, Loops
<1>6. QED
  BY <1>2, <1>4, <1>5

\* The else of an if.
LEMMA ElseIs ==
  ASSUME NEW y, Final(y), NEW o \in 1 .. Len(prog), y.els[o] # 0
  PROVE  ElseOf(o) = y.els[o]
<1> DEFINE e == y.els[o]
           Other(i) == prog[i] = "else" /\ Within(i, o) /\ Depth[i] = Depth[o]
<1>1. Len(prog) \in Nat /\ prog \in Seq(Words) /\ y.depth \in [Nat -> Nat]
  BY FinalFacts
<1>2. e \in 1 .. Len(prog) /\ prog[e] = "else" /\ Around(prog, y, e, o) /\ y.depth[e] = y.depth[o]
  BY DEF Final, Layout, Matched
<1> HIDE DEF e
<1>3. e \in Events /\ Other(e)
  <2>1. e \in 0 .. Len(prog) /\ o \in 0 .. Len(prog)
    BY <1>2, FinalFacts
  <2>2. Depth[e] = y.depth[e] /\ Depth[o] = y.depth[o]
    BY <2>1, DepthIs
  <2>3. QED
    BY <1>1, <1>2, <2>2, WithinIs DEF Events
<1>4. ASSUME NEW i \in Events, Other(i) PROVE i = e
  <2>1. i \in 1 .. Len(prog)
    BY FinalFacts
  <2>2. i \in 0 .. Len(prog) /\ o \in 0 .. Len(prog)
    BY <2>1, FinalFacts
  <2>3. Around(prog, y, i, o) /\ y.depth[i] = y.depth[o]
    BY <1>4, <2>1, <2>2, WithinIs, DepthIs
  <2>4. PICK q \in 1 .. Len(prog) : y.els[q] = i /\ Around(prog, y, i, q) /\ y.depth[i] = y.depth[q]
    BY <1>4, <2>1, ElseHasIf
  <2>5. q = o
    BY <2>1, <2>3, <2>4, OneAround
  <2>6. QED
    BY <2>4, <2>5 DEF e
<1>5. ElseOf(o) = CHOOSE i \in Events : Other(i)
  BY DEF ElseOf
<1> HIDE DEF Other
<1>6. ElseOf(o) = e
  BY <1>3, <1>4, <1>5
<1>7. QED
  BY <1>6 DEF e

\* At event i the text does something, at the point q.
Does(y, i, q) ==
    \/ prog[i] \in {"do", "value", "return"} /\ q = <<i, "do">>
    \/ prog[i] \in {"array", "for", "range", "until"} /\ q = <<i, "init">>
    \/ prog[i] \in {"if", "ifElse", "while"} /\ q = <<i, "test">>
    \/ /\ prog[i] = "end"
       /\ \E o \in 1 .. Len(prog) : y.close[o] = i
             /\ \/ prog[o] = "fun" /\ q = Exit
                \/ prog[o] \in {"while", "doWhile"} /\ q = <<o, "test">>
                \/ prog[o] \in {"for", "range"} /\ q = <<o, "step">>

\* At event i the text goes on with event j.
Goes(y, i, j) ==
    \/ prog[i] \in {"continue", "doWhile", "fun"} /\ j = i + 1
    \/ prog[i] = "break" /\ Leavable(prog, y, i) = {} /\ j = i + 1
    \/ /\ prog[i] = "break"
       /\ \E o \in Leavable(prog, y, i) : j = y.close[o] + 1
                                          /\ \A r \in Leavable(prog, y, i) : r <= o
    \/ /\ prog[i] = "else"
       /\ \E o \in 1 .. Len(prog) : y.els[o] = i /\ j = y.close[o] + 1
    \/ /\ prog[i] = "end" /\ j = i + 1
       /\ \E o \in 1 .. Len(prog) : y.close[o] = i /\ prog[o] \in {"if", "ifElse", "until"}

\* The definition of Begin({"while", "for"}).
BeginStep(B, i) ==
    LET op == prog[i]
        left == {o \in Opening : prog[o] \in {"while", "for"} /\ Within(i, o)}
        opener == OpenerOf(i)
    IN  CASE op \in {"do", "value", "return"} -> <<i, "do">>
          [] op \in {"array", "for", "range", "until"} -> <<i, "init">>
          [] op \in {"if", "ifElse", "while"} -> <<i, "test">>
          [] op = "break" /\ left # {} -> B[Close(Innermost(left)) + 1]
          [] op = "else" -> B[Close(opener) + 1]
          [] op = "end" ->
               CASE prog[opener] = "fun" -> Exit
                 [] prog[opener] \in {"while", "doWhile"} -> <<opener, "test">>
                 [] prog[opener] \in {"for", "range"} -> <<opener, "step">>
                 [] OTHER -> B[i + 1]
          [] OTHER -> B[i + 1]

\* What an end in the text ends.
LEMMA EndHasOpener ==
  ASSUME NEW y, Final(y), NEW i \in 1 .. Len(prog), prog[i] = "end"
  PROVE  \E o \in 1 .. Len(prog) : /\ y.close[o] = i /\ Around(prog, y, i, o) /\ prog[o] \in Opens
                                   /\ y.depth[i] = y.depth[o] - 1 /\ y.depth[i - 1] = y.depth[o]
                                   /\ OpenerOf(i) = o
                                   /\ Ends(code, y, i, o, y.piece[i], prog[o])
<1>1. Ending(prog, code, y, i, y.piece[i])
  BY DEF Final, Layout, Filled
<1>2. PICK o \in 1 .. Len(prog) : y.close[o] = i /\ Ends(code, y, i, o, y.piece[i], prog[o])
  BY <1>1 DEF Ending
<1>3. i # 0
  OBVIOUS
<1>4. Around(prog, y, i, o) /\ y.depth[i] = y.depth[o] - 1
  BY <1>2, <1>3 DEF Final, Layout, Matched
<1>6. y.depth[o] \in Nat /\ y.depth[i - 1] \in Nat
  BY FinalFacts
<1>7. y.depth[i] = y.depth[i - 1] - 1
  <2>1. y.depth[i] = Level(prog[i], y.depth[i - 1])
    BY FinalFacts
  <2>2. QED
    BY <2>1 DEF Level, Opens, Compound, Loops
<1>8. y.depth[i - 1] = y.depth[o]
  BY <1>4, <1>6, <1>7
<1>9. OpenerOf(i) = o
  BY <1>4, <1>8, OpenerIs
<1>10. QED
  BY <1>2, <1>4, <1>8, <1>9 DEF Around

\* Inside a function the text goes on.
LEMMA InsideGoesOn ==
  ASSUME NEW y, Final(y), NEW i \in 1 .. Len(prog), y.depth[i] # 0
  PROVE  i + 1 \in 1 .. Len(prog) /\ prog[i + 1] # "fun"
<1>1. Len(prog) \in Nat /\ i # Len(prog)
  BY FinalFacts
<1>2. i + 1 \in 1 .. Len(prog) /\ (i + 1) - 1 = i
  BY <1>1
<1>3. prog[i + 1] = "fun" <=> y.depth[(i + 1) - 1] = 0
  BY <1>2, FinalFacts
<1>4. QED
  BY <1>2, <1>3

\* What comes after a statement or a loop.
LEMMA CompoundCloses ==
  ASSUME NEW y, Final(y), NEW o \in 1 .. Len(prog), prog[o] \in Compound
  PROVE  /\ y.close[o] # 0 /\ y.close[o] \in 1 .. Len(prog) /\ prog[y.close[o]] = "end"
         /\ y.close[o] + 1 \in 1 .. Len(prog) /\ prog[y.close[o] + 1] # "fun"
         /\ Close(o) = y.close[o]
         /\ \A i \in 1 .. Len(prog) : Around(prog, y, i, o) => i <= y.close[o]
         /\ y.depth[y.close[o]] = y.depth[o] - 1
<1> DEFINE e == y.close[o]
<1>1. prog[o] \in Opens /\ prog[o] # "fun"
  BY DEF Opens, Compound, Loops
<1>2. e # 0
  BY <1>1, FinalFacts
<1>3. e \in 1 .. Len(prog) /\ y.depth[e] = y.depth[o] - 1 /\ prog[e] = "end" /\ Around(prog, y, e, o)
  BY <1>2 DEF Final, Layout, Matched
<1>4. Close(o) = e
  BY <1>2, CloseIs
<1> HIDE DEF e
<1>5. y.depth[o] = y.depth[o - 1] + 1 /\ y.depth[o - 1] # 0
  <2>1. y.depth[o] = Level(prog[o], y.depth[o - 1])
    BY FinalFacts
  <2>2. prog[o] = "fun" <=> y.depth[o - 1] = 0
    BY FinalFacts
  <2>3. QED
    BY <1>1, <2>1, <2>2 DEF Level
<1>6. y.depth[o - 1] \in Nat /\ y.depth[o] \in Nat
  BY FinalFacts
<1>7. y.depth[e] # 0
  BY <1>3, <1>5, <1>6
<1>8. e + 1 \in 1 .. Len(prog) /\ prog[e + 1] # "fun"
  BY <1>3, <1>7, InsideGoesOn
<1>9. ASSUME NEW i \in 1 .. Len(prog), Around(prog, y, i, o), e < i PROVE FALSE
  <2>1. e \in o .. i - 1
    BY <1>3, <1>9 DEF Around
  <2>2. y.depth[e] >= y.depth[o]
    BY <2>1, <1>9 DEF Around
  <2>3. QED
    BY <2>2, <1>3, <1>6
<1>10. \A i \in 1 .. Len(prog) : Around(prog, y, i, o) => i <= e
  BY <1>3, <1>9
<1>11. QED
  BY <1>2, <1>3, <1>4, <1>8, <1>10 DEF e

\* What break leaves in the text is what it leaves in the layout.
LEMMA LeavableIs ==
  ASSUME NEW y, Final(y), NEW i \in 1 .. Len(prog)
  PROVE  {o \in Opening : prog[o] \in {"while", "for"} /\ Within(i, o)} = Leavable(prog, y, i)
<1>1. ASSUME NEW o
      PROVE  o \in Opening /\ prog[o] \in {"while", "for"} /\ Within(i, o)
             <=> o \in Leavable(prog, y, i)
  <2>1. Within(i, o) <=> Around(prog, y, i, o)
    BY WithinIs
  <2>2. Within(i, o) => o \in Opening
    BY DEF Within
  <2>3. Around(prog, y, i, o) => o \in 1 .. Len(prog)
    BY DEF Around
  <2>4. QED
    BY <2>1, <2>2, <2>3 DEF Leavable
<1>2. QED
  BY <1>1

\* Where the text does something, Begin is there.
LEMMA DoesIs ==
  ASSUME NEW y, Final(y), NEW i \in 1 .. Len(prog), NEW q, Does(y, i, q), NEW B
  PROVE  BeginStep(B, i) = q
<1>1. CASE prog[i] \in {"do", "value", "return"} /\ q = <<i, "do">>
  BY <1>1 DEF BeginStep
<1>2. CASE prog[i] \in {"array", "for", "range", "until"} /\ q = <<i, "init">>
  BY <1>2 DEF BeginStep
<1>3. CASE prog[i] \in {"if", "ifElse", "while"} /\ q = <<i, "test">>
  BY <1>3 DEF BeginStep
<1>4. ASSUME prog[i] = "end", NEW o \in 1 .. Len(prog), y.close[o] = i,
             \/ prog[o] = "fun" /\ q = Exit
             \/ prog[o] \in {"while", "doWhile"} /\ q = <<o, "test">>
             \/ prog[o] \in {"for", "range"} /\ q = <<o, "step">>
      PROVE  BeginStep(B, i) = q
  <2>1. Around(prog, y, i, o) /\ y.depth[i] = y.depth[o] - 1
    BY <1>4, FinalFacts, MatchFacts
  <2>2. PICK r \in 1 .. Len(prog) : /\ Around(prog, y, i, r) /\ y.depth[i] = y.depth[r] - 1
                                    /\ OpenerOf(i) = r
    BY <1>4, EndHasOpener
  <2>3. y.depth[o] = y.depth[r]
    <3>1. y.depth[o] \in Nat /\ y.depth[r] \in Nat
      BY FinalFacts
    <3>2. QED
      BY <3>1, <2>1, <2>2
  <2>4. OpenerOf(i) = o
    BY <2>1, <2>2, <2>3, OneAround
  <2>5. CASE prog[o] = "fun" /\ q = Exit
    BY <1>4, <2>4, <2>5 DEF BeginStep
  <2>6. CASE prog[o] \in {"while", "doWhile"} /\ q = <<o, "test">>
    BY <1>4, <2>4, <2>6 DEF BeginStep
  <2>7. CASE prog[o] \in {"for", "range"} /\ q = <<o, "step">>
    BY <1>4, <2>4, <2>7 DEF BeginStep
  <2>8. QED
    BY <1>4, <2>5, <2>6, <2>7
<1>5. QED
  BY <1>1, <1>2, <1>3, <1>4 DEF Does

\* Where the text goes on, so does Begin, to an event of the same function.
LEMMA GoesIs ==
  ASSUME NEW y, Final(y), NEW i \in 1 .. Len(prog), NEW j, Goes(y, i, j)
  PROVE  /\ j \in i + 1 .. Len(prog) /\ prog[j] # "fun"
         /\ \A B : BeginStep(B, i) = B[j]
<1>a. Len(prog) \in Nat /\ i \in Nat /\ i # 0
  BY FinalFacts
<1>b. y.depth[i - 1] \in Nat /\ y.depth[i] \in Nat
  BY FinalFacts
<1>c. y.depth[i] = Level(prog[i], y.depth[i - 1]) /\ (prog[i] = "fun" <=> y.depth[i - 1] = 0)
  BY FinalFacts
<1>d. ASSUME y.depth[i] # 0, j = i + 1 PROVE j \in i + 1 .. Len(prog) /\ prog[j] # "fun"
  BY <1>a, <1>d, InsideGoesOn
<1>e. ASSUME NEW o \in 1 .. Len(prog), prog[o] \in Compound, Around(prog, y, i, o), j = y.close[o] + 1
      PROVE  j \in i + 1 .. Len(prog) /\ prog[j] # "fun" /\ Close(o) + 1 = j
  <2>1. /\ y.close[o] + 1 \in 1 .. Len(prog) /\ prog[y.close[o] + 1] # "fun" /\ i <= y.close[o]
        /\ Close(o) = y.close[o] /\ y.close[o] \in 1 .. Len(prog)
    BY <1>e, CompoundCloses
  <2>2. QED
    BY <2>1, <1>a, <1>e
<1>1. CASE prog[i] \in {"continue", "doWhile", "fun"} /\ j = i + 1
  <2>1. y.depth[i] # 0
    BY <1>1, <1>b, <1>c DEF Level, Opens, Compound, Loops
  <2>2. \A B : BeginStep(B, i) = B[j]
    BY <1>1 DEF BeginStep
  <2>3. QED
    BY <1>1, <1>d, <2>1, <2>2
<1>2. CASE prog[i] = "break" /\ Leavable(prog, y, i) = {} /\ j = i + 1
  <2>1. y.depth[i] # 0
    BY <1>2, <1>b, <1>c DEF Level, Opens, Compound, Loops
  <2>2. \A B : BeginStep(B, i) = B[j]
    BY <1>2, LeavableIs DEF BeginStep
  <2>3. QED
    BY <1>2, <1>d, <2>1, <2>2
<1>3. ASSUME prog[i] = "break", NEW o \in Leavable(prog, y, i), j = y.close[o] + 1,
             \A r \in Leavable(prog, y, i) : r <= o
      PROVE  j \in i + 1 .. Len(prog) /\ prog[j] # "fun" /\ \A B : BeginStep(B, i) = B[j]
  <2> DEFINE S == Leavable(prog, y, i)
  <2>1. o \in 1 .. Len(prog) /\ prog[o] \in Compound /\ Around(prog, y, i, o) /\ S \subseteq Nat
    BY DEF Leavable, Compound, Loops
  <2>2. Innermost(S) = o
    <3>1. \A r \in S : (\A t \in S : t <= r) => r = o
      BY <1>3, <2>1
    <3> HIDE DEF S
    <3>2. QED
      BY <1>3, <3>1 DEF Innermost, S
  <2>3. \A B : BeginStep(B, i) = B[Close(Innermost(S)) + 1]
    <3>1. S # {}
      OBVIOUS
    <3>2. QED
      BY <3>1, <1>3, LeavableIs DEF BeginStep
  <2>4. QED
    BY <1>3, <1>e, <2>1, <2>2, <2>3
<1>4. ASSUME prog[i] = "else", NEW o \in 1 .. Len(prog), y.els[o] = i, j = y.close[o] + 1
      PROVE  j \in i + 1 .. Len(prog) /\ prog[j] # "fun" /\ \A B : BeginStep(B, i) = B[j]
  <2>1. Around(prog, y, i, o) /\ prog[o] = "ifElse" /\ y.depth[i] = y.depth[o]
    BY <1>4, <1>a, MatchFacts
  <2>2. y.depth[i] = y.depth[i - 1]
    BY <1>4, <1>c DEF Level, Opens, Compound, Loops
  <2>3. OpenerOf(i) = o
    BY <2>1, <2>2, OpenerIs
  <2>4. \A B : BeginStep(B, i) = B[Close(o) + 1]
    BY <1>4, <2>3 DEF BeginStep
  <2>5. prog[o] \in Compound
    BY <2>1 DEF Compound
  <2>6. QED
    BY <1>4, <1>e, <2>1, <2>4, <2>5
<1>5. ASSUME prog[i] = "end", j = i + 1, NEW o \in 1 .. Len(prog), y.close[o] = i,
             prog[o] \in {"if", "ifElse", "until"}
      PROVE  j \in i + 1 .. Len(prog) /\ prog[j] # "fun" /\ \A B : BeginStep(B, i) = B[j]
  <2>1. prog[o] \in Compound
    BY <1>5 DEF Compound, Loops
  <2>2. j \in 1 .. Len(prog) /\ prog[j] # "fun"
    BY <1>5, <2>1, CompoundCloses
  <2>3. j \in i + 1 .. Len(prog)
    BY <2>2, <1>5, <1>a
  <2>4. PICK r \in 1 .. Len(prog) : /\ y.close[r] = i /\ Around(prog, y, i, r)
                                    /\ y.depth[i] = y.depth[r] - 1 /\ OpenerOf(i) = r
    BY <1>5, EndHasOpener
  <2>5. Around(prog, y, i, o) /\ y.depth[i] = y.depth[o] - 1
    BY <1>5, <1>a, MatchFacts
  <2>6. y.depth[o] = y.depth[r]
    <3>1. y.depth[o] \in Nat /\ y.depth[r] \in Nat
      BY FinalFacts
    <3>2. QED
      BY <3>1, <2>4, <2>5
  <2>7. OpenerOf(i) = o
    BY <2>4, <2>5, <2>6, OneAround
  <2>8. \A B : BeginStep(B, i) = B[j]
    BY <1>5, <2>7 DEF BeginStep
  <2>9. QED
    BY <2>2, <2>3, <2>8
<1>6. QED
  BY <1>1, <1>2, <1>3, <1>4, <1>5 DEF Goes

\* At every event the text does something or goes on.
LEMMA DoesOrGoes ==
  ASSUME NEW y, Final(y), NEW i \in 1 .. Len(prog)
  PROVE  (\E q : Does(y, i, q)) \/ \E j : Goes(y, i, j)
<1>1. prog[i] \in Words
  BY FinalFacts
<1>2. CASE prog[i] \in {"do", "value", "return"}
  BY <1>2 DEF Does
<1>3. CASE prog[i] \in {"array", "for", "range", "until"}
  BY <1>3 DEF Does
<1>4. CASE prog[i] \in {"if", "ifElse", "while"}
  BY <1>4 DEF Does
<1>5. CASE prog[i] \in {"continue", "doWhile", "fun"}
  BY <1>5 DEF Goes
<1>6. CASE prog[i] = "break"
  <2>1. Leaving(prog, y, i, y.piece[i])
    BY <1>6 DEF Final, Layout, Filled
  <2>2. QED
    BY <1>6, <2>1 DEF Leaving, Goes
<1>7. CASE prog[i] = "else"
  <2>1. PICK o \in 1 .. Len(prog) : y.els[o] = i
    BY <1>7, ElseHasIf
  <2>2. QED
    BY <1>7, <2>1 DEF Goes
<1>8. CASE prog[i] = "end"
  <2>1. PICK o \in 1 .. Len(prog) : y.close[o] = i /\ prog[o] \in Opens
    BY <1>8, EndHasOpener
  <2>2. CASE prog[o] \in {"if", "ifElse", "until"}
    BY <1>8, <2>1, <2>2 DEF Goes
  <2>3. CASE prog[o] \in {"fun", "while", "doWhile", "for", "range"}
    BY <1>8, <2>1, <2>3 DEF Does
  <2>4. QED
    BY <2>1, <2>2, <2>3 DEF Opens, Compound, Loops
<1>9. QED
  BY <1>1, <1>2, <1>3, <1>4, <1>5, <1>6, <1>7, <1>8 DEF Words, Simple, Compound, Loops

\* A function each of whose values is given, or that of a later argument.
FromBehind(B, n, R, nx, pt) == B = [i \in 1 .. n |-> IF i \in R THEN B[nx[i]] ELSE pt[i]]

\* There is one.
LEMMA Backward ==
  ASSUME NEW n \in Nat, NEW R, NEW nx, NEW pt, \A i \in 1 .. n : i \in R => nx[i] \in i + 1 .. n
  PROVE  \E B : FromBehind(B, n, R, nx, pt)
<1> DEFINE Val(B, i) == IF i \in R THEN B[nx[i]] ELSE pt[i]
           Good(B, k) == \A i \in 1 .. n : i > n - k => B[i] = Val(B, i)
           T == {k \in 0 .. n : \E B : Good(B, k)}
<1>1. 0 \in T
  OBVIOUS
<1>2. ASSUME NEW k \in 0 .. n - 1, k \in T PROVE k + 1 \in T
  <2> DEFINE m == n - k
  <2>1. PICK B : Good(B, k)
    BY <1>2
  <2> DEFINE C == [i \in 1 .. n |-> IF i = m THEN Val(B, m) ELSE B[i]]
  <2>2. m \in 1 .. n /\ k + 1 \in 0 .. n /\ n - (k + 1) = m - 1
    OBVIOUS
  <2>3. ASSUME NEW i \in 1 .. n, i > m - 1 PROVE C[i] = Val(C, i)
    <3>1. C[i] = Val(B, i)
      <4>1. CASE i = m
        BY <4>1
      <4>2. CASE i # m
        <5>1. i > n - k
          BY <2>2, <2>3, <4>2
        <5>2. B[i] = Val(B, i)
          BY <2>1, <5>1
        <5> HIDE DEF Val, m
        <5>3. QED
          BY <4>2, <5>2
      <4>3. QED
        BY <4>1, <4>2
    <3>2. ASSUME i \in R PROVE C[nx[i]] = B[nx[i]]
      <4>1. nx[i] \in 1 .. n /\ nx[i] # m
        BY <2>2, <2>3, <3>2
      <4> HIDE DEF Val, m
      <4>2. QED
        BY <4>1
    <3> HIDE DEF C
    <3>3. QED
      BY <3>1, <3>2
  <2> HIDE DEF C, Val, m
  <2>4. Good(C, k + 1)
    BY <2>2, <2>3
  <2> HIDE DEF Good
  <2>5. QED
    BY <2>2, <2>4
<1>3. n \in T
  <2> HIDE DEF T
  <2>1. \A k \in 0 .. n - 1 : k \in T => k + 1 \in T
    BY <1>2
  <2>2. \A k \in 0 .. n : k \in T
    BY <1>1, <2>1, InductionUpTo
  <2>3. QED
    BY <2>2
<1>4. PICK B : Good(B, n)
  BY <1>3
<1> DEFINE C == [i \in 1 .. n |-> B[i]]
<1>5. ASSUME NEW i \in 1 .. n PROVE C[i] = Val(C, i)
  <2>1. B[i] = Val(B, i)
    BY <1>4
  <2>2. i \in R => C[nx[i]] = B[nx[i]]
    <3>1. i \in R => nx[i] \in 1 .. n
      OBVIOUS
    <3> HIDE DEF Val
    <3>2. QED
      BY <3>1
  <2>3. C[i] = B[i]
    OBVIOUS
  <2> HIDE DEF C
  <2>4. QED
    BY <2>1, <2>2, <2>3
<1>6. C = [i \in 1 .. n |-> Val(C, i)]
  <2> HIDE DEF Val
  <2>1. QED
    BY <1>5
<1>7. FromBehind(C, n, R, nx, pt)
  BY <1>6 DEF FromBehind
<1>8. QED
  BY <1>7

\* Begin, event by event.
LEMMA BeginIs ==
  ASSUME NEW y, Final(y), NEW B, B = Begin({"while", "for"}), NEW i \in 1 .. Len(prog)
  PROVE  /\ \A q : Does(y, i, q) => B[i] = q
         /\ \A j : Goes(y, i, j) => B[i] = B[j]
<1> DEFINE n == Len(prog)
           R == {k \in 1 .. n : \E j : Goes(y, k, j)}
           nx == [k \in 1 .. n |-> CHOOSE j : Goes(y, k, j)]
           pt == [k \in 1 .. n |-> CHOOSE q : Does(y, k, q)]
<1>1. n \in Nat
  BY FinalFacts
<1>2. \A k \in 1 .. n : k \in R => Goes(y, k, nx[k])
  OBVIOUS
<1>3. \A k \in 1 .. n : k \notin R => Does(y, k, pt[k])
  BY DoesOrGoes
<1> HIDE DEF nx, pt
<1>4. \A k \in 1 .. n : k \in R => nx[k] \in k + 1 .. n
  BY <1>2, GoesIs
<1>5. \A C : \A k \in 1 .. n : BeginStep(C, k) = IF k \in R THEN C[nx[k]] ELSE pt[k]
  BY <1>2, <1>3, GoesIs, DoesIs
<1>6. \E C : C = [k \in 1 .. n |-> BeginStep(C, k)]
  <2> HIDE DEF n, R
  <2>1. PICK C : FromBehind(C, n, R, nx, pt)
    BY <1>1, <1>4, Backward
  <2>2. C = [k \in 1 .. n |-> BeginStep(C, k)]
    BY <2>1, <1>5 DEF FromBehind
  <2>3. QED
    BY <2>2
<1>7. B = CHOOSE C : C = [k \in 1 .. n |-> BeginStep(C, k)]
  BY DEF Begin, BeginStep
<1>8. B = [k \in 1 .. n |-> BeginStep(B, k)]
  <2> HIDE DEF n
  <2>1. QED
    BY <1>6, <1>7, Zenon
<1>9. B[i] = BeginStep(B, i)
  BY <1>8
<1>10. QED
  BY <1>9, GoesIs, DoesIs

-----------------------------------------------------------------------------
\* Where control comes to in the code.

\* The body of Land, and the function it defines.
LandCell(L, n, i) ==
    IF n = 0 \/ i \notin Code THEN Lost
    ELSE IF code[i].src # NULL THEN code[i].src
    ELSE IF code[i].op = "END" THEN Exit
    ELSE IF code[i].op # "BR" THEN L[n - 1][i + 1]
    ELSE IF Placed(code[i].label) = {} THEN Lost
    ELSE L[n - 1][PlaceOf(code[i].label)]

Landing ==
    CHOOSE L : L = [n \in 0 .. Len(code) |->
                      [i \in 1 .. Len(code) + 1 |-> LandCell(L, n, i)]]

\* From instruction k control comes to q in d instructions.
Comes(k, d, q) == \A n \in 0 .. Len(code) : n >= d => Landing[n][k] = q

LandStep(row, i) ==
    IF i \notin Code THEN Lost
    ELSE IF code[i].src # NULL THEN code[i].src
    ELSE IF code[i].op = "END" THEN Exit
    ELSE IF code[i].op # "BR" THEN row[i + 1]
    ELSE IF Placed(code[i].label) = {} THEN Lost
    ELSE row[PlaceOf(code[i].label)]

\* The place of a label that is placed.
LEMMA PlaceFacts ==
  ASSUME NEW l, Placed(l) # {}
  PROVE  PlaceOf(l) \in Code /\ code[PlaceOf(l)].op = "LABEL" /\ code[PlaceOf(l)].label = l
<1>1. PlaceOf(l) \in Placed(l)
  BY DEF PlaceOf
<1>2. QED
  BY <1>1 DEF Placed

\* One step of Land from a row of points.
LEMMA LandStepFacts ==
  ASSUME code \in Seq(Instr), NEW V, V = {Lost, Exit} \cup {code[k].src : k \in 1 .. Len(code)},
         NEW row \in [1 .. Len(code) + 1 -> V], NEW i \in 1 .. Len(code) + 1
  PROVE  LandStep(row, i) \in V
<1>1. Len(code) \in Nat /\ Code = 1 .. Len(code)
  BY DEF Code
<1>2. CASE i \notin Code
  BY <1>2 DEF LandStep
<1>3. CASE i \in Code
  <2>1. code[i].src \in V /\ row[i + 1] \in V
    BY <1>1, <1>3
  <2>2. Placed(code[i].label) # {} => row[PlaceOf(code[i].label)] \in V
    <3>1. Placed(code[i].label) # {} => PlaceOf(code[i].label) \in 1 .. Len(code) + 1
      BY <1>1, PlaceFacts
    <3>2. QED
      BY <3>1
  <2>3. Lost \in V /\ Exit \in V
    OBVIOUS
  <2>4. QED
    BY <1>3, <2>1, <2>2, <2>3 DEF LandStep
<1>4. QED
  BY <1>2, <1>3

\* The function Land defines.
LEMMA LandingIs ==
  ASSUME code \in Seq(Instr)
  PROVE  \A n \in 0 .. Len(code), i \in 1 .. Len(code) + 1 : Landing[n][i] = LandCell(Landing, n, i)
<1> DEFINE m == Len(code)
           D == 1 .. m + 1
           V == {Lost, Exit} \cup {code[k].src : k \in 1 .. m}
           S == [D -> V]
           f == [row \in S |-> [i \in D |-> LandStep(row, i)]]
           s == [i \in D |-> Lost]
<1>1. m \in Nat
  OBVIOUS
<1>2. f \in [S -> S]
  <2>1. \A row \in S, i \in D : LandStep(row, i) \in V
    BY LandStepFacts
  <2> HIDE DEF V, D
  <2>2. QED
    BY <2>1
<1>3. s \in S
  OBVIOUS
<1>4. PICK at : Orbit(at, S, f, s)
  <2> HIDE DEF S, f, s
  <2>1. QED
    BY <1>2, <1>3, Iteration
<1>5. at \in [Nat -> S] /\ at[0] = s /\ \A k \in Nat : at[k + 1] = f[at[k]]
  BY <1>4 DEF Orbit
<1> DEFINE L == [n \in 0 .. m |-> at[n]]
<1>6. ASSUME NEW n \in 0 .. m PROVE L[n] = [i \in D |-> LandCell(L, n, i)]
  <2>1. CASE n = 0
    <3>1. \A i \in D : LandCell(L, n, i) = Lost
      BY <2>1 DEF LandCell
    <3>2. L[n] = s
      BY <2>1, <1>1, <1>5
    <3> HIDE DEF L, D
    <3>3. QED
      BY <3>1, <3>2
  <2>2. CASE n # 0
    <3>1. n - 1 \in 0 .. m /\ n - 1 \in Nat /\ (n - 1) + 1 = n
      BY <2>2, <1>1
    <3>2. L[n] = f[at[n - 1]] /\ at[n - 1] \in S /\ L[n - 1] = at[n - 1]
      <4> HIDE DEF f, S
      <4>1. at[n] = f[at[n - 1]] /\ at[n - 1] \in S
        BY <3>1, <1>5
      <4>2. QED
        BY <4>1, <3>1
    <3>3. L[n] = [i \in D |-> LandStep(L[n - 1], i)]
      <4> HIDE DEF L, S, D
      <4>1. QED
        BY <3>2
    <3>4. \A i \in D : LandStep(L[n - 1], i) = LandCell(L, n, i)
      <4> HIDE DEF L, D
      <4>1. QED
        BY <2>2 DEF LandStep, LandCell
    <3> HIDE DEF L, D
    <3>5. QED
      BY <3>3, <3>4
  <2>3. QED
    BY <2>1, <2>2
<1>7. L = [n \in 0 .. m |-> [i \in D |-> LandCell(L, n, i)]]
  <2>1. L = [n \in 0 .. m |-> L[n]]
    OBVIOUS
  <2> HIDE DEF L, D
  <2>2. QED
    BY <2>1, <1>6
<1>8. Landing = [n \in 0 .. m |-> [i \in D |-> LandCell(Landing, n, i)]]
  <2>1. Landing = CHOOSE K : K = [n \in 0 .. m |-> [i \in D |-> LandCell(K, n, i)]]
    BY DEF Landing
  <2> HIDE DEF L, D, m
  <2>2. QED
    BY <1>7, <2>1, Zenon
<1>9. ASSUME NEW n \in 0 .. m, NEW i \in D PROVE Landing[n][i] = LandCell(Landing, n, i)
  <2> HIDE DEF D, m
  <2>1. Landing[n] = [j \in D |-> LandCell(Landing, n, j)]
    BY <1>8
  <2>2. QED
    BY <2>1
<1>10. QED
  BY <1>9

\* Land, by its function.
LEMMA LandIs ==
  ASSUME NEW k
  PROVE  Land(k) = Landing[Len(code)][k]
BY DEF Land, Landing, LandCell

\* Control that is at a point of the text, or at the end of a function.
LEMMA ComesAtOnce ==
  ASSUME code \in Seq(Instr), NEW k \in 1 .. Len(code), NEW d \in Nat, d >= 1,
         NEW q, IF code[k].src # NULL THEN q = code[k].src ELSE q = Exit /\ code[k].op = "END"
  PROVE  Comes(k, d, q)
<1>1. Code = 1 .. Len(code) /\ Len(code) \in Nat
  BY DEF Code
<1>2. SUFFICES ASSUME NEW n \in 0 .. Len(code), n >= d PROVE Landing[n][k] = q
  BY DEF Comes
<1>3. Landing[n][k] = LandCell(Landing, n, k)
  BY <1>1, LandingIs
<1>4. n # 0
  BY <1>2
<1>5. QED
  BY <1>1, <1>3, <1>4 DEF LandCell

\* Control that goes on with the next instruction.
LEMMA ComesNext ==
  ASSUME code \in Seq(Instr), NEW k \in 1 .. Len(code), NEW d \in Nat, NEW q, Comes(k + 1, d, q),
         code[k].src = NULL, code[k].op # "END", code[k].op # "BR"
  PROVE  Comes(k, d + 1, q)
<1>1. Code = 1 .. Len(code) /\ Len(code) \in Nat
  BY DEF Code
<1>2. SUFFICES ASSUME NEW n \in 0 .. Len(code), n >= d + 1 PROVE Landing[n][k] = q
  BY DEF Comes
<1>3. n # 0 /\ n - 1 \in 0 .. Len(code) /\ n - 1 >= d
  BY <1>1, <1>2
<1>4. Landing[n][k] = LandCell(Landing, n, k)
  BY <1>1, LandingIs
<1>5. Landing[n - 1][k + 1] = q
  BY <1>3 DEF Comes
<1>6. QED
  BY <1>1, <1>3, <1>4, <1>5 DEF LandCell

\* Control that takes a branch.
LEMMA ComesByBranch ==
  ASSUME code \in Seq(Instr), NEW k \in 1 .. Len(code), NEW d \in Nat, NEW q,
         NEW l, Placed(l) # {}, Comes(PlaceOf(l), d, q), code[k] = I("BR", l)
  PROVE  Comes(k, d + 1, q)
<1>1. Code = 1 .. Len(code) /\ Len(code) \in Nat
  BY DEF Code
<1>2. SUFFICES ASSUME NEW n \in 0 .. Len(code), n >= d + 1 PROVE Landing[n][k] = q
  BY DEF Comes
<1>3. n # 0 /\ n - 1 \in 0 .. Len(code) /\ n - 1 >= d
  BY <1>1, <1>2
<1>4. Landing[n][k] = LandCell(Landing, n, k)
  BY <1>1, LandingIs
<1>5. Landing[n - 1][PlaceOf(l)] = q
  BY <1>3 DEF Comes
<1>6. code[k].src = NULL /\ code[k].op = "BR" /\ code[k].label = l
  BY DEF I
<1>7. QED
  BY <1>1, <1>3, <1>4, <1>5, <1>6 DEF LandCell

\* What control comes to in time.
LEMMA Lands ==
  ASSUME code \in Seq(Instr), NEW k, NEW d \in Nat, NEW q, Comes(k, d, q), d <= Len(code)
  PROVE  Land(k) = q
<1>1. Len(code) \in 0 .. Len(code) /\ Len(code) >= d
  OBVIOUS
<1>2. QED
  BY <1>1, LandIs DEF Comes

\* Control comes to q from instruction k, in time for Land.
Soon(k, q) == \E d \in 1 .. Len(code) - k + 2 : Comes(k, d, q)

\* The points of the text, where break leaves what generate_code makes it leave.
First == Begin({"while", "for"})

\* The code of event i does what the text does from there.
Continues(y, i) == prog[i] # "fun" => Soon(y.place[i], First[i])

Settled(y) == Final(y) /\ Unique(code)

\* The place of a point is no NULL.
LEMMA PointIs ==
  ASSUME NEW i \in Nat, NEW part \in {"entry", "do", "init", "test", "step"}
  PROVE  <<i, part>> # NULL
<1>1. <<i, part>> \in Place
  BY DEF Place
<1>2. QED
  BY <1>1, CodegenAssumption

\* Control that is there.
LEMMA SoonAtOnce ==
  ASSUME code \in Seq(Instr), NEW k \in 1 .. Len(code), NEW q,
         IF code[k].src # NULL THEN q = code[k].src ELSE q = Exit /\ code[k].op = "END"
  PROVE  Soon(k, q)
<1>1. 1 \in 1 .. Len(code) - k + 2 /\ 1 \in Nat /\ 1 >= 1
  OBVIOUS
<1>2. Comes(k, 1, q)
  BY <1>1, ComesAtOnce
<1>3. QED
  BY <1>1, <1>2 DEF Soon

\* Control that goes on with the next instruction.
LEMMA SoonNext ==
  ASSUME code \in Seq(Instr), NEW k \in 1 .. Len(code), NEW q, Soon(k + 1, q),
         code[k].src = NULL, code[k].op # "END", code[k].op # "BR"
  PROVE  Soon(k, q)
<1>1. PICK d \in 1 .. Len(code) - (k + 1) + 2 : Comes(k + 1, d, q)
  BY DEF Soon
<1>2. Len(code) \in Nat
  OBVIOUS
<1>3. d \in Nat /\ d + 1 \in 1 .. Len(code) - k + 2
  BY <1>2
<1>4. Comes(k, d + 1, q)
  BY <1>1, <1>3, ComesNext
<1>5. QED
  BY <1>3, <1>4 DEF Soon

\* Control that takes a branch forward.
LEMMA SoonForward ==
  ASSUME code \in Seq(Instr), NEW k \in 1 .. Len(code), NEW q, NEW l, code[k] = I("BR", l),
         Placed(l) # {}, NEW t \in 1 .. Len(code), PlaceOf(l) = t, k < t, Soon(t, q)
  PROVE  Soon(k, q)
<1>1. PICK d \in 1 .. Len(code) - t + 2 : Comes(t, d, q)
  BY DEF Soon
<1>2. Len(code) \in Nat
  OBVIOUS
<1>3. d \in Nat /\ d + 1 \in 1 .. Len(code) - k + 2
  BY <1>2
<1>4. Comes(k, d + 1, q)
  BY <1>1, <1>3, ComesByBranch
<1>5. QED
  BY <1>3, <1>4 DEF Soon

\* Control that takes a branch to the test of a loop.
LEMMA SoonBack ==
  ASSUME code \in Seq(Instr), NEW k \in 1 .. Len(code), k + 1 \in 1 .. Len(code), NEW l,
         code[k] = I("BR", l), Placed(l) # {}, NEW t \in 1 .. Len(code), PlaceOf(l) = t,
         code[t] = I("LABEL", l), t + 1 \in 1 .. Len(code), code[t + 1].src # NULL,
         NEW q, q = code[t + 1].src
  PROVE  Soon(k, q)
<1>1. Comes(t + 1, 1, q)
  BY ComesAtOnce
<1>2. code[t].src = NULL /\ code[t].op # "END" /\ code[t].op # "BR"
  BY DEF I
<1>3. Comes(t, 1 + 1, q)
  BY <1>1, <1>2, ComesNext
<1>4. 1 + 1 = 2 /\ 2 + 1 = 3 /\ 2 \in Nat
  OBVIOUS
<1>5. Comes(k, 2 + 1, q)
  BY <1>3, <1>4, ComesByBranch
<1>6. 3 \in 1 .. Len(code) - k + 2
  <2>1. Len(code) \in Nat
    OBVIOUS
  <2>2. QED
    BY <2>1
<1>7. QED
  BY <1>4, <1>5, <1>6 DEF Soon

\* From within the code, soon is in time.
LEMMA SoonLands ==
  ASSUME code \in Seq(Instr), NEW k \in Nat, k >= 2, NEW q, Soon(k, q)
  PROVE  Land(k) = q
<1>1. PICK d \in 1 .. Len(code) - k + 2 : Comes(k, d, q)
  BY DEF Soon
<1>2. Len(code) \in Nat
  OBVIOUS
<1>3. d \in Nat /\ d <= Len(code)
  BY <1>2
<1>4. QED
  BY <1>1, <1>3, Lands

\* A label is where it is placed.
LEMMA LabelAt ==
  ASSUME code \in Seq(Instr), Unique(code), NEW k \in 1 .. Len(code), NEW l, code[k] = I("LABEL", l)
  PROVE  Placed(l) # {} /\ PlaceOf(l) = k
<1>1. Code = 1 .. Len(code) /\ Code = DOMAIN code
  BY DEF Code
<1>2. code[k].op = "LABEL" /\ code[k].label = l
  BY DEF I
<1>3. k \in Placed(l)
  BY <1>1, <1>2 DEF Placed
<1>4. PlaceOf(l) \in Code /\ code[PlaceOf(l)].op = "LABEL" /\ code[PlaceOf(l)].label = l
  BY <1>3, PlaceFacts
<1>5. QED
  BY <1>1, <1>2, <1>3, <1>4 DEF Unique, IsLabel

\* The code of an event is in its place.
LEMMA PieceAt ==
  ASSUME NEW y, Final(y), NEW i \in 1 .. Len(prog), NEW s, y.piece[i] = s
  PROVE  /\ code \in Seq(Instr) /\ Len(code) \in Nat /\ s \in Seq(Instr) /\ Len(s) \in Nat
         /\ y.place[i] \in Nat /\ y.place[i] >= 1 /\ y.place[i + 1] = y.place[i] + Len(s)
         /\ y.place[i] + Len(s) <= Len(code) + 1
         /\ \A j \in 0 .. Len(s) - 1 : /\ y.place[i] + j \in 1 .. Len(code)
                                       /\ code[y.place[i] + j] = s[j + 1]
<1> DEFINE n == Len(prog)
           m == Len(code)
<1>1. /\ n \in Nat /\ m \in Nat /\ code \in Seq(Instr) /\ y.piece \in [Nat -> Seq(Instr)]
      /\ y.place \in [Nat -> Nat] /\ Placing(prog, code, y)
  BY LayoutFacts DEF Final, Layout
<1>2. i \in Nat /\ i \in 1 .. n + 1 /\ i + 1 \in 1 .. n + 1 /\ 1 \in 1 .. n + 1 /\ n + 1 \in 1 .. n + 1
      /\ i + 1 <= n + 1 /\ 1 <= i /\ i + 1 \in Nat
  <2>1. i \in 1 .. n /\ n \in Nat
    BY <1>1
  <2> HIDE DEF n
  <2>2. QED
    BY <2>1
<1>3. s \in Seq(Instr) /\ y.place[i] \in Nat
  BY <1>1, <1>2
<1>4. Len(s) \in Nat
  BY <1>3
<1>5. y.place[1] <= y.place[i] /\ y.place[i + 1] <= y.place[n + 1]
  BY <1>1, <1>2 DEF Placing
<1>6. /\ y.place[1] = 1 /\ y.place[n + 1] = m + 1
      /\ y.place[i + 1] = y.place[i] + Len(s) /\ LaidAt(code, y.place[i], s)
  BY <1>1 DEF Placing
<1> DEFINE p == y.place[i]
           w == Len(s)
<1>7. p \in Nat /\ w \in Nat /\ p >= 1 /\ p + w <= m + 1
  BY <1>3, <1>4, <1>5, <1>6
<1>8. ASSUME NEW j \in 0 .. w - 1 PROVE p + j \in 1 .. m /\ code[p + j] = s[j + 1]
  <2> HIDE DEF p, w, m
  <2>1. j + 1 \in 1 .. w /\ p + (j + 1) - 1 = p + j /\ p + j \in 1 .. m
    BY <1>1, <1>7
  <2>2. code[p + (j + 1) - 1] = s[j + 1]
    BY <2>1, <1>6 DEF LaidAt, p, w
  <2>3. QED
    BY <2>1, <2>2
<1>9. QED
  BY <1>1, <1>3, <1>4, <1>6, <1>7, <1>8

\* The same, of its instructions alone.
LEMMA PieceCells ==
  ASSUME NEW y, Final(y), NEW i \in 1 .. Len(prog)
  PROVE  \A j \in 0 .. Len(y.piece[i]) - 1 : /\ y.place[i] + j \in 1 .. Len(code)
                                             /\ code[y.place[i] + j] = y.piece[i][j + 1]
<1> DEFINE s == y.piece[i]
<1>1. y.piece[i] = s
  OBVIOUS
<1> HIDE DEF s
<1>2. \A j \in 0 .. Len(s) - 1 : /\ y.place[i] + j \in 1 .. Len(code)
                                 /\ code[y.place[i] + j] = s[j + 1]
  BY <1>1, PieceAt, SMTT(60)
<1>3. QED
  BY <1>2 DEF s

\* Its first instructions.
LEMMA PieceStarts ==
  ASSUME NEW y, Final(y), NEW i \in 1 .. Len(prog), NEW s, y.piece[i] = s
  PROVE  /\ Len(s) >= 1 => y.place[i] \in 1 .. Len(code) /\ code[y.place[i]] = s[1]
         /\ Len(s) >= 2 => y.place[i] + 1 \in 1 .. Len(code) /\ code[y.place[i] + 1] = s[2]
         /\ Len(s) >= 3 => y.place[i] + 2 \in 1 .. Len(code) /\ code[y.place[i] + 2] = s[3]
<1> DEFINE p == y.place[i]
           w == Len(s)
<1>1. w \in Nat /\ p \in Nat
  BY PieceAt
<1>5. \A j \in 0 .. w - 1 : p + j \in 1 .. Len(code) /\ code[p + j] = s[j + 1]
  BY PieceAt
<1> HIDE DEF p, w
<1>2. w >= 1 => 0 \in 0 .. w - 1 /\ p + 0 = p /\ 0 + 1 = 1
  BY <1>1
<1>3. w >= 2 => 1 \in 0 .. w - 1 /\ 1 + 1 = 2
  BY <1>1
<1>4. w >= 3 => 2 \in 0 .. w - 1 /\ 2 + 1 = 3
  BY <1>1
<1>6. w >= 1 => p \in 1 .. Len(code) /\ code[p] = s[1]
  BY <1>2, <1>5
<1>7. w >= 2 => p + 1 \in 1 .. Len(code) /\ code[p + 1] = s[2]
  BY <1>3, <1>5
<1>8. w >= 3 => p + 2 \in 1 .. Len(code) /\ code[p + 2] = s[3]
  BY <1>4, <1>5
<1>9. QED
  BY <1>6, <1>7, <1>8 DEF p, w

\* The code that ends a construct.
LEMMA EndIs ==
  ASSUME NEW y, Final(y), NEW o \in 1 .. Len(prog), y.close[o] # 0
  PROVE  /\ y.close[o] \in 1 .. Len(prog) /\ prog[y.close[o]] = "end"
         /\ Ends(code, y, y.close[o], o, y.piece[y.close[o]], prog[o])
<1> DEFINE e == y.close[o]
<1>1. e \in Nat /\ e # 0
  <2>1. y.close \in [Nat -> Nat]
    BY LayoutFacts DEF Final
  <2>2. o \in Nat
    OBVIOUS
  <2>3. QED
    BY <2>1, <2>2
<1>2. /\ e \in 1 .. Len(prog) /\ prog[e] = "end" /\ Around(prog, y, e, o)
      /\ y.depth[e] = y.depth[o] - 1
  BY <1>1, MatchFacts
<1> HIDE DEF e
<1>3. PICK r \in 1 .. Len(prog) : /\ Around(prog, y, e, r) /\ y.depth[e] = y.depth[r] - 1
                                  /\ Ends(code, y, e, r, y.piece[e], prog[r])
  BY <1>2, EndHasOpener
<1>4. y.depth[o] = y.depth[r]
  <2>1. y.depth[o] \in Nat /\ y.depth[r] \in Nat
    BY FinalFacts
  <2>2. QED
    BY <2>1, <1>2, <1>3
<1>5. o = r
  BY <1>2, <1>3, <1>4, OneAround
<1>6. QED
  BY <1>2, <1>3, <1>5 DEF e

\* What the code of an event is filled with.
LEMMA FillIs ==
  ASSUME NEW y, Final(y), NEW i \in 1 .. Len(prog)
  PROVE  Fill(prog[i], i, y.piece[i], y.start[i], y.end[i])
BY DEF Final, Layout, Filled

\* After a construct with an end label comes the label, then what is next.
LEMMA AfterConstruct ==
  ASSUME NEW y, Settled(y), NEW o \in 1 .. Len(prog),
         prog[o] \in {"if", "ifElse", "while", "for", "range"}, NEW j, j = y.close[o] + 1
  PROVE  /\ j \in 1 .. Len(prog) /\ prog[j] # "fun" /\ y.place[j] \in Nat
         /\ y.place[j] - 1 \in 1 .. Len(code) /\ code[y.place[j] - 1] = I("LABEL", y.end[o])
         /\ Placed(y.end[o]) # {} /\ PlaceOf(y.end[o]) = y.place[j] - 1
<1> DEFINE e == y.close[o]
           s == y.piece[e]
           l == I("LABEL", y.end[o])
<1>1. Final(y) /\ Unique(code) /\ prog[o] \in Compound
  BY DEF Settled, Compound, Loops
<1>2. e # 0 /\ e \in 1 .. Len(prog) /\ j \in 1 .. Len(prog) /\ prog[j] # "fun"
  BY <1>1, CompoundCloses
<1>3. Ends(code, y, e, o, s, prog[o])
  BY <1>1, <1>2, EndIs
<1> HIDE DEF e
<1>4. EndFill(prog[o], o, s, y.start[o], y.end[o])
  BY <1>3 DEF Ends
<1>5. Len(s) \in Nat /\ Len(s) >= 1 /\ s[Len(s)] = l
  <2>1. CASE prog[o] \in {"if", "ifElse"}
    <3>1. s = <<l>>
      BY <1>4, <2>1 DEF EndFill
    <3> HIDE DEF s, l
    <3>2. QED
      BY <3>1
  <2>2. CASE prog[o] = "while"
    <3> DEFINE a == I("BR", y.start[o])
    <3>1. s = <<a, l>>
      BY <1>4, <2>2 DEF EndFill
    <3> HIDE DEF s, l, a
    <3>2. QED
      BY <3>1
  <2>3. CASE prog[o] \in {"for", "range"}
    <3> DEFINE a == I("BR", y.start[o])
               d == Act(o, "step")
    <3>1. s = <<d, a, l>>
      BY <1>4, <2>3 DEF EndFill
    <3> HIDE DEF s, l, a, d
    <3>2. QED
      BY <3>1
  <2>4. QED
    BY <2>1, <2>2, <2>3
<1> DEFINE p == y.place[e]
           w == Len(s)
<1>6. p \in Nat /\ p >= 1 /\ w \in Nat /\ y.place[e + 1] = p + w /\ code \in Seq(Instr)
  BY <1>1, <1>2, PieceAt
<1>7. \A k \in 0 .. w - 1 : p + k \in 1 .. Len(code) /\ code[p + k] = s[k + 1]
  <2>1. Final(y) /\ e \in 1 .. Len(prog)
    BY <1>1, <1>2
  <2>2. QED
    BY <2>1, PieceCells, Zenon
<1>8. y.place[j] = p + w
  BY <1>6 DEF e
<1>9. w >= 1 /\ s[w] = l
  BY <1>5
<1> HIDE DEF p, w, s
<1>10. w - 1 \in 0 .. w - 1 /\ p + (w - 1) = (p + w) - 1 /\ (w - 1) + 1 = w
  BY <1>6, <1>9
<1>11. (p + w) - 1 \in 1 .. Len(code) /\ code[(p + w) - 1] = l
  BY <1>7, <1>9, <1>10
<1>12. Placed(y.end[o]) # {} /\ PlaceOf(y.end[o]) = (p + w) - 1
  BY <1>1, <1>6, <1>11, LabelAt
<1>13. QED
  BY <1>2, <1>6, <1>8, <1>11, <1>12

\* From the label before an event control comes to what the event begins with.
LEMMA AfterLabel ==
  ASSUME NEW y, Settled(y), NEW j \in 1 .. Len(prog), prog[j] # "fun", y.place[j] \in Nat, NEW l,
         y.place[j] - 1 \in 1 .. Len(code), code[y.place[j] - 1] = I("LABEL", l), Continues(y, j)
  PROVE  Soon(y.place[j] - 1, First[j])
<1> DEFINE k == y.place[j] - 1
<1>1. k + 1 = y.place[j] /\ code \in Seq(Instr)
  <2>1. k + 1 = y.place[j]
    OBVIOUS
  <2>2. code \in Seq(Instr)
    BY LayoutFacts DEF Settled, Final
  <2>3. QED
    BY <2>1, <2>2
<1>2. code[k].op = "LABEL" /\ code[k].src = NULL
  BY DEF I
<1>3. Soon(y.place[j], First[j])
  BY <1>2 DEF Continues
<1> HIDE DEF k
<1>4. k \in 1 .. Len(code) /\ Soon(k + 1, First[j])
  BY <1>1, <1>3 DEF k
<1>5. Soon(k, First[j])
  BY <1>1, <1>2, <1>4, SoonNext
<1>6. QED
  BY <1>5 DEF k

\* The test of a loop that begins with a label.
LEMMA LoopStart ==
  ASSUME NEW y, Settled(y), NEW o \in 1 .. Len(prog), prog[o] \in {"while", "for", "range"}
  PROVE  \E t \in 1 .. Len(code) :
            /\ t + 1 \in 1 .. Len(code) /\ code[t] = I("LABEL", y.start[o])
            /\ code[t + 1] = Test(y.end[o], o) /\ Placed(y.start[o]) # {} /\ PlaceOf(y.start[o]) = t
            /\ t = IF prog[o] = "while" THEN y.place[o] ELSE y.place[o] + 1
<1> DEFINE s == y.piece[o]
           l == I("LABEL", y.start[o])
           b == Test(y.end[o], o)
           d == Act(o, "init")
           p == y.place[o]
<1>1. Final(y) /\ Unique(code)
  BY DEF Settled
<1>2. Fill(prog[o], o, s, y.start[o], y.end[o])
  BY <1>1, FillIs
<1>3. /\ Len(s) >= 1 => p \in 1 .. Len(code) /\ code[p] = s[1]
      /\ Len(s) >= 2 => p + 1 \in 1 .. Len(code) /\ code[p + 1] = s[2]
      /\ Len(s) >= 3 => p + 2 \in 1 .. Len(code) /\ code[p + 2] = s[3]
  BY <1>1, PieceStarts
<1>4. p \in Nat /\ code \in Seq(Instr)
  BY <1>1, PieceAt
<1> HIDE DEF p
<1>5. CASE prog[o] = "while"
  <2>1. s = <<l, b>>
    BY <1>2, <1>5 DEF Fill
  <2> HIDE DEF s, l, b
  <2>2. Len(s) = 2 /\ s[1] = l /\ s[2] = b
    BY <2>1
  <2>3. p \in 1 .. Len(code) /\ p + 1 \in 1 .. Len(code) /\ code[p] = l /\ code[p + 1] = b
    BY <1>3, <2>2
  <2>4. Placed(y.start[o]) # {} /\ PlaceOf(y.start[o]) = p
    BY <1>1, <1>4, <2>3, LabelAt DEF l
  <2>5. QED
    BY <1>5, <2>3, <2>4 DEF l, b, p
<1>6. CASE prog[o] \in {"for", "range"}
  <2>1. s = <<d, l, b>>
    BY <1>2, <1>6 DEF Fill
  <2> HIDE DEF s, l, b, d
  <2>2. Len(s) = 3 /\ s[2] = l /\ s[3] = b
    BY <2>1
  <2>3. p + 1 \in 1 .. Len(code) /\ p + 2 \in 1 .. Len(code) /\ code[p + 1] = l /\ code[p + 2] = b
    BY <1>3, <2>2
  <2>4. Placed(y.start[o]) # {} /\ PlaceOf(y.start[o]) = p + 1
    BY <1>1, <1>4, <2>3, LabelAt DEF l
  <2>5. (p + 1) + 1 = p + 2
    BY <1>4
  <2>6. QED
    BY <1>6, <2>3, <2>4, <2>5 DEF l, b, p
<1>7. QED
  BY <1>5, <1>6

\* An instruction of an event that stands for a point.
LEMMA SoonPoint ==
  ASSUME NEW k \in 1 .. Len(code), code \in Seq(Instr), NEW o \in Nat,
         NEW part \in {"entry", "do", "init", "test", "step"}, code[k].src = <<o, part>>
  PROVE  Soon(k, <<o, part>>)
<1>1. code[k].src # NULL
  BY PointIs
<1>2. QED
  BY <1>1, SoonAtOnce

\* Control comes to what an event does.
LEMMA SoonDoes ==
  ASSUME NEW y, Settled(y), NEW i \in 1 .. Len(prog),
         NEW q, Does(y, i, q)
  PROVE  Soon(y.place[i], q)
<1> DEFINE s == y.piece[i]
           p == y.place[i]
<1>1. Final(y) /\ Unique(code)
  BY DEF Settled
<1>2. Fill(prog[i], i, s, y.start[i], y.end[i]) /\ i \in Nat
  BY <1>1, FillIs
<1>3. /\ Len(s) >= 1 => p \in 1 .. Len(code) /\ code[p] = s[1]
      /\ Len(s) >= 2 => p + 1 \in 1 .. Len(code) /\ code[p + 1] = s[2]
  BY <1>1, PieceStarts
<1>4. p \in Nat /\ code \in Seq(Instr) /\ Len(code) \in Nat
  BY <1>1, PieceAt
<1>5. ASSUME NEW x, s # <<>>, s[1] = x, s \in Seq(Instr), NEW o \in Nat,
             NEW part \in {"do", "init", "test", "step"}, x.src = <<o, part>>, q = <<o, part>>
      PROVE  Soon(p, q)
  <2>1. Len(s) >= 1
    BY <1>5
  <2>2. p \in 1 .. Len(code) /\ code[p].src = <<o, part>>
    BY <1>3, <1>5, <2>1
  <2> HIDE DEF p, s
  <2>3. QED
    BY <1>4, <1>5, <2>2, SoonPoint
<1>6. s \in Seq(Instr)
  BY <1>1, PieceAt
<1>7. CASE prog[i] \in {"do", "value", "return"} /\ q = <<i, "do">>
  <2>1. s # <<>> /\ s[1].src = <<i, "do">>
    BY <1>2, <1>7 DEF Fill, Act
  <2>2. QED
    BY <1>2, <1>5, <1>6, <1>7, <2>1
<1>8. CASE prog[i] \in {"array", "for", "range", "until"} /\ q = <<i, "init">>
  <2>1. s # <<>> /\ s[1].src = <<i, "init">>
    BY <1>2, <1>8 DEF Fill, Act
  <2>2. QED
    BY <1>2, <1>5, <1>6, <1>8, <2>1
<1>9. CASE prog[i] \in {"if", "ifElse"} /\ q = <<i, "test">>
  <2>1. s # <<>> /\ s[1].src = <<i, "test">>
    BY <1>2, <1>9 DEF Fill, Test
  <2>2. QED
    BY <1>2, <1>5, <1>6, <1>9, <2>1
<1>10. CASE prog[i] = "while" /\ q = <<i, "test">>
  <2>1. PICK t \in 1 .. Len(code) : /\ t + 1 \in 1 .. Len(code) /\ code[t] = I("LABEL", y.start[i])
                                    /\ code[t + 1] = Test(y.end[i], i) /\ t = p
    BY <1>10, LoopStart
  <2>2. code[t + 1].src = <<i, "test">>
    BY <2>1 DEF Test
  <2>3. Soon(t + 1, q)
    BY <1>2, <1>4, <1>10, <2>1, <2>2, SoonPoint
  <2>4. code[t].src = NULL /\ code[t].op # "END" /\ code[t].op # "BR"
    BY <2>1 DEF I
  <2>5. Soon(t, q)
    BY <1>4, <2>3, <2>4, SoonNext
  <2>6. QED
    BY <2>1, <2>5
<1>11. ASSUME prog[i] = "end", NEW o \in 1 .. Len(prog), y.close[o] = i,
              \/ prog[o] = "fun" /\ q = Exit
              \/ prog[o] \in {"while", "doWhile"} /\ q = <<o, "test">>
              \/ prog[o] \in {"for", "range"} /\ q = <<o, "step">>
       PROVE  Soon(p, q)
  <2>1. Ends(code, y, i, o, s, prog[o]) /\ i # 0 /\ o \in Nat
    BY <1>1, <1>11, EndIs
  <2>2. CASE prog[o] = "fun" /\ q = Exit
    <3>1. FunEnds(code, y, i, o, s)
      BY <2>1, <2>2 DEF Ends
    <3> DEFINE a == I("RET", NULL)
               b == I("END", y.end[o])
    <3>2. a.op = "RET" /\ a.src = NULL /\ b.op = "END" /\ b.src = NULL
      BY DEF I
    <3>3. s = <<b>> \/ s = <<a, b>>
      BY <3>1 DEF FunEnds
    <3> HIDE DEF a, b, p, s
    <3>4. CASE s = <<b>>
      <4>1. Len(s) >= 1 /\ s[1] = b
        BY <3>4
      <4>2. QED
        BY <1>3, <1>4, <2>2, <3>2, <4>1, SoonAtOnce
    <3>5. CASE s = <<a, b>>
      <4>1. Len(s) >= 2 /\ Len(s) >= 1 /\ s[1] = a /\ s[2] = b
        BY <3>5
      <4>2. Soon(p + 1, q)
        BY <1>3, <1>4, <2>2, <3>2, <4>1, SoonAtOnce
      <4>3. QED
        BY <1>3, <1>4, <3>2, <4>1, <4>2, SoonNext
    <3>6. QED
      BY <3>3, <3>4, <3>5
  <2>3. CASE prog[o] = "doWhile" /\ q = <<o, "test">>
    <3>1. EndFill("doWhile", o, s, y.start[o], y.end[o])
      BY <2>1, <2>3 DEF Ends
    <3>2. s # <<>> /\ s[1].src = <<o, "test">>
      BY <3>1 DEF EndFill, Act
    <3>3. QED
      BY <1>5, <1>6, <2>1, <2>3, <3>2
  <2>4. CASE prog[o] \in {"for", "range"} /\ q = <<o, "step">>
    <3>1. EndFill(prog[o], o, s, y.start[o], y.end[o])
      BY <2>1, <2>4 DEF Ends
    <3> DEFINE d == Act(o, "step")
               a == I("BR", y.start[o])
               b == I("LABEL", y.end[o])
    <3>a. s = <<d, a, b>>
      BY <3>1, <2>4 DEF EndFill
    <3>b. d.src = <<o, "step">>
      BY DEF Act
    <3>2. s # <<>> /\ s[1].src = <<o, "step">>
      <4> HIDE DEF d, a, b, s
      <4>1. QED
        BY <3>a, <3>b
    <3>3. QED
      BY <1>5, <1>6, <2>1, <2>4, <3>2
  <2>5. CASE prog[o] = "while" /\ q = <<o, "test">>
    <3> DEFINE a == I("BR", y.start[o])
               b == I("LABEL", y.end[o])
    <3>1. EndFill("while", o, s, y.start[o], y.end[o])
      BY <2>1, <2>5 DEF Ends
    <3>2. s = <<a, b>>
      BY <3>1 DEF EndFill
    <3> HIDE DEF a, b
    <3>3. Len(s) = 2 /\ s[1] = a
      BY <3>2
    <3>4. p \in 1 .. Len(code) /\ p + 1 \in 1 .. Len(code) /\ code[p] = I("BR", y.start[o])
      BY <1>3, <3>3 DEF a
    <3>5. PICK t \in 1 .. Len(code) :
             /\ t + 1 \in 1 .. Len(code) /\ code[t] = I("LABEL", y.start[o])
             /\ code[t + 1] = Test(y.end[o], o) /\ Placed(y.start[o]) # {} /\ PlaceOf(y.start[o]) = t
      BY <2>5, LoopStart
    <3>6. code[t + 1].src = <<o, "test">> /\ code[t + 1].src # NULL
      BY <2>1, <3>5, PointIs DEF Test
    <3> HIDE DEF p, s
    <3>7. QED
      BY <1>4, <2>5, <3>4, <3>5, <3>6, SoonBack
  <2>6. QED
    BY <1>11, <2>2, <2>3, <2>4, <2>5
<1>12. QED
  BY <1>7, <1>8, <1>9, <1>10, <1>11 DEF Does

\* The code that ends a construct with labels.
LEMMA EndFillSome ==
  ASSUME NEW v \in {"if", "ifElse", "while", "for", "range"}, NEW o, NEW s, NEW a, NEW b,
         EndFill(v, o, s, a, b)
  PROVE  s # <<>>
<1> DEFINE x == I("BR", a)
           w == I("LABEL", b)
           d == Act(o, "step")
<1>1. s \in {<<w>>, <<x, w>>, <<d, x, w>>}
  BY DEF EndFill
<1> HIDE DEF x, w, d
<1>2. \A i, j, k : <<i>> # <<>> /\ <<i, j>> # <<>> /\ <<i, j, k>> # <<>>
  OBVIOUS
<1>3. QED
  BY <1>1, <1>2

\* Control goes on with what the text goes on with.
LEMMA SoonGoes ==
  ASSUME NEW y, Settled(y), NEW i \in 1 .. Len(prog), prog[i] # "fun",
         NEW j, Goes(y, i, j), Continues(y, j)
  PROVE  Soon(y.place[i], First[j])
<1> DEFINE s == y.piece[i]
           p == y.place[i]
<1>1. Final(y) /\ Unique(code)
  BY DEF Settled
<1>2. Fill(prog[i], i, s, y.start[i], y.end[i])
  BY <1>1, FillIs
<1>3. Len(s) >= 1 => p \in 1 .. Len(code) /\ code[p] = s[1]
  BY <1>1, PieceStarts
<1>4. p \in Nat /\ code \in Seq(Instr) /\ Len(code) \in Nat /\ y.place[i + 1] = p + Len(s)
      /\ Len(s) \in Nat
  BY <1>1, PieceAt
<1>5. j \in i + 1 .. Len(prog) /\ prog[j] # "fun" /\ Len(prog) \in Nat
  BY <1>1, GoesIs, FinalFacts
<1>6. j \in 1 .. Len(prog) /\ i < j
  BY <1>5
<1>7. ASSUME s = <<>>, j = i + 1 PROVE Soon(p, First[j])
  <2>1. Len(s) = 0
    BY <1>7
  <2>2. y.place[j] = p
    BY <1>4, <1>7, <2>1
  <2>3. QED
    BY <1>5, <2>2 DEF Continues
<1>8. ASSUME NEW o \in 1 .. Len(prog), prog[o] \in {"if", "ifElse", "while", "for", "range"},
             j = y.close[o] + 1, Len(s) >= 1, s[1] = I("BR", y.end[o]), prog[i] # "end"
      PROVE  Soon(p, First[j])
  <2>1. /\ y.place[j] \in Nat /\ y.place[j] - 1 \in 1 .. Len(code)
        /\ code[y.place[j] - 1] = I("LABEL", y.end[o])
        /\ Placed(y.end[o]) # {} /\ PlaceOf(y.end[o]) = y.place[j] - 1
    BY <1>8, AfterConstruct
  <2>2. Soon(y.place[j] - 1, First[j])
    BY <1>5, <1>6, <2>1, AfterLabel
  <2>3. p < y.place[j] - 1
    <3> DEFINE e == y.close[o]
    <3>1. e \in 1 .. Len(prog) /\ prog[e] = "end" /\ e # 0
      BY <1>1, <1>8, CompoundCloses DEF Compound, Loops
    <3>2. e \in Nat /\ e + 1 = j /\ i + 1 <= e
      <4>1. e # i /\ e + 1 = j /\ i < j
        BY <3>1, <1>6, <1>8
      <4> HIDE DEF e
      <4>2. QED
        BY <4>1, <3>1
    <3>3. PICK w \in Nat : w >= 1 /\ y.place[e + 1] = y.place[e] + w /\ y.place[e] \in Nat
      <4>1. Ends(code, y, e, o, y.piece[e], prog[o])
        BY <1>1, <3>1, EndIs
      <4>2. EndFill(prog[o], o, y.piece[e], y.start[o], y.end[o])
        BY <1>8, <4>1 DEF Ends
      <4> DEFINE u == y.piece[e]
      <4>3. u # <<>>
        BY <1>8, <4>2, EndFillSome
      <4> HIDE DEF e
      <4>4. /\ y.piece[e] \in Seq(Instr) /\ y.place[e + 1] = y.place[e] + Len(y.piece[e])
            /\ y.place[e] \in Nat
        BY <1>1, <3>1, PieceAt
      <4>5. Len(y.piece[e]) \in Nat /\ Len(y.piece[e]) >= 1
        BY <4>3, <4>4
      <4>6. QED
        BY <4>4, <4>5
    <3>4. y.place[i + 1] <= y.place[e]
      <4>1. i + 1 \in 1 .. Len(prog) + 1 /\ e \in 1 .. Len(prog) + 1
        BY <1>5, <3>1
      <4>2. QED
        BY <1>1, <3>2, <4>1 DEF Final, Layout, Placing
    <3> HIDE DEF e
    <3>5. y.place[j] = y.place[e] + w
      BY <3>2, <3>3
    <3>6. p + Len(s) <= y.place[e]
      BY <1>4, <3>4
    <3> HIDE DEF p, s
    <3>7. QED
      BY <1>4, <1>8, <3>3, <3>5, <3>6
  <2>4. p \in 1 .. Len(code) /\ code[p] = I("BR", y.end[o])
    BY <1>3, <1>8
  <2> HIDE DEF p, s
  <2>5. QED
    BY <1>4, <2>1, <2>2, <2>3, <2>4, SoonForward
<1>9. CASE prog[i] \in {"continue", "doWhile"} /\ j = i + 1
  <2>1. s = <<>>
    BY <1>2, <1>9 DEF Fill
  <2>2. QED
    BY <1>7, <1>9, <2>1
<1>10. ASSUME prog[i] = "break" PROVE Leaving(prog, y, i, s)
  BY <1>1, <1>10 DEF Final, Layout, Filled
<1>11. CASE prog[i] = "break" /\ Leavable(prog, y, i) = {} /\ j = i + 1
  <2>1. s = <<>>
    BY <1>10, <1>11 DEF Leaving
  <2>2. QED
    BY <1>7, <1>11, <2>1
<1>12. ASSUME prog[i] = "break", NEW o \in Leavable(prog, y, i), j = y.close[o] + 1,
              \A r \in Leavable(prog, y, i) : r <= o
       PROVE  Soon(p, First[j])
  <2>1. PICK r \in Leavable(prog, y, i) : s = <<I("BR", y.end[r])>>
                                          /\ \A q \in Leavable(prog, y, i) : q <= r
    BY <1>10, <1>12 DEF Leaving
  <2>2. o \in 1 .. Len(prog) /\ r \in 1 .. Len(prog) /\ prog[o] \in {"while", "for"}
    BY DEF Leavable
  <2>3. o = r
    BY <1>12, <2>1, <2>2
  <2>4. Len(s) = 1 /\ s[1] = I("BR", y.end[o])
    BY <2>1, <2>3
  <2>5. QED
    BY <1>8, <1>12, <2>2, <2>4
<1>13. ASSUME prog[i] = "else", NEW o \in 1 .. Len(prog), y.els[o] = i, j = y.close[o] + 1
       PROVE  Soon(p, First[j])
  <2>1. PICK r \in 1 .. Len(prog) : /\ Around(prog, y, i, r) /\ y.depth[i] = y.depth[r]
                                    /\ s = <<I("BR", y.end[r]), I("LABEL", y.start[r])>>
    BY <1>1, <1>13, ElseHasIf
  <2>2. Around(prog, y, i, o) /\ y.depth[i] = y.depth[o] /\ prog[o] = "ifElse"
    BY <1>1, <1>13, MatchFacts
  <2>3. o = r
    BY <1>1, <2>1, <2>2, OneAround
  <2>4. Len(s) = 2 /\ s[1] = I("BR", y.end[o])
    <3> DEFINE a == I("BR", y.end[r])
               b == I("LABEL", y.start[r])
    <3>1. s = <<a, b>>
      BY <2>1
    <3>2. a = I("BR", y.end[o])
      BY <2>3
    <3> HIDE DEF a, b, s
    <3>3. QED
      BY <3>1, <3>2
  <2>5. QED
    BY <1>8, <1>13, <2>2, <2>4
<1>14. ASSUME prog[i] = "end", j = i + 1, NEW o \in 1 .. Len(prog), y.close[o] = i,
              prog[o] \in {"if", "ifElse", "until"}
       PROVE  Soon(p, First[j])
  <2>1. Ends(code, y, i, o, s, prog[o])
    BY <1>1, <1>14, EndIs
  <2>2. EndFill(prog[o], o, s, y.start[o], y.end[o])
    BY <1>14, <2>1 DEF Ends
  <2>3. CASE prog[o] = "until"
    <3>1. s = <<>>
      BY <2>2, <2>3 DEF EndFill
    <3>2. QED
      BY <1>7, <1>14, <3>1
  <2>4. CASE prog[o] \in {"if", "ifElse"}
    <3>a. s = <<I("LABEL", y.end[o])>>
      BY <2>2, <2>4 DEF EndFill
    <3>1. Len(s) = 1
      BY <3>a
    <3>2. y.place[j] - 1 = p
      <4>1. y.place[j] = p + 1
        BY <1>4, <1>14, <3>1
      <4> HIDE DEF p
      <4>2. QED
        BY <4>1, <1>4
    <3>3. /\ y.place[j] \in Nat /\ y.place[j] - 1 \in 1 .. Len(code)
          /\ code[y.place[j] - 1] = I("LABEL", y.end[o])
      BY <1>14, <2>4, AfterConstruct
    <3>4. Soon(y.place[j] - 1, First[j])
      BY <1>5, <1>6, <3>3, AfterLabel
    <3>5. QED
      BY <3>2, <3>4
  <2>5. QED
    BY <1>14, <2>3, <2>4
<1>15. QED
  BY <1>9, <1>11, <1>12, <1>13, <1>14 DEF Goes

\* Control comes to what the text does next, at every event control gets to.
LEMMA AllContinue ==
  ASSUME NEW y, Settled(y)
  PROVE  \A i \in 1 .. Len(prog) : Continues(y, i)
<1> DEFINE n == Len(prog)
           T == {k \in 0 .. n : \A i \in 1 .. n : i > n - k => Continues(y, i)}
<1>1. Final(y) /\ n \in Nat
  BY FinalFacts DEF Settled
<1>2. 0 \in T
  BY <1>1
<1>3. ASSUME NEW i \in 1 .. n, \A j \in i + 1 .. n : Continues(y, j) PROVE Continues(y, i)
  <2> SUFFICES ASSUME prog[i] # "fun"
               PROVE  Soon(y.place[i], First[i])
    BY DEF Continues
  <2>1. ASSUME NEW q, Does(y, i, q) PROVE Soon(y.place[i], First[i])
    <3>1. First[i] = q
      BY <1>1, <2>1, BeginIs DEF First
    <3>2. QED
      BY <2>1, <3>1, SoonDoes
  <2>2. ASSUME NEW j, Goes(y, i, j) PROVE Soon(y.place[i], First[i])
    <3>1. First[i] = First[j]
      BY <1>1, <2>2, BeginIs DEF First
    <3>2. Continues(y, j)
      BY <1>1, <1>3, <2>2, GoesIs
    <3>3. QED
      BY <2>2, <3>1, <3>2, SoonGoes
  <2>3. QED
    BY <1>1, <2>1, <2>2, DoesOrGoes
<1>4. ASSUME NEW k \in 0 .. n - 1, k \in T PROVE k + 1 \in T
  <2>1. \A i \in 1 .. n : i > n - k => Continues(y, i)
    BY <1>4
  <2>2. ASSUME NEW i \in 1 .. n, i > n - (k + 1) PROVE Continues(y, i)
    <3> HIDE DEF n
    <3>1. \A j \in i + 1 .. n : j \in 1 .. n /\ j > n - k
      BY <1>1, <2>2
    <3>2. QED
      BY <1>3, <2>1, <3>1
  <2>3. k + 1 \in 0 .. n
    BY <1>1
  <2>4. QED
    BY <2>2, <2>3
<1>5. n \in T
  <2> HIDE DEF T, n
  <2>1. \A k \in 0 .. n - 1 : k \in T => k + 1 \in T
    BY <1>4
  <2>2. \A k \in 0 .. n : k \in T
    BY <1>1, <1>2, <2>1, InductionUpTo
  <2>3. n \in 0 .. n
    BY <1>1
  <2>4. QED
    BY <2>2, <2>3
<1>6. \A i \in 1 .. n : i > n - n
  BY <1>1
<1>7. QED
  BY <1>5, <1>6

-----------------------------------------------------------------------------
\* The code of a finished file follows its text.

\* From instruction k the code goes where the text goes.
Agrees(k) == \A holds \in BOOLEAN :
    CodeSucc(k, holds) = TextSucc({"while", "for"}, code[k].src, holds)

\* The points after a point of the text.
LEMMA TextIs ==
  ASSUME NEW i, NEW holds
  PROVE  LET T(part) == TextSucc({"while", "for"}, <<i, part>>, holds)
         IN  /\ T("entry") = First[i + 1]
             /\ T("do") = First[i + 1]
             /\ T("init") = IF prog[i] = "until" THEN First[i + 1] ELSE <<i, "test">>
             /\ T("step") = <<i, "test">>
<1>1. <<i, "entry">>[1] = i /\ <<i, "entry">>[2] = "entry"
  OBVIOUS
<1>2. <<i, "do">>[1] = i /\ <<i, "do">>[2] = "do"
  OBVIOUS
<1>3. <<i, "init">>[1] = i /\ <<i, "init">>[2] = "init"
  OBVIOUS
<1>4. <<i, "step">>[1] = i /\ <<i, "step">>[2] = "step"
  OBVIOUS
<1>5. TextSucc({"while", "for"}, <<i, "entry">>, holds) = First[i + 1]
  BY <1>1 DEF TextSucc, First
<1>6. TextSucc({"while", "for"}, <<i, "do">>, holds) = First[i + 1]
  BY <1>2 DEF TextSucc, First
<1>7. TextSucc({"while", "for"}, <<i, "init">>, holds)
         = IF prog[i] = "until" THEN First[i + 1] ELSE <<i, "test">>
  BY <1>3 DEF TextSucc, First
<1>8. TextSucc({"while", "for"}, <<i, "step">>, holds) = <<i, "test">>
  BY <1>4 DEF TextSucc, First
<1>9. QED
  BY <1>5, <1>6, <1>7, <1>8

\* The points after a test.
LEMMA TextTest ==
  ASSUME NEW i, NEW holds
  PROVE  LET t == TextSucc({"while", "for"}, <<i, "test">>, holds)
         IN  /\ prog[i] = "array" => t = IF holds THEN First[i + 1] ELSE <<i, "step">>
             /\ prog[i] = "doWhile" => t = First[Close(i) + 1]
             /\ prog[i] = "ifElse" => t = IF holds THEN First[i + 1] ELSE First[ElseOf(i) + 1]
             /\ prog[i] \in {"if", "while", "for", "range"}
                   => t = IF holds THEN First[i + 1] ELSE First[Close(i) + 1]
<1> DEFINE t == TextSucc({"while", "for"}, <<i, "test">>, holds)
<1>1. <<i, "test">>[1] = i /\ <<i, "test">>[2] = "test"
  OBVIOUS
<1>2. t = CASE prog[i] = "array" -> IF holds THEN First[i + 1] ELSE <<i, "step">>
            [] prog[i] = "doWhile" -> First[Close(i) + 1]
            [] OTHER -> IF holds THEN First[i + 1]
                        ELSE First[(IF prog[i] = "ifElse" THEN ElseOf(i) ELSE Close(i)) + 1]
  BY <1>1 DEF TextSucc, First
<1> HIDE DEF t
<1>3. prog[i] = "array" => t = IF holds THEN First[i + 1] ELSE <<i, "step">>
  BY <1>2
<1>4. prog[i] = "doWhile" => t = First[Close(i) + 1]
  BY <1>2
<1>5. prog[i] = "ifElse" => t = IF holds THEN First[i + 1] ELSE First[ElseOf(i) + 1]
  BY <1>2
<1>6. prog[i] \in {"if", "while", "for", "range"}
         => t = IF holds THEN First[i + 1] ELSE First[Close(i) + 1]
  BY <1>2
<1>7. QED
  BY <1>3, <1>4, <1>5, <1>6 DEF t

\* An instruction is in the code of one of the events.
LEMMA WhereIs ==
  ASSUME NEW y, Final(y), NEW k \in 1 .. Len(code)
  PROVE  \E i \in 1 .. Len(prog) : \E j \in 1 .. Len(y.piece[i]) :
            k = y.place[i] + j - 1 /\ code[k] = y.piece[i][j]
<1>1. PICK i \in 1 .. Len(prog) : y.place[i] <= k /\ k < y.place[i + 1]
  BY DEF Final, Layout, Placing
<1> DEFINE s == y.piece[i]
           p == y.place[i]
           w == Len(s)
           m == Len(code)
<1>2. p \in Nat /\ w \in Nat /\ y.place[i + 1] = p + w /\ m \in Nat
  BY PieceAt
<1>3. \A j \in 0 .. w - 1 : p + j \in 1 .. m /\ code[p + j] = s[j + 1]
  BY PieceCells, Zenon
<1>4. p <= k /\ k < p + w /\ k \in 1 .. m
  BY <1>1, <1>2
<1> HIDE DEF s, p, w, m
<1>5. k - p \in 0 .. w - 1 /\ p + (k - p) = k /\ (k - p) + 1 \in 1 .. w
      /\ k = p + ((k - p) + 1) - 1
  BY <1>2, <1>4
<1>6. code[k] = s[(k - p) + 1]
  BY <1>3, <1>5
<1>7. QED
  BY <1>5, <1>6 DEF s, p, w

\* The code of a file begins with a function.
LEMMA ProcFirst ==
  ASSUME NEW y, Final(y), Len(code) >= 1
  PROVE  code[1].op = "PROC"
<1>1. 1 \in 1 .. Len(code)
  <2>1. Len(code) \in Nat
    BY LayoutFacts DEF Final
  <2>2. QED
    BY <2>1
<1>2. PICK i \in 1 .. Len(prog) : y.place[i] <= 1
  BY <1>1 DEF Final, Layout, Placing
<1>3. 1 \in 1 .. Len(prog) /\ 1 - 1 = 0
  <2>1. Len(prog) \in Nat
    BY FinalFacts
  <2>2. QED
    BY <2>1, <1>2
<1>4. prog[1] = "fun"
  BY <1>3, FinalFacts
<1>5. Fill("fun", 1, y.piece[1], y.start[1], y.end[1])
  BY <1>3, <1>4, FillIs
<1> DEFINE x == [op |-> "PROC", label |-> y.start[1], src |-> <<1, "entry">>]
           s == y.piece[1]
<1>6. s = <<x>>
  BY <1>5 DEF Fill
<1>7. y.place[1] = 1
  BY DEF Final, Layout, Placing
<1>8. x.op = "PROC"
  OBVIOUS
<1> HIDE DEF x, s
<1>9. Len(s) >= 1 /\ s[1] = x
  BY <1>6
<1>10. code[y.place[1]] = x
  BY <1>3, <1>9, PieceStarts DEF s
<1>11. QED
  BY <1>7, <1>8, <1>10

\* Control that goes on with the next event.
LEMMA NextLands ==
  ASSUME NEW y, Settled(y), NEW i, i \in 1 .. Len(prog), prog[i] # "fun",
         NEW k \in 1 .. Len(code), k + 1 = y.place[i]
  PROVE  Land(k + 1) = First[i]
<1>1. code \in Seq(Instr) /\ y.place[i] - 1 = k /\ k + 1 \in Nat /\ k + 1 >= 2
  <2>1. code \in Seq(Instr)
    BY LayoutFacts DEF Settled, Final
  <2>2. (k + 1) - 1 = k /\ k + 1 \in Nat /\ k + 1 >= 2
    OBVIOUS
  <2>3. QED
    BY <2>1, <2>2
<1>2. Continues(y, i)
  BY AllContinue
<1>3. Soon(k + 1, First[i])
  BY <1>1, <1>2 DEF Continues
<1>4. QED
  BY <1>1, <1>3, SoonLands

\* Control that goes to the label before an event.
LEMMA LabelLands ==
  ASSUME NEW y, Settled(y), NEW j \in 1 .. Len(prog), prog[j] # "fun", y.place[j] \in Nat, NEW l,
         NEW k \in 1 .. Len(code), k = y.place[j] - 1, code[k] = I("LABEL", l)
  PROVE  Land(k) = First[j]
<1>1. code \in Seq(Instr) /\ Final(y)
  BY LayoutFacts DEF Settled, Final
<1>2. Soon(k, First[j])
  BY AllContinue, AfterLabel
<1>3. k # 1
  <2>1. k = 1 => code[1].op = "PROC" /\ code[1].op = "LABEL"
    <3>1. Len(code) >= 1
      BY <1>1
    <3>2. QED
      BY <3>1, <1>1, ProcFirst DEF I
  <2>2. QED
    BY <2>1
<1>4. k \in Nat /\ k >= 2
  BY <1>3
<1>5. QED
  BY <1>1, <1>2, <1>4, SoonLands

\* After an event that is no end comes one of the same function.
LEMMA OnwardFacts ==
  ASSUME NEW y, Final(y), NEW i \in 1 .. Len(prog), prog[i] # "end"
  PROVE  i + 1 \in 1 .. Len(prog) /\ prog[i + 1] # "fun"
<1>1. /\ y.depth[i - 1] \in Nat /\ y.depth[i] = Level(prog[i], y.depth[i - 1])
      /\ (prog[i] = "fun" <=> y.depth[i - 1] = 0)
  BY FinalFacts
<1>2. y.depth[i] # 0
  BY <1>1 DEF Level, Opens
<1>3. QED
  BY <1>2, InsideGoesOn

\* The last instruction of an event, when it is no test.
LEMMA LastAgrees ==
  ASSUME NEW y, Settled(y), NEW i \in 1 .. Len(prog), i + 1 \in 1 .. Len(prog), prog[i + 1] # "fun",
         NEW k \in 1 .. Len(code), k + 1 = y.place[i + 1], code[k].op \in {"DO", "RET", "PROC"},
         \A holds \in BOOLEAN :
            TextSucc({"while", "for"}, code[k].src, holds) = First[i + 1]
  PROVE  Agrees(k)
<1>1. Land(k + 1) = First[i + 1]
  BY NextLands
<1>2. \A holds \in BOOLEAN : CodeSucc(k, holds) = Land(k + 1)
  BY DEF CodeSucc
<1>3. QED
  BY <1>1, <1>2 DEF Agrees

\* So agrees a test.
LEMMA TestAgrees ==
  ASSUME NEW y, Settled(y), NEW i \in 1 .. Len(prog), prog[i] \in {"if", "ifElse", "while", "for", "range"},
         NEW k \in 1 .. Len(code), k + 1 = y.place[i + 1],
         NEW l, l = IF prog[i] = "ifElse" THEN y.start[i] ELSE y.end[i], code[k] = Test(l, i)
  PROVE  Agrees(k)
<1>1. Final(y) /\ Unique(code) /\ prog[i] \in Compound
  BY DEF Settled, Compound, Loops
<1>2. code[k].op = "BZ" /\ code[k].src = <<i, "test">> /\ code[k].label = l
  BY DEF Test
<1>3. Land(k + 1) = First[i + 1]
  <2>1. i + 1 \in 1 .. Len(prog) /\ prog[i + 1] # "fun"
    BY <1>1, OnwardFacts
  <2>2. QED
    BY <1>2, <2>1, NextLands
<1>4. ASSUME prog[i] # "ifElse"
      PROVE  Placed(l) # {} /\ Land(PlaceOf(l)) = First[Close(i) + 1]
  <2> DEFINE j == y.close[i] + 1
  <2>5. l = y.end[i] /\ prog[i] \in {"if", "while", "for", "range"}
    BY <1>4
  <2>1. /\ j \in 1 .. Len(prog) /\ prog[j] # "fun" /\ y.place[j] \in Nat
        /\ y.place[j] - 1 \in 1 .. Len(code) /\ code[y.place[j] - 1] = I("LABEL", l)
        /\ Placed(l) # {} /\ PlaceOf(l) = y.place[j] - 1
    BY <2>5, AfterConstruct, SMTT(30)
  <2>2. Close(i) + 1 = j
    BY <1>1, CompoundCloses
  <2> HIDE DEF j
  <2>3. Land(PlaceOf(l)) = First[j]
    BY <2>1, LabelLands, SMTT(30)
  <2>4. QED
    BY <2>1, <2>2, <2>3
<1>5. ASSUME prog[i] = "ifElse"
      PROVE  Placed(l) # {} /\ Land(PlaceOf(l)) = First[ElseOf(i) + 1]
  <2> DEFINE h == y.els[i]
             s == y.piece[h]
             b == I("BR", y.end[i])
             x == I("LABEL", y.start[i])
             p == y.place[h]
  <2>1. y.close[i] # 0
    BY <1>1, CompoundCloses
  <2>2. h # 0 /\ h \in Nat
    <3>1. y.close \in [Nat -> Nat] /\ y.els \in [Nat -> Nat]
      BY <1>1, LayoutFacts DEF Final
    <3>2. i \in Nat
      OBVIOUS
    <3>3. y.close[i] \in Nat /\ h \in Nat
      BY <3>1, <3>2
    <3>4. QED
      BY <1>1, <1>5, <2>1, <3>3, MatchFacts
  <2>3. ElseOf(i) = h
    BY <1>1, <2>2, ElseIs
  <2>4. h \in 1 .. Len(prog) /\ prog[h] = "else" /\ Around(prog, y, h, i) /\ y.depth[h] = y.depth[i]
    BY <1>1, <2>2, MatchFacts
  <2> HIDE DEF h
  <2>5. PICK r \in 1 .. Len(prog) : /\ Around(prog, y, h, r) /\ y.depth[h] = y.depth[r]
                                    /\ s = <<I("BR", y.end[r]), I("LABEL", y.start[r])>>
    BY <1>1, <2>4, ElseHasIf
  <2>6. r = i
    BY <1>1, <2>4, <2>5, OneAround
  <2>7. s = <<b, x>>
    BY <2>5, <2>6
  <2>8. p \in Nat /\ y.place[h + 1] = p + Len(s) /\ code \in Seq(Instr)
    BY <1>1, <2>4, PieceAt, SMTT(30)
  <2>16. Len(s) >= 2 => p + 1 \in 1 .. Len(code) /\ code[p + 1] = s[2]
    BY <1>1, <2>4, PieceStarts, SMTT(30)
  <2> HIDE DEF s, b, x, p
  <2>9. Len(s) = 2 /\ s[2] = x
    BY <2>7
  <2>10. p + 1 \in 1 .. Len(code) /\ code[p + 1] = x /\ y.place[h + 1] = p + 2
         /\ p + 1 = y.place[h + 1] - 1 /\ y.place[h + 1] \in Nat
    BY <2>8, <2>9, <2>16
  <2>11. x = I("LABEL", l)
    BY <1>5 DEF x
  <2>12. Placed(l) # {} /\ PlaceOf(l) = p + 1
    BY <1>1, <2>8, <2>10, <2>11, LabelAt
  <2>13. h + 1 \in 1 .. Len(prog) /\ prog[h + 1] # "fun"
    BY <1>1, <2>4, OnwardFacts
  <2>14. Land(p + 1) = First[h + 1]
    BY <2>10, <2>11, <2>13, LabelLands, SMTT(30)
  <2>15. QED
    BY <2>3, <2>12, <2>14
<1>6. ASSUME NEW holds \in BOOLEAN
      PROVE  CodeSucc(k, holds) = TextSucc({"while", "for"}, code[k].src, holds)
  <2>1. CodeSucc(k, holds) = IF holds THEN Land(k + 1)
                             ELSE IF Placed(l) = {} THEN Lost ELSE Land(PlaceOf(l))
    BY <1>2 DEF CodeSucc
  <2>2. CASE holds
    <3>1. TextSucc({"while", "for"}, <<i, "test">>, holds) = First[i + 1]
      BY <2>2, TextTest
    <3>2. QED
      BY <1>2, <1>3, <2>1, <2>2, <3>1
  <2>3. CASE ~holds /\ prog[i] = "ifElse"
    <3>1. TextSucc({"while", "for"}, <<i, "test">>, holds) = First[ElseOf(i) + 1]
      BY <2>3, TextTest
    <3>2. QED
      BY <1>2, <1>5, <2>1, <2>3, <3>1
  <2>4. CASE ~holds /\ prog[i] # "ifElse"
    <3>1. TextSucc({"while", "for"}, <<i, "test">>, holds) = First[Close(i) + 1]
      BY <2>4, TextTest
    <3>2. QED
      BY <1>2, <1>4, <2>1, <2>4, <3>1
  <2>5. QED
    BY <2>2, <2>3, <2>4
<1>7. QED
  BY <1>6 DEF Agrees

\* Instruction k is the j-th of event i.
Holds(y, k, i, j) ==
    /\ k \in 1 .. Len(code) /\ i \in 1 .. Len(prog) /\ j \in 1 .. Len(y.piece[i])
    /\ k = y.place[i] + j - 1 /\ code[k] = y.piece[i][j]

\* The code of the next event comes next.
LEMMA NextPlace ==
  ASSUME NEW y, Final(y), NEW i \in 1 .. Len(prog)
  PROVE  /\ y.place[i] \in Nat /\ y.place[i + 1] = y.place[i] + Len(y.piece[i])
         /\ code \in Seq(Instr)
BY PieceAt

\* The places of an event with one instruction.
LEMMA OnlyOne ==
  ASSUME NEW y, Final(y), NEW k, NEW i, NEW j, Holds(y, k, i, j), NEW x, y.piece[i] = <<x>>
  PROVE  /\ k \in 1 .. Len(code) /\ i \in 1 .. Len(prog) /\ i \in Nat
         /\ code[k] = x /\ k + 1 = y.place[i + 1]
<1> DEFINE s == y.piece[i]
           p == y.place[i]
<1>1. k \in 1 .. Len(code) /\ i \in 1 .. Len(prog) /\ j \in 1 .. Len(s) /\ k = p + j - 1 /\ code[k] = s[j]
  BY DEF Holds
<1>6. i \in 1 .. Len(prog)
  BY DEF Holds
<1>2. p \in Nat /\ y.place[i + 1] = p + Len(s)
  BY <1>6, NextPlace
<1> HIDE DEF s, p
<1>3. Len(s) = 1 /\ s[1] = x
  BY DEF s
<1>4. j = 1 /\ k = p
  BY <1>1, <1>2, <1>3
<1>5. QED
  BY <1>1, <1>2, <1>3, <1>4

\* An instruction that goes where the text goes.
LEMMA SameAgrees ==
  ASSUME NEW k, code[k].op \in {"DO", "RET", "PROC"}, NEW q, Land(k + 1) = q,
         \A holds \in BOOLEAN : TextSucc({"while", "for"}, code[k].src, holds) = q
  PROVE  Agrees(k)
<1>1. \A holds \in BOOLEAN : CodeSucc(k, holds) = Land(k + 1)
  BY DEF CodeSucc
<1>2. QED
  BY <1>1 DEF Agrees

\* So agree statements, the entry of a function and the start of an until.
LEMMA PlainAgrees ==
  ASSUME NEW y, Settled(y), NEW k, NEW i, NEW j, Holds(y, k, i, j),
         prog[i] \in {"do", "value", "return", "fun", "until"}
  PROVE  Agrees(k)
<1>1. Final(y) /\ i \in 1 .. Len(prog)
  BY DEF Settled, Holds
<1>2. Fill(prog[i], i, y.piece[i], y.start[i], y.end[i])
  BY <1>1, FillIs
<1>3. i + 1 \in 1 .. Len(prog) /\ prog[i + 1] # "fun"
  BY <1>1, OnwardFacts
<1>4. CASE prog[i] \in {"do", "value", "until"}
  <2> DEFINE x == Act(i, IF prog[i] = "until" THEN "init" ELSE "do")
  <2>1. y.piece[i] = <<x>>
    BY <1>2, <1>4 DEF Fill
  <2>2. x.op = "DO" /\ x.src = <<i, IF prog[i] = "until" THEN "init" ELSE "do">>
    BY DEF Act
  <2> HIDE DEF x
  <2>3. k \in 1 .. Len(code) /\ code[k] = x /\ k + 1 = y.place[i + 1]
    BY <1>1, <2>1, OnlyOne
  <2>4. ASSUME NEW holds \in BOOLEAN
        PROVE  TextSucc({"while", "for"}, code[k].src, holds) = First[i + 1]
    <3>1. CASE prog[i] = "until"
      <4>1. code[k].src = <<i, "init">>
        BY <2>2, <2>3, <3>1
      <4>2. TextSucc({"while", "for"}, <<i, "init">>, holds) = First[i + 1]
        BY <3>1, TextIs
      <4>3. QED
        BY <4>1, <4>2
    <3>2. CASE prog[i] # "until"
      <4>1. code[k].src = <<i, "do">>
        BY <2>2, <2>3, <3>2
      <4>2. TextSucc({"while", "for"}, <<i, "do">>, holds) = First[i + 1]
        BY <1>4, TextIs
      <4>3. QED
        BY <4>1, <4>2
    <3>3. QED
      BY <3>1, <3>2
  <2>5. QED
    BY <1>1, <1>3, <2>2, <2>3, <2>4, LastAgrees
<1>5. CASE prog[i] = "fun"
  <2> DEFINE x == [op |-> "PROC", label |-> y.start[i], src |-> <<i, "entry">>]
  <2>1. y.piece[i] = <<x>>
    BY <1>2, <1>5 DEF Fill
  <2>2. x.op = "PROC" /\ x.src = <<i, "entry">>
    OBVIOUS
  <2> HIDE DEF x
  <2>3. k \in 1 .. Len(code) /\ code[k] = x /\ k + 1 = y.place[i + 1]
    BY <1>1, <2>1, OnlyOne
  <2>4. ASSUME NEW holds \in BOOLEAN
        PROVE  TextSucc({"while", "for"}, code[k].src, holds) = First[i + 1]
    <3>1. code[k].src = <<i, "entry">>
      BY <2>2, <2>3
    <3>2. TextSucc({"while", "for"}, <<i, "entry">>, holds) = First[i + 1]
      BY TextIs
    <3>3. QED
      BY <3>1, <3>2
  <2>5. QED
    BY <1>1, <1>3, <2>2, <2>3, <2>4, LastAgrees
<1>6. CASE prog[i] = "return"
  <2> DEFINE x == [op |-> "RET", label |-> NULL, src |-> <<i, "do">>]
  <2>1. y.piece[i] = <<x>>
    BY <1>2, <1>6 DEF Fill
  <2>2. x.op = "RET" /\ x.src = <<i, "do">>
    OBVIOUS
  <2> HIDE DEF x
  <2>3. k \in 1 .. Len(code) /\ code[k] = x /\ k + 1 = y.place[i + 1]
    BY <1>1, <2>1, OnlyOne
  <2>4. ASSUME NEW holds \in BOOLEAN
        PROVE  TextSucc({"while", "for"}, code[k].src, holds) = First[i + 1]
    <3>1. code[k].src = <<i, "do">>
      BY <2>2, <2>3
    <3>2. TextSucc({"while", "for"}, <<i, "do">>, holds) = First[i + 1]
      BY TextIs
    <3>3. QED
      BY <3>1, <3>2
  <2>5. QED
    BY <1>1, <1>3, <2>2, <2>3, <2>4, LastAgrees
<1>7. QED
  BY <1>4, <1>5, <1>6

\* So agrees the test of an if.
LEMMA IfAgrees ==
  ASSUME NEW y, Settled(y), NEW k, NEW i, NEW j, Holds(y, k, i, j), prog[i] \in {"if", "ifElse"}
  PROVE  Agrees(k)
<1>1. Final(y) /\ i \in 1 .. Len(prog)
  BY DEF Settled, Holds
<1> DEFINE l == IF prog[i] = "ifElse" THEN y.start[i] ELSE y.end[i]
           x == Test(l, i)
<1>2. Fill(prog[i], i, y.piece[i], y.start[i], y.end[i])
  BY <1>1, FillIs
<1>3. y.piece[i] = <<x>>
  BY <1>2 DEF Fill
<1> HIDE DEF x
<1>4. k \in 1 .. Len(code) /\ code[k] = x /\ k + 1 = y.place[i + 1]
  BY <1>1, <1>3, OnlyOne
<1>5. QED
  BY <1>1, <1>4, TestAgrees DEF x

\* A point that control comes to in the code of an event.
LEMMA PointLands ==
  ASSUME code \in Seq(Instr), NEW k \in 1 .. Len(code), k + 1 \in 1 .. Len(code),
         code[k].src = NULL, code[k].op \notin {"END", "BR"}, k >= 2,
         NEW o \in Nat, NEW part \in {"entry", "do", "init", "test", "step"}, code[k + 1].src = <<o, part>>
  PROVE  Land(k) = <<o, part>>
<1>1. Soon(k + 1, <<o, part>>)
  BY SoonPoint
<1>2. Soon(k, <<o, part>>)
  BY <1>1, SoonNext
<1>3. QED
  BY <1>2, SoonLands

\* So agree the start and the test of a loop.
LEMMA LoopAgrees ==
  ASSUME NEW y, Settled(y), NEW k, NEW i, NEW j, Holds(y, k, i, j), code[k].src # NULL,
         prog[i] \in {"while", "for", "range"}
  PROVE  Agrees(k)
<1>1. Final(y) /\ i \in 1 .. Len(prog) /\ k \in 1 .. Len(code)
  BY DEF Settled, Holds
<1> DEFINE s == y.piece[i]
           p == y.place[i]
           l == I("LABEL", y.start[i])
           b == Test(y.end[i], i)
           d == Act(i, "init")
<1>2. Fill(prog[i], i, s, y.start[i], y.end[i])
  BY <1>1, FillIs
<1>3. p \in Nat /\ y.place[i + 1] = p + Len(s) /\ code \in Seq(Instr)
  BY <1>1, NextPlace
<1>4. /\ Len(s) >= 2 => p + 1 \in 1 .. Len(code) /\ code[p + 1] = s[2]
      /\ Len(s) >= 3 => p + 2 \in 1 .. Len(code) /\ code[p + 2] = s[3]
  BY <1>1, PieceStarts
<1>5. j \in 1 .. Len(s) /\ k = p + j - 1 /\ code[k] = s[j]
  BY DEF Holds
<1>6. l.src = NULL /\ l.op = "LABEL" /\ b.src = <<i, "test">> /\ d.src = <<i, "init">> /\ d.op = "DO"
  BY DEF I, Test, Act
<1>7. k + 1 = y.place[i + 1] /\ code[k] = b => Agrees(k)
  <2>1. ASSUME k + 1 = y.place[i + 1], code[k] = b PROVE Agrees(k)
    <3> DEFINE t == IF prog[i] = "ifElse" THEN y.start[i] ELSE y.end[i]
    <3>1. t = y.end[i]
      OBVIOUS
    <3>2. prog[i] \in {"if", "ifElse", "while", "for", "range"}
      OBVIOUS
    <3>3. code[k] = Test(t, i)
      BY <2>1, <3>1
    <3> HIDE DEF t
    <3>4. t = IF prog[i] = "ifElse" THEN y.start[i] ELSE y.end[i]
      BY DEF t
    <3>5. QED
      BY <1>1, <2>1, <3>2, <3>3, <3>4, TestAgrees
  <2>2. QED
    BY <2>1
<1>8. CASE prog[i] = "while"
  <2>1. s = <<l, b>>
    BY <1>2, <1>8 DEF Fill
  <2> HIDE DEF s, p, l, b, d
  <2>2. Len(s) = 2 /\ s[1] = l /\ s[2] = b
    BY <2>1
  <2>3. j # 1
    BY <1>5, <1>6, <2>2
  <2>4. j = 2
    BY <1>5, <2>2, <2>3
  <2>5. k + 1 = p + 2 /\ code[k] = b
    BY <1>3, <1>5, <2>2, <2>4
  <2>6. QED
    BY <1>3, <1>7, <2>2, <2>5
<1>9. CASE prog[i] \in {"for", "range"}
  <2>1. s = <<d, l, b>>
    BY <1>2, <1>9 DEF Fill
  <2> HIDE DEF s, p, l, b, d
  <2>2. Len(s) = 3 /\ s[1] = d /\ s[2] = l /\ s[3] = b
    BY <2>1
  <2>3. j # 2
    BY <1>5, <1>6, <2>2
  <2>4. CASE j = 3
    <3>1. k + 1 = p + 3 /\ code[k] = b
      BY <1>3, <1>5, <2>2, <2>4
    <3>2. QED
      BY <1>3, <1>7, <2>2, <3>1
  <2>5. CASE j = 1
    <3>1. code[k] = d /\ k = p
      BY <1>3, <1>5, <2>2, <2>5
    <3>2. /\ k + 1 \in 1 .. Len(code) /\ (k + 1) + 1 \in 1 .. Len(code) /\ k + 1 >= 2
          /\ code[k + 1] = l /\ code[(k + 1) + 1] = b
      <4>1. (p + 1) + 1 = p + 2 /\ k + 1 >= 2
        BY <1>1, <1>3
      <4>2. QED
        BY <1>4, <2>2, <3>1, <4>1
    <3>3. i \in Nat
      BY <1>1
    <3>4. Land(k + 1) = <<i, "test">>
      BY <1>3, <1>6, <3>2, <3>3, PointLands
    <3>5. ASSUME NEW holds \in BOOLEAN
          PROVE  TextSucc({"while", "for"}, code[k].src, holds) = <<i, "test">>
      <4>1. TextSucc({"while", "for"}, <<i, "init">>, holds) = <<i, "test">>
        BY <1>9, TextIs
      <4>2. QED
        BY <1>6, <3>1, <4>1
    <3>6. QED
      BY <1>6, <3>1, <3>4, <3>5, SameAgrees
  <2>6. QED
    BY <1>5, <2>2, <2>3, <2>4, <2>5
<1>10. QED
  BY <1>8, <1>9

\* So agree the parts of the loop that fills an array.
LEMMA ArrayAgrees ==
  ASSUME NEW y, Settled(y), NEW k, NEW i, NEW j, Holds(y, k, i, j), code[k].src # NULL,
         prog[i] = "array"
  PROVE  Agrees(k)
<1>1. Final(y) /\ Unique(code) /\ i \in 1 .. Len(prog) /\ k \in 1 .. Len(code)
  BY DEF Settled, Holds
<1> DEFINE s == y.piece[i]
           p == y.place[i]
           m == Len(code)
           a == y.start[i]
           b == y.end[i]
           d == Act(i, "init")
           l == I("LABEL", a)
           t == [op |-> "BNZ", label |-> b, src |-> <<i, "test">>]
           e == Act(i, "step")
           r == I("BR", a)
           x == I("LABEL", b)
<1>2. Fill(prog[i], i, s, a, b)
  BY <1>1, FillIs
<1>3. s = <<d, l, t, e, r, x>>
  BY <1>2 DEF Fill
<1>4. p \in Nat /\ y.place[i + 1] = p + Len(s) /\ code \in Seq(Instr)
  BY <1>1, NextPlace
<1>5. j \in 1 .. Len(s) /\ k = p + j - 1 /\ code[k] = s[j]
  BY DEF Holds
<1>6. \A q \in 0 .. Len(s) - 1 : p + q \in 1 .. m /\ code[p + q] = s[q + 1]
  BY <1>1, PieceCells, Zenon
<1>7. /\ d.op = "DO" /\ d.src = <<i, "init">> /\ e.op = "DO" /\ e.src = <<i, "step">>
      /\ t.op = "BNZ" /\ t.label = b /\ t.src = <<i, "test">> /\ l.src = NULL /\ r.src = NULL
      /\ x.src = NULL /\ l.op = "LABEL"
  BY DEF Act, I
<1>8. i \in Nat /\ i + 1 \in 1 .. Len(prog) /\ prog[i + 1] # "fun"
  <2>1. i \in Nat
    BY <1>1
  <2>2. i + 1 \in 1 .. Len(prog) /\ prog[i + 1] # "fun"
    BY <1>1, OnwardFacts
  <2>3. QED
    BY <2>1, <2>2
<1> HIDE DEF s, p, m, a, b, d, l, t, e, r, x
<1>9. Len(s) = 6 /\ s[1] = d /\ s[2] = l /\ s[3] = t /\ s[4] = e /\ s[5] = r /\ s[6] = x
  BY <1>3
<1>10. p + 0 = p /\ 0 + 1 = 1 /\ 1 + 1 = 2 /\ 2 + 1 = 3 /\ 3 + 1 = 4 /\ 4 + 1 = 5 /\ 5 + 1 = 6
  BY <1>4
<1>11. /\ 0 \in 0 .. Len(s) - 1 /\ 1 \in 0 .. Len(s) - 1 /\ 2 \in 0 .. Len(s) - 1
       /\ 3 \in 0 .. Len(s) - 1 /\ 4 \in 0 .. Len(s) - 1 /\ 5 \in 0 .. Len(s) - 1
  BY <1>9
<1>12. p \in 1 .. m /\ code[p] = d /\ p + 1 \in 1 .. m /\ code[p + 1] = l
  BY <1>6, <1>9, <1>10, <1>11
<1>13. p + 2 \in 1 .. m /\ code[p + 2] = t /\ p + 3 \in 1 .. m /\ code[p + 3] = e
  BY <1>6, <1>9, <1>10, <1>11
<1>14. p + 4 \in 1 .. m /\ code[p + 4] = r /\ p + 5 \in 1 .. m /\ code[p + 5] = x
  BY <1>6, <1>9, <1>10, <1>11
<1>15. p >= 1 /\ (p + 1) + 1 = p + 2 /\ (p + 2) + 1 = p + 3 /\ (p + 3) + 1 = p + 4
       /\ (p + 4) + 1 = p + 5
  BY <1>4, <1>12 DEF m
<1>16. CASE j = 1
  <2>1. k = p /\ code[k] = d
    BY <1>4, <1>5, <1>9, <1>16
  <2>2. Land(p + 1) = <<i, "test">>
    <3>1. p + 1 >= 2
      BY <1>4, <1>15
    <3>2. (p + 1) + 1 \in 1 .. m /\ code[(p + 1) + 1] = t
      BY <1>13, <1>15
    <3>3. QED
      BY <1>4, <1>7, <1>8, <1>12, <3>1, <3>2, PointLands DEF m
  <2>3. ASSUME NEW holds \in BOOLEAN
        PROVE  TextSucc({"while", "for"}, code[k].src, holds) = <<i, "test">>
    <3>1. TextSucc({"while", "for"}, <<i, "init">>, holds) = <<i, "test">>
      BY TextIs
    <3>2. QED
      BY <1>7, <2>1, <3>1
  <2>4. Land(k + 1) = <<i, "test">> /\ code[k].op = "DO"
    BY <1>7, <2>1, <2>2
  <2>5. QED
    BY <2>3, <2>4, SameAgrees
<1>17. CASE j = 4
  <2>1. k = p + 3 /\ code[k] = e
    BY <1>4, <1>5, <1>9, <1>17
  <2>2. Placed(a) # {} /\ PlaceOf(a) = p + 1
    BY <1>1, <1>4, <1>12, LabelAt DEF l, m
  <2>3. code[(p + 1) + 1].src = <<i, "test">> /\ (p + 1) + 1 \in 1 .. m
    BY <1>7, <1>13, <1>15
  <2>4. <<i, "test">> # NULL
    BY <1>8, PointIs
  <2>5. (p + 4) + 1 \in 1 .. m /\ p + 4 \in Nat /\ p + 4 >= 2
    BY <1>4, <1>14, <1>15
  <2>6. Soon(p + 4, <<i, "test">>)
    <3>1. code[p + 4] = I("BR", a) /\ code[p + 1] = I("LABEL", a)
      BY <1>12, <1>14 DEF r, l
    <3>2. QED
      BY <1>4, <1>12, <1>14, <2>2, <2>3, <2>4, <2>5, <3>1, SoonBack DEF m
  <2>7. Land(p + 4) = <<i, "test">>
    BY <1>4, <2>5, <2>6, SoonLands
  <2>8. ASSUME NEW holds \in BOOLEAN
        PROVE  TextSucc({"while", "for"}, code[k].src, holds) = <<i, "test">>
    <3>1. TextSucc({"while", "for"}, <<i, "step">>, holds) = <<i, "test">>
      BY TextIs
    <3>2. QED
      BY <1>7, <2>1, <3>1
  <2>9. k + 1 = p + 4
    BY <1>15, <2>1
  <2>10. Land(k + 1) = <<i, "test">> /\ code[k].op = "DO"
    BY <1>7, <2>1, <2>7, <2>9
  <2>11. QED
    BY <2>8, <2>10, SameAgrees
<1>18. CASE j = 3
  <2>1. k = p + 2 /\ code[k] = t /\ k + 1 = p + 3
    BY <1>4, <1>5, <1>9, <1>15, <1>18
  <2>2. Land(k + 1) = <<i, "step">>
    <3>1. Soon(p + 3, <<i, "step">>)
      BY <1>4, <1>7, <1>8, <1>13, SoonPoint DEF m
    <3>2. p + 3 \in Nat /\ p + 3 >= 2
      BY <1>4
    <3>3. Land(p + 3) = <<i, "step">>
      BY <1>4, <3>1, <3>2, SoonLands
    <3>4. QED
      BY <2>1, <3>3
  <2>3. y.place[i + 1] = p + 6 /\ p + 5 = y.place[i + 1] - 1 /\ y.place[i + 1] \in Nat
    BY <1>4, <1>9
  <2>4. code[p + 5] = I("LABEL", b)
    BY <1>14 DEF x
  <2>5. Land(p + 5) = First[i + 1]
    BY <1>8, <1>14, <2>3, <2>4, LabelLands DEF m
  <2>6. Placed(b) # {} /\ PlaceOf(b) = p + 5
    BY <1>1, <1>4, <1>14, <2>4, LabelAt DEF m
  <2>7. ASSUME NEW holds \in BOOLEAN
        PROVE  CodeSucc(k, holds) = TextSucc({"while", "for"}, code[k].src, holds)
    <3>1. CodeSucc(k, holds) = IF holds THEN First[i + 1] ELSE <<i, "step">>
      <4>1. code[k].op = "BNZ" /\ code[k].label = b
        BY <1>7, <2>1
      <4>2. CodeSucc(k, holds) = IF holds THEN (IF Placed(b) = {} THEN Lost ELSE Land(PlaceOf(b)))
                                 ELSE Land(k + 1)
        BY <4>1 DEF CodeSucc
      <4>3. QED
        BY <2>2, <2>5, <2>6, <4>2
    <3>2. TextSucc({"while", "for"}, <<i, "test">>, holds)
             = IF holds THEN First[i + 1] ELSE <<i, "step">>
      BY TextTest
    <3>3. QED
      BY <1>7, <2>1, <3>1, <3>2
  <2>8. QED
    BY <2>7 DEF Agrees
<1>19. j \notin {2, 5, 6}
  BY <1>5, <1>7, <1>9
<1>20. j \in 1 .. 6
  BY <1>5, <1>9
<1>21. QED
  BY <1>16, <1>17, <1>18, <1>19, <1>20

\* So agree the step and the test an end begins with.
LEMMA EndAgrees ==
  ASSUME NEW y, Settled(y), NEW k, NEW i, NEW j, Holds(y, k, i, j), code[k].src # NULL,
         prog[i] = "end"
  PROVE  Agrees(k)
<1>1. Final(y) /\ Unique(code) /\ i \in 1 .. Len(prog) /\ k \in 1 .. Len(code)
  BY DEF Settled, Holds
<1> DEFINE s == y.piece[i]
           p == y.place[i]
<1>2. PICK o \in 1 .. Len(prog) : /\ y.close[o] = i /\ prog[o] \in Opens
                                  /\ Ends(code, y, i, o, s, prog[o])
  BY <1>1, EndHasOpener
<1>3. p \in Nat /\ y.place[i + 1] = p + Len(s) /\ code \in Seq(Instr)
  BY <1>1, NextPlace
<1>4. /\ Len(s) >= 2 => p + 1 \in 1 .. Len(code) /\ code[p + 1] = s[2]
      /\ Len(s) >= 3 => p + 2 \in 1 .. Len(code) /\ code[p + 2] = s[3]
  BY <1>1, PieceStarts, SMTT(30)
<1>5. j \in 1 .. Len(s) /\ k = p + j - 1 /\ code[k] = s[j]
  BY DEF Holds
<1> DEFINE b == I("BR", y.start[o])
           l == I("LABEL", y.end[o])
<1>6. b.src = NULL /\ l.src = NULL
  BY DEF I
<1>7. CASE prog[o] = "fun"
  <2> DEFINE r == I("RET", NULL)
             e == I("END", y.end[o])
  <2>1. s = <<r, e>> \/ s = <<e>>
    BY <1>2, <1>7 DEF Ends, FunEnds
  <2>2. r.src = NULL /\ e.src = NULL
    BY DEF I
  <2> HIDE DEF r, e, s, p
  <2>3. s[j] = r \/ s[j] = e
    BY <1>5, <2>1
  <2>4. QED
    BY <1>5, <2>2, <2>3
<1>8. CASE prog[o] # "fun"
  <2>1. EndFill(prog[o], o, s, y.start[o], y.end[o]) /\ prog[o] \in Compound
    BY <1>2, <1>8 DEF Ends, Opens
  <2>2. CASE prog[o] \in {"if", "ifElse", "while"}
    <3>1. s = <<l>> \/ s = <<b, l>>
      BY <2>1, <2>2 DEF EndFill
    <3> HIDE DEF s, p, b, l
    <3>2. s[j] = b \/ s[j] = l
      BY <1>5, <3>1
    <3>3. QED
      BY <1>5, <1>6, <3>2
  <2>3. CASE prog[o] = "until"
    <3>1. s = <<>>
      BY <2>1, <2>3 DEF EndFill
    <3> HIDE DEF s, p
    <3>2. QED
      BY <1>5, <3>1
  <2>4. CASE prog[o] = "doWhile"
    <3> DEFINE x == Act(o, "test")
    <3>1. s = <<x>>
      BY <2>1, <2>4 DEF EndFill
    <3>2. x.op = "DO" /\ x.src = <<o, "test">>
      BY DEF Act
    <3> HIDE DEF x
    <3>3. code[k] = x /\ k + 1 = y.place[i + 1]
      BY <1>1, <3>1, OnlyOne
    <3>4. i + 1 \in 1 .. Len(prog) /\ prog[i + 1] # "fun" /\ Close(o) = i
      BY <1>1, <1>2, <2>1, CompoundCloses
    <3>5. ASSUME NEW holds \in BOOLEAN
          PROVE  TextSucc({"while", "for"}, code[k].src, holds) = First[i + 1]
      <4>1. TextSucc({"while", "for"}, <<o, "test">>, holds) = First[Close(o) + 1]
        BY <2>4, TextTest
      <4>2. QED
        BY <3>2, <3>3, <3>4, <4>1
    <3>6. code[k].op \in {"DO", "PROC"}
      BY <3>2, <3>3
    <3>7. QED
      BY <1>1, <3>3, <3>4, <3>5, <3>6, LastAgrees
  <2>5. CASE prog[o] \in {"for", "range"}
    <3> DEFINE d == Act(o, "step")
    <3>1. s = <<d, b, l>>
      BY <2>1, <2>5 DEF EndFill
    <3>2. d.op = "DO" /\ d.src = <<o, "step">>
      BY DEF Act
    <3>3. PICK t \in 1 .. Len(code) :
            /\ t + 1 \in 1 .. Len(code) /\ code[t] = I("LABEL", y.start[o])
            /\ code[t + 1] = Test(y.end[o], o) /\ Placed(y.start[o]) # {} /\ PlaceOf(y.start[o]) = t
      BY <2>5, LoopStart
    <3>4. code[t + 1].src = <<o, "test">>
      BY <3>3 DEF Test
    <3> HIDE DEF s, p, b, l, d
    <3>5. Len(s) = 3 /\ s[1] = d /\ s[2] = b /\ s[3] = l
      BY <3>1
    <3>6. p + 1 \in 1 .. Len(code) /\ code[p + 1] = b /\ p + 2 \in 1 .. Len(code)
      BY <1>4, <3>5
    <3>7. j = 1
      <4>1. j # 2 /\ j # 3
        BY <1>5, <1>6, <3>5
      <4>2. QED
        BY <1>5, <3>5, <4>1
    <3>8. k = p /\ code[k] = d
      BY <1>3, <1>5, <3>5, <3>7
    <3>9. k + 1 \in 1 .. Len(code) /\ code[k + 1] = I("BR", y.start[o])
          /\ (k + 1) + 1 \in 1 .. Len(code) /\ k + 1 >= 2
      <4>1. (p + 1) + 1 = p + 2 /\ k + 1 >= 2
        BY <1>1, <1>3
      <4>2. QED
        BY <3>6, <3>8, <4>1 DEF b
    <3>10. <<o, "test">> # NULL
      <4>1. o \in Nat
        OBVIOUS
      <4>2. QED
        BY <4>1, PointIs
    <3>11. Soon(k + 1, <<o, "test">>)
      BY <1>3, <3>3, <3>4, <3>9, <3>10, SoonBack
    <3>12. Land(k + 1) = <<o, "test">>
      BY <1>3, <3>9, <3>11, SoonLands
    <3>13. ASSUME NEW holds \in BOOLEAN
           PROVE  TextSucc({"while", "for"}, code[k].src, holds) = <<o, "test">>
      <4>1. TextSucc({"while", "for"}, <<o, "step">>, holds) = <<o, "test">>
        BY TextIs
      <4>2. QED
        BY <3>2, <3>8, <4>1
    <3>14. QED
      BY <3>2, <3>8, <3>12, <3>13, SameAgrees
  <2>6. QED
    BY <2>1, <2>2, <2>3, <2>4, <2>5 DEF Compound, Loops
<1>9. QED
  BY <1>7, <1>8

\* Every instruction that stands for a point goes where the text goes.
LEMMA AllAgree ==
  ASSUME NEW y, Settled(y), NEW k \in 1 .. Len(code), code[k].src # NULL
  PROVE  Agrees(k)
<1>1. Final(y) /\ Unique(code)
  BY DEF Settled
<1>2. PICK i \in 1 .. Len(prog) : \E j \in 1 .. Len(y.piece[i]) :
         k = y.place[i] + j - 1 /\ code[k] = y.piece[i][j]
  BY <1>1, WhereIs
<1>3. PICK j \in 1 .. Len(y.piece[i]) : k = y.place[i] + j - 1 /\ code[k] = y.piece[i][j]
  BY <1>2
<1>4. Holds(y, k, i, j)
  BY <1>3 DEF Holds
<1>5. prog[i] \in Words
  BY <1>1, FinalFacts
<1>6. CASE prog[i] \in {"do", "value", "return", "fun", "until"}
  BY <1>4, <1>6, PlainAgrees
<1>7. CASE prog[i] \in {"if", "ifElse"}
  BY <1>4, <1>7, IfAgrees
<1>8. CASE prog[i] \in {"while", "for", "range"}
  BY <1>4, <1>8, LoopAgrees
<1>9. CASE prog[i] = "array"
  BY <1>4, <1>9, ArrayAgrees
<1>10. CASE prog[i] = "end"
  BY <1>4, <1>10, EndAgrees
<1>11. CASE prog[i] \in {"continue", "doWhile"}
  <2> DEFINE s == y.piece[i]
  <2>1. Fill(prog[i], i, s, y.start[i], y.end[i])
    BY <1>1, FillIs
  <2>2. s = <<>>
    BY <1>11, <2>1 DEF Fill
  <2>3. j \in 1 .. Len(s)
    OBVIOUS
  <2> HIDE DEF s
  <2>4. QED
    BY <2>2, <2>3
<1>12. CASE prog[i] = "break"
  <2> DEFINE s == y.piece[i]
  <2>1. Leaving(prog, y, i, s)
    BY <1>1, <1>12 DEF Final, Layout, Filled
  <2>2. s = <<>> \/ \E l : s = <<I("BR", l)>>
    BY <2>1 DEF Leaving
  <2>3. j \in 1 .. Len(s) /\ code[k] = s[j]
    BY <1>3
  <2> HIDE DEF s
  <2>4. PICK l : s = <<I("BR", l)>>
    BY <2>2, <2>3
  <2> DEFINE b == I("BR", l)
  <2>5. b.src = NULL
    BY DEF I
  <2>6. s = <<b>>
    BY <2>4
  <2> HIDE DEF b
  <2>7. QED
    BY <2>3, <2>5, <2>6
<1>13. CASE prog[i] = "else"
  <2> DEFINE s == y.piece[i]
  <2>1. PICK o : s = <<I("BR", y.end[o]), I("LABEL", y.start[o])>>
    BY <1>1, <1>13, ElseHasIf
  <2> DEFINE b == I("BR", y.end[o])
             l == I("LABEL", y.start[o])
  <2>2. b.src = NULL /\ l.src = NULL
    BY DEF I
  <2>3. j \in 1 .. Len(s) /\ code[k] = s[j]
    BY <1>3
  <2> HIDE DEF s, b, l
  <2>4. s = <<b, l>>
    BY <2>1 DEF b, l
  <2>5. QED
    BY <2>2, <2>3, <2>4
<1>14. QED
  BY <1>5, <1>6, <1>7, <1>8, <1>9, <1>10, <1>11, <1>12, <1>13 DEF Words, Simple, Compound, Loops

\* The code of a finished file follows its text.
LEMMA FinishedFollows == IInv /\ HasLayout /\ Finished => Follows({"while", "for"})
<1> SUFFICES ASSUME IInv, HasLayout, Finished
             PROVE  Follows({"while", "for"})
  OBVIOUS
<1>1. stack = <<>> /\ ~crashed
  BY DEF Finished, InFunction
<1>2. PICK y : Layout(prog, code, stack, y)
  BY <1>1 DEF HasLayout
<1>3. Final(y)
  BY <1>1, <1>2 DEF Final
<1>4. Unique(code) /\ code \in Seq(Instr)
  BY DEF IInv, Core
<1>5. Settled(y)
  BY <1>3, <1>4 DEF Settled
<1>6. Code = 1 .. Len(code)
  BY <1>4 DEF Code
<1>7. \A k \in Code : code[k].src # NULL => Agrees(k)
  BY <1>5, <1>6, AllAgree
<1>8. QED
  BY <1>7 DEF Follows, Agrees

\* The code of a finished file does what its text says, point by point, whatever
\* the program (generate_code, with labels, branches and current_break_label).
THEOREM FlowAlwaysPreserved == Spec => []FlowPreserved
<1>1. IInv /\ HasLayout => FlowPreserved
  BY FinishedFollows DEF FlowPreserved
<1>2. QED
  BY Invariance, CodeLaidOut, <1>1, PTL
=============================================================================
