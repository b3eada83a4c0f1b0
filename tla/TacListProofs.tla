---------------------------- MODULE TacListProofs ----------------------------
(***************************************************************************)
(* For any heap, any number of nodes and lists of any length, the cells of *)
(* TacList implement the sequences of InstrLists.                          *)
(***************************************************************************)
EXTENDS TacListRefinement, SequenceTheorems, TLAPS

\* Cells in a list are allocated, so a fresh one is in no list.
CellsAllocated ==
    /\ \A h \in Holders : \A i \in DOMAIN chain[h] : instr[chain[h][i]] # NULL
    /\ \A i \in DOMAIN copy : instr[copy[i]] # NULL

Apart(g, h) == \A i \in DOMAIN chain[g], j \in DOMAIN chain[h] : chain[g][i] # chain[h][j]

\* The instruction just made, and a list made by append alone, have their cells
\* for themselves.
OwnCells ==
    /\ \A h \in Holders \ {"new"} : Apart(h, "new")
    /\ own => \A h \in Holders \ {"code"} : Apart(h, "code")

\* The cells concat writes to are in no list yet, and each is there once; append
\* alone writes to the list it was given.
CopyApart ==
    IF own
    THEN /\ copy = chain["code"] /\ ret = head["code"]
         /\ call = [a |-> "code", b |-> "new", d |-> "code"]
         /\ pc # "down" /\ depth = 0
    ELSE /\ \A h \in Holders : \A i \in DOMAIN chain[h], j \in DOMAIN copy : chain[h][i] # copy[j]
         /\ \A i, j \in DOMAIN copy : copy[i] = copy[j] => i = j

\* The copy says what the original says, as far as it goes.
CopySays == \A i \in DOMAIN copy : instr[copy[i]] = instr[chain[call.a][i]]

\* The copies below depth are linked.
CopyLinked ==
    /\ Len(copy) = Len(chain[call.a])
    /\ ret = IF depth = Len(copy) THEN NULL ELSE copy[depth + 1]
    /\ \A i \in DOMAIN copy : i > depth =>
          next[copy[i]] = IF i = Len(copy) THEN NULL ELSE copy[i + 1]

CallInv ==
    /\ pc \in Busy => CopyApart /\ CopySays
    /\ pc = "down" => /\ depth = 0 /\ ret = NULL
                      /\ Len(copy) <= Len(chain[call.a])
                      /\ src = IF Len(copy) = Len(chain[call.a]) THEN NULL
                               ELSE chain[call.a][Len(copy) + 1]
    /\ pc \in {"up", "walk"} => CopyLinked
    /\ pc = "walk" => depth = 0 /\ \E j \in DOMAIN copy : at = copy[j]
    /\ pc = "idle" => copy = <<>> /\ src = NULL /\ depth = 0 /\ ret = NULL /\ at = NULL

IInv ==
    /\ TypeOK
    /\ ListsStand
    /\ CellsAllocated
    /\ OwnCells
    /\ CallInv

-----------------------------------------------------------------------------
\* Lemmas

\* malloc gives a cell that is in use nowhere.
LEMMA FreshIsFree ==
    ASSUME Free # {}
    PROVE  Fresh \in Cells /\ instr[Fresh] = NULL
  BY DEF Fresh, Free

\* Each local is a holder, and no node.
LEMMA LocalsHold ==
    /\ "code" \in Holders /\ "pre" \in Holders /\ "new" \in Holders
    /\ Nodes \subseteq Holders
    /\ \A n \in Nodes : n \notin Locals
  BY TacListAssumption DEF Holders, Locals

\* The last cell of a list is the one that leads nowhere.
LEMMA LastEnds ==
    ASSUME TypeOK, NEW j \in DOMAIN copy, CopyLinked, depth = 0
    PROVE  next[copy[j]] = NULL <=> j = Len(copy)
<1>1. copy \in Seq(Cells) /\ DOMAIN copy = 1 .. Len(copy)
  BY DEF TypeOK
<1>2. next[copy[j]] = IF j = Len(copy) THEN NULL ELSE copy[j + 1]
  BY <1>1 DEF CopyLinked
<1>3. j # Len(copy) => copy[j + 1] \in Cells
  BY <1>1
<1>4. QED
  BY <1>2, <1>3, TacListAssumption

\* Sequences one after the other.
LEMMA JoinedFacts ==
    ASSUME NEW S, NEW s \in Seq(S), NEW t \in Seq(S)
    PROVE  /\ s \o t \in Seq(S)
           /\ Len(s \o t) = Len(s) + Len(t)
           /\ DOMAIN (s \o t) = 1 .. Len(s) + Len(t)
           /\ \A i \in 1 .. Len(s) : (s \o t)[i] = s[i]
           /\ \A i \in 1 .. Len(t) : (s \o t)[Len(s) + i] = t[i]
           /\ \A i \in DOMAIN (s \o t) : i > Len(s) => i - Len(s) \in DOMAIN t
                                                      /\ (s \o t)[i] = t[i - Len(s)]
           /\ s \o t = <<>> <=> s = <<>> /\ t = <<>>
           /\ \A i \in DOMAIN (s \o t) : \/ \E k \in DOMAIN s : (s \o t)[i] = s[k]
                                        \/ \E k \in DOMAIN t : (s \o t)[i] = t[k]
  OBVIOUS

-----------------------------------------------------------------------------
\* What a call leaves when it is over: the two lists as one.

\* When a call is over, the list it was for is a list again.
LEMMA ReturnInv ==
    ASSUME IInv, pc \in {"up", "walk"}, depth = 0,
           NEW result,
           Return(result),
           IF copy = <<>> THEN result = head[call.b] /\ next' = next
           ELSE /\ result = ret
                /\ next' = [next EXCEPT ![copy[Len(copy)]] = head[call.b]]
    PROVE  IInv'
<1>0. /\ TypeOK /\ ListsStand /\ CellsAllocated /\ OwnCells /\ CallInv
      /\ CopyApart /\ CopySays /\ CopyLinked
  BY DEF IInv, CallInv, Busy
<1>1. /\ copy \in Seq(Cells) /\ DOMAIN copy = 1 .. Len(copy) /\ Len(copy) \in Nat
      /\ call.a \in Holders /\ call.b \in Holders /\ call.d \in {"code", "pre"}
      /\ \A h \in Holders : /\ chain[h] \in Seq(Cells)
                             /\ DOMAIN chain[h] = 1 .. Len(chain[h]) /\ Len(chain[h]) \in Nat
  BY <1>0 DEF TypeOK
<1> DEFINE B == chain[call.b]
           J == copy \o B
<1>2. /\ J \in Seq(Cells) /\ Len(J) = Len(copy) + Len(B) /\ DOMAIN J = 1 .. Len(copy) + Len(B)
      /\ \A i \in 1 .. Len(copy) : J[i] = copy[i]
      /\ \A i \in 1 .. Len(B) : J[Len(copy) + i] = B[i]
      /\ \A i \in DOMAIN J : i > Len(copy) => i - Len(copy) \in DOMAIN B
                                            /\ J[i] = B[i - Len(copy)]
      /\ J = <<>> <=> copy = <<>> /\ B = <<>>
  BY <1>1, JoinedFacts
<1>3. TypeOK'
  <2>1. head[call.b] \in Cells \cup {NULL} /\ ret \in Cells \cup {NULL}
    BY <1>0, <1>1 DEF TypeOK
  <2>2. next' \in [Cells -> Cells \cup {NULL}]
    BY <1>0, <2>1 DEF TypeOK
  <2>3. head' \in [Holders -> Cells \cup {NULL}]
    BY <1>0, <2>1 DEF TypeOK, Return
  <2>4. chain' \in [Holders -> Seq(Cells)]
    BY <1>1, <1>2 DEF Return
  <2>5. NoCall \in [a : Holders, b : Holders, d : {"code", "pre"}]
    BY LocalsHold DEF NoCall
  <2>6. <<>> \in Seq(Cells) /\ 0 \in 0 .. Len(<<>>)
    OBVIOUS
  <2>7. QED
    BY <1>0, <2>2, <2>3, <2>4, <2>5, <2>6 DEF TypeOK, Return
<1>4. /\ chain' = [h \in Holders |-> IF h = call.d THEN J
                                    ELSE IF h \in {"new", "pre"} THEN <<>> ELSE chain[h]]
      /\ head' = [h \in Holders |-> IF h = call.d THEN result
                                   ELSE IF h \in {"new", "pre"} THEN NULL ELSE head[h]]
      /\ instr' = instr /\ own' = own
      /\ call.d \in Holders
  BY <1>1, LocalsHold DEF Return
<1>5. \A h \in Holders : h # call.d \/ h = call.b =>
         \A i \in DOMAIN chain[h], j \in DOMAIN copy : chain[h][i] # copy[j]
  <2>1. CASE own
    BY <1>0, <2>1 DEF CopyApart, OwnCells, Apart
  <2>2. CASE ~own
    BY <1>0, <2>2 DEF CopyApart
  <2>3. QED
    BY <2>1, <2>2, <1>0 DEF TypeOK
<1>6. \A h \in Holders : h # call.d \/ h = call.b =>
         \A i \in DOMAIN chain[h] : next'[chain[h][i]] = next[chain[h][i]]
  <2> SUFFICES ASSUME NEW h \in Holders, h # call.d \/ h = call.b, NEW i \in DOMAIN chain[h]
               PROVE  next'[chain[h][i]] = next[chain[h][i]]
    OBVIOUS
  <2>1. CASE copy = <<>>
    BY <2>1
  <2>2. CASE copy # <<>>
    <3>1. Len(copy) \in DOMAIN copy
      BY <1>1, <2>2
    <3>2. chain[h][i] # copy[Len(copy)] /\ chain[h][i] \in Cells
      BY <3>1, <1>5, <1>1
    <3>3. QED
      BY <3>2, <2>2, <1>0 DEF TypeOK
  <2>3. QED
    BY <2>1, <2>2
<1>7. \A i \in 1 .. Len(copy) : next'[copy[i]] = IF i = Len(copy) THEN head[call.b] ELSE copy[i + 1]
  <2> SUFFICES ASSUME NEW i \in 1 .. Len(copy)
               PROVE  next'[copy[i]] = IF i = Len(copy) THEN head[call.b] ELSE copy[i + 1]
    OBVIOUS
  <2>1. copy # <<>> /\ Len(copy) \in DOMAIN copy /\ i \in DOMAIN copy
        /\ copy[i] \in Cells /\ copy[Len(copy)] \in Cells
    BY <1>1
  <2>2. CASE i = Len(copy)
    BY <2>1, <2>2, <1>0 DEF TypeOK
  <2>3. CASE i # Len(copy)
    <3>1. copy[i] # copy[Len(copy)]
      BY <2>1, <2>3, <1>0, LastEnds
    <3>2. next'[copy[i]] = next[copy[i]]
      BY <3>1, <2>1, <1>0 DEF TypeOK
    <3>3. QED
      BY <3>2, <2>1, <2>3, <1>0, <1>1 DEF CopyLinked
  <2>4. QED
    BY <2>2, <2>3
<1>8. ListsStand'
  <2> SUFFICES ASSUME NEW h \in Holders
               PROVE  IsList(head[h], chain[h])'
    BY DEF ListsStand
  <2>1. IsList(head[call.b], B)
    BY <1>0, <1>1 DEF ListsStand
  <2>2. CASE h = call.d
    <3>1. head'[h] = result /\ chain'[h] = J
      BY <1>4, <2>2
    <3>2. result = IF J = <<>> THEN NULL ELSE J[1]
      <4>1. CASE copy = <<>>
        BY <4>1, <1>1, <1>2, <2>1 DEF IsList
      <4>2. CASE copy # <<>>
        BY <4>2, <1>0, <1>1, <1>2 DEF CopyLinked
      <4>3. QED
        BY <4>1, <4>2
    <3>3. ASSUME NEW i \in DOMAIN J
          PROVE  next'[J[i]] = IF i = Len(J) THEN NULL ELSE J[i + 1]
      <4>1. CASE i < Len(copy)
        <5>1. i \in 1 .. Len(copy) /\ i + 1 \in 1 .. Len(copy) /\ i # Len(copy) /\ i # Len(J)
          BY <4>1, <1>1, <1>2
        <5>2. QED
          BY <5>1, <1>7, <1>2
      <4>2. CASE i = Len(copy)
        <5>1. i \in 1 .. Len(copy) /\ next'[J[i]] = head[call.b]
          BY <4>2, <1>1, <1>2, <1>7
        <5>2. CASE B = <<>>
          BY <5>1, <5>2, <4>2, <1>1, <1>2, <2>1 DEF IsList
        <5>3. CASE B # <<>>
          <6>1. 1 \in 1 .. Len(B)
            BY <5>3, <1>1
          <6>2. J[i + 1] = B[1] /\ i # Len(J)
            BY <6>1, <4>2, <1>1, <1>2
          <6>3. QED
            BY <6>2, <5>1, <5>3, <2>1 DEF IsList
        <5>4. QED
          BY <5>2, <5>3
      <4>3. CASE i > Len(copy)
        <5> DEFINE k == i - Len(copy)
        <5>1. k \in 1 .. Len(B) /\ k \in DOMAIN B /\ J[i] = B[k] /\ i \in Nat /\ Len(copy) \in Nat
          BY <4>3, <1>1, <1>2
        <5>2. next'[J[i]] = next[B[k]]
          BY <5>1, <1>6, <1>1
        <5>3. next[B[k]] = IF k = Len(B) THEN NULL ELSE B[k + 1]
          BY <5>1, <2>1 DEF IsList
        <5>4. k = Len(B) <=> i = Len(J)
          BY <5>1, <1>1, <1>2
        <5>5. k # Len(B) => J[i + 1] = B[k + 1]
          <6>1. k # Len(B) => k + 1 \in 1 .. Len(B) /\ Len(copy) + (k + 1) = i + 1
            <7>1. Len(B) \in Nat /\ k \in 1 .. Len(B) /\ i \in Nat /\ Len(copy) \in Nat
              BY <5>1, <1>1
            <7>2. QED
              BY <7>1
          <6>2. QED
            BY <6>1, <1>2, SMTT(30)
        <5>6. QED
          BY <5>2, <5>3, <5>4, <5>5
      <4>4. QED
        <5>1. i \in Nat /\ Len(copy) \in Nat
          BY <1>1, <1>2
        <5>2. i < Len(copy) \/ i = Len(copy) \/ i > Len(copy)
          BY <5>1
        <5>3. QED
          BY <5>2, <4>1, <4>2, <4>3
    <3>4. QED
      BY <3>1, <3>2, <3>3 DEF IsList
  <2>3. CASE h # call.d /\ h \in {"new", "pre"}
    BY <2>3, <1>4 DEF IsList
  <2>4. CASE h # call.d /\ h \notin {"new", "pre"}
    <3>1. head'[h] = head[h] /\ chain'[h] = chain[h]
      BY <2>4, <1>4
    <3>2. \A i \in DOMAIN chain[h] : next'[chain[h][i]] = next[chain[h][i]]
      BY <2>4, <1>6
    <3>3. QED
      BY <3>1, <3>2, <1>0 DEF ListsStand, IsList
  <2>5. QED
    BY <2>2, <2>3, <2>4
<1>9. \A i \in DOMAIN J : \/ \E k \in DOMAIN copy : J[i] = copy[k]
                        \/ \E k \in DOMAIN B : J[i] = B[k]
  BY <1>1, JoinedFacts
<1> HIDE DEF J
<1>10. CellsAllocated'
  <2>1. \A i \in DOMAIN J : instr[J[i]] # NULL
    BY <1>9, <1>0, <1>1 DEF CellsAllocated
  <2>2. copy' = <<>>
    BY DEF Return
  <2>3. \A h \in Holders : \A i \in DOMAIN chain'[h] : instr[chain'[h][i]] # NULL
    BY <2>1, <1>0, <1>4 DEF CellsAllocated
  <2>4. QED
    BY <2>2, <2>3, <1>4 DEF CellsAllocated
<1>11. OwnCells'
  <2>1. \A h \in Holders \ {"new"} : Apart(h, "new")'
    BY <1>1, <1>4, LocalsHold DEF Apart
  <2>2. ASSUME own, NEW h \in Holders \ {"code"}
        PROVE  Apart(h, "code")'
    <3>1. call.d = "code" /\ call.b = "new" /\ copy = chain["code"]
      BY <1>0, <2>2 DEF CopyApart
    <3>2. chain'["code"] = J
      BY <3>1, <1>4
    <3>3. CASE h \in {"new", "pre"}
      BY <3>1, <3>3, <1>4 DEF Apart
    <3>4. CASE h \notin {"new", "pre"}
      <4>1. chain'[h] = chain[h]
        BY <3>1, <3>4, <1>4, <2>2
      <4>2. Apart(h, "code") /\ Apart(h, "new")
        BY <1>0, <2>2, <3>4 DEF OwnCells
      <4>3. ASSUME NEW i \in DOMAIN chain[h], NEW j \in DOMAIN J
            PROVE  chain[h][i] # J[j]
        <5>1. B = chain["new"]
          BY <3>1
        <5>2. \/ \E k \in DOMAIN chain["code"] : J[j] = chain["code"][k]
              \/ \E k \in DOMAIN chain["new"] : J[j] = chain["new"][k]
          <6>1. \/ \E k \in DOMAIN copy : J[j] = copy[k]
                \/ \E k \in DOMAIN B : J[j] = B[k]
            BY <1>9
          <6>2. QED
            BY <6>1, <3>1, <5>1
        <5>3. QED
          BY <4>2, <5>2 DEF Apart
      <4>4. QED
        BY <4>1, <4>3, <3>2 DEF Apart
    <3>5. QED
      BY <3>3, <3>4
  <2>3. QED
    BY <2>1, <2>2, <1>4 DEF OwnCells
<1>12. CallInv'
  BY DEF CallInv, Return, Busy
<1>13. QED
  BY <1>3, <1>8, <1>10, <1>11, <1>12 DEF IInv

-----------------------------------------------------------------------------
\* One lemma for each action

\* A fresh cell with an instruction in it disturbs no list.
LEMMA AllocateKeeps ==
    ASSUME IInv, Free # {}, NEW i \in Instrs, Allocate(Fresh, i)
    PROVE  /\ instr' \in [Cells -> Instrs \cup {NULL}] /\ next' \in [Cells -> Cells \cup {NULL}]
           /\ instr'[Fresh] = i /\ next'[Fresh] = NULL /\ i # NULL
           /\ \A h \in Holders : \A k \in DOMAIN chain[h] :
                 /\ chain[h][k] \in Cells /\ chain[h][k] # Fresh
                 /\ next'[chain[h][k]] = next[chain[h][k]] /\ instr'[chain[h][k]] = instr[chain[h][k]]
           /\ \A k \in DOMAIN copy :
                 /\ copy[k] \in Cells /\ copy[k] # Fresh
                 /\ next'[copy[k]] = next[copy[k]] /\ instr'[copy[k]] = instr[copy[k]]
<1>1. Fresh \in Cells /\ instr[Fresh] = NULL
  BY FreshIsFree
<1>2. TypeOK /\ CellsAllocated
  BY DEF IInv
<1>3. instr' \in [Cells -> Instrs \cup {NULL}] /\ next' \in [Cells -> Cells \cup {NULL}]
  BY <1>1, <1>2 DEF TypeOK, Allocate
<1>4. \A c \in Cells : c # Fresh => next'[c] = next[c] /\ instr'[c] = instr[c]
  BY <1>2 DEF TypeOK, Allocate
<1>5. instr'[Fresh] = i /\ next'[Fresh] = NULL /\ i # NULL
  BY <1>1, <1>2, NullIsNoInstr DEF TypeOK, Allocate
<1>6. ASSUME NEW h \in Holders, NEW k \in DOMAIN chain[h]
      PROVE  chain[h][k] \in Cells /\ chain[h][k] # Fresh
  <2>1. chain[h] \in Seq(Cells)
    BY <1>2 DEF TypeOK
  <2>2. QED
    BY <2>1, <1>1, <1>2 DEF CellsAllocated
<1>7. ASSUME NEW k \in DOMAIN copy
      PROVE  copy[k] \in Cells /\ copy[k] # Fresh
  <2>1. copy \in Seq(Cells)
    BY <1>2 DEF TypeOK
  <2>2. QED
    BY <2>1, <1>1, <1>2 DEF CellsAllocated
<1>8. QED
  BY <1>3, <1>4, <1>5, <1>6, <1>7

\* A new cell is in no list but its own.
LEMMA GenInv == ASSUME IInv, NEW w \in Widths, gen(w) PROVE IInv'
<1> DEFINE i == [made |-> Fresh, width |-> w]
<1>1. /\ TypeOK /\ ListsStand /\ CellsAllocated /\ OwnCells /\ CallInv
      /\ pc = "idle" /\ Free # {} /\ Fresh \in Cells /\ copy = <<>>
  BY FreshIsFree DEF IInv, gen, CallInv
<1>2. i \in Instrs /\ Allocate(Fresh, i)
  BY <1>1 DEF Instrs, gen
<1>3. /\ instr' \in [Cells -> Instrs \cup {NULL}] /\ next' \in [Cells -> Cells \cup {NULL}]
      /\ instr'[Fresh] = i /\ next'[Fresh] = NULL /\ i # NULL
      /\ \A h \in Holders : \A k \in DOMAIN chain[h] :
            /\ chain[h][k] \in Cells /\ chain[h][k] # Fresh
            /\ next'[chain[h][k]] = next[chain[h][k]] /\ instr'[chain[h][k]] = instr[chain[h][k]]
  BY <1>1, <1>2, AllocateKeeps
<1>4. /\ head' = [head EXCEPT !["new"] = Fresh] /\ chain' = [chain EXCEPT !["new"] = <<Fresh>>]
      /\ UNCHANGED <<built, roots, kids, own, pc, frame>>
  BY DEF gen
<1>5. /\ chain'["new"] = <<Fresh>> /\ head'["new"] = Fresh
      /\ \A h \in Holders : h # "new" => chain'[h] = chain[h] /\ head'[h] = head[h]
  BY <1>1, <1>4, LocalsHold DEF TypeOK
<1>6. TypeOK'
  <2>1. head' \in [Holders -> Cells \cup {NULL}]
    BY <1>1, <1>4 DEF TypeOK
  <2>2. <<Fresh>> \in Seq(Cells)
    BY <1>1
  <2>3. chain' \in [Holders -> Seq(Cells)]
    BY <1>1, <1>4, <2>2 DEF TypeOK
  <2>4. QED
    BY <1>1, <1>3, <1>4, <2>1, <2>3 DEF TypeOK, frame
<1>7. ListsStand'
  <2> SUFFICES ASSUME NEW h \in Holders PROVE IsList(head[h], chain[h])'
    BY DEF ListsStand
  <2>1. CASE h = "new"
    BY <2>1, <1>3, <1>5 DEF IsList
  <2>2. CASE h # "new"
    BY <2>2, <1>1, <1>3, <1>5 DEF IsList, ListsStand
  <2>3. QED
    BY <2>1, <2>2
<1>8. CellsAllocated'
  <2>1. \A h \in Holders : \A k \in DOMAIN chain'[h] : instr'[chain'[h][k]] # NULL
    BY <1>1, <1>3, <1>5 DEF CellsAllocated
  <2>2. QED
    BY <2>1, <1>1, <1>4 DEF CellsAllocated, frame
<1>9. OwnCells'
  BY <1>1, <1>3, <1>4, <1>5, LocalsHold DEF OwnCells, Apart
<1>10. CallInv'
  BY <1>1, <1>4 DEF CallInv, frame, Busy
<1>11. QED
  BY <1>6, <1>7, <1>8, <1>9, <1>10 DEF IInv

\* A call of concat names two lists and a local for the result.
LEMMA CallsTyped ==
    ASSUME TypeOK, NEW k \in Calls
    PROVE  /\ k \in [a : Holders, b : Holders, d : {"code", "pre"}]
           /\ ({k.a, k.b} \ Locals) \subseteq roots
<1>1. roots \subseteq Holders
  BY LocalsHold DEF TypeOK
<1>2. QED
  BY <1>1, LocalsHold DEF Calls, Locals

\* concat begins with nothing copied.
LEMMA ConcatInv == ASSUME IInv, NEW k \in Calls, concat(k) PROVE IInv'
<1>1. /\ TypeOK /\ ListsStand /\ CellsAllocated /\ OwnCells
      /\ copy = <<>> /\ depth = 0 /\ ret = NULL /\ at = NULL
  BY DEF IInv, concat, CallInv
<1>2. /\ k \in [a : Holders, b : Holders, d : {"code", "pre"}]
      /\ ({k.a, k.b} \ Locals) \subseteq roots
  BY <1>1, CallsTyped
<1>3. /\ pc' = "down" /\ call' = k /\ src' = head[k.a] /\ own' = FALSE
      /\ kids' = kids \cup ({k.a, k.b} \ Locals)
      /\ UNCHANGED <<instr, next, head, built, roots, chain, copy, depth, ret, at>>
  BY DEF concat, heap
<1>4. TypeOK'
  <2>1. head[k.a] \in Cells \cup {NULL}
    BY <1>1, <1>2 DEF TypeOK
  <2>2. QED
    BY <1>1, <1>2, <1>3, <2>1 DEF TypeOK, Busy
<1>5. ListsStand' /\ CellsAllocated' /\ OwnCells'
  BY <1>1, <1>3 DEF ListsStand, IsList, CellsAllocated, OwnCells, Apart
<1>6. CallInv'
  <2>1. IsList(head[k.a], chain[k.a]) /\ chain[k.a] \in Seq(Cells)
    BY <1>1, <1>2 DEF ListsStand, TypeOK
  <2>2. CopyApart' /\ CopySays'
    BY <1>1, <1>3 DEF CopyApart, CopySays
  <2>3. /\ Len(copy') <= Len(chain[k.a])
        /\ src' = IF Len(copy') = Len(chain[k.a]) THEN NULL ELSE chain[k.a][Len(copy') + 1]
    BY <2>1, <1>1, <1>3 DEF IsList
  <2>4. QED
    BY <2>2, <2>3, <1>1, <1>3 DEF CallInv
<1>7. QED
  BY <1>4, <1>5, <1>6 DEF IInv

\* append alone begins with the list itself for its copy.
LEMMA AppendCallInv == ASSUME IInv, AppendCall PROVE IInv'
<1>1. /\ TypeOK /\ ListsStand /\ CellsAllocated /\ OwnCells /\ own
      /\ depth = 0 /\ src = NULL /\ at = NULL
  BY DEF IInv, AppendCall, CallInv
<1>2. /\ pc' = "up" /\ call' = [a |-> "code", b |-> "new", d |-> "code"]
      /\ copy' = chain["code"] /\ ret' = head["code"]
      /\ UNCHANGED <<instr, next, head, built, roots, kids, own, chain, src, depth, at>>
  BY DEF AppendCall, heap, client
<1>3. IsList(head["code"], chain["code"]) /\ chain["code"] \in Seq(Cells)
      /\ head["code"] \in Cells \cup {NULL}
  BY <1>1, LocalsHold DEF ListsStand, TypeOK
<1>4. TypeOK'
  <2>1. call' \in [a : Holders, b : Holders, d : {"code", "pre"}]
    BY <1>2, LocalsHold
  <2>2. 0 \in 0 .. Len(chain["code"])
    BY <1>3
  <2>3. QED
    BY <1>1, <1>2, <1>3, <2>1, <2>2 DEF TypeOK, Busy
<1>5. ListsStand' /\ CellsAllocated' /\ OwnCells'
  BY <1>1, <1>2, LocalsHold DEF ListsStand, IsList, CellsAllocated, OwnCells, Apart
<1>6. CallInv'
  <2>1. CopyApart' /\ CopySays'
    BY <1>1, <1>2 DEF CopyApart, CopySays
  <2>2. CopyLinked'
    BY <1>1, <1>2, <1>3 DEF CopyLinked, IsList
  <2>3. QED
    BY <2>1, <2>2, <1>2 DEF CallInv
<1>7. QED
  BY <1>4, <1>5, <1>6 DEF IInv

\* One cell more is copied.
LEMMA CopylistInv == ASSUME IInv, copylist PROVE IInv'
<1> DEFINE A == chain[call.a]
           i == instr[src]
<1>1. /\ TypeOK /\ ListsStand /\ CellsAllocated /\ OwnCells /\ CopyApart /\ CopySays
      /\ pc = "down" /\ src # NULL /\ Free # {} /\ Fresh \in Cells /\ instr[Fresh] = NULL
      /\ Len(copy) <= Len(A) /\ src = IF Len(copy) = Len(A) THEN NULL ELSE A[Len(copy) + 1]
      /\ depth = 0 /\ ret = NULL
  BY FreshIsFree DEF IInv, copylist, CallInv, Busy
<1>2. /\ call.a \in Holders /\ A \in Seq(Cells) /\ copy \in Seq(Cells)
      /\ Len(A) \in Nat /\ Len(copy) \in Nat
  BY <1>1 DEF TypeOK
<1>3. Len(copy) + 1 \in DOMAIN A /\ src = A[Len(copy) + 1]
  BY <1>1, <1>2
<1>4. i \in Instrs /\ Allocate(Fresh, i)
  <2>1. src \in Cells /\ i # NULL
    BY <1>1, <1>2, <1>3 DEF CellsAllocated
  <2>2. QED
    BY <2>1, <1>1 DEF TypeOK, copylist
<1>5. /\ instr' \in [Cells -> Instrs \cup {NULL}] /\ next' \in [Cells -> Cells \cup {NULL}]
      /\ instr'[Fresh] = i /\ next'[Fresh] = NULL /\ i # NULL
      /\ \A h \in Holders : \A k \in DOMAIN chain[h] :
            /\ chain[h][k] \in Cells /\ chain[h][k] # Fresh
            /\ next'[chain[h][k]] = next[chain[h][k]] /\ instr'[chain[h][k]] = instr[chain[h][k]]
      /\ \A k \in DOMAIN copy :
            /\ copy[k] \in Cells /\ copy[k] # Fresh
            /\ next'[copy[k]] = next[copy[k]] /\ instr'[copy[k]] = instr[copy[k]]
  BY <1>1, <1>4, AllocateKeeps
<1> HIDE DEF i
<1>6. /\ copy' = Append(copy, Fresh) /\ src' = next[src]
      /\ UNCHANGED <<head, built, roots, kids, own, chain, pc, call, depth, ret, at>>
  BY DEF copylist, client
<1>7. /\ copy' \in Seq(Cells) /\ Len(copy') = Len(copy) + 1
      /\ DOMAIN copy' = 1 .. Len(copy) + 1 /\ DOMAIN copy = 1 .. Len(copy)
      /\ copy'[Len(copy) + 1] = Fresh
      /\ \A k \in 1 .. Len(copy) : copy'[k] = copy[k]
      /\ \A k \in 1 .. Len(copy) + 1 : k \in 1 .. Len(copy) \/ k = Len(copy) + 1
  BY <1>1, <1>2, <1>6
<1>8. TypeOK'
  <2>1. src \in Cells
    BY <1>1 DEF TypeOK
  <2>2. src' \in Cells \cup {NULL}
    BY <2>1, <1>1, <1>6 DEF TypeOK
  <2>3. depth' \in 0 .. Len(copy')
    BY <1>1, <1>2, <1>6, <1>7
  <2>4. QED
    BY <1>1, <1>5, <1>6, <1>7, <2>2, <2>3 DEF TypeOK
<1>9. ListsStand'
  <2> SUFFICES ASSUME NEW h \in Holders PROVE IsList(head[h], chain[h])'
    BY DEF ListsStand
  <2>1. QED
    BY <1>1, <1>5, <1>6 DEF IsList, ListsStand
<1>10. CellsAllocated'
  <2>1. \A h \in Holders : \A k \in DOMAIN chain[h] : instr'[chain[h][k]] # NULL
    BY <1>1, <1>5 DEF CellsAllocated
  <2>2. \A k \in DOMAIN copy' : instr'[copy'[k]] # NULL
    BY <1>1, <1>5, <1>7 DEF CellsAllocated
  <2>3. QED
    BY <2>1, <2>2, <1>6 DEF CellsAllocated
<1>11. OwnCells'
  BY <1>1, <1>6 DEF OwnCells, Apart
<1>12. ~own
  BY <1>1 DEF CopyApart
<1>13. CopyApart'
  <2>1. \A h \in Holders : \A k \in DOMAIN chain[h], j \in DOMAIN copy' : chain[h][k] # copy'[j]
    BY <1>1, <1>5, <1>7, <1>12 DEF CopyApart
  <2>2. \A k, j \in DOMAIN copy' : copy'[k] = copy'[j] => k = j
    BY <1>1, <1>5, <1>7, <1>12 DEF CopyApart
  <2>3. QED
    BY <2>1, <2>2, <1>6, <1>12 DEF CopyApart
<1>14. CopySays'
  <2> SUFFICES ASSUME NEW k \in DOMAIN copy'
               PROVE  instr'[copy'[k]] = instr'[A[k]]
    BY <1>6 DEF CopySays
  <2>1. k \in DOMAIN A
    BY <1>2, <1>3, <1>7
  <2>2. instr'[A[k]] = instr[A[k]]
    BY <2>1, <1>5, <1>2
  <2>3. CASE k \in 1 .. Len(copy)
    BY <2>2, <2>3, <1>1, <1>5, <1>7 DEF CopySays
  <2>4. CASE k = Len(copy) + 1
    BY <2>2, <2>4, <1>3, <1>5, <1>7 DEF i
  <2>5. QED
    BY <2>3, <2>4, <1>7
<1>15. CallInv'
  <2>1. next[src] = IF Len(copy) + 1 = Len(A) THEN NULL ELSE A[Len(copy) + 1 + 1]
    BY <1>1, <1>2, <1>3 DEF ListsStand, IsList
  <2>2. Len(copy') <= Len(A)
    BY <1>2, <1>3, <1>7
  <2>3. src' = IF Len(copy') = Len(A) THEN NULL ELSE A[Len(copy') + 1]
    BY <2>1, <1>6, <1>7
  <2>4. QED
    BY <2>2, <2>3, <1>1, <1>6, <1>13, <1>14 DEF CallInv
<1>16. QED
  BY <1>8, <1>9, <1>10, <1>11, <1>15 DEF IInv

\* All cells are copied, and none is linked.
LEMMA CopylistEndInv == ASSUME IInv, copylistEnd PROVE IInv'
<1> DEFINE A == chain[call.a]
<1>1. /\ TypeOK /\ ListsStand /\ CellsAllocated /\ OwnCells /\ CopyApart /\ CopySays
      /\ pc = "down" /\ src = NULL /\ depth = 0 /\ ret = NULL
      /\ Len(copy) <= Len(A) /\ src = IF Len(copy) = Len(A) THEN NULL ELSE A[Len(copy) + 1]
  BY DEF IInv, copylistEnd, CallInv, Busy
<1>2. /\ pc' = "up" /\ depth' = Len(copy)
      /\ UNCHANGED <<instr, next, head, built, roots, kids, own, chain, call, src, copy, ret, at>>
  BY DEF copylistEnd, heap, client
<1>3. A \in Seq(Cells) /\ copy \in Seq(Cells) /\ Len(copy) \in Nat /\ Len(A) \in Nat
      /\ DOMAIN copy = 1 .. Len(copy)
  BY <1>1 DEF TypeOK
<1>4. Len(copy) = Len(A)
  <2> SUFFICES ASSUME Len(copy) # Len(A) PROVE FALSE
    OBVIOUS
  <2>1. Len(copy) + 1 \in 1 .. Len(A)
    BY <1>1, <1>3
  <2>2. A[Len(copy) + 1] \in Cells
    BY <2>1, <1>3
  <2>3. QED
    BY <2>2, <1>1, TacListAssumption
<1>5. TypeOK'
  <2>1. Len(copy) \in 0 .. Len(copy)
    BY <1>3
  <2>2. QED
    BY <2>1, <1>1, <1>2 DEF TypeOK, Busy
<1>6. ListsStand' /\ CellsAllocated' /\ OwnCells'
  BY <1>1, <1>2 DEF ListsStand, IsList, CellsAllocated, OwnCells, Apart
<1>7. ~own
  BY <1>1 DEF CopyApart
<1>8. CopyApart' /\ CopySays'
  BY <1>1, <1>2, <1>7 DEF CopyApart, CopySays
<1>9. CopyLinked'
  BY <1>1, <1>2, <1>3, <1>4 DEF CopyLinked
<1>10. QED
  BY <1>2, <1>5, <1>6, <1>8, <1>9 DEF IInv, CallInv

\* One copy more is linked.
LEMMA CopylistReturnInv == ASSUME IInv, copylistReturn PROVE IInv'
<1>1. /\ TypeOK /\ ListsStand /\ CellsAllocated /\ OwnCells /\ CopyApart /\ CopySays /\ CopyLinked
      /\ pc = "up" /\ depth > 0
  BY DEF IInv, copylistReturn, CallInv, Busy
<1>2. /\ copy \in Seq(Cells) /\ Len(copy) \in Nat /\ DOMAIN copy = 1 .. Len(copy)
      /\ depth \in 1 .. Len(copy) /\ copy[depth] \in Cells /\ ret \in Cells \cup {NULL}
  BY <1>1 DEF TypeOK
<1>3. /\ next' = [next EXCEPT ![copy[depth]] = ret]
      /\ ret' = copy[depth] /\ depth' = depth - 1
      /\ UNCHANGED <<instr, head, built, roots, kids, own, chain, pc, call, src, copy, at>>
  BY DEF copylistReturn, client
<1>4. ~own
  BY <1>1, <1>2 DEF CopyApart
<1>5. next'[copy[depth]] = ret /\ \A c \in Cells : c # copy[depth] => next'[c] = next[c]
  BY <1>1, <1>2, <1>3 DEF TypeOK
<1>6. TypeOK'
  <2>1. next' \in [Cells -> Cells \cup {NULL}]
    BY <1>1, <1>2, <1>3 DEF TypeOK
  <2>2. depth - 1 \in 0 .. Len(copy)
    BY <1>2
  <2>3. QED
    BY <2>1, <2>2, <1>1, <1>2, <1>3 DEF TypeOK
<1>7. ListsStand'
  <2> SUFFICES ASSUME NEW h \in Holders PROVE IsList(head[h], chain[h])'
    BY DEF ListsStand
  <2>1. \A k \in DOMAIN chain[h] : chain[h][k] \in Cells /\ chain[h][k] # copy[depth]
    <3>1. chain[h] \in Seq(Cells)
      BY <1>1 DEF TypeOK
    <3>2. QED
      BY <3>1, <1>1, <1>2, <1>4 DEF CopyApart
  <2>2. QED
    BY <2>1, <1>1, <1>3, <1>5 DEF IsList, ListsStand
<1>8. CellsAllocated' /\ OwnCells'
  BY <1>1, <1>3 DEF CellsAllocated, OwnCells, Apart
<1>9. CopyApart' /\ CopySays'
  BY <1>1, <1>3, <1>4 DEF CopyApart, CopySays
<1>10. CopyLinked'
  <2>1. ret' = IF depth' = Len(copy) THEN NULL ELSE copy[depth' + 1]
    BY <1>2, <1>3
  <2>2. ASSUME NEW k \in DOMAIN copy, k > depth'
        PROVE  next'[copy[k]] = IF k = Len(copy) THEN NULL ELSE copy[k + 1]
    <3>1. CASE k = depth
      BY <3>1, <1>1, <1>5 DEF CopyLinked
    <3>2. CASE k # depth
      <4>1. copy[k] # copy[depth] /\ copy[k] \in Cells
        BY <3>2, <1>1, <1>2, <1>4 DEF CopyApart
      <4>2. k > depth
        BY <2>2, <3>2, <1>2, <1>3
      <4>3. QED
        BY <4>1, <4>2, <1>1, <1>5 DEF CopyLinked
    <3>3. QED
      BY <3>1, <3>2
  <2>3. QED
    BY <2>1, <2>2, <1>1, <1>3 DEF CopyLinked
<1>11. QED
  BY <1>1, <1>3, <1>6, <1>7, <1>8, <1>9, <1>10 DEF IInv, CallInv

\* An append that comes to its end has found the last cell, or has no first list.
LEMMA AppendEmpty ==
    ASSUME IInv, append, ret = NULL
    PROVE  copy = <<>> /\ pc = "up" /\ depth = 0 /\ Return(head[call.b]) /\ next' = next
<1>1. TypeOK /\ pc = "up" /\ depth = 0 /\ CopyLinked
  BY DEF IInv, CallInv, append
<1>2. copy \in Seq(Cells)
  BY <1>1 DEF TypeOK
<1>3. copy = <<>>
  <2> SUFFICES ASSUME copy # <<>> PROVE FALSE
    OBVIOUS
  <2>1. 1 \in 1 .. Len(copy) /\ 0 # Len(copy)
    BY <1>2
  <2>2. copy[1] \in Cells
    BY <2>1, <1>2
  <2>3. QED
    BY <2>1, <2>2, <1>1, TacListAssumption DEF CopyLinked
<1>4. QED
  BY <1>1, <1>3 DEF append

\* append links the last cell of the copy to the second list.
LEMMA AppendLinkEnds ==
    ASSUME IInv, appendLink
    PROVE  /\ copy # <<>> /\ pc = "walk" /\ depth = 0 /\ Return(ret)
           /\ next' = [next EXCEPT ![copy[Len(copy)]] = head[call.b]]
<1>1. TypeOK /\ pc = "walk" /\ depth = 0 /\ CopyLinked /\ next[at] = NULL
  BY DEF IInv, CallInv, appendLink
<1>2. PICK j \in DOMAIN copy : at = copy[j]
  BY <1>1 DEF IInv, CallInv
<1>3. copy \in Seq(Cells)
  BY <1>1 DEF TypeOK
<1>4. j = Len(copy)
  BY <1>1, <1>2, LastEnds
<1>5. QED
  BY <1>1, <1>2, <1>3, <1>4 DEF appendLink

\* append with an empty first list is over at once.
LEMMA AppendInv == ASSUME IInv, append PROVE IInv'
<1>1. CASE ret = NULL
  BY <1>1, AppendEmpty, ReturnInv
<1>2. CASE ret # NULL
  <2>1. /\ TypeOK /\ ListsStand /\ CellsAllocated /\ OwnCells /\ CopyApart /\ CopySays /\ CopyLinked
        /\ pc = "up" /\ depth = 0
    BY DEF IInv, CallInv, append, Busy
  <2>2. /\ pc' = "walk" /\ at' = ret
        /\ UNCHANGED <<instr, next, head, built, roots, kids, own, chain, call, src, copy, depth, ret>>
    BY <1>2 DEF append, heap, client
  <2>3. 1 \in DOMAIN copy /\ ret = copy[1]
    BY <1>2, <2>1 DEF TypeOK, CopyLinked
  <2>4. TypeOK'
    BY <1>2, <2>1, <2>2 DEF TypeOK, Busy
  <2>5. ListsStand' /\ CellsAllocated' /\ OwnCells' /\ CopySays' /\ CopyLinked'
    BY <2>1, <2>2 DEF ListsStand, IsList, CellsAllocated, OwnCells, Apart, CopySays, CopyLinked
  <2>6. CopyApart'
    BY <2>1, <2>2 DEF CopyApart
  <2>7. QED
    BY <2>1, <2>2, <2>3, <2>4, <2>5, <2>6 DEF IInv, CallInv
<1>3. QED
  BY <1>1, <1>2

\* append walks along the copy.
LEMMA AppendWalkInv == ASSUME IInv, appendWalk PROVE IInv'
<1>1. /\ TypeOK /\ ListsStand /\ CellsAllocated /\ OwnCells /\ CopyApart /\ CopySays /\ CopyLinked
      /\ pc = "walk" /\ depth = 0 /\ next[at] # NULL
  BY DEF IInv, CallInv, appendWalk, Busy
<1>2. PICK j \in DOMAIN copy : at = copy[j]
  BY <1>1 DEF IInv, CallInv
<1>3. at' = next[at]
      /\ UNCHANGED <<instr, next, head, built, roots, kids, own, chain, pc, call, src, copy, depth, ret>>
  BY DEF appendWalk, heap, client
<1>4. j + 1 \in DOMAIN copy /\ at' = copy[j + 1] /\ at' \in Cells
  <2>1. copy \in Seq(Cells) /\ DOMAIN copy = 1 .. Len(copy)
    BY <1>1 DEF TypeOK
  <2>2. j # Len(copy)
    BY <1>1, <1>2, LastEnds
  <2>3. QED
    BY <2>1, <2>2, <1>1, <1>2, <1>3 DEF CopyLinked
<1>5. TypeOK'
  BY <1>1, <1>3, <1>4, TacListAssumption DEF TypeOK
<1>6. ListsStand' /\ CellsAllocated' /\ OwnCells' /\ CopySays' /\ CopyLinked' /\ CopyApart'
  BY <1>1, <1>3
     DEF ListsStand, IsList, CellsAllocated, OwnCells, Apart, CopySays, CopyLinked, CopyApart
<1>7. QED
  BY <1>1, <1>3, <1>4, <1>5, <1>6 DEF IInv, CallInv

\* After the link the result is a list.
LEMMA AppendLinkInv == ASSUME IInv, appendLink PROVE IInv'
  BY AppendLinkEnds, ReturnInv

\* The next node is one that is not done.
LEMMA NextNodeFacts ==
    ASSUME TypeOK, Nodes # built
    PROVE  NextNode \in Nodes /\ NextNode \notin built
<1>1. \E n \in Nodes \ built : TRUE
  BY DEF TypeOK
<1>2. QED
  BY <1>1 DEF NextNode

\* The node done takes over a list.
LEMMA GiveToInv ==
    ASSUME IInv, pc = "idle", NEW n \in Nodes \ built, NEW h \in Holders, GiveTo(n, h)
    PROVE  IInv'
<1>1. TypeOK /\ ListsStand /\ CellsAllocated /\ CallInv /\ copy = <<>>
  BY DEF IInv, CallInv
<1>2. /\ head' = [x \in Holders |-> IF x = n THEN head[h] ELSE IF x \in Locals THEN NULL ELSE head[x]]
      /\ chain' = [x \in Holders |-> IF x = n THEN chain[h] ELSE IF x \in Locals THEN <<>> ELSE chain[x]]
      /\ built' = built \cup {n} /\ roots' = (roots \ (kids \cup {h})) \cup {n}
      /\ kids' = {} /\ own' = TRUE
      /\ UNCHANGED <<instr, next, pc, call, src, copy, depth, ret, at>>
  BY DEF GiveTo, heap, frame
<1>3. TypeOK'
  <2>1. head' \in [Holders -> Cells \cup {NULL}]
    BY <1>1, <1>2 DEF TypeOK
  <2>2. chain' \in [Holders -> Seq(Cells)]
    <3>1. <<>> \in Seq(Cells)
      OBVIOUS
    <3>2. QED
      BY <3>1, <1>1, <1>2 DEF TypeOK
  <2>3. built' \subseteq Nodes /\ roots' \subseteq built' /\ kids' \subseteq roots'
    BY <1>1, <1>2 DEF TypeOK
  <2>4. QED
    BY <1>1, <1>2, <2>1, <2>2, <2>3 DEF TypeOK
<1>4. ListsStand'
  <2> SUFFICES ASSUME NEW x \in Holders PROVE IsList(head[x], chain[x])'
    BY DEF ListsStand
  <2>1. CASE x = n
    BY <2>1, <1>1, <1>2 DEF ListsStand, IsList
  <2>2. CASE x # n /\ x \in Locals
    BY <2>2, <1>2 DEF IsList
  <2>3. CASE x # n /\ x \notin Locals
    BY <2>3, <1>1, <1>2 DEF ListsStand, IsList
  <2>4. QED
    BY <2>1, <2>2, <2>3
<1>5. CellsAllocated'
  <2> SUFFICES ASSUME NEW x \in Holders, NEW i \in DOMAIN chain'[x]
               PROVE  instr[chain'[x][i]] # NULL
    BY <1>1, <1>2 DEF CellsAllocated
  <2>1. chain'[x] # <<>>
    OBVIOUS
  <2>2. \E y \in Holders : chain'[x] = chain[y]
    BY <2>1, <1>2
  <2>3. QED
    BY <2>2, <1>1 DEF CellsAllocated
<1>6. OwnCells'
  <2>1. chain'["new"] = <<>> /\ chain'["code"] = <<>>
    BY <1>2, LocalsHold DEF Locals
  <2>2. QED
    BY <2>1 DEF OwnCells, Apart
<1>7. CallInv'
  BY <1>1, <1>2 DEF CallInv, Busy
<1>8. QED
  BY <1>3, <1>4, <1>5, <1>6, <1>7 DEF IInv

-----------------------------------------------------------------------------
\* Together

\* There are no lists at the start.
LEMMA InitInv == Init => IInv
<1> SUFFICES ASSUME Init PROVE IInv
  OBVIOUS
<1>1. TypeOK
  <2>1. <<>> \in Seq(Cells) /\ 0 \in 0 .. Len(<<>>)
    OBVIOUS
  <2>2. NoCall \in [a : Holders, b : Holders, d : {"code", "pre"}]
    BY LocalsHold DEF NoCall
  <2>3. QED
    BY <2>1, <2>2 DEF Init, TypeOK, Busy
<1>2. ListsStand
  BY DEF Init, ListsStand, IsList
<1>3. CellsAllocated /\ OwnCells
  BY LocalsHold DEF Init, CellsAllocated, OwnCells, Apart
<1>4. CallInv
  BY DEF Init, CallInv, Busy
<1>5. QED
  BY <1>1, <1>2, <1>3, <1>4 DEF IInv

\* A step that leaves all as it is, or only ends the program.
LEMMA StillInv ==
    ASSUME IInv, UNCHANGED <<heap, client, frame>>, pc' = pc \/ pc' = "exited"
    PROVE  IInv'
<1>1. UNCHANGED <<instr, next, head, built, roots, kids, own, chain, call, src, copy, depth, ret, at>>
  BY DEF heap, client, frame
<1>2. TypeOK'
  BY <1>1 DEF IInv, TypeOK
<1>3. ListsStand' /\ CellsAllocated' /\ OwnCells'
  BY <1>1 DEF IInv, ListsStand, IsList, CellsAllocated, OwnCells, Apart
<1>4. CASE pc' = pc
  BY <1>1, <1>2, <1>3, <1>4 DEF IInv, CallInv, CopyApart, CopySays, CopyLinked
<1>5. CASE pc' = "exited"
  BY <1>1, <1>2, <1>3, <1>5 DEF IInv, CallInv, Busy
<1>6. QED
  BY <1>4, <1>5

\* No step breaks the invariant.
LEMMA NextInv == IInv /\ [Next]_vars => IInv'
<1> SUFFICES ASSUME IInv, [Next]_vars PROVE IInv'
  OBVIOUS
<1>1. ASSUME NEW w \in Widths, gen(w) PROVE IInv'
  BY <1>1, GenInv
<1>2. ASSUME NEW k \in Calls, concat(k) PROVE IInv'
  BY <1>2, ConcatInv
<1>3. CASE AppendCall
  BY <1>3, AppendCallInv
<1>4. CASE InCall \/ OutOfMemory
  <2>1. CASE OutOfMemory
    BY <2>1, StillInv DEF OutOfMemory
  <2>2. QED
    BY <1>4, <2>1, CopylistInv, CopylistEndInv, CopylistReturnInv, AppendInv, AppendWalkInv,
       AppendLinkInv DEF InCall
<1>5. CASE NodeDone
  <2>1. Nodes # built /\ pc = "idle" /\ TypeOK /\ GiveTo(NextNode, "code")
    BY <1>5 DEF NodeDone, IInv
  <2>2. NextNode \in Nodes \ built
    BY <2>1, NextNodeFacts
  <2>3. QED
    BY <2>1, <2>2, GiveToInv, LocalsHold
<1>6. ASSUME NEW k \in roots, SingleChild(k) PROVE IInv'
  <2>1. Nodes # built /\ pc = "idle" /\ TypeOK /\ GiveTo(NextNode, k)
    BY <1>6 DEF SingleChild, IInv
  <2>2. NextNode \in Nodes \ built /\ k \in Holders
    BY <2>1, NextNodeFacts, LocalsHold DEF TypeOK
  <2>3. QED
    BY <2>1, <2>2, GiveToInv
<1>7. CASE Finished \/ UNCHANGED vars
  BY <1>7, StillInv DEF Finished, vars
<1>8. QED
  BY <1>1, <1>2, <1>3, <1>4, <1>5, <1>6, <1>7 DEF Next

\* The invariant, for every tree.
LEMMA Invariance == Spec => []IInv
  BY InitInv, NextInv, PTL DEF Spec

\* Every pointer is to a cell or NULL, whatever lists are made.
THEOREM TypeCorrect == Spec => []TypeOK
<1>1. IInv => TypeOK
  BY DEF IInv
<1>2. QED
  BY <1>1, Invariance, PTL

\* A list keeps its cells in their order, however many others come to share them
\* and whatever is appended to those: tac.c never writes to a cell of a list that
\* anything else holds.
THEOREM ListsAlwaysStand == Spec => []ListsStand
<1>1. IInv => ListsStand
  BY DEF IInv
<1>2. QED
  BY <1>1, Invariance, PTL

-----------------------------------------------------------------------------
\* The refinement

\* What a holder says changes only with its cells, or theirs.
LEMMA SaidKept ==
    ASSUME NEW h, chain'[h] = chain[h],
           \A i \in DOMAIN chain[h] : instr'[chain[h][i]] = instr[chain[h][i]]
    PROVE  Said(h)' = Said(h)
  BY DEF Said

\* What a list says is a sequence as long as the list.
LEMMA SaidTyped ==
    ASSUME NEW T, NEW n \in Nat, NEW q \in [1 .. n -> T]
    PROVE  q \in Seq(T) /\ Len(q) = n
  OBVIOUS

\* Two lists one after the other say what the first says and then the second.
LEMMA SaidJoined ==
    ASSUME NEW T, NEW u \in Seq(T), NEW v \in Seq(T), NEW q \in Seq(T),
           Len(q) = Len(u) + Len(v),
           \A i \in 1 .. Len(u) : q[i] = u[i],
           \A i \in 1 .. Len(v) : q[Len(u) + i] = v[i]
    PROVE  q = u \o v
<1>1. /\ u \o v \in Seq(T) /\ Len(u \o v) = Len(u) + Len(v)
      /\ \A i \in 1 .. Len(u) : (u \o v)[i] = u[i]
      /\ \A i \in 1 .. Len(v) : (u \o v)[Len(u) + i] = v[i]
  BY JoinedFacts
<1>2. Len(u) \in Nat /\ Len(v) \in Nat /\ Len(q) \in Nat
  OBVIOUS
<1>3. ASSUME NEW i \in 1 .. Len(q)
      PROVE  q[i] = (u \o v)[i]
  <2>1. CASE i <= Len(u)
    BY <2>1, <1>1, <1>2
  <2>2. CASE i > Len(u)
    <3>1. i - Len(u) \in 1 .. Len(v) /\ i = Len(u) + (i - Len(u))
      BY <2>2, <1>2
    <3>2. QED
      BY <3>1, <1>1
  <2>3. QED
    BY <2>1, <2>2, <1>2
<1>4. QED
  BY <1>1, <1>3, SeqEqual

\* A step that makes no new list is no step of the sequences.
LEMMA Stutters ==
    ASSUME \A h \in Holders : Said(h)' = Said(h), built' = built
    PROVE  UNCHANGED Lists!lvars
  BY DEF Lists!lvars

\* The holders of both modules are the same.
LEMMA LocalsAgree == Lists!Locals = Locals /\ Lists!Holders = Holders
  BY DEF Lists!Locals, Lists!Holders, Locals, Holders

\* gen makes one instruction.
LEMMA GenRefines == ASSUME IInv, NEW w \in Widths, gen(w) PROVE Lists!LNext
<1> DEFINE i == [made |-> Fresh, width |-> w]
<1>1. TypeOK /\ Free # {} /\ Fresh \in Cells
  BY FreshIsFree DEF IInv, gen
<1>2. i \in Instrs /\ Allocate(Fresh, i)
  BY <1>1 DEF Instrs, gen
<1>3. /\ instr'[Fresh] = i
      /\ \A h \in Holders : \A k \in DOMAIN chain[h] : instr'[chain[h][k]] = instr[chain[h][k]]
  BY <1>1, <1>2, AllocateKeeps
<1>4. /\ chain'["new"] = <<Fresh>> /\ built' = built
      /\ \A h \in Holders : h # "new" => chain'[h] = chain[h]
  BY <1>1, LocalsHold DEF TypeOK, gen
<1>5. \A h \in Holders : h # "new" => Said(h)' = Said(h)
  BY <1>3, <1>4, SaidKept
<1>6. Said("new")' = <<i>>
  BY <1>3, <1>4 DEF Said
<1>7. Lists!Make(i)
  BY <1>4, <1>5, <1>6, LocalsHold DEF Lists!Make
<1>8. QED
  BY <1>2, <1>7 DEF Lists!LNext

\* The end of a call of concat or append makes one list of two.
LEMMA ReturnRefines ==
    ASSUME IInv, pc \in {"up", "walk"}, depth = 0, NEW result, Return(result)
    PROVE  Lists!LNext
<1> DEFINE B == chain[call.b]
           J == copy \o B
<1>1. TypeOK /\ CopySays /\ CopyLinked
  BY DEF IInv, CallInv, Busy
<1>2. /\ copy \in Seq(Cells) /\ B \in Seq(Cells) /\ chain[call.a] \in Seq(Cells)
      /\ call.a \in Holders /\ call.b \in Holders /\ call.d \in {"code", "pre"}
      /\ Len(copy) = Len(chain[call.a])
  BY <1>1 DEF TypeOK, CopyLinked
<1>3. /\ instr' = instr /\ built' = built
      /\ \A h \in Holders : chain'[h] = IF h = call.d THEN J
                                         ELSE IF h \in {"new", "pre"} THEN <<>> ELSE chain[h]
  BY DEF Return
<1>0. /\ Len(J) = Len(copy) + Len(B)
      /\ \A i \in 1 .. Len(copy) : J[i] = copy[i]
      /\ \A i \in 1 .. Len(B) : J[Len(copy) + i] = B[i]
  <2>1. copy \in Seq(Cells) /\ B \in Seq(Cells)
    BY <1>2
  <2> HIDE DEF B
  <2>2. QED
    BY <2>1, JoinedFacts
<1>4. ASSUME NEW h \in Holders
      PROVE  Said(h)' = IF h = call.d THEN Said(call.a) \o Said(call.b)
                        ELSE IF h \in {"new", "pre"} THEN <<>> ELSE Said(h)
  <2>1. CASE h = call.d
    <3>1. instr \in [Cells -> Instrs \cup {NULL}]
      BY <1>1 DEF TypeOK
    <3>2. J \in Seq(Cells)
      BY <1>2, ConcatProperties
    <3>3. /\ Said(h)' \in [DOMAIN J -> Instrs \cup {NULL}]
          /\ \A i \in DOMAIN J : Said(h)'[i] = instr[J[i]]
      <4>1. Said(h)' = [i \in DOMAIN J |-> instr[J[i]]]
        BY <2>1, <1>3 DEF Said
      <4>2. \A i \in DOMAIN J : instr[J[i]] \in Instrs \cup {NULL}
        <5> HIDE DEF J
        <5>1. \A i \in DOMAIN J : J[i] \in Cells
          BY <3>2
        <5>2. QED
          BY <5>1, <3>1
      <4>3. QED
        BY <4>1, <4>2
    <3>4. \A x \in {call.a, call.b} :
             /\ Said(x) \in Seq(Instrs \cup {NULL}) /\ Len(Said(x)) = Len(chain[x])
             /\ \A i \in 1 .. Len(chain[x]) : Said(x)[i] = instr[chain[x][i]]
      <4> SUFFICES ASSUME NEW x \in {call.a, call.b}
                   PROVE  /\ Said(x) \in Seq(Instrs \cup {NULL}) /\ Len(Said(x)) = Len(chain[x])
                          /\ \A i \in 1 .. Len(chain[x]) : Said(x)[i] = instr[chain[x][i]]
        OBVIOUS
      <4>1. chain[x] \in Seq(Cells) /\ DOMAIN chain[x] = 1 .. Len(chain[x])
        BY <1>2
      <4>2. /\ Said(x) \in [DOMAIN chain[x] -> Instrs \cup {NULL}]
            /\ \A i \in DOMAIN chain[x] : Said(x)[i] = instr[chain[x][i]]
        <5>1. \A i \in DOMAIN chain[x] : chain[x][i] \in Cells
          BY <4>1
        <5>2. \A i \in DOMAIN chain[x] : instr[chain[x][i]] \in Instrs \cup {NULL}
          BY <5>1, <3>1
        <5>3. QED
          BY <5>2 DEF Said
      <4>3. Said(x) \in [1 .. Len(chain[x]) -> Instrs \cup {NULL}] /\ Len(chain[x]) \in Nat
        BY <4>1, <4>2
      <4>4. QED
        BY <4>1, <4>2, <4>3, SaidTyped
    <3>5. Said(h)' = Said(call.a) \o Said(call.b)
      <4> DEFINE u == Said(call.a)
                 v == Said(call.b)
                 q == Said(h)'
      <4>1. /\ u \in Seq(Instrs \cup {NULL}) /\ Len(u) = Len(copy)
            /\ \A i \in 1 .. Len(copy) : u[i] = instr[copy[i]]
        BY <3>4, <1>1, <1>2 DEF CopySays
      <4>2. /\ v \in Seq(Instrs \cup {NULL}) /\ Len(v) = Len(B)
            /\ \A i \in 1 .. Len(B) : v[i] = instr[B[i]]
        BY <3>4, <1>2
      <4>3. q \in Seq(Instrs \cup {NULL}) /\ Len(q) = Len(J)
            /\ \A i \in 1 .. Len(J) : q[i] = instr[J[i]]
        <5>1. Len(J) \in Nat /\ DOMAIN J = 1 .. Len(J)
          BY <3>2
        <5> HIDE DEF J
        <5>2. q \in [1 .. Len(J) -> Instrs \cup {NULL}]
          BY <5>1, <3>3
        <5>3. QED
          BY <5>1, <5>2, <3>3, SaidTyped
      <4>4. Len(u) \in Nat /\ Len(v) \in Nat
        BY <4>1, <4>2
      <4> HIDE DEF B, J, u, v, q
      <4>5. Len(J) = Len(u) + Len(v) /\ Len(q) = Len(u) + Len(v)
        BY <4>1, <4>2, <4>3, <1>0
      <4>6. ASSUME NEW i \in 1 .. Len(u)
            PROVE  q[i] = u[i]
        <5>1. i \in 1 .. Len(J) /\ i \in 1 .. Len(copy)
          BY <4>1, <4>4, <4>5
        <5>2. QED
          BY <5>1, <4>1, <4>3, <1>0
      <4>7. ASSUME NEW i \in 1 .. Len(v)
            PROVE  q[Len(u) + i] = v[i]
        <5>1. i \in 1 .. Len(B) /\ Len(u) + i \in 1 .. Len(J)
          BY <4>2, <4>4, <4>5
        <5>2. q[Len(u) + i] = instr[J[Len(u) + i]]
          BY <5>1, <4>3
        <5>3. J[Len(u) + i] = B[i]
          BY <5>1, <4>1, <1>0
        <5>4. QED
          BY <5>1, <5>2, <5>3, <4>2
      <4>8. q = u \o v
        BY <4>1, <4>2, <4>3, <4>5, <4>6, <4>7, SaidJoined
      <4>9. QED
        BY <4>8 DEF u, v, q
    <3>6. QED
      BY <2>1, <3>5
  <2>2. CASE h # call.d /\ h \in {"new", "pre"}
    BY <2>2, <1>3 DEF Said
  <2>3. CASE h # call.d /\ h \notin {"new", "pre"}
    BY <2>3, <1>3 DEF Said
  <2>4. QED
    BY <2>1, <2>2, <2>3
<1>5. Lists!Join(call.a, call.b, call.d)
  BY <1>2, <1>3, <1>4, LocalsAgree DEF Lists!Join
<1>6. QED
  BY <1>2, <1>5, LocalsAgree DEF Lists!LNext

\* A node done is done in both.
LEMMA GiveToRefines ==
    ASSUME NEW n \in Nodes \ built, NEW h \in Holders, GiveTo(n, h)
    PROVE  Lists!LNext
<1>1. /\ instr' = instr /\ built' = built \cup {n}
      /\ \A x \in Holders : chain'[x] = IF x = n THEN chain[h]
                                         ELSE IF x \in Locals THEN <<>> ELSE chain[x]
  BY DEF GiveTo, heap
<1>2. \A x \in Holders : Said(x)' = IF x = n THEN Said(h)
                                     ELSE IF x \in Locals THEN <<>> ELSE Said(x)
  BY <1>1 DEF Said
<1>3. Lists!Finish(n, h)
  BY <1>1, <1>2, LocalsAgree DEF Lists!Finish
<1>4. QED
  BY <1>3, LocalsAgree DEF Lists!LNext

\* Every step is a step of InstrLists or none.
LEMMA StepRefines == IInv /\ [Next]_vars => [Lists!LNext]_(Lists!lvars)
<1> SUFFICES ASSUME IInv, [Next]_vars PROVE Lists!LNext \/ UNCHANGED Lists!lvars
  OBVIOUS
<1> DEFINE Goal == Lists!LNext \/ UNCHANGED Lists!lvars
<1>0. ASSUME instr' = instr, chain' = chain, built' = built PROVE Goal
  BY <1>0, Stutters, SaidKept
<1>1. ASSUME NEW w \in Widths, gen(w) PROVE Goal
  BY <1>1, GenRefines
<1>2. ASSUME NEW k \in Calls, concat(k) PROVE Goal
  BY <1>2, <1>0 DEF concat, heap
<1>3. CASE AppendCall
  BY <1>3, <1>0 DEF AppendCall, heap, client
<1>4. CASE copylist
  <2>1. TypeOK /\ CellsAllocated /\ Free # {} /\ src \in Cells /\ pc = "down" /\ src # NULL
    BY <1>4 DEF IInv, copylist, TypeOK
  <2>2. instr[src] # NULL
    <3>1. /\ chain[call.a] \in Seq(Cells) /\ copy \in Seq(Cells) /\ call.a \in Holders
      BY <2>1 DEF TypeOK
    <3>2. Len(copy) <= Len(chain[call.a]) /\ Len(copy) # Len(chain[call.a])
          /\ src = chain[call.a][Len(copy) + 1]
      BY <2>1 DEF IInv, CallInv
    <3>3. Len(copy) + 1 \in DOMAIN chain[call.a]
      BY <3>1, <3>2
    <3>4. QED
      BY <3>1, <3>2, <3>3, <2>1 DEF CellsAllocated
  <2>3. instr[src] \in Instrs /\ Allocate(Fresh, instr[src])
    BY <2>1, <2>2, <1>4 DEF TypeOK, copylist
  <2>4. \A h \in Holders : \A k \in DOMAIN chain[h] : instr'[chain[h][k]] = instr[chain[h][k]]
    BY <2>1, <2>3, AllocateKeeps
  <2>5. chain' = chain /\ built' = built
    BY <1>4 DEF copylist, client
  <2>6. QED
    BY <2>4, <2>5, SaidKept, Stutters
<1>5. CASE copylistEnd \/ copylistReturn \/ appendWalk
  BY <1>5, <1>0 DEF copylistEnd, copylistReturn, appendWalk, heap, client
<1>6. CASE append
  <2>1. CASE ret = NULL
    BY <1>6, <2>1, AppendEmpty, ReturnRefines
  <2>2. CASE ret # NULL
    BY <1>6, <2>2, <1>0 DEF append, heap, client
  <2>3. QED
    BY <2>1, <2>2
<1>7. CASE appendLink
  BY <1>7, AppendLinkEnds, ReturnRefines
<1>8. CASE OutOfMemory
  BY <1>8, <1>0 DEF OutOfMemory, heap, client
<1>9. CASE NodeDone
  <2>1. Nodes # built /\ TypeOK /\ GiveTo(NextNode, "code")
    BY <1>9 DEF NodeDone, IInv
  <2>2. NextNode \in Nodes \ built
    BY <2>1, NextNodeFacts
  <2>3. QED
    BY <2>1, <2>2, GiveToRefines, LocalsHold
<1>10. ASSUME NEW k \in roots, SingleChild(k) PROVE Goal
  <2>1. Nodes # built /\ TypeOK /\ GiveTo(NextNode, k)
    BY <1>10 DEF SingleChild, IInv
  <2>2. NextNode \in Nodes \ built /\ k \in Holders
    BY <2>1, NextNodeFacts, LocalsHold DEF TypeOK
  <2>3. QED
    BY <2>1, <2>2, GiveToRefines
<1>11. CASE Finished \/ UNCHANGED vars
  BY <1>11, <1>0 DEF Finished, vars, heap, client
<1>12. QED
  BY <1>1, <1>2, <1>3, <1>4, <1>5, <1>6, <1>7, <1>8, <1>9, <1>10, <1>11 DEF Next, InCall

\* Both begin with empty lists.
LEMMA InitRefines == Init => Lists!LInit
  BY LocalsAgree DEF Init, Lists!LInit, Said

\* The lists of tac.c are the sequences the code generator takes them for: every
\* call of concat and append, copy by copy and link by link, is one concatenation.
THEOREM CellsImplementSequences == Spec => ImplementsSequences
<1>1. Spec => [][Lists!LNext]_(Lists!lvars)
  BY Invariance, StepRefines, PTL DEF Spec
<1>2. Spec => Lists!LInit
  BY InitRefines, PTL DEF Spec
<1>3. QED
  BY <1>1, <1>2, PTL DEF ImplementsSequences, Lists!SequenceSpec
=============================================================================
