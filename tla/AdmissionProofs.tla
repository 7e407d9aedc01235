--------------------------- MODULE AdmissionProofs --------------------------
(***************************************************************************)
(* What the decoder, the audit and the matcher compute, for every text,    *)
(* schema and value, and what the checkers of records, of a probe's result *)
(* and of the source inventory admit: for every file, schema, revision,    *)
(* set of producers and repository.                                        *)
(*                                                                         *)
(* Induction over texts and schemas is written out: a counterexample of    *)
(* the least depth has none among its parts.                               *)
(***************************************************************************)
EXTENDS RecordAdmission, FiniteSetTheorems, WellFoundedInduction, TLAPS

-----------------------------------------------------------------------------
\* Decoding.

LEMMA LeastNumber ==
  ASSUME NEW T, T \subseteq Nat, T # {}
  PROVE  \E x \in T : \A y \in T : x <= y
<1>1. \E x \in T : \A y \in T : ~(<<y, x>> \in OpToRel(<, Nat))
  BY NatLessThanWellFounded, WFMin
<1>2. PICK x \in T : \A y \in T : ~(<<y, x>> \in OpToRel(<, Nat))
  BY <1>1
<1>3. \A y \in T : ~(y < x)
  BY <1>2 DEF OpToRel
<1>. QED  BY <1>3

LEMMA PartsOfText ==
  ASSUME NEW t \in Texts, NEW p \in Parts(t)
  PROVE  p \in Texts /\ Depth(p) \in Nat /\ Depth(t) \in Nat /\ Depth(p) < Depth(t)
<1>1. \/ t[1] = "arr" /\ t[2] \in Seq(Texts)
      \/ t[1] = "obj" /\ t[2] \in Seq(STRING \X Texts)
  BY TextsAssumption DEF Parts
<1>2. p \in Texts
  BY <1>1 DEF Parts
<1>. QED  BY <1>2, TextsAssumption

DecodeWith(f, t) ==
    CASE t[1] = "arr" ->
           LET all == InOrder([i \in DOMAIN t[2] |-> f[t[2][i]]])
           IN  IF IsOk(all) THEN Done(<<"arr", all[2]>>) ELSE all
      [] t[1] = "obj" ->
           LET all == InOrder([i \in DOMAIN t[2] |-> f[t[2][i][2]]])
           IN  IF IsOk(all) THEN ObjectWithoutDuplicateMembers(t[2], all[2]) ELSE all
      [] t[1] = "bad" -> Failed(t[2])
      [] OTHER -> Done(t)

LEMMA DecodeIsLocal ==
  ASSUME NEW t, NEW f, NEW g, \A p \in Parts(t) : f[p] = g[p]
  PROVE  DecodeWith(f, t) = DecodeWith(g, t)
<1>1. CASE t[1] = "arr"
  <2>1. [i \in DOMAIN t[2] |-> f[t[2][i]]] = [i \in DOMAIN t[2] |-> g[t[2][i]]]
    BY <1>1 DEF Parts
  <2>. QED  BY <1>1, <2>1 DEF DecodeWith
<1>2. CASE t[1] = "obj"
  <2>1. [i \in DOMAIN t[2] |-> f[t[2][i][2]]] = [i \in DOMAIN t[2] |-> g[t[2][i][2]]]
    BY <1>2 DEF Parts
  <2>. QED  BY <1>2, <2>1 DEF DecodeWith
<1>3. CASE t[1] \notin {"arr", "obj"}
  BY <1>3 DEF DecodeWith
<1>. QED  BY <1>1, <1>2, <1>3

ReadWith(f, t) ==
    CASE t[1] = "arr" -> {<<"arr", h>> : h \in Selections([i \in DOMAIN t[2] |-> f[t[2][i]]])}
      [] t[1] = "obj" ->
           {<<"obj", h>> : h \in Selections([n \in NamesIn(t[2]) |->
                                   UNION {f[t[2][i][2]] : i \in {j \in DOMAIN t[2] : t[2][j][1] = n}}])}
      [] t[1] = "bad" -> {}
      [] OTHER -> {t}

LEMMA ReadIsLocal ==
  ASSUME NEW t, NEW f, NEW g, \A p \in Parts(t) : f[p] = g[p]
  PROVE  ReadWith(f, t) = ReadWith(g, t)
<1>1. CASE t[1] = "arr"
  <2>1. [i \in DOMAIN t[2] |-> f[t[2][i]]] = [i \in DOMAIN t[2] |-> g[t[2][i]]]
    BY <1>1 DEF Parts
  <2>. QED  BY <1>1, <2>1 DEF ReadWith
<1>2. CASE t[1] = "obj"
  <2> DEFINE Of(h, n) == UNION {h[t[2][i][2]] : i \in {j \in DOMAIN t[2] : t[2][j][1] = n}}
  <2>1. ASSUME NEW n PROVE Of(f, n) = Of(g, n)
    <3>1. \A i \in DOMAIN t[2] : f[t[2][i][2]] = g[t[2][i][2]]
      BY <1>2 DEF Parts
    <3>. QED  BY <3>1
  <2>2. [n \in NamesIn(t[2]) |-> Of(f, n)] = [n \in NamesIn(t[2]) |-> Of(g, n)]
    <3> HIDE DEF Of
    <3>. QED  BY <2>1
  <2>3. \A h : ReadWith(h, t) = {<<"obj", x>> : x \in Selections([n \in NamesIn(t[2]) |-> Of(h, n)])}
    BY <1>2 DEF ReadWith
  <2> HIDE DEF Of
  <2>. QED  BY <2>2, <2>3
<1>3. CASE t[1] \notin {"arr", "obj"}
  BY <1>3 DEF ReadWith
<1>. QED  BY <1>1, <1>2, <1>3

\* Both at once, so that one argument serves for both.
Decoding(f) == [t \in Texts |-> f[t].decoded]
Reading(f) == [t \in Texts |-> f[t].readings]
StepWith(f, t) == [decoded |-> DecodeWith(Decoding(f), t), readings |-> ReadWith(Reading(f), t)]

LEMMA StepIsLocal ==
  ASSUME NEW t \in Texts, NEW f, NEW g, \A p \in Parts(t) : f[p] = g[p]
  PROVE  StepWith(f, t) = StepWith(g, t)
<1>1. \A p \in Parts(t) : Decoding(f)[p] = Decoding(g)[p] /\ Reading(f)[p] = Reading(g)[p]
  BY PartsOfText DEF Decoding, Reading
<1>2. DecodeWith(Decoding(f), t) = DecodeWith(Decoding(g), t)
  BY <1>1, DecodeIsLocal
<1>3. ReadWith(Reading(f), t) = ReadWith(Reading(g), t)
  BY <1>1, ReadIsLocal
<1>. QED  BY <1>2, <1>3 DEF StepWith

SolvesBelow(f, n) == \A t \in Texts : Depth(t) < n => f[t] = StepWith(f, t)

LEMMA SolutionsAgree ==
  ASSUME NEW n \in Nat, NEW f, NEW g, SolvesBelow(f, n), SolvesBelow(g, n),
         NEW t \in Texts, Depth(t) < n
  PROVE  f[t] = g[t]
<1> DEFINE Differ == {u \in Texts : Depth(u) < n /\ f[u] # g[u]}
<1>1. SUFFICES ASSUME Differ # {} PROVE FALSE
  OBVIOUS
<1>2. {Depth(u) : u \in Differ} \subseteq Nat
  BY TextsAssumption
<1>3. PICK d \in {Depth(u) : u \in Differ} : \A e \in {Depth(u) : u \in Differ} : d <= e
  <2> DEFINE T == {Depth(u) : u \in Differ}
  <2>1. T \subseteq Nat /\ T # {}  BY <1>1, <1>2
  <2> HIDE DEF T
  <2>2. \E x \in T : \A y \in T : x <= y  BY <2>1, LeastNumber
  <2>. QED  BY <2>2 DEF T
<1>4. PICK u \in Differ : d = Depth(u)
  BY <1>3
<1>5. ASSUME NEW p \in Parts(u) PROVE f[p] = g[p]
  <2>1. p \in Texts /\ Depth(p) \in Nat /\ Depth(u) \in Nat /\ Depth(p) < Depth(u)
    BY PartsOfText
  <2>2. p \notin Differ
    BY <1>2, <1>3, <1>4, <2>1
  <2>. QED  BY <2>1, <2>2
<1>6. StepWith(f, u) = StepWith(g, u)
  BY <1>5, StepIsLocal
<1>. QED  BY <1>6 DEF SolvesBelow

LEMMA SolutionBelow ==
  ASSUME NEW n \in Nat
  PROVE  \E f : SolvesBelow(f, n)
<1> DEFINE T == {m \in Nat : ~\E f : SolvesBelow(f, m)}
<1>1. SUFFICES ASSUME T # {} PROVE FALSE
  OBVIOUS
<1>2. PICK m \in T : \A k \in T : m <= k
  <2> HIDE DEF T
  <2>1. T \subseteq Nat  BY DEF T
  <2>. QED  BY <1>1, <2>1, LeastNumber
<1>3. m # 0
  BY <1>2, TextsAssumption DEF SolvesBelow
<1>4. m - 1 \in Nat /\ m - 1 \notin T
  BY <1>2, <1>3
<1>5. PICK f : SolvesBelow(f, m - 1)
  BY <1>4
<1> DEFINE g == [t \in Texts |-> StepWith(f, t)]
<1>6. ASSUME NEW t \in Texts, Depth(t) < m PROVE g[t] = StepWith(g, t)
  <2>1. ASSUME NEW p \in Parts(t) PROVE g[p] = f[p]
    <3>1. p \in Texts /\ Depth(p) \in Nat /\ Depth(t) \in Nat /\ Depth(p) < Depth(t)  BY PartsOfText
    <3>. QED  BY <1>2, <1>5, <1>6, <3>1 DEF SolvesBelow
  <2>2. StepWith(g, t) = StepWith(f, t)
    <3> HIDE DEF g
    <3>. QED  BY <2>1, StepIsLocal
  <2>. QED  BY <2>2
<1>7. SolvesBelow(g, m)
  BY <1>6 DEF SolvesBelow
<1>. QED  BY <1>2, <1>7

LEMMA SolutionExists == \E f : f = [t \in Texts |-> StepWith(f, t)]
<1> DEFINE a == [n \in Nat |-> CHOOSE f : SolvesBelow(f, n)]
<1>1. \A n \in Nat : SolvesBelow(a[n], n)
  BY SolutionBelow
<1> DEFINE g == [t \in Texts |-> a[Depth(t) + 1][t]]
<1>2. ASSUME NEW t \in Texts PROVE g[t] = StepWith(g, t)
  <2>0. Depth(t) \in Nat  BY TextsAssumption
  <2> DEFINE f == a[Depth(t) + 1]
  <2>1. SolvesBelow(f, Depth(t) + 1)
    BY <1>1, <2>0
  <2>2. ASSUME NEW p \in Parts(t) PROVE g[p] = f[p]
    <3>1. p \in Texts /\ Depth(p) \in Nat /\ Depth(p) < Depth(t)  BY PartsOfText
    <3>2. SolvesBelow(a[Depth(p) + 1], Depth(p) + 1)
      BY <1>1, <3>1
    <3>3. SolvesBelow(f, Depth(p) + 1)
      <4> HIDE DEF f
      <4>1. \A u \in Texts : Depth(u) \in Nat  BY TextsAssumption
      <4>. QED  BY <2>0, <2>1, <3>1, <4>1 DEF SolvesBelow
    <3> HIDE DEF a
    <3>4. a[Depth(p) + 1][p] = f[p]
      BY <3>1, <3>2, <3>3, SolutionsAgree
    <3>. QED  BY <3>1, <3>4
  <2>3. StepWith(g, t) = StepWith(f, t)
    <3> HIDE DEF g, f
    <3>. QED  BY <2>2, StepIsLocal
  <2>4. g[t] = f[t]
    <3> HIDE DEF a
    <3>. QED  OBVIOUS
  <2>5. f[t] = StepWith(f, t)
    <3> HIDE DEF f
    <3>. QED  BY <2>0, <2>1 DEF SolvesBelow
  <2>. QED  BY <2>3, <2>4, <2>5
<1>3. g = [t \in Texts |-> StepWith(g, t)]
  BY <1>2
<1>. QED
  <2> HIDE DEF g
  <2>. QED  BY <1>3

LEMMA StepFields ==
  ASSUME NEW f, NEW t
  PROVE  /\ StepWith(f, t).decoded = DecodeWith(Decoding(f), t)
         /\ StepWith(f, t).readings = ReadWith(Reading(f), t)
BY DEF StepWith

LEMMA DecodeIsDefined == Decode = [t \in Texts |-> DecodeWith(Decode, t)]
<1>1. PICK f : f = [t \in Texts |-> StepWith(f, t)]
  BY SolutionExists
<1>2. Decoding(f) = [t \in Texts |-> DecodeWith(Decoding(f), t)]
  <2>1. \A t \in Texts : f[t].decoded = DecodeWith(Decoding(f), t)
    <3>1. \A t \in Texts : f[t] = StepWith(f, t)  BY <1>1, Zenon
    <3>2. \A t \in Texts : StepWith(f, t).decoded = DecodeWith(Decoding(f), t)  BY StepFields
    <3>. QED  BY <3>1, <3>2
  <2>. QED  BY <2>1 DEF Decoding
<1>3. \E d : d = [t \in Texts |-> DecodeWith(d, t)]
  BY <1>2
<1>. QED  BY <1>3, Zenon DEF Decode, DecodeWith

LEMMA ReadingsIsDefined == Readings = [t \in Texts |-> ReadWith(Readings, t)]
<1>1. PICK f : f = [t \in Texts |-> StepWith(f, t)]
  BY SolutionExists
<1>2. Reading(f) = [t \in Texts |-> ReadWith(Reading(f), t)]
  <2>1. \A t \in Texts : f[t].readings = ReadWith(Reading(f), t)
    <3>1. \A t \in Texts : f[t] = StepWith(f, t)  BY <1>1, Zenon
    <3>2. \A t \in Texts : StepWith(f, t).readings = ReadWith(Reading(f), t)  BY StepFields
    <3>. QED  BY <3>1, <3>2
  <2>. QED  BY <2>1 DEF Reading
<1>3. \E r : r = [t \in Texts |-> ReadWith(r, t)]
  BY <1>2
<1>. QED  BY <1>3, Zenon DEF Readings, ReadWith

-----------------------------------------------------------------------------
LEMMA AllInOrder ==
  ASSUME NEW ds, DOMAIN ds \subseteq Nat, IsOk(InOrder(ds))
  PROVE  /\ \A i \in DOMAIN ds : IsOk(ds[i])
         /\ InOrder(ds) = Done([i \in DOMAIN ds |-> ds[i][2]])
<1> DEFINE bad == {i \in DOMAIN ds : ~IsOk(ds[i])}
<1>1. bad = {}
  <2>1. SUFFICES ASSUME bad # {} PROVE FALSE
    OBVIOUS
  <2>2. \E x \in bad : \A y \in bad : x <= y
    <3>1. bad \subseteq Nat  OBVIOUS
    <3> HIDE DEF bad
    <3>. QED  BY <2>1, <3>1, LeastNumber
  <2>3. Min(bad) \in bad
    <3> HIDE DEF bad
    <3>. QED  BY <2>2 DEF Min
  <2>. QED  BY <2>1, <2>3 DEF InOrder
<1>. QED  BY <1>1 DEF InOrder

LEMMA OneSelection ==
  ASSUME NEW S, NEW v, NEW of, of = [n \in S |-> {v[n]}]
  PROVE  Selections(of) = {[n \in S |-> v[n]]}
<1> DEFINE open == {n \in DOMAIN of : ~\E w \in of[n] : of[n] = {w}}
           fs == {g \in [open -> UNION {of[n] : n \in open}] : \A n \in open : g[n] \in of[n]}
           sel(f) == [n \in DOMAIN of |-> IF n \in open THEN f[n] ELSE CHOOSE w \in of[n] : TRUE]
<1>1. open = {}
  OBVIOUS
<1>2. [n \in {} |-> n] \in fs
  BY <1>1
<1>3. ASSUME NEW f PROVE sel(f) = [n \in S |-> v[n]]
  BY <1>1
<1>4. Selections(of) = {sel(f) : f \in fs}
  BY DEF Selections
<1> HIDE DEF fs, sel
<1>. QED  BY <1>2, <1>3, <1>4

\* A text that decode_strict_json accepts has no other reading than the value
\* it returns, however deep the place where a member might be repeated.
THEOREM DecodingIsUnambiguous ==
  \A t \in Texts : IsOk(Decode[t]) => Readings[t] = {Decode[t][2]}
<1> DEFINE Bad == {t \in Texts : IsOk(Decode[t]) /\ Readings[t] # {Decode[t][2]}}
<1>1. SUFFICES ASSUME Bad # {} PROVE FALSE
  OBVIOUS
<1>2. PICK t \in Bad : \A u \in Bad : Depth(t) <= Depth(u)
  <2> DEFINE T == {Depth(u) : u \in Bad}
  <2>1. T \subseteq Nat /\ T # {}  BY <1>1, TextsAssumption
  <2>2. PICK d \in T : \A e \in T : d <= e
    <3> HIDE DEF T
    <3>. QED  BY <2>1, LeastNumber
  <2>. QED  BY <2>2
<1>3. Decode[t] = DecodeWith(Decode, t)
  BY DecodeIsDefined
<1>4. Readings[t] = ReadWith(Readings, t)
  BY ReadingsIsDefined
<1>5. ASSUME NEW p \in Parts(t), IsOk(Decode[p]) PROVE Readings[p] = {Decode[p][2]}
  <2>1. p \in Texts /\ Depth(p) \in Nat /\ Depth(t) \in Nat /\ Depth(p) < Depth(t)  BY PartsOfText
  <2>2. p \notin Bad  BY <1>2, <2>1
  <2>. QED  BY <1>5, <2>1, <2>2
<1>6. CASE t[1] = "arr"
  <2> DEFINE ds == [i \in DOMAIN t[2] |-> Decode[t[2][i]]]
  <2>1. DecodeWith(Decode, t) = IF IsOk(InOrder(ds)) THEN Done(<<"arr", InOrder(ds)[2]>>) ELSE InOrder(ds)
    BY <1>6 DEF DecodeWith
  <2>2. IsOk(InOrder(ds))
    BY <1>2, <1>3, <2>1
  <2>3. t[2] \in Seq(Texts)
    BY <1>6, TextsAssumption
  <2>4. /\ \A i \in DOMAIN ds : IsOk(ds[i])
        /\ InOrder(ds) = Done([i \in DOMAIN ds |-> ds[i][2]])
    <3>1. DOMAIN ds \subseteq Nat  BY <2>3
    <3> HIDE DEF ds
    <3>. QED  BY <2>2, <3>1, AllInOrder
  <2> DEFINE v == [i \in DOMAIN t[2] |-> ds[i][2]]
  <2>5. \A i \in DOMAIN t[2] : Readings[t[2][i]] = {v[i]}
    BY <1>5, <1>6, <2>4 DEF Parts
  <2>6. Decode[t][2] = <<"arr", v>>
    BY <1>3, <2>1, <2>2, <2>4 DEF Done
  <2>7. Selections([i \in DOMAIN t[2] |-> Readings[t[2][i]]]) = {v}
    <3> DEFINE of == [i \in DOMAIN t[2] |-> Readings[t[2][i]]]
    <3>1. of = [i \in DOMAIN t[2] |-> {v[i]}]
      <4> HIDE DEF v
      <4>. QED  BY <2>5
    <3>2. v = [i \in DOMAIN t[2] |-> v[i]]  OBVIOUS
    <3> HIDE DEF v, of
    <3>3. Selections(of) = {[i \in DOMAIN t[2] |-> v[i]]}  BY <3>1, OneSelection
    <3>4. Selections(of) = {v}  BY <3>2, <3>3
    <3>. QED  BY <3>4 DEF of
  <2>8. Readings[t] = {<<"arr", h>> : h \in Selections([i \in DOMAIN t[2] |-> Readings[t[2][i]]])}
    BY <1>4, <1>6 DEF ReadWith
  <2> HIDE DEF v
  <2>9. Readings[t] = {<<"arr", v>>}
    BY <2>7, <2>8
  <2>. QED  BY <1>2, <2>6, <2>9
<1>7. CASE t[1] = "obj"
  <2> DEFINE ds == [i \in DOMAIN t[2] |-> Decode[t[2][i][2]]]
             all == InOrder(ds)
  <2>1. DecodeWith(Decode, t) = IF IsOk(all) THEN ObjectWithoutDuplicateMembers(t[2], all[2]) ELSE all
    BY <1>7 DEF DecodeWith
  <2>2. IsOk(all)
    BY <1>2, <1>3, <2>1
  <2>3. t[2] \in Seq(STRING \X Texts)
    BY <1>7, TextsAssumption
  <2>4. /\ \A i \in DOMAIN ds : IsOk(ds[i])
        /\ all = Done([i \in DOMAIN ds |-> ds[i][2]])
    <3>1. DOMAIN ds \subseteq Nat  BY <2>3
    <3> HIDE DEF ds
    <3>. QED  BY <2>2, <3>1, AllInOrder
  <2>5. /\ ~\E i, j \in DOMAIN t[2] : i # j /\ t[2][i][1] = t[2][j][1]
        /\ Decode[t] = Done(<<"obj", [n \in NamesIn(t[2]) |-> all[2][CHOOSE i \in DOMAIN t[2] : t[2][i][1] = n]]>>)
    <3> HIDE DEF all
    <3>1. ~IsOk(Failed("duplicate"))  BY DEF IsOk, Failed
    <3>. QED  BY <1>2, <1>3, <2>1, <2>2, <3>1 DEF ObjectWithoutDuplicateMembers
  <2> DEFINE at(n) == CHOOSE i \in DOMAIN t[2] : t[2][i][1] = n
             v == [n \in NamesIn(t[2]) |-> ds[at(n)][2]]
  <2>6. ASSUME NEW n \in NamesIn(t[2]) PROVE at(n) \in DOMAIN t[2] /\ {j \in DOMAIN t[2] : t[2][j][1] = n} = {at(n)}
    BY <2>5 DEF NamesIn
  <2>7. Decode[t][2] = <<"obj", v>>
    <3>0. DOMAIN ds = DOMAIN t[2]  OBVIOUS
    <3> HIDE DEF at, ds, all
    <3>1. ASSUME NEW n \in NamesIn(t[2]) PROVE all[2][at(n)] = ds[at(n)][2]
      <4>1. at(n) \in DOMAIN ds  BY <2>6, <3>0
      <4>2. all[2] = [i \in DOMAIN ds |-> ds[i][2]]  BY <2>4 DEF Done
      <4>. QED  BY <4>1, <4>2
    <3>2. Decode[t] = Done(<<"obj", [n \in NamesIn(t[2]) |-> all[2][at(n)]]>>)  BY <2>5 DEF at
    <3>. QED  BY <3>1, <3>2 DEF Done
  <2>8. ASSUME NEW n \in NamesIn(t[2])
        PROVE  UNION {Readings[t[2][i][2]] : i \in {j \in DOMAIN t[2] : t[2][j][1] = n}} = {v[n]}
    <3>1. UNION {Readings[t[2][i][2]] : i \in {j \in DOMAIN t[2] : t[2][j][1] = n}} = Readings[t[2][at(n)][2]]
      <4>1. {j \in DOMAIN t[2] : t[2][j][1] = n} = {at(n)}  BY <2>6
      <4> HIDE DEF at
      <4>. QED  BY <4>1
    <3>2. t[2][at(n)][2] \in Parts(t) /\ at(n) \in DOMAIN ds
      <4>1. at(n) \in DOMAIN t[2]  BY <2>6
      <4> HIDE DEF at
      <4>. QED  BY <1>7, <4>1 DEF Parts
    <3>3. Readings[t[2][at(n)][2]] = {Decode[t[2][at(n)][2]][2]}
      BY <1>5, <2>4, <3>2
    <3>. QED  BY <3>1, <3>2, <3>3
  <2>9. Selections([n \in NamesIn(t[2]) |-> UNION {Readings[t[2][i][2]] : i \in {j \in DOMAIN t[2] : t[2][j][1] = n}}]) = {v}
    <3> DEFINE of == [n \in NamesIn(t[2]) |-> UNION {Readings[t[2][i][2]] : i \in {j \in DOMAIN t[2] : t[2][j][1] = n}}]
    <3>1. of = [n \in NamesIn(t[2]) |-> {v[n]}]
      <4> HIDE DEF v
      <4>. QED  BY <2>8
    <3>2. v = [n \in NamesIn(t[2]) |-> v[n]]  OBVIOUS
    <3> HIDE DEF v, of
    <3>3. Selections(of) = {v}  BY <3>1, <3>2, OneSelection
    <3>. QED  BY <3>3 DEF of
  <2>10. Readings[t] = {<<"obj", h>> : h \in {v}}
    BY <1>4, <1>7, <2>9 DEF ReadWith
  <2>. QED  BY <1>2, <2>7, <2>10
<1>8. CASE t[1] \notin {"arr", "obj"}
  BY <1>2, <1>3, <1>4, <1>8 DEF DecodeWith, ReadWith, IsOk, Done, Failed
<1>. QED  BY <1>6, <1>7, <1>8

\* The least and the greatest are not needed: some fixed point is.
LEMMA FixedPoint ==
  ASSUME NEW Q, NEW F \in [SUBSET Q -> SUBSET Q],
         \A X, Y \in SUBSET Q : X \subseteq Y => F[X] \subseteq F[Y]
  PROVE  \E K \in SUBSET Q : F[K] = K
<1> DEFINE Post == {X \in SUBSET Q : X \subseteq F[X]}
           K == UNION Post
<1>1. K \in SUBSET Q
  OBVIOUS
<1>2. K \subseteq F[K]
  <2>1. ASSUME NEW q \in K PROVE q \in F[K]
    <3>1. PICK X \in Post : q \in X  OBVIOUS
    <3>2. X \in SUBSET Q /\ X \subseteq K /\ X \subseteq F[X]  OBVIOUS
    <3>3. F[X] \subseteq F[K]
      <4> HIDE DEF K, Post
      <4>. QED  BY <1>1, <3>2
    <3> HIDE DEF K, Post
    <3>. QED  BY <3>1, <3>2, <3>3
  <2>. QED  BY <2>1
<1>3. F[K] \subseteq K
  <2>1. F[K] \in SUBSET Q
    <3> HIDE DEF K
    <3>. QED  BY <1>1
  <2>2. F[K] \subseteq F[F[K]]
    <3> HIDE DEF K
    <3>. QED  BY <1>1, <1>2, <2>1
  <2>3. F[K] \in Post
    <3> HIDE DEF K
    <3>. QED  BY <2>1, <2>2
  <2>. QED  BY <2>3
<1> HIDE DEF K
<1>. QED  BY <1>1, <1>2, <1>3

\* A recursion through truth values in which no call is negated.
LEMMA RecursionHasSolution ==
  ASSUME NEW Q, NEW G \in [[Q -> BOOLEAN] -> [Q -> BOOLEAN]],
         \A f, g \in [Q -> BOOLEAN] : (\A q \in Q : f[q] => g[q]) => (\A q \in Q : G[f][q] => G[g][q])
  PROVE  \E f \in [Q -> BOOLEAN] : f = G[f]
<1> DEFINE ind(X) == [q \in Q |-> q \in X]
           F == [X \in SUBSET Q |-> {q \in Q : G[ind(X)][q]}]
<1>1. \A X : ind(X) \in [Q -> BOOLEAN] /\ \A q \in Q : ind(X)[q] = (q \in X)
  OBVIOUS
<1>2. \A X \in SUBSET Q : F[X] = {q \in Q : G[ind(X)][q]}
  OBVIOUS
<1>3. F \in [SUBSET Q -> SUBSET Q]
  OBVIOUS
<1> HIDE DEF ind, F
<1>4. ASSUME NEW X \in SUBSET Q, NEW Y \in SUBSET Q, X \subseteq Y PROVE F[X] \subseteq F[Y]
  <2>1. \A q \in Q : ind(X)[q] => ind(Y)[q]  BY <1>1, <1>4
  <2>2. \A q \in Q : G[ind(X)][q] => G[ind(Y)][q]  BY <1>1, <2>1
  <2>. QED  BY <1>2, <2>2
<1>5. PICK K \in SUBSET Q : F[K] = K
  BY <1>3, <1>4, FixedPoint
<1>6. \A q \in Q : G[ind(K)][q] <=> ind(K)[q]
  BY <1>1, <1>2, <1>5
<1>7. G[ind(K)] \in [Q -> BOOLEAN] /\ ind(K) \in [Q -> BOOLEAN]
  BY <1>1
<1>8. ind(K) = G[ind(K)]
  BY <1>6, <1>7
<1>. QED  BY <1>7, <1>8

-----------------------------------------------------------------------------
\* The values of texts.

Shaped(v, Vs) ==
    \/ v = <<"null">> \/ v \in {True, False}
    \/ v[1] \in {"int", "dec"}
    \/ v[1] = "str" /\ v = Text(v[2]) /\ v[2] \in Seq(STRING)
    \/ v[1] = "arr" /\ v[2] \in Seq(Vs)
    \/ /\ v[1] = "obj" /\ v[2] = [n \in Keys(v) |-> Get(v, n)]
       /\ IsFiniteSet(Keys(v)) /\ Keys(v) \subseteq STRING
       /\ \A n \in Keys(v) : Get(v, n) \in Vs

\* What the parts of a text decode to.
Below(t) == {Decode[p][2] : p \in {q \in Parts(t) : IsOk(Decode[q])}}

LEMMA DecodedShape ==
  ASSUME NEW t \in Texts, IsOk(Decode[t])
  PROVE  Shaped(Decode[t][2], Below(t))
<1>1. Decode[t] = DecodeWith(Decode, t)
  BY DecodeIsDefined
<1>2. CASE t[1] = "arr"
  <2> DEFINE ds == [i \in DOMAIN t[2] |-> Decode[t[2][i]]]
  <2>1. DecodeWith(Decode, t) = IF IsOk(InOrder(ds)) THEN Done(<<"arr", InOrder(ds)[2]>>) ELSE InOrder(ds)
    BY <1>2 DEF DecodeWith
  <2>2. IsOk(InOrder(ds))
    <3> HIDE DEF ds
    <3>. QED  BY <1>1, <2>1
  <2>3. t[2] \in Seq(Texts)
    BY <1>2, TextsAssumption
  <2>4. /\ \A i \in DOMAIN ds : IsOk(ds[i])
        /\ InOrder(ds) = Done([i \in DOMAIN ds |-> ds[i][2]])
    <3>1. DOMAIN ds \subseteq Nat  BY <2>3
    <3> HIDE DEF ds
    <3>. QED  BY <2>2, <3>1, AllInOrder
  <2> DEFINE v == [i \in DOMAIN t[2] |-> ds[i][2]]
  <2>5. Decode[t][2] = <<"arr", v>>
    BY <1>1, <2>1, <2>2, <2>4 DEF Done
  <2>6. ASSUME NEW i \in DOMAIN t[2] PROVE v[i] \in Below(t)
    <3>1. IsOk(Decode[t[2][i]]) /\ v[i] = Decode[t[2][i]][2]  BY <2>4
    <3>2. t[2][i] \in Parts(t)  BY <1>2 DEF Parts
    <3> HIDE DEF v
    <3>. QED  BY <3>1, <3>2 DEF Below
  <2>7. v \in Seq(Below(t))
    <3>1. DOMAIN t[2] = 1 .. Len(t[2]) /\ Len(t[2]) \in Nat  BY <2>3
    <3>2. v = [i \in 1 .. Len(t[2]) |-> v[i]]  BY <3>1
    <3> HIDE DEF v
    <3>3. v \in [1 .. Len(t[2]) -> Below(t)]  BY <2>6, <3>1, <3>2
    <3>. QED  BY <3>1, <3>3
  <2> HIDE DEF v
  <2>. QED  BY <2>5, <2>7 DEF Shaped
<1>3. CASE t[1] = "obj"
  <2> DEFINE ds == [i \in DOMAIN t[2] |-> Decode[t[2][i][2]]]
             all == InOrder(ds)
             at(n) == CHOOSE i \in DOMAIN t[2] : t[2][i][1] = n
             f == [n \in NamesIn(t[2]) |-> all[2][at(n)]]
  <2>1. DecodeWith(Decode, t) = IF IsOk(all) THEN ObjectWithoutDuplicateMembers(t[2], all[2]) ELSE all
    BY <1>3 DEF DecodeWith
  <2>2. IsOk(all)
    <3> HIDE DEF all
    <3>. QED  BY <1>1, <2>1
  <2>3. t[2] \in Seq(STRING \X Texts)
    BY <1>3, TextsAssumption
  <2>4. /\ \A i \in DOMAIN ds : IsOk(ds[i])
        /\ all = Done([i \in DOMAIN ds |-> ds[i][2]])
    <3>1. DOMAIN ds \subseteq Nat  BY <2>3
    <3> HIDE DEF ds
    <3>. QED  BY <2>2, <3>1, AllInOrder
  <2>5. Decode[t][2] = <<"obj", f>>
    <3> HIDE DEF all
    <3>1. ~IsOk(Failed("duplicate"))  BY DEF IsOk, Failed
    <3>2. Decode[t] = ObjectWithoutDuplicateMembers(t[2], all[2])  BY <1>1, <2>1, <2>2
    <3>3. Decode[t] = Done(<<"obj", f>>)  BY <3>1, <3>2 DEF ObjectWithoutDuplicateMembers
    <3> HIDE DEF f
    <3>. QED  BY <3>3 DEF Done
  <2>6. ASSUME NEW n \in NamesIn(t[2]) PROVE f[n] \in Below(t)
    <3>1. at(n) \in DOMAIN t[2]  BY DEF NamesIn
    <3> HIDE DEF at
    <3>2. ds[at(n)] = Decode[t[2][at(n)][2]] /\ at(n) \in DOMAIN ds  BY <3>1
    <3>4. f[n] = all[2][at(n)]  BY DEF f
    <3>5. all[2] = [i \in DOMAIN ds |-> ds[i][2]]
      <4> HIDE DEF all, ds
      <4>. QED  BY <2>4 DEF Done
    <3>6. IsOk(Decode[t[2][at(n)][2]]) /\ f[n] = Decode[t[2][at(n)][2]][2]
      <4> HIDE DEF all, ds, f
      <4>. QED  BY <2>4, <3>2, <3>4, <3>5
    <3>3. t[2][at(n)][2] \in Parts(t)  BY <1>3, <3>1 DEF Parts
    <3> HIDE DEF f
    <3>. QED  BY <3>3, <3>6 DEF Below
  <2>7. IsFiniteSet(NamesIn(t[2])) /\ NamesIn(t[2]) \subseteq STRING
    <3>1. DOMAIN t[2] = 1 .. Len(t[2]) /\ Len(t[2]) \in Nat  BY <2>3
    <3>2. IsFiniteSet(DOMAIN t[2])  BY <3>1, FS_Interval
    <3> DEFINE g == [i \in DOMAIN t[2] |-> t[2][i][1]]
    <3>3. g \in Surjection(DOMAIN t[2], NamesIn(t[2]))  BY DEF NamesIn, Surjection
    <3>4. IsFiniteSet(NamesIn(t[2]))
      <4> HIDE DEF g
      <4>. QED  BY <3>2, <3>3, FS_Surjection
    <3>5. \A i \in DOMAIN t[2] : t[2][i][1] \in STRING  BY <2>3
    <3>. QED  BY <3>4, <3>5 DEF NamesIn
  <2>8. f = [n \in NamesIn(t[2]) |-> f[n]] /\ DOMAIN f = NamesIn(t[2])  OBVIOUS
  <2> HIDE DEF f
  <2>. QED  BY <2>5, <2>6, <2>7, <2>8 DEF Shaped, Keys, Get
<1>4. CASE t[1] \notin {"arr", "obj"}
  <2>1. t[1] # "bad" /\ Decode[t][2] = t
    <3>1. CASE t[1] = "bad"
      <4>1. DecodeWith(Decode, t) = Failed(t[2])  BY <3>1 DEF DecodeWith
      <4>2. ~IsOk(Failed(t[2]))  BY DEF IsOk, Failed
      <4>. QED  BY <1>1, <4>1, <4>2
    <3>2. CASE t[1] # "bad"
      <4>1. DecodeWith(Decode, t) = Done(t)  BY <1>4, <3>2 DEF DecodeWith
      <4>2. Done(t)[2] = t  BY DEF Done
      <4>. QED  BY <1>1, <3>2, <4>1, <4>2
    <3>. QED  BY <3>1, <3>2
  <2>2. \/ t = <<"null">>
        \/ t \in {"bool"} \X BOOLEAN
        \/ t \in {"int", "dec"} \X Int
        \/ t \in {"str"} \X Seq(STRING)
    BY <1>4, <2>1, TextsAssumption
  <2>3. ASSUME t \in {"bool"} \X BOOLEAN PROVE t \in {True, False}
    <3>1. PICK b \in BOOLEAN : t = <<"bool", b>>  BY <2>3
    <3>2. b = TRUE \/ b = FALSE  OBVIOUS
    <3>3. CASE b = TRUE  BY <3>1, <3>3, Zenon DEF True
    <3>4. CASE b = FALSE  BY <3>1, <3>4, Zenon DEF False
    <3>. QED  BY <3>2, <3>3, <3>4
  <2>4. ASSUME t \in {"str"} \X Seq(STRING) PROVE t[1] = "str" /\ t = Text(t[2]) /\ t[2] \in Seq(STRING)
    BY <2>4 DEF Text
  <2>5. ASSUME t \in {"int", "dec"} \X Int PROVE t[1] \in {"int", "dec"}
    BY <2>5
  <2>. QED  BY <2>1, <2>2, <2>3, <2>4, <2>5 DEF Shaped
<1>. QED  BY <1>2, <1>3, <1>4

\* How deep the shallowest text is that decodes to v.
Height(v) == CHOOSE d \in {Depth(t) : t \in {u \in Texts : Decode[u] = Done(v)}} :
               \A e \in {Depth(t) : t \in {u \in Texts : Decode[u] = Done(v)}} : d <= e
Lower(v) == {u \in DecodedValues : Height(u) < Height(v)}

LEMMA OkIsDone ==
  ASSUME NEW t \in Texts, IsOk(Decode[t])
  PROVE  Decode[t] = Done(Decode[t][2])
<1>1. Decode[t] = DecodeWith(Decode, t)  BY DecodeIsDefined
<1>2. \A d, v : d = Done(v) => d = Done(d[2])  BY DEF Done
<1>3. \A c : ~IsOk(Failed(c))  BY DEF IsOk, Failed
<1>4. \A ps, vs : IsOk(ObjectWithoutDuplicateMembers(ps, vs)) => \E v : ObjectWithoutDuplicateMembers(ps, vs) = Done(v)
  BY <1>3 DEF ObjectWithoutDuplicateMembers
<1>5. \E v : Decode[t] = Done(v)
  <2>1. CASE t[1] = "arr"
    <3> DEFINE all == InOrder([i \in DOMAIN t[2] |-> Decode[t[2][i]]])
    <3>1. DecodeWith(Decode, t) = IF IsOk(all) THEN Done(<<"arr", all[2]>>) ELSE all  BY <2>1 DEF DecodeWith
    <3> HIDE DEF all
    <3>. QED  BY <1>1, <3>1
  <2>2. CASE t[1] = "obj"
    <3> DEFINE all == InOrder([i \in DOMAIN t[2] |-> Decode[t[2][i][2]]])
    <3>1. DecodeWith(Decode, t) = IF IsOk(all) THEN ObjectWithoutDuplicateMembers(t[2], all[2]) ELSE all
      BY <2>2 DEF DecodeWith
    <3> HIDE DEF all
    <3>. QED  BY <1>1, <1>4, <3>1
  <2>3. CASE t[1] = "bad"
    <3>1. DecodeWith(Decode, t) = Failed(t[2])  BY <2>3 DEF DecodeWith
    <3>. QED  BY <1>1, <1>3, <3>1
  <2>4. CASE t[1] \notin {"arr", "obj", "bad"}
    <3>1. DecodeWith(Decode, t) = Done(t)  BY <2>4 DEF DecodeWith
    <3>. QED  BY <1>1, <3>1
  <2>. QED  BY <2>1, <2>2, <2>3, <2>4
<1>. QED  BY <1>2, <1>5

LEMMA HeightIsAttained ==
  ASSUME NEW v \in DecodedValues
  PROVE  /\ Height(v) \in Nat
         /\ \E t \in Texts : Decode[t] = Done(v) /\ Depth(t) = Height(v)
         /\ \A t \in Texts : Decode[t] = Done(v) => Height(v) <= Depth(t)
<1> DEFINE T == {Depth(t) : t \in {u \in Texts : Decode[u] = Done(v)}}
<1>1. PICK t \in Texts : IsOk(Decode[t]) /\ v = Decode[t][2]
  BY DEF DecodedValues
<1>2. Depth(t) \in T
  BY <1>1, OkIsDone
<1>3. T \subseteq Nat
  BY TextsAssumption
<1>4. Height(v) = CHOOSE d \in T : \A e \in T : d <= e
  BY DEF Height
<1>5. Height(v) \in T /\ \A e \in T : Height(v) <= e
  <2> HIDE DEF T
  <2>1. \E d \in T : \A e \in T : d <= e  BY <1>2, <1>3, LeastNumber
  <2>. QED  BY <1>4, <2>1
<1>. QED  BY <1>3, <1>5

LEMMA ValueShape ==
  ASSUME NEW v \in DecodedValues
  PROVE  Shaped(v, Lower(v))
<1>1. PICK t \in Texts : Decode[t] = Done(v) /\ Depth(t) = Height(v)
  BY HeightIsAttained
<1>2. IsOk(Decode[t]) /\ Decode[t][2] = v
  BY <1>1 DEF IsOk, Done
<1>3. ASSUME NEW u \in Below(t) PROVE u \in Lower(v)
  <2>1. PICK p \in Parts(t) : IsOk(Decode[p]) /\ u = Decode[p][2]  BY DEF Below
  <2>2. p \in Texts /\ Depth(p) \in Nat /\ Depth(p) < Depth(t)  BY PartsOfText
  <2>3. u \in DecodedValues /\ Decode[p] = Done(u)  BY <2>1, <2>2, OkIsDone DEF DecodedValues
  <2>4. Height(u) <= Depth(p) /\ Height(u) \in Nat /\ Height(v) \in Nat  BY <2>2, <2>3, HeightIsAttained
  <2>. QED  BY <1>1, <2>2, <2>3, <2>4 DEF Lower
<1>4. Shaped(v, Below(t))
  BY <1>2, DecodedShape
<1>5. Below(t) \subseteq Lower(v)
  BY <1>3
<1>6. v[2] \in Seq(Below(t)) => v[2] \in Seq(Lower(v))
  BY <1>5
<1>. QED  BY <1>4, <1>5, <1>6 DEF Shaped

LEMMA ShapeByTag ==
  ASSUME NEW v, NEW Vs, Shaped(v, Vs)
  PROVE  /\ v[1] \in {"null", "bool", "int", "dec", "str", "arr", "obj"}
         /\ v[1] = "bool" => v \in {True, False}
         /\ v[1] = "str" => v = Text(v[2]) /\ v[2] \in Seq(STRING)
         /\ v[1] = "arr" => v[2] \in Seq(Vs)
         /\ v[1] = "obj" => /\ IsFiniteSet(Keys(v)) /\ Keys(v) \subseteq STRING
                            /\ \A n \in Keys(v) : Get(v, n) \in Vs
<1>1. CASE v = <<"null">>
  <2>1. v[1] = "null"  BY <1>1
  <2>. QED  BY <2>1
<1>2. CASE v \in {True, False}
  <2>1. True[1] = "bool" /\ False[1] = "bool"  BY Zenon DEF True, False
  <2>2. v[1] = "bool"  BY <1>2, <2>1
  <2>. QED  BY <1>2, <2>2
<1>3. CASE v[1] \in {"int", "dec"}
  BY <1>3
<1>4. CASE v[1] = "str" /\ v = Text(v[2]) /\ v[2] \in Seq(STRING)
  BY <1>4
<1>5. CASE v[1] = "arr" /\ v[2] \in Seq(Vs)
  BY <1>5
<1>6. CASE /\ v[1] = "obj" /\ IsFiniteSet(Keys(v)) /\ Keys(v) \subseteq STRING
           /\ \A n \in Keys(v) : Get(v, n) \in Vs
  BY <1>6
<1>. QED  BY <1>1, <1>2, <1>3, <1>4, <1>5, <1>6 DEF Shaped

LEMMA Tags ==
  ASSUME NEW v \in DecodedValues
  PROVE  v[1] \in {"null", "bool", "int", "dec", "str", "arr", "obj"}
BY ValueShape, ShapeByTag

LEMMA StringShape ==
  ASSUME NEW v \in DecodedValues, IsStr(v)
  PROVE  v = Text(v[2]) /\ v[2] \in Seq(STRING)
BY ValueShape, ShapeByTag DEF IsStr

LEMMA BooleanShape ==
  ASSUME NEW v \in DecodedValues, v[1] = "bool"
  PROVE  v \in {True, False}
BY ValueShape, ShapeByTag

LEMMA ListShape ==
  ASSUME NEW v \in DecodedValues, IsArr(v)
  PROVE  v[2] \in Seq(DecodedValues)
<1>1. v[2] \in Seq(Lower(v))
  BY ValueShape, ShapeByTag DEF IsArr
<1>2. Lower(v) \subseteq DecodedValues  BY DEF Lower
<1>. QED  BY <1>1, <1>2

LEMMA ObjectShape ==
  ASSUME NEW v \in DecodedValues, IsObj(v)
  PROVE  /\ v \in Objects /\ IsFiniteSet(Keys(v)) /\ Keys(v) \subseteq STRING
         /\ \A n \in Keys(v) : Get(v, n) \in DecodedValues /\ Height(Get(v, n)) < Height(v)
<1>1. /\ IsFiniteSet(Keys(v)) /\ Keys(v) \subseteq STRING
      /\ \A n \in Keys(v) : Get(v, n) \in Lower(v)
  BY ValueShape, ShapeByTag DEF IsObj
<1>. QED  BY <1>1 DEF Objects, Lower

LEMMA MembersShape ==
  ASSUME NEW v \in DecodedValues, IsObj(v), NEW k
  PROVE  /\ IsFiniteSet(DOMAIN Members(v, k)) /\ DOMAIN Members(v, k) \subseteq STRING
         /\ \A n \in DOMAIN Members(v, k) : Members(v, k)[n] \in DecodedValues /\ Height(Members(v, k)[n]) < Height(v)
<1>1. CASE Has(v, k) /\ IsObj(Get(v, k))
  <2> DEFINE o == Get(v, k)
  <2>1. o \in DecodedValues /\ Height(o) < Height(v)  BY <1>1, ObjectShape DEF Has
  <2>2. Members(v, k) = o[2]  BY <1>1 DEF Members
  <2>3. IsObj(o)  BY <1>1
  <2> HIDE DEF o
  <2>4. /\ IsFiniteSet(Keys(o)) /\ Keys(o) \subseteq STRING
        /\ \A n \in Keys(o) : Get(o, n) \in DecodedValues /\ Height(Get(o, n)) < Height(o)
    BY <2>1, <2>3, ObjectShape
  <2>5. ASSUME NEW n \in Keys(o) PROVE Height(Get(o, n)) < Height(v)
    <3>1. Height(o) \in Nat /\ Height(v) \in Nat /\ Height(Get(o, n)) \in Nat
      BY <2>1, <2>4, HeightIsAttained
    <3>. QED  BY <2>1, <2>4, <3>1
  <2>. QED  BY <2>2, <2>4, <2>5 DEF Keys, Get
<1>2. CASE ~(Has(v, k) /\ IsObj(Get(v, k)))
  <2>1. Members(v, k) = [n \in {} |-> n]  BY <1>2 DEF Members
  <2>. QED  BY <2>1, FS_EmptySet
<1>. QED  BY <1>1, <1>2

LEMMA InstanceShape ==
  ASSUME NEW w \in Instances
  PROVE  /\ IsStr(w) => w = Text(w[2])
         /\ IsObj(w) => w \in DecodedValues /\ w \in Objects
         /\ w[1] \in {"null", "bool", "int", "dec", "str", "arr", "obj"}
<1>1. CASE w \in DecodedValues
  BY <1>1, StringShape, Tags DEF Objects
<1>2. ASSUME NEW n, w = Str(n) PROVE IsStr(w) /\ w = Text(w[2]) /\ ~IsObj(w) /\ w[1] = "str"
  BY <1>2 DEF IsStr, IsObj, Str, Text
<1>. QED  BY <1>1, <1>2 DEF Instances

LEMMA NameIsInstance ==
  ASSUME NEW v \in Objects, NEW n \in Keys(v)
  PROVE  Str(n) \in Instances /\ IsStr(Str(n))
BY DEF Instances, Str, Text, IsStr

LEMMA ValueIsInstance ==
  ASSUME NEW v \in DecodedValues
  PROVE  v \in Instances
BY DEF Instances

-----------------------------------------------------------------------------
\* The audit.

\* The recursive calls of the audit.
PartOf(a, c, instance) == [a EXCEPT !.schema = c, !.isRoot = FALSE, !.instance = instance]
Followed(a, ref) == [a EXCEPT !.schema = Resolve(ref, a.root), !.isRoot = FALSE, !.stack = @ \union {ref}]

LEMMA PartIsAudit ==
  ASSUME NEW a \in Audits, NEW c \in DecodedValues, NEW instance \in {"none", "string"}
  PROVE  /\ PartOf(a, c, instance) \in Audits
         /\ PartOf(a, c, instance).schema = c /\ PartOf(a, c, instance).root = a.root
         /\ PartOf(a, c, instance).stack = a.stack /\ PartOf(a, c, instance).instance = instance
BY DEF Audits, PartOf

LEMMA ResolvedIsValue ==
  ASSUME NEW ref, NEW root \in Objects, Resolvable(ref, root)
  PROVE  /\ Resolve(ref, root) \in DecodedValues
         /\ \E n \in DOMAIN Members(root, "$defs") : ref = Str(n) /\ Resolve(ref, root) = Members(root, "$defs")[n]
<1>1. PICK n \in DOMAIN Members(root, "$defs") : ref = Str(n)
  BY DEF Resolvable
<1>2. Resolve(ref, root) = Members(root, "$defs")[n]
  BY <1>1 DEF Resolve, Str, Text
<1>3. root \in DecodedValues /\ IsObj(root)  BY DEF Objects
<1>. QED  BY <1>1, <1>2, <1>3, MembersShape

LEMMA FollowedIsAudit ==
  ASSUME NEW a \in Audits, NEW ref \in DecodedValues, Resolvable(ref, a.root)
  PROVE  /\ Followed(a, ref) \in Audits
         /\ Followed(a, ref).schema = Resolve(ref, a.root) /\ Followed(a, ref).root = a.root
         /\ Followed(a, ref).stack = a.stack \union {ref} /\ Followed(a, ref).instance = a.instance
<1>1. a.root \in Objects /\ a.stack \subseteq DecodedValues  BY DEF Audits
<1>2. Resolve(ref, a.root) \in DecodedValues  BY <1>1, ResolvedIsValue
<1> DEFINE c == Resolve(ref, a.root)
<1> HIDE DEF c
<1>3. c \in DecodedValues  BY <1>2 DEF c
<1>4. /\ [a EXCEPT !.schema = c, !.isRoot = FALSE, !.stack = @ \union {ref}] \in Audits
      /\ [a EXCEPT !.schema = c, !.isRoot = FALSE, !.stack = @ \union {ref}].schema = c
      /\ [a EXCEPT !.schema = c, !.isRoot = FALSE, !.stack = @ \union {ref}].root = a.root
      /\ [a EXCEPT !.schema = c, !.isRoot = FALSE, !.stack = @ \union {ref}].stack = a.stack \union {ref}
      /\ [a EXCEPT !.schema = c, !.isRoot = FALSE, !.stack = @ \union {ref}].instance = a.instance
  BY <1>3 DEF Audits
<1>. QED  BY <1>4 DEF c, Followed

\* The audit, with what it is told by its calls.
AuditWith(f, a) ==
    LET s == a.schema
        part(c, instance) == f[PartOf(a, c, instance)]
    IN
    /\ IsObj(s) /\ Keys(s) \subseteq SchemaKeys
    /\ a.isRoot \/ Keys(s) \cap RootOnlyKeys = {}
    /\ Has(s, "$schema") => Get(s, "$schema") = Dialect
    /\ \A k \in {"$id", "title"} : Has(s, k) => IsStr(Get(s, k))
    /\ IF Has(s, "$ref")
       THEN LET ref == Get(s, "$ref") IN
            /\ Keys(s) = {"$ref"} /\ IsStr(ref) /\ ref \notin a.stack /\ Resolvable(ref, a.root)
            /\ f[Followed(a, ref)]
       ELSE /\ KeywordsFit(s, a.instance)
            /\ \A k \in {"properties", "$defs"} : \A n \in DOMAIN Members(s, k) : part(Members(s, k)[n], "none")
            /\ Has(s, "propertyNames") => part(Get(s, "propertyNames"), "string")
            /\ Has(s, "additionalProperties") /\ IsObj(Get(s, "additionalProperties"))
                  => part(Get(s, "additionalProperties"), "none")

LEMMA AuditIsMonotone ==
  ASSUME NEW a \in Audits, NEW f, NEW g, \A b \in Audits : f[b] => g[b], AuditWith(f, a)
  PROVE  AuditWith(g, a)
<1> DEFINE s == a.schema
<1>2. IsObj(s) /\ s \in DecodedValues  BY DEF AuditWith, Audits
<1>3. ASSUME NEW k \in Keys(s) PROVE Get(s, k) \in DecodedValues
  BY <1>2, <1>3, ObjectShape
<1>4. ASSUME NEW k, NEW n \in DOMAIN Members(s, k) PROVE Members(s, k)[n] \in DecodedValues
  BY <1>2, MembersShape
<1>5. CASE Has(s, "$ref")
  <2>1. /\ Keys(s) = {"$ref"} /\ IsStr(Get(s, "$ref")) /\ Get(s, "$ref") \notin a.stack /\ Resolvable(Get(s, "$ref"), a.root)
        /\ f[Followed(a, Get(s, "$ref"))]
    BY <1>5 DEF AuditWith
  <2>2. Followed(a, Get(s, "$ref")) \in Audits
    <3>1. Get(s, "$ref") \in DecodedValues  BY <1>3, <1>5 DEF Has
    <3> HIDE DEF s
    <3>. QED  BY <2>1, <3>1, FollowedIsAudit
  <2>3. g[Followed(a, Get(s, "$ref"))]  BY <2>1, <2>2
  <2>. QED  BY <1>5, <2>1, <2>3 DEF AuditWith
<1>6. CASE ~Has(s, "$ref")
  <2>1. /\ KeywordsFit(s, a.instance)
        /\ \A k \in {"properties", "$defs"} : \A n \in DOMAIN Members(s, k) : f[PartOf(a, Members(s, k)[n], "none")]
        /\ Has(s, "propertyNames") => f[PartOf(a, Get(s, "propertyNames"), "string")]
        /\ Has(s, "additionalProperties") /\ IsObj(Get(s, "additionalProperties"))
               => f[PartOf(a, Get(s, "additionalProperties"), "none")]
    BY <1>6 DEF AuditWith
  <2>2. ASSUME NEW c \in DecodedValues, NEW i \in {"none", "string"}, f[PartOf(a, c, i)] PROVE g[PartOf(a, c, i)]
    BY <2>2, PartIsAudit
  <2>3. \A k \in {"properties", "$defs"} : \A n \in DOMAIN Members(s, k) : g[PartOf(a, Members(s, k)[n], "none")]
    <3> HIDE DEF s
    <3>. QED  BY <1>4, <2>1, <2>2
  <2>4. Has(s, "propertyNames") => g[PartOf(a, Get(s, "propertyNames"), "string")]
    BY <1>3, <2>1, <2>2 DEF Has
  <2>5. Has(s, "additionalProperties") /\ IsObj(Get(s, "additionalProperties"))
               => g[PartOf(a, Get(s, "additionalProperties"), "none")]
    BY <1>3, <2>1, <2>2 DEF Has
  <2>. QED  BY <1>6, <2>1, <2>3, <2>4, <2>5 DEF AuditWith
<1>. QED  BY <1>5, <1>6

LEMMA AuditIsBoolean ==
  ASSUME NEW f, NEW a
  PROVE  AuditWith(f, a) \in BOOLEAN
BY DEF AuditWith

LEMMA AuditedIsDefined == Audited = [a \in Audits |-> AuditWith(Audited, a)]
<1> DEFINE G == [f \in [Audits -> BOOLEAN] |-> [a \in Audits |-> AuditWith(f, a)]]
<1>1. G \in [[Audits -> BOOLEAN] -> [Audits -> BOOLEAN]]
  BY AuditIsBoolean
<1>2. ASSUME NEW f \in [Audits -> BOOLEAN], NEW g \in [Audits -> BOOLEAN], \A b \in Audits : f[b] => g[b]
      PROVE  \A b \in Audits : G[f][b] => G[g][b]
  BY <1>2, AuditIsMonotone
<1>3. \E f \in [Audits -> BOOLEAN] : f = G[f]
  <2> HIDE DEF G
  <2>. QED  BY <1>1, <1>2, RecursionHasSolution
<1>4. \E f : f = [a \in Audits |-> AuditWith(f, a)]
  BY <1>3
<1>. QED  BY <1>4, Zenon DEF Audited, AuditWith, PartOf, Followed

-----------------------------------------------------------------------------
\* The matcher and JSON Schema.

\* The recursive calls of both.
With(m, w, c) == [m EXCEPT !.value = w, !.schema = c]

\* What a call is asked, and what it is told, named.
MatchWith(f, m) ==
    LET v == m.value
        s == m.schema
        fits(w, c) == IsObj(c) /\ f[With(m, w, c)]
    IN
    IF Has(s, "$ref") THEN Resolvable(Get(s, "$ref"), m.root) /\ fits(v, Resolve(Get(s, "$ref"), m.root))
    ELSE
    /\ Has(s, "const") => v = Get(s, "const")
    /\ Has(s, "enum") => v \in Elements(Get(s, "enum"))
    /\ TypeOf(s) = StringType => IsStr(v)
    /\ Has(s, "pattern") => IsStr(v) /\ v[2] \in Language[Get(s, "pattern")[2]]
    /\ TypeOf(s) = ObjectType =>
          /\ IsObj(v)
          /\ Has(s, "required") => Elements(Get(s, "required")) \subseteq {Str(n) : n \in Keys(v)}
          /\ Has(s, "propertyNames") => \A n \in Keys(v) : fits(Str(n), Get(s, "propertyNames"))
          /\ \A n \in Keys(v) :
                IF n \in DOMAIN Members(s, "properties") THEN fits(Get(v, n), Members(s, "properties")[n])
                ELSE Has(s, "additionalProperties") =>
                       /\ Get(s, "additionalProperties") # False
                       /\ IsObj(Get(s, "additionalProperties")) => fits(Get(v, n), Get(s, "additionalProperties"))
ValidWith(f, m) ==
    LET v == m.value
        s == m.schema
        named == Members(s, "properties")
    IN
    IF ~IsObj(s) THEN s = True
    ELSE
    /\ Has(s, "$ref") => Resolvable(Get(s, "$ref"), m.root) /\ f[With(m, v, Resolve(Get(s, "$ref"), m.root))]
    /\ Has(s, "type") => Get(s, "type") = Str(CASE IsObj(v) -> "object" [] IsStr(v) -> "string" [] OTHER -> v[1])
    /\ Has(s, "const") => v = Get(s, "const")
    /\ Has(s, "enum") => v \in Elements(Get(s, "enum"))
    /\ Has(s, "pattern") /\ IsStr(v) => v[2] \in Language[Get(s, "pattern")[2]]
    /\ IsObj(v) =>
          /\ Has(s, "required") => \A x \in Elements(Get(s, "required")) : \E n \in Keys(v) : x = Str(n)
          /\ Has(s, "propertyNames") => \A n \in Keys(v) : f[With(m, Str(n), Get(s, "propertyNames"))]
          /\ \A n \in Keys(v) \cap DOMAIN named : f[With(m, Get(v, n), named[n])]
          /\ Has(s, "additionalProperties") =>
                \A n \in Keys(v) \ DOMAIN named : f[With(m, Get(v, n), Get(s, "additionalProperties"))]

LEMMA WithIsMatching ==
  ASSUME NEW m \in Matchings, NEW w \in Instances, NEW c \in DecodedValues, IsObj(c)
  PROVE  With(m, w, c) \in Matchings
BY DEF With, Matchings, Objects

LEMMA WithIsValidation ==
  ASSUME NEW m \in Validations, NEW w \in Instances, NEW c \in DecodedValues
  PROVE  With(m, w, c) \in Validations
BY DEF With, Validations

LEMMA WithFields ==
  ASSUME NEW V, NEW S, NEW R, NEW m \in [value : V, schema : S, root : R], NEW w, NEW c
  PROVE  With(m, w, c) = [value |-> w, schema |-> c, root |-> m.root]
<1>1. With(m, w, c) \in [value : {w}, schema : {c}, root : {m.root}]  BY DEF With
<1>. QED  BY <1>1

\* What the schemas and values of the calls are.
LEMMA SchemaParts ==
  ASSUME NEW s \in Objects
  PROVE  /\ \A k \in Keys(s) : Get(s, k) \in DecodedValues
         /\ \A k : \A n \in DOMAIN Members(s, k) : Members(s, k)[n] \in DecodedValues
<1>1. s \in DecodedValues /\ IsObj(s)  BY DEF Objects
<1>. QED  BY <1>1, ObjectShape, MembersShape

LEMMA ValueParts ==
  ASSUME NEW v \in Instances, IsObj(v)
  PROVE  \A n \in Keys(v) : Get(v, n) \in Instances /\ Str(n) \in Instances /\ IsStr(Str(n))
<1>1. v \in Objects  BY InstanceShape
<1>. QED  BY <1>1, SchemaParts, ValueIsInstance, NameIsInstance

LEMMA MatchIsMonotone ==
  ASSUME NEW m \in Matchings, NEW f, NEW g, \A b \in Matchings : f[b] => g[b], MatchWith(f, m)
  PROVE  MatchWith(g, m)
<1> DEFINE v == m.value
           s == m.schema
           fits(h, w, c) == IsObj(c) /\ h[With(m, w, c)]
<1>1. MatchWith(f, m)  OBVIOUS
<1>2. v \in Instances /\ s \in Objects /\ m.root \in Objects  BY DEF Matchings
<1>3. ASSUME NEW w \in Instances, NEW c \in DecodedValues, fits(f, w, c) PROVE fits(g, w, c)
  BY <1>3, WithIsMatching
<1>4. MatchWith(g, m)
  <2>1. CASE Has(s, "$ref")
    <3>1. Resolvable(Get(s, "$ref"), m.root) /\ fits(f, v, Resolve(Get(s, "$ref"), m.root))
      BY <1>1, <2>1 DEF MatchWith
    <3>2. Resolve(Get(s, "$ref"), m.root) \in DecodedValues  BY <1>2, <3>1, ResolvedIsValue
    <3>3. fits(g, v, Resolve(Get(s, "$ref"), m.root))
      <4> HIDE DEF fits, v
      <4>. QED  BY <1>2, <1>3, <3>1, <3>2
    <3>. QED  BY <2>1, <3>1, <3>3 DEF MatchWith
  <2>2. CASE ~Has(s, "$ref")
    <3>1. /\ Has(s, "const") => v = Get(s, "const")
          /\ Has(s, "enum") => v \in Elements(Get(s, "enum"))
          /\ TypeOf(s) = StringType => IsStr(v)
          /\ Has(s, "pattern") => IsStr(v) /\ v[2] \in Language[Get(s, "pattern")[2]]
      BY <1>1, <2>2 DEF MatchWith
    <3>2. ASSUME TypeOf(s) = ObjectType
          PROVE  /\ IsObj(v)
                 /\ Has(s, "required") => Elements(Get(s, "required")) \subseteq {Str(n) : n \in Keys(v)}
                 /\ Has(s, "propertyNames") => \A n \in Keys(v) : fits(f, Str(n), Get(s, "propertyNames"))
                 /\ \A n \in Keys(v) :
                       IF n \in DOMAIN Members(s, "properties") THEN fits(f, Get(v, n), Members(s, "properties")[n])
                       ELSE Has(s, "additionalProperties") =>
                              /\ Get(s, "additionalProperties") # False
                              /\ IsObj(Get(s, "additionalProperties")) => fits(f, Get(v, n), Get(s, "additionalProperties"))
      BY <1>1, <2>2, <3>2 DEF MatchWith
    <3>3. ASSUME TypeOf(s) = ObjectType
          PROVE  /\ Has(s, "propertyNames") => \A n \in Keys(v) : fits(g, Str(n), Get(s, "propertyNames"))
                 /\ \A n \in Keys(v) :
                       IF n \in DOMAIN Members(s, "properties") THEN fits(g, Get(v, n), Members(s, "properties")[n])
                       ELSE Has(s, "additionalProperties") =>
                              /\ Get(s, "additionalProperties") # False
                              /\ IsObj(Get(s, "additionalProperties")) => fits(g, Get(v, n), Get(s, "additionalProperties"))
      <4>1. \A n \in Keys(v) : Get(v, n) \in Instances /\ Str(n) \in Instances  BY <1>2, <3>2, <3>3, ValueParts
      <4>2. \A n \in DOMAIN Members(s, "properties") : Members(s, "properties")[n] \in DecodedValues  BY <1>2, SchemaParts
      <4>3. \A k : Has(s, k) => Get(s, k) \in DecodedValues  BY <1>2, SchemaParts DEF Has
      <4> HIDE DEF fits, v, s
      <4>. QED  BY <1>3, <3>2, <3>3, <4>1, <4>2, <4>3
    <3>. QED  BY <2>2, <3>1, <3>2, <3>3 DEF MatchWith
  <2>. QED  BY <2>1, <2>2
<1>. QED  BY <1>4

LEMMA ValidIsMonotone ==
  ASSUME NEW m \in Validations, NEW f, NEW g, \A b \in Validations : f[b] => g[b], ValidWith(f, m)
  PROVE  ValidWith(g, m)
<1> DEFINE v == m.value
           s == m.schema
           named == Members(s, "properties")
           valid(h, w, c) == h[With(m, w, c)]
<1>1. ValidWith(f, m)  OBVIOUS
<1>2. v \in Instances /\ s \in DecodedValues /\ m.root \in Objects  BY DEF Validations
<1>3. ASSUME NEW w \in Instances, NEW c \in DecodedValues, valid(f, w, c) PROVE valid(g, w, c)
  BY <1>3, WithIsValidation
<1>4. ValidWith(g, m)
  <2>1. CASE ~IsObj(s)
    BY <1>1, <2>1 DEF ValidWith
  <2>2. CASE IsObj(s)
    <3>1. s \in Objects  BY <1>2, <2>2 DEF Objects
    <3>2. \A k : Has(s, k) => Get(s, k) \in DecodedValues  BY <3>1, SchemaParts DEF Has
    <3>3. \A n \in DOMAIN named : named[n] \in DecodedValues  BY <3>1, SchemaParts
    <3>4. Has(s, "$ref") => Resolvable(Get(s, "$ref"), m.root) /\ valid(f, v, Resolve(Get(s, "$ref"), m.root))
      BY <1>1, <2>2 DEF ValidWith
    <3>5. Has(s, "$ref") => valid(g, v, Resolve(Get(s, "$ref"), m.root))
      <4>1. Has(s, "$ref") => Resolve(Get(s, "$ref"), m.root) \in DecodedValues  BY <1>2, <3>4, ResolvedIsValue
      <4> HIDE DEF valid, v
      <4>. QED  BY <1>2, <1>3, <3>4, <4>1
    <3>6. ASSUME IsObj(v)
          PROVE  /\ Has(s, "propertyNames") => \A n \in Keys(v) : valid(f, Str(n), Get(s, "propertyNames"))
                 /\ \A n \in Keys(v) \cap DOMAIN named : valid(f, Get(v, n), named[n])
                 /\ Has(s, "additionalProperties") =>
                      \A n \in Keys(v) \ DOMAIN named : valid(f, Get(v, n), Get(s, "additionalProperties"))
      BY <1>1, <2>2, <3>6 DEF ValidWith
    <3>7. ASSUME IsObj(v)
          PROVE  /\ Has(s, "propertyNames") => \A n \in Keys(v) : valid(g, Str(n), Get(s, "propertyNames"))
                 /\ \A n \in Keys(v) \cap DOMAIN named : valid(g, Get(v, n), named[n])
                 /\ Has(s, "additionalProperties") =>
                      \A n \in Keys(v) \ DOMAIN named : valid(g, Get(v, n), Get(s, "additionalProperties"))
      <4>1. \A n \in Keys(v) : Get(v, n) \in Instances /\ Str(n) \in Instances  BY <1>2, <3>7, ValueParts
      <4> HIDE DEF valid, v, s, named
      <4>. QED  BY <1>3, <3>2, <3>3, <3>6, <3>7, <4>1
    <3>. QED  BY <1>1, <2>2, <3>4, <3>5, <3>7 DEF ValidWith
  <2>. QED  BY <2>1, <2>2
<1>. QED  BY <1>4

LEMMA MatchIsBoolean == ASSUME NEW f, NEW m PROVE MatchWith(f, m) \in BOOLEAN
BY DEF MatchWith
LEMMA ValidIsBoolean == ASSUME NEW f, NEW m PROVE ValidWith(f, m) \in BOOLEAN
BY DEF ValidWith

LEMMA MatchesIsDefined == Matches = [m \in Matchings |-> MatchWith(Matches, m)]
<1> DEFINE G == [f \in [Matchings -> BOOLEAN] |-> [m \in Matchings |-> MatchWith(f, m)]]
<1>1. G \in [[Matchings -> BOOLEAN] -> [Matchings -> BOOLEAN]]
  BY MatchIsBoolean
<1>2. ASSUME NEW f \in [Matchings -> BOOLEAN], NEW g \in [Matchings -> BOOLEAN], \A b \in Matchings : f[b] => g[b]
      PROVE  \A b \in Matchings : G[f][b] => G[g][b]
  BY <1>2, MatchIsMonotone
<1>3. \E f \in [Matchings -> BOOLEAN] : f = G[f]
  <2> HIDE DEF G
  <2>. QED  BY <1>1, <1>2, RecursionHasSolution
<1>4. \E f : f = [m \in Matchings |-> MatchWith(f, m)]
  BY <1>3
<1>. QED  BY <1>4, Zenon DEF Matches, MatchWith, With

LEMMA ValidIsDefined == Valid = [m \in Validations |-> ValidWith(Valid, m)]
<1> DEFINE G == [f \in [Validations -> BOOLEAN] |-> [m \in Validations |-> ValidWith(f, m)]]
<1>1. G \in [[Validations -> BOOLEAN] -> [Validations -> BOOLEAN]]
  BY ValidIsBoolean
<1>2. ASSUME NEW f \in [Validations -> BOOLEAN], NEW g \in [Validations -> BOOLEAN], \A b \in Validations : f[b] => g[b]
      PROVE  \A b \in Validations : G[f][b] => G[g][b]
  BY <1>2, ValidIsMonotone
<1>3. \E f \in [Validations -> BOOLEAN] : f = G[f]
  <2> HIDE DEF G
  <2>. QED  BY <1>1, <1>2, RecursionHasSolution
<1>4. \E f : f = [m \in Validations |-> ValidWith(f, m)]
  BY <1>3
<1>. QED  BY <1>4, Zenon DEF Valid, ValidWith, With

-----------------------------------------------------------------------------
\* That the audit is sound.

\* One of the least by two measures, the first of which counts more.
LEMMA LeastPair ==
  ASSUME NEW B, B # {}, NEW n, NEW d, \A b \in B : n[b] \in Nat /\ d[b] \in Nat
  PROVE  \E b \in B : \A c \in B : ~(n[c] < n[b] \/ (n[c] = n[b] /\ d[c] < d[b]))
<1> DEFINE N == {n[b] : b \in B}
<1>1. PICK x \in N : \A y \in N : x <= y
  <2>1. N \subseteq Nat /\ N # {}  OBVIOUS
  <2> HIDE DEF N
  <2>. QED  BY <2>1, LeastNumber
<1> DEFINE D == {d[b] : b \in {c \in B : n[c] = x}}
<1>2. PICK z \in D : \A y \in D : z <= y
  <2>1. D \subseteq Nat /\ D # {}  OBVIOUS
  <2> HIDE DEF D
  <2>. QED  BY <2>1, LeastNumber
<1>3. PICK b \in B : n[b] = x /\ d[b] = z
  BY <1>2
<1>4. ASSUME NEW c \in B PROVE ~(n[c] < n[b] \/ (n[c] = n[b] /\ d[c] < d[b]))
  <2>1. n[b] <= n[c] /\ n[b] \in Nat /\ n[c] \in Nat  BY <1>1, <1>3
  <2>2. n[c] = n[b] => d[b] <= d[c] /\ d[b] \in Nat /\ d[c] \in Nat  BY <1>2, <1>3
  <2>. QED  BY <2>1, <2>2
<1>. QED  BY <1>4

Definitions(root) == {Str(n) : n \in DOMAIN Members(root, "$defs")}
Left(a) == Cardinality(Definitions(a.root) \ a.stack)
Asked(v, a) == [value |-> v, schema |-> a.schema, root |-> a.root]
ReadAlike(a) == \A v \in Instances : (a.instance = "string" => IsStr(v)) => (Matches[Asked(v, a)] <=> Valid[Asked(v, a)])

LEMMA DefinitionsAreFinite ==
  ASSUME NEW root \in Objects
  PROVE  IsFiniteSet(Definitions(root))
<1> DEFINE S == DOMAIN Members(root, "$defs")
           g == [n \in S |-> Str(n)]
<1>1. root \in DecodedValues /\ IsObj(root)  BY DEF Objects
<1>2. IsFiniteSet(S)  BY <1>1, MembersShape
<1>3. g \in Surjection(S, Definitions(root))  BY DEF Surjection, Definitions
<1> HIDE DEF g, S
<1>. QED  BY <1>2, <1>3, FS_Surjection

LEMMA LeftIsCount ==
  ASSUME NEW a \in Audits
  PROVE  Left(a) \in Nat /\ IsFiniteSet(Definitions(a.root) \ a.stack)
<1>1. IsFiniteSet(Definitions(a.root))  BY DefinitionsAreFinite DEF Audits
<1>2. IsFiniteSet(Definitions(a.root) \ a.stack)  BY <1>1, FS_Difference
<1>. QED  BY <1>2, FS_CardinalityType DEF Left

\* A reference that the audit follows leaves one less to follow.
LEMMA FollowingShrinks ==
  ASSUME NEW a \in Audits, NEW ref \in DecodedValues, Resolvable(ref, a.root), ref \notin a.stack
  PROVE  Left(Followed(a, ref)) < Left(a)
<1> DEFINE T == Definitions(a.root) \ a.stack
           b == Followed(a, ref)
<1>1. b \in Audits /\ b.root = a.root /\ b.stack = a.stack \union {ref}  BY FollowedIsAudit
<1>2. ref \in T  BY DEF Resolvable, Definitions
<1>3. Definitions(b.root) \ b.stack = T \ {ref}  BY <1>1
<1>4. IsFiniteSet(T)  BY LeftIsCount
<1> HIDE DEF T
<1>5. Cardinality(T \ {ref}) = Cardinality(T) - 1 /\ Cardinality(T) \in Nat
  BY <1>2, <1>4, FS_RemoveElement, FS_CardinalityType
<1> HIDE DEF b
<1>6. Left(b) = Cardinality(T \ {ref}) /\ Left(a) = Cardinality(T)
  BY <1>3 DEF Left, T
<1>. QED  BY <1>5, <1>6 DEF b

LEMMA AskedParts ==
  ASSUME NEW a \in Audits, IsObj(a.schema), NEW v \in Instances
  PROVE  /\ Asked(v, a) \in Matchings /\ Asked(v, a) \in Validations
         /\ Asked(v, a).value = v /\ Asked(v, a).schema = a.schema /\ Asked(v, a).root = a.root
         /\ \A w, c : With(Asked(v, a), w, c) = [value |-> w, schema |-> c, root |-> a.root]
<1>1. a.schema \in Objects /\ a.root \in Objects /\ a.schema \in DecodedValues  BY DEF Audits, Objects
<1>2. /\ Asked(v, a) \in [value : Instances, schema : Objects, root : Objects]
      /\ Asked(v, a).value = v /\ Asked(v, a).schema = a.schema /\ Asked(v, a).root = a.root
  BY <1>1 DEF Asked
<1>3. \A w, c : With(Asked(v, a), w, c) = [value |-> w, schema |-> c, root |-> a.root]
  BY <1>2, WithFields
<1>. QED  BY <1>1, <1>2, <1>3 DEF Matchings, Validations

LEMMA AuditedParts ==
  ASSUME NEW a \in Audits, Audited[a]
  PROVE  AuditWith(Audited, a) /\ IsObj(a.schema) /\ a.schema \in Objects
<1>1. AuditWith(Audited, a)  BY AuditedIsDefined
<1>. QED  BY <1>1 DEF AuditWith, Audits, Objects

\* A schema that is a reference.
LEMMA ReferenceReadAlike ==
  ASSUME NEW a \in Audits, Audited[a], Has(a.schema, "$ref"),
         \A b \in Audits : Audited[b] /\ Left(b) < Left(a) => ReadAlike(b)
  PROVE  ReadAlike(a)
<1> DEFINE s == a.schema
           ref == Get(s, "$ref")
           b == Followed(a, ref)
           c == Resolve(ref, a.root)
<1>1. IsObj(s) /\ s \in DecodedValues  BY AuditedParts DEF Objects
<1>2. Keys(s) = {"$ref"} /\ IsStr(ref) /\ ref \notin a.stack /\ Resolvable(ref, a.root) /\ Audited[b]
  BY AuditedParts DEF AuditWith
<1>3. ref \in DecodedValues  BY <1>1, ObjectShape DEF Has
<1>4. /\ b \in Audits /\ b.schema = c /\ b.root = a.root /\ b.instance = a.instance
      /\ Left(b) < Left(a) /\ c \in DecodedValues
  <2>1. a.root \in Objects  BY DEF Audits
  <2> HIDE DEF s, ref
  <2>. QED  BY <1>2, <1>3, <2>1, FollowedIsAudit, FollowingShrinks, ResolvedIsValue
<1>5. IsObj(c)
  <2> HIDE DEF b, c
  <2>. QED  BY <1>2, <1>4, AuditedParts
<1>6. ReadAlike(b)
  <2> HIDE DEF b
  <2>. QED  BY <1>2, <1>4
<1>7. ASSUME NEW v \in Instances, a.instance = "string" => IsStr(v)
      PROVE  Matches[Asked(v, a)] <=> Valid[Asked(v, a)]
  <2> DEFINE m == Asked(v, a)
  <2>1. /\ m \in Matchings /\ m \in Validations /\ m.value = v /\ m.schema = s /\ m.root = a.root
        /\ With(m, v, c) = Asked(v, b)
    <3>1. With(m, v, c) = [value |-> v, schema |-> c, root |-> a.root]
      BY <1>1, AskedParts
    <3>2. Asked(v, b) = [value |-> v, schema |-> c, root |-> a.root]
      <4> HIDE DEF b, c
      <4>. QED  BY <1>4 DEF Asked
    <3>. QED  BY <1>1, <3>1, <3>2, AskedParts
  <2>2. (Matches[m] <=> MatchWith(Matches, m)) /\ (Valid[m] <=> ValidWith(Valid, m))
    <3> HIDE DEF m
    <3>. QED  BY <2>1, MatchesIsDefined, ValidIsDefined
  <2> HIDE DEF m, b, c, s
  <2>3. MatchWith(Matches, m) <=> Matches[Asked(v, b)]
    BY <1>2, <1>5, <2>1 DEF MatchWith, c, s
  <2>4. ValidWith(Valid, m) <=> Valid[Asked(v, b)]
    BY <1>1, <1>2, <2>1 DEF ValidWith, Has, Members, c, s
  <2>5. Matches[Asked(v, b)] <=> Valid[Asked(v, b)]
    BY <1>4, <1>6, <1>7 DEF ReadAlike
  <2>6. MatchWith(Matches, m) <=> ValidWith(Valid, m)  BY <2>3, <2>4, <2>5
  <2>. QED  BY <2>2, <2>6 DEF m
<1>. QED  BY <1>7 DEF ReadAlike

\* A part of a schema that the audit has read is an object, and of any value of
\* its place both say the same.
LEMMA PartReadAlike ==
  ASSUME NEW a \in Audits, IsObj(a.schema), NEW v \in Instances,
         NEW c \in DecodedValues, NEW i \in {"none", "string"}, Audited[PartOf(a, c, i)],
         Height(c) < Height(a.schema),
         \A b \in Audits : Audited[b] /\ Left(b) = Left(a) /\ Height(b.schema) < Height(a.schema) => ReadAlike(b),
         NEW w \in Instances, i = "string" => IsStr(w)
  PROVE  /\ IsObj(c)
         /\ Matches[With(Asked(v, a), w, c)] <=> Valid[With(Asked(v, a), w, c)]
<1> DEFINE b == PartOf(a, c, i)
<1>1. b \in Audits /\ b.schema = c /\ b.root = a.root /\ b.stack = a.stack /\ b.instance = i
  BY PartIsAudit
<1>2. Audited[b]  OBVIOUS
<1> HIDE DEF b
<1>3. IsObj(c)  BY <1>1, <1>2, AuditedParts
<1>4. Left(b) = Left(a)  BY <1>1 DEF Left
<1>5. ReadAlike(b)  BY <1>1, <1>2, <1>4
<1>6. With(Asked(v, a), w, c) = Asked(w, b)
  <2>1. With(Asked(v, a), w, c) = [value |-> w, schema |-> c, root |-> a.root]  BY AskedParts
  <2>. QED  BY <1>1, <2>1 DEF Asked
<1>. QED  BY <1>1, <1>3, <1>5, <1>6 DEF ReadAlike

\* Of an object, a schema of type object says to both the same.
LEMMA ObjectReadAlike ==
  ASSUME NEW a \in Audits, Audited[a], ~Has(a.schema, "$ref"),
         \A b \in Audits : Audited[b] /\ Left(b) = Left(a) /\ Height(b.schema) < Height(a.schema) => ReadAlike(b),
         NEW v \in Instances, IsObj(v)
  PROVE  LET s == a.schema
             m == Asked(v, a)
             named == Members(s, "properties")
             fits(w, c) == IsObj(c) /\ Matches[With(m, w, c)]
             valid(w, c) == Valid[With(m, w, c)]
         IN
         /\ Has(s, "propertyNames") => \A n \in Keys(v) : fits(Str(n), Get(s, "propertyNames")) <=> valid(Str(n), Get(s, "propertyNames"))
         /\ \A n \in Keys(v) \cap DOMAIN named : fits(Get(v, n), named[n]) <=> valid(Get(v, n), named[n])
         /\ Has(s, "additionalProperties") =>
              \A n \in Keys(v) \ DOMAIN named :
                 (/\ Get(s, "additionalProperties") # False
                  /\ IsObj(Get(s, "additionalProperties")) => fits(Get(v, n), Get(s, "additionalProperties")))
                 <=> valid(Get(v, n), Get(s, "additionalProperties"))
<1> DEFINE s == a.schema
           m == Asked(v, a)
           named == Members(s, "properties")
           fits(w, c) == IsObj(c) /\ Matches[With(m, w, c)]
           valid(w, c) == Valid[With(m, w, c)]
<1>1. IsObj(s) /\ s \in DecodedValues /\ s \in Objects  BY AuditedParts DEF Objects
<1>2. /\ KeywordsFit(s, a.instance)
      /\ \A k \in {"properties", "$defs"} : \A n \in DOMAIN Members(s, k) : Audited[PartOf(a, Members(s, k)[n], "none")]
      /\ Has(s, "propertyNames") => Audited[PartOf(a, Get(s, "propertyNames"), "string")]
      /\ Has(s, "additionalProperties") /\ IsObj(Get(s, "additionalProperties"))
            => Audited[PartOf(a, Get(s, "additionalProperties"), "none")]
  BY AuditedParts DEF AuditWith
<1>3. \A n \in Keys(v) : Get(v, n) \in Instances /\ Str(n) \in Instances /\ IsStr(Str(n))
  BY ValueParts
<1>4. \A k : Has(s, k) => Get(s, k) \in DecodedValues /\ Height(Get(s, k)) < Height(s)
  BY <1>1, ObjectShape DEF Has
<1>5. \A n \in DOMAIN named : named[n] \in DecodedValues /\ Height(named[n]) < Height(s)
  BY <1>1, MembersShape
<1>6. ASSUME NEW c \in DecodedValues, Height(c) < Height(s), NEW i \in {"none", "string"}, Audited[PartOf(a, c, i)],
             NEW w \in Instances, i = "string" => IsStr(w)
      PROVE  IsObj(c) /\ (fits(w, c) <=> valid(w, c))
  BY <1>1, <1>6, PartReadAlike
<1> HIDE DEF fits, valid, m
<1>7. Has(s, "propertyNames") => \A n \in Keys(v) : fits(Str(n), Get(s, "propertyNames")) <=> valid(Str(n), Get(s, "propertyNames"))
  BY <1>2, <1>3, <1>4, <1>6
<1>8. \A n \in Keys(v) \cap DOMAIN named : fits(Get(v, n), named[n]) <=> valid(Get(v, n), named[n])
  BY <1>2, <1>3, <1>5, <1>6
<1>9. ASSUME Has(s, "additionalProperties"), NEW n \in Keys(v)
      PROVE  (/\ Get(s, "additionalProperties") # False
              /\ IsObj(Get(s, "additionalProperties")) => fits(Get(v, n), Get(s, "additionalProperties")))
             <=> valid(Get(v, n), Get(s, "additionalProperties"))
  <2> DEFINE c == Get(s, "additionalProperties")
  <2>1. c \in DecodedValues /\ Height(c) < Height(s) /\ c[1] \in {"bool", "obj"}
    BY <1>2, <1>4, <1>9 DEF KeywordsFit
  <2>2. CASE IsObj(c)
    <3>1. c # False
      <4>1. False[1] = "bool"  BY Zenon DEF False
      <4>. QED  BY <2>2, <4>1 DEF IsObj
    <3>2. Audited[PartOf(a, c, "none")]  BY <1>2, <1>9, <2>2
    <3> HIDE DEF c
    <3>3. fits(Get(v, n), c) <=> valid(Get(v, n), c)  BY <1>3, <1>6, <1>9, <2>1, <3>2
    <3>. QED  BY <2>2, <3>1, <3>3 DEF c
  <2>3. CASE ~IsObj(c)
    <3>1. c \in {True, False}  BY <2>1, <2>3, BooleanShape DEF IsObj
    <3>2. True # False
      <4>1. True[2] = TRUE /\ False[2] = FALSE  BY Zenon DEF True, False
      <4>. QED  BY <4>1, Zenon
    <3> HIDE DEF c
    <3>3. valid(Get(v, n), c) <=> c = True
      <4> DEFINE q == With(m, Get(v, n), c)
      <4>1. q = [value |-> Get(v, n), schema |-> c, root |-> a.root]
        BY <1>1, AskedParts DEF m
      <4>2. q \in Validations /\ q.schema = c
        <5>1. a.root \in Objects  BY DEF Audits
        <5>2. Get(v, n) \in Instances  BY <1>3, <1>9
        <5> HIDE DEF q
        <5>. QED  BY <2>1, <4>1, <5>1, <5>2 DEF Validations
      <4> HIDE DEF q
      <4>3. Valid[q] <=> ValidWith(Valid, q)  BY <4>2, ValidIsDefined
      <4>4. ValidWith(Valid, q) <=> c = True  BY <2>3, <4>2 DEF ValidWith
      <4>. QED  BY <4>3, <4>4 DEF q, valid
    <3>. QED  BY <2>3, <3>1, <3>2, <3>3 DEF c
  <2>. QED  BY <2>2, <2>3
<1>. QED  BY <1>7, <1>8, <1>9 DEF fits, valid, m

\* What a keyword that the audit has read says of the type of a value.
LEMMA TypeReadAlike ==
  ASSUME NEW s, NEW v \in Instances, Has(s, "type") => Get(s, "type") \in {ObjectType, StringType}
  PROVE  /\ (Has(s, "type") => Get(s, "type") = Str(CASE IsObj(v) -> "object" [] IsStr(v) -> "string" [] OTHER -> v[1]))
              <=> (TypeOf(s) = StringType => IsStr(v)) /\ (TypeOf(s) = ObjectType => IsObj(v))
         /\ Has(s, "type") => TypeOf(s) = Get(s, "type")
         /\ ~Has(s, "type") => TypeOf(s) \notin {ObjectType, StringType}
<1>1. \A n1, n2 : Str(n1) = Str(n2) => n1 = n2  BY DEF Str, Text
<1>2. ~Has(s, "type") => TypeOf(s) \notin {ObjectType, StringType}
  <2>1. ASSUME NEW n PROVE <<"null">> # Str(n)
    <3>1. <<"null">>[1] = "null" /\ Str(n)[1] = "str"  BY DEF Str, Text
    <3>. QED  BY <3>1
  <2>. QED  BY <2>1 DEF TypeOf, ObjectType, StringType
<1>3. v[1] \notin {"object", "string"} /\ ~(IsObj(v) /\ IsStr(v))
  BY InstanceShape DEF IsObj, IsStr
<1>4. CASE ~Has(s, "type")  BY <1>2, <1>4
<1>5. CASE Has(s, "type") /\ Get(s, "type") = ObjectType
  <2>1. TypeOf(s) = ObjectType /\ ObjectType # StringType  BY <1>1, <1>5 DEF TypeOf, ObjectType, StringType
  <2>2. Str("object") = Str(CASE IsObj(v) -> "object" [] IsStr(v) -> "string" [] OTHER -> v[1]) <=> IsObj(v)
    BY <1>1, <1>3
  <2>. QED  BY <1>5, <2>1, <2>2 DEF ObjectType
<1>6. CASE Has(s, "type") /\ Get(s, "type") = StringType
  <2>1. TypeOf(s) = StringType /\ ObjectType # StringType  BY <1>1, <1>6 DEF TypeOf, ObjectType, StringType
  <2>2. Str("string") = Str(CASE IsObj(v) -> "object" [] IsStr(v) -> "string" [] OTHER -> v[1]) <=> IsStr(v)
    BY <1>1, <1>3
  <2>. QED  BY <1>6, <2>1, <2>2 DEF StringType
<1>. QED  BY <1>4, <1>5, <1>6

\* A schema that is no reference.
LEMMA PlainReadAlike ==
  ASSUME NEW a \in Audits, Audited[a], ~Has(a.schema, "$ref"),
         \A b \in Audits : Audited[b] /\ Left(b) = Left(a) /\ Height(b.schema) < Height(a.schema) => ReadAlike(b)
  PROVE  ReadAlike(a)
<1> DEFINE s == a.schema
           named == Members(s, "properties")
<1>1. IsObj(s) /\ KeywordsFit(s, a.instance)
  BY AuditedParts DEF AuditWith
<1>2. SUFFICES ASSUME NEW v \in Instances, a.instance = "string" => IsStr(v)
               PROVE  Matches[Asked(v, a)] <=> Valid[Asked(v, a)]
  BY DEF ReadAlike
<1> DEFINE m == Asked(v, a)
           fits(w, c) == IsObj(c) /\ Matches[With(m, w, c)]
           valid(w, c) == Valid[With(m, w, c)]
<1>3. /\ m \in Matchings /\ m \in Validations /\ m.value = v /\ m.schema = s
      /\ (Matches[m] <=> MatchWith(Matches, m)) /\ (Valid[m] <=> ValidWith(Valid, m))
  <2>1. m \in Matchings /\ m \in Validations /\ m.value = v /\ m.schema = s  BY <1>1, AskedParts
  <2> HIDE DEF m
  <2>. QED  BY <2>1, MatchesIsDefined, ValidIsDefined
<1> DEFINE Objectively ==
             /\ Has(s, "required") => Elements(Get(s, "required")) \subseteq {Str(n) : n \in Keys(v)}
             /\ Has(s, "propertyNames") => \A n \in Keys(v) : fits(Str(n), Get(s, "propertyNames"))
             /\ \A n \in Keys(v) :
                   IF n \in DOMAIN named THEN fits(Get(v, n), named[n])
                   ELSE Has(s, "additionalProperties") =>
                          /\ Get(s, "additionalProperties") # False
                          /\ IsObj(Get(s, "additionalProperties")) => fits(Get(v, n), Get(s, "additionalProperties"))
           Constrained ==
             /\ Has(s, "required") => \A x \in Elements(Get(s, "required")) : \E n \in Keys(v) : x = Str(n)
             /\ Has(s, "propertyNames") => \A n \in Keys(v) : valid(Str(n), Get(s, "propertyNames"))
             /\ \A n \in Keys(v) \cap DOMAIN named : valid(Get(v, n), named[n])
             /\ Has(s, "additionalProperties") =>
                   \A n \in Keys(v) \ DOMAIN named : valid(Get(v, n), Get(s, "additionalProperties"))
           Typed == Has(s, "type") => Get(s, "type") = Str(CASE IsObj(v) -> "object" [] IsStr(v) -> "string" [] OTHER -> v[1])
           Listed == /\ Has(s, "const") => v = Get(s, "const")
                     /\ Has(s, "enum") => v \in Elements(Get(s, "enum"))
           Fitting == v[2] \in Language[Get(s, "pattern")[2]]
<1>4. MatchWith(Matches, m) <=>
        /\ Listed
        /\ TypeOf(s) = StringType => IsStr(v)
        /\ Has(s, "pattern") => IsStr(v) /\ Fitting
        /\ TypeOf(s) = ObjectType => IsObj(v) /\ Objectively
  <2> HIDE DEF m
  <2>. QED  BY <1>3 DEF MatchWith
<1>5. ValidWith(Valid, m) <=>
        /\ Typed /\ Listed
        /\ Has(s, "pattern") /\ IsStr(v) => Fitting
        /\ IsObj(v) => Constrained
  <2> HIDE DEF m
  <2>. QED  BY <1>1, <1>3 DEF ValidWith
<1>6. ASSUME IsObj(v) PROVE Objectively <=> Constrained
  <2>1. /\ Has(s, "propertyNames") => \A n \in Keys(v) : fits(Str(n), Get(s, "propertyNames")) <=> valid(Str(n), Get(s, "propertyNames"))
        /\ \A n \in Keys(v) \cap DOMAIN named : fits(Get(v, n), named[n]) <=> valid(Get(v, n), named[n])
        /\ Has(s, "additionalProperties") =>
             \A n \in Keys(v) \ DOMAIN named :
               (/\ Get(s, "additionalProperties") # False
                /\ IsObj(Get(s, "additionalProperties")) => fits(Get(v, n), Get(s, "additionalProperties")))
               <=> valid(Get(v, n), Get(s, "additionalProperties"))
    BY <1>6, ObjectReadAlike
  <2>2. (\A x \in Elements(Get(s, "required")) : \E n \in Keys(v) : x = Str(n))
          <=> Elements(Get(s, "required")) \subseteq {Str(n) : n \in Keys(v)}
    OBVIOUS
  <2> HIDE DEF fits, valid, m, s, named
  <2>. QED  BY <2>1, <2>2
<1>7. /\ (Typed <=> (TypeOf(s) = StringType => IsStr(v)) /\ (TypeOf(s) = ObjectType => IsObj(v)))
      /\ Has(s, "type") => TypeOf(s) = Get(s, "type")
      /\ ~Has(s, "type") => TypeOf(s) \notin {ObjectType, StringType}
  <2>1. Has(s, "type") => Get(s, "type") \in {ObjectType, StringType}  BY <1>1 DEF KeywordsFit
  <2>. QED  BY <2>1, TypeReadAlike
\* A pattern stands where there is a string, unless the type already says no.
<1>8. Has(s, "pattern") /\ (TypeOf(s) = StringType => IsStr(v)) => IsStr(v)
  BY <1>1, <1>2, <1>7 DEF KeywordsFit, PatternFits
\* Without the type there are no keywords of objects.
<1>9. TypeOf(s) # ObjectType => Constrained
  <2>1. TypeOf(s) # ObjectType => ~Has(s, "required") /\ ~Has(s, "propertyNames") /\ ~Has(s, "properties") /\ ~Has(s, "additionalProperties")
    BY <1>1 DEF KeywordsFit, ObjectSchemaKeys, Has
  <2>2. ~Has(s, "properties") => DOMAIN named = {}  BY DEF Members
  <2>. QED  BY <2>1, <2>2
<1> HIDE DEF Objectively, Constrained, Typed, Listed, Fitting, s
<1>10. MatchWith(Matches, m) <=> ValidWith(Valid, m)
  BY <1>4, <1>5, <1>6, <1>7, <1>8, <1>9
<1>. QED  BY <1>3, <1>10

\* What the audit of check-domain-model.py lets pass, the matcher reads as JSON
\* Schema does: of every schema, however deep and with references however they
\* lead, and of every value.
THEOREM AuditIsSound ==
  \A a \in Audits : Audited[a] => ReadAlike(a)
<1> DEFINE B == {a \in Audits : Audited[a] /\ ~ReadAlike(a)}
           n == [a \in Audits |-> Left(a)]
           d == [a \in Audits |-> Height(a.schema)]
<1>1. SUFFICES ASSUME B # {} PROVE FALSE
  OBVIOUS
<1>2. \A a \in B : n[a] \in Nat /\ d[a] \in Nat
  <2>1. \A a \in Audits : Left(a) \in Nat  BY LeftIsCount
  <2>2. \A a \in Audits : Height(a.schema) \in Nat  BY HeightIsAttained DEF Audits
  <2>. QED  BY <2>1, <2>2
<1>3. PICK a \in B : \A c \in B : ~(n[c] < n[a] \/ (n[c] = n[a] /\ d[c] < d[a]))
  <2> HIDE DEF B, n, d
  <2>. QED  BY <1>1, <1>2, LeastPair
<1>4. ASSUME NEW b \in Audits, Audited[b], Left(b) < Left(a) \/ (Left(b) = Left(a) /\ Height(b.schema) < Height(a.schema))
      PROVE  ReadAlike(b)
  <2>1. n[b] = Left(b) /\ n[a] = Left(a) /\ d[b] = Height(b.schema) /\ d[a] = Height(a.schema)  OBVIOUS
  <2>2. b \notin B
    <3> HIDE DEF B, n, d
    <3>. QED  BY <1>3, <1>4, <2>1
  <2>. QED  BY <1>4, <2>2
<1>5. a \in Audits /\ Audited[a] /\ ~ReadAlike(a)
  OBVIOUS
<1> HIDE DEF B, n, d
<1>6. CASE Has(a.schema, "$ref")
  <2>1. \A b \in Audits : Audited[b] /\ Left(b) < Left(a) => ReadAlike(b)  BY <1>4
  <2>. QED  BY <1>5, <1>6, <2>1, ReferenceReadAlike
<1>7. CASE ~Has(a.schema, "$ref")
  <2>1. \A b \in Audits : Audited[b] /\ Left(b) = Left(a) /\ Height(b.schema) < Height(a.schema) => ReadAlike(b)
    BY <1>4
  <2>. QED  BY <1>5, <1>7, <2>1, PlainReadAlike
<1>. QED  BY <1>6, <1>7

LEMMA LeastIsMin ==
  ASSUME NEW S, S \subseteq Nat, S # {}
  PROVE  Min(S) \in S /\ \A y \in S : Min(S) <= y
BY LeastNumber DEF Min

\* The namespace of an identifier: the checker's partition at the first colon
\* says what InNamespace says.
LEMMA NamespaceAlike ==
  ASSUME NEW S, "." \in S, NEW id \in Seq(S), NEW publisher \in Seq(S)
  PROVE  LET colons == {i \in DOMAIN id : id[i] = ":"}
             qualifier == SubSeq(id, 1, Min(colons) - 1)
         IN  InNamespace(id, publisher) <=>
               colons # {} /\ (qualifier = publisher \/ IsPrefix(Append(publisher, "."), qualifier))
<1> DEFINE colons == {i \in DOMAIN id : id[i] = ":"}
           c == Min(colons)
           qualifier == SubSeq(id, 1, c - 1)
           dotted == Append(publisher, ".")
<1>1. CASE colons = {}
  BY <1>1 DEF InNamespace
<1>2. CASE colons # {}
  <2>1. c \in DOMAIN id /\ id[c] = ":" /\ c \in 1 .. Len(id) /\ \A j \in 1 .. c - 1 : id[j] # ":"
    <3>1. colons \subseteq Nat  OBVIOUS
    <3>2. c \in colons /\ \A y \in colons : c <= y
      <4> HIDE DEF colons
      <4>. QED  BY <1>2, <3>1, LeastIsMin
    <3> HIDE DEF c
    <3>. QED  BY <3>2
  <2> HIDE DEF c
  <2>2. qualifier \in Seq(S) /\ Len(qualifier) = c - 1 /\ \A i \in 1 .. c - 1 : qualifier[i] = id[i]
    BY <2>1
  <2>3. dotted \in Seq(S) /\ Len(dotted) = Len(publisher) + 1 /\ dotted[Len(publisher) + 1] = "."
        /\ \A i \in 1 .. Len(publisher) : dotted[i] = publisher[i]
    <3>1. dotted \in Seq(S) /\ Len(dotted) = Len(publisher) + 1  OBVIOUS
    <3>2. \A i \in 1 .. Len(publisher) : dotted[i] = publisher[i]  OBVIOUS
    <3>3. dotted[Len(publisher) + 1] = "."  OBVIOUS
    <3>. QED  BY <3>1, <3>2, <3>3
  <2> HIDE DEF qualifier, dotted, colons
  <2>4. IsPrefix(dotted, qualifier) <=> Len(dotted) <= Len(qualifier) /\ \A i \in 1 .. Len(dotted) : dotted[i] = qualifier[i]
    <3>1. IsPrefix(dotted, qualifier) <=> Len(dotted) <= Len(qualifier) /\ SubSeq(dotted, 1, Len(dotted)) = SubSeq(qualifier, 1, Len(dotted))
      BY DEF IsPrefix
    <3>. QED  BY <2>2, <2>3, <3>1
  <2>5. ASSUME InNamespace(id, publisher) PROVE qualifier = publisher \/ IsPrefix(dotted, qualifier)
    <3>1. PICK i \in DOMAIN id :
            /\ id[i] = ":" /\ \A j \in 1 .. i - 1 : id[j] # ":"
            /\ \E k \in 1 .. i : id[k] \in {".", ":"} /\ SubSeq(id, 1, k - 1) = publisher
      BY <2>5 DEF InNamespace
    <3>2. i = c  BY <2>1, <3>1
    <3>3. PICK k \in 1 .. c : id[k] \in {".", ":"} /\ SubSeq(id, 1, k - 1) = publisher
      BY <3>1, <3>2
    <3>4. CASE k = c  BY <3>3, <3>4 DEF qualifier
    <3>5. CASE k < c
      <4>1. id[k] = "." /\ Len(publisher) = k - 1 /\ \A j \in 1 .. k - 1 : publisher[j] = id[j]
        BY <2>1, <3>3, <3>5
      <4>2. k \in Nat /\ c \in Nat /\ k <= c - 1 /\ Len(dotted) = k /\ Len(qualifier) = c - 1
        BY <2>1, <2>2, <2>3, <3>3, <3>5, <4>1
      <4>3. ASSUME NEW j \in 1 .. k PROVE dotted[j] = qualifier[j]
        <5>1. qualifier[j] = id[j]  BY <2>2, <4>2
        <5>2. CASE j = k  BY <2>3, <4>1, <4>2, <5>1, <5>2
        <5>3. CASE j # k
          <6>1. j \in 1 .. k - 1  BY <4>2, <5>3
          <6>. QED  BY <2>3, <4>1, <5>1, <6>1
        <5>. QED  BY <5>2, <5>3
      <4>. QED  BY <2>4, <4>2, <4>3
    <3>. QED  BY <2>1, <3>4, <3>5
  <2>6. ASSUME qualifier = publisher \/ IsPrefix(dotted, qualifier) PROVE InNamespace(id, publisher)
    <3>1. \E k \in 1 .. c : id[k] \in {".", ":"} /\ SubSeq(id, 1, k - 1) = publisher
      <4>1. CASE qualifier = publisher
        BY <2>1, <4>1 DEF qualifier
      <4>2. CASE IsPrefix(dotted, qualifier)
        <5> DEFINE k == Len(publisher) + 1
        <5>1. k \in 1 .. c - 1 /\ \A i \in 1 .. k : dotted[i] = id[i]
          BY <2>1, <2>2, <2>3, <2>4, <4>2
        <5>2. id[k] = "." /\ \A i \in 1 .. k - 1 : publisher[i] = id[i]
          BY <2>3, <5>1
        <5>3. SubSeq(id, 1, k - 1) = publisher
          BY <2>1, <5>1, <5>2
        <5>4. k \in 1 .. c  BY <2>1, <5>1
        <5> HIDE DEF k
        <5>. QED  BY <5>2, <5>3, <5>4
      <4>. QED  BY <2>6, <4>1, <4>2
    <3>. QED  BY <2>1, <3>1 DEF InNamespace
  <2>. QED  BY <1>2, <2>5, <2>6 DEF qualifier, c, dotted, colons
<1>. QED  BY <1>1, <1>2

-----------------------------------------------------------------------------
\* The inductive invariant.

Probes == {"crypto-conformance", "signing-profile"}
Places == {"import", "load", "judge", "shape", "read", "freeze", "clone", "refs", "check", "conclude", "done"}
DecodedFrom(text, v) == IsOk(Decode[text]) /\ v = Decode[text][2]

\* Which checker is where, and what it works on.
PlaceInv ==
    /\ job \in Jobs /\ pc \in Places
    /\ job.checker = "inventory" => origin \in Repositories
    /\ pc \in {"shape", "read", "freeze", "clone", "refs", "check"} => job.checker = "inventory"
    /\ pc \in {"read", "freeze", "clone", "refs", "check"} => WellFormedInventory(value)

\* Whatever a checker holds, the decoder made of its files.
ValueInv ==
    /\ pc \in {"import", "load"} => value = Absent
    /\ value # Absent => DecodedFrom(job.file, value)
    /\ pc \in {"judge", "shape", "read", "freeze", "clone", "refs", "check"} => DecodedFrom(job.file, value)
    /\ schema # Absent => DecodedFrom(job.schema, schema)
    /\ job.checker = "envelope" /\ pc \in {"load", "judge"} => DecodedFrom(job.schema, schema) /\ IsObj(schema)

\* The bytes whose digest was checked are those that git gets, whatever the
\* file holds by then.
BundleInv ==
    /\ pc \in {"freeze", "clone"} => frozen = PinnedBundle
    /\ pc \in {"refs", "check"} => clone = origin

\* What json.loads lets through is never a refusal.
LeakedErrors == {Failed(c) : c \in Leaks}

\* What an admission rests on, and what a verdict on a record says.
Admitted ==
    /\ DecodedFrom(job.file, value)
    /\ job.checker = "inventory" => WellFormedInventory(value) /\ CheckInventory(origin, value)
    /\ job.checker \in Probes => Validates(job.checker, value, Revision)
RecordJudged ==
    /\ DecodedFrom(job.file, value) /\ DecodedFrom(job.schema, schema) /\ RequireSupported(schema)
    /\ verdict = "admitted" <=> EnvelopeAdmissible(value, schema)
VerdictInv ==
    /\ pc \notin {"conclude", "done"} => verdict = "none"
    /\ verdict = "admitted" => Admitted
    /\ verdict = "refused" => Decode[job.file] \notin LeakedErrors
    /\ job.checker = "envelope" /\ pc = "conclude" /\ verdict # "raised" /\ value # Absent => RecordJudged
    /\ exit = "zero" => verdict = (IF job.role = "hostile" THEN "refused" ELSE "admitted")

AdmissionInv == PlaceInv /\ ValueInv /\ BundleInv /\ VerdictInv

-----------------------------------------------------------------------------
\* The invariant holds initially, ...
LEMMA InitAdmission ==
  ASSUME Init
  PROVE  AdmissionInv
BY AdmissionAssumption DEF Init, AdmissionInv, PlaceInv, ValueInv, Places, BundleInv, VerdictInv

\* ... and every step keeps it.
LEMMA StepKeepsAdmission ==
  ASSUME AdmissionInv, [Next]_vars
  PROVE  AdmissionInv'
<1> USE DEF AdmissionInv, PlaceInv, ValueInv, Places, BundleInv, VerdictInv, At, Give, Inventory, Idle, DecodedFrom
<1>a. IsOk(Decode[job.file]) => Decode[job.file] \notin LeakedErrors
  BY DEF IsOk, LeakedErrors, Failed
<1>b. Decode[job.file][2] \in StrictErrors => Decode[job.file] \notin LeakedErrors
  BY DEF StrictErrors, Leaks, LeakedErrors, Failed
<1>1. CASE ImportSchema  BY <1>1 DEF ImportSchema
<1>2. CASE LoadFixture  BY <1>2, <1>a, <1>b DEF LoadFixture, Load
<1>3. CASE LoadResult  BY <1>3, <1>a, <1>b DEF LoadResult, Load
<1>4. CASE LoadInventory  BY <1>4, <1>a, <1>b DEF LoadInventory, Load
<1>5. CASE JudgeEnvelope  BY <1>5, <1>a DEF JudgeEnvelope, Admitted, Probes, RecordJudged
<1>6. CASE JudgeProbe  BY <1>6, <1>a DEF JudgeProbe, Admitted, Probes
<1>7. CASE Shape  BY <1>7, <1>a DEF Shape
<1>8. CASE ReadBundle  BY <1>8, <1>a DEF ReadBundle
<1>9. CASE Freeze  BY <1>9 DEF Freeze
<1>10. CASE Clone  BY <1>10, <1>a DEF Clone, Cloned
<1>11. CASE Refs  BY <1>11, <1>a DEF Refs
<1>12. CASE Check  BY <1>12, <1>a DEF Check, Admitted, Probes
<1>13. CASE BundleReplaced  BY <1>13 DEF BundleReplaced, Admitted, RecordJudged
<1>14. CASE Conclude  BY <1>14 DEF Conclude, Admitted
<1>15. CASE UNCHANGED vars  BY <1>15 DEF vars, Admitted, RecordJudged
<1>. QED  BY <1>1, <1>2, <1>3, <1>4, <1>5, <1>6, <1>7, <1>8, <1>9, <1>10, <1>11, <1>12, <1>13, <1>14, <1>15 DEF Next

THEOREM AdmissionInvariant == Spec => []AdmissionInv
BY InitAdmission, StepKeepsAdmission, PTL DEF Spec

-----------------------------------------------------------------------------
\* What it means for a probe.

\* Python's == says of a string what = says.
LEMMA EqualToText ==
  ASSUME NEW v, NEW w, PyEq(v, w), IsStr(w)
  PROVE  v = w
BY DEF PyEq, Number, IsStr

\* What an admitted result of the crypto probe shows.
LEMMA CryptoResultShows ==
  ASSUME ValidateCrypto(value, Revision)
  PROVE  /\ Get(value, "source_revision") = Str(Revision)
         /\ AllChecked("crypto-conformance", value) /\ CryptoShown(value)
<1> DEFINE checks == Get(value, "checks")
           message == Get(Get(value, "fixtures"), "message")
           observed(profile) == Get(Get(value, "result"), profile)
<1>0. ASSUME NEW token PROVE IsStr(Str(token))
  BY DEF IsStr, Str, Text
<1>1. CryptoObserved(value, Revision)
  BY DEF ValidateCrypto
<1>2. Get(value, "source_revision") = Str(Revision)
  BY <1>0, <1>1, EqualToText DEF CryptoObserved, ValidateCommon, Eq
<1>3. AllChecked("crypto-conformance", value)
  <2>1. /\ Keys(checks) = CryptoChecks \union {"production_values"}
        /\ \A k \in CryptoChecks : Get(checks, k) = True
        /\ Get(checks, "production_values") = False
    BY DEF ValidateCrypto, ExactMembers, AllTrue
  <2> DEFINE all == ChecksOf("crypto-conformance")
  <2>2. DOMAIN all = CryptoChecks \union {"production_values"}
    BY DEF ChecksOf, CryptoChecks
  <2>3. all["production_values"] = False /\ \A k \in CryptoChecks : all[k] = True
    BY DEF ChecksOf, CryptoChecks
  <2> HIDE DEF checks, all
  <2>4. Keys(checks) = DOMAIN all /\ \A n \in DOMAIN all : Get(checks, n) = all[n]
    BY <2>1, <2>2, <2>3
  <2>. QED  BY <2>4 DEF AllChecked, checks, all
<1>4. Get(value, "schema") = Str("crypto-conformance-result/v1")
  BY <1>0, <1>1, EqualToText DEF CryptoObserved, Eq
<1>5. Get(value, "fixture_sha256") = Get(message, "sha256") /\ Get(value, "fixture_sha512") = Get(message, "sha512")
  <2>1. ValidateFixture(message)
    BY <1>1 DEF CryptoObserved, ExactMembers, Values
  <2>. QED  BY <1>1, <2>1, EqualToText DEF CryptoObserved, FixtureBinding, ValidateFixture
<1>6. observed("openpgp-rfc9580-classical-v1") = Str("qualified-for-observed-runtime")
  BY <1>0, <1>1, EqualToText DEF CryptoObserved, Eq
<1>7. observed("openpgp-rfc9980-pqc-v1") \in {Str("unsupported"), Str("qualified-for-observed-runtime")}
  BY <1>0, EqualToText DEF ValidateCrypto, PqcObservation, Eq
<1>. QED  BY <1>2, <1>3, <1>4, <1>5, <1>6, <1>7 DEF CryptoShown

\* What an admitted result of the signing probe shows.
LEMMA SigningResultShows ==
  ASSUME ValidateSigning(value, Revision)
  PROVE  /\ Get(value, "source_revision") = Str(Revision)
         /\ AllChecked("signing-profile", value) /\ SigningShown(value)
<1> DEFINE checks == Get(value, "checks")
           diagnostics == Get(value, "diagnostics")
           named == {"tampered_message", "tampered_signature", "wrong_certificate"}
<1>0. ASSUME NEW token PROVE IsStr(Str(token))
  BY DEF IsStr, Str, Text
<1>1. /\ Get(value, "source_revision") = Str(Revision)
      /\ Get(value, "schema") = Str("signing-profile-result/v1")
  BY <1>0, EqualToText DEF ValidateSigning, ValidateCommon, Eq
<1>2. AllChecked("signing-profile", value)
  <2>1. Keys(checks) = SigningChecks /\ \A k \in SigningChecks : Get(checks, k) = True
    BY DEF ValidateSigning, ExactMembers, AllTrue
  <2> DEFINE all == ChecksOf("signing-profile")
  <2>2. DOMAIN all = SigningChecks
    BY DEF ChecksOf, SigningChecks
  <2>3. \A k \in SigningChecks : all[k] = True
    BY DEF ChecksOf, SigningChecks
  <2> HIDE DEF checks, all
  <2>4. Keys(checks) = DOMAIN all /\ \A n \in DOMAIN all : Get(checks, n) = all[n]
    BY <2>1, <2>2, <2>3
  <2>. QED  BY <2>4 DEF AllChecked, checks, all
<1>3. ASSUME NEW n \in named
      PROVE  LET status == Get(Get(diagnostics, n), "exit_status") IN status[1] = "int" /\ status[2] \in 1 .. 123
  <2>1. Keys(diagnostics) = named /\ \A d \in Values(diagnostics) : IsRejection(d)
    BY DEF ValidateSigning, ExactMembers
  <2> HIDE DEF diagnostics, named
  <2>2. IsRejection(Get(diagnostics, n))
    BY <1>3, <2>1 DEF Values
  <2>. QED  BY <2>2 DEF IsRejection, IsInt
<1>. QED  BY <1>1, <1>2, <1>3 DEF SigningShown

LEMMA EvidenceFollows ==
  ASSUME AdmissionInv
  PROVE  EvidenceIsComplete
<1> SUFFICES ASSUME exit = "zero" PROVE
       /\ \A c \in Leaks : Decode[job.file] # Failed(c)
       /\ job.role # "hostile" => Readings[job.file] = {value}
       /\ job.role # "hostile" /\ job.checker \in Probes =>
             /\ Get(value, "source_revision") = Str(Revision)
             /\ AllChecked(job.checker, value)
             /\ IF job.checker = "signing-profile" THEN SigningShown(value) ELSE CryptoShown(value)
  BY DEF EvidenceIsComplete, Probes
<1>1. verdict = IF job.role = "hostile" THEN "refused" ELSE "admitted"
  BY DEF AdmissionInv, VerdictInv
<1>2. job.role # "hostile" => Admitted
  BY <1>1 DEF AdmissionInv, VerdictInv
<1>3. \A c \in Leaks : Decode[job.file] # Failed(c)
  <2>1. CASE job.role = "hostile"
    BY <1>1, <2>1 DEF AdmissionInv, VerdictInv, LeakedErrors
  <2>2. CASE job.role # "hostile"
    BY <1>2, <2>2 DEF Admitted, DecodedFrom, IsOk, Failed
  <2>. QED  BY <2>1, <2>2
<1>4. job.role # "hostile" => Readings[job.file] = {value}
  <2>1. job.file \in Texts  BY AdmissionAssumption DEF AdmissionInv, PlaceInv
  <2>. QED  BY <1>2, <2>1, DecodingIsUnambiguous DEF Admitted, DecodedFrom
<1>5. ASSUME job.role # "hostile", job.checker \in Probes
      PROVE  /\ Get(value, "source_revision") = Str(Revision)
             /\ AllChecked(job.checker, value)
             /\ IF job.checker = "signing-profile" THEN SigningShown(value) ELSE CryptoShown(value)
  <2>1. Validates(job.checker, value, Revision)
    BY <1>2, <1>5 DEF Admitted
  <2>2. CASE job.checker = "crypto-conformance"
    <3>1. ValidateCrypto(value, Revision)  BY <2>1, <2>2 DEF Validates
    <3>. QED  BY <2>2, <3>1, CryptoResultShows
  <2>3. CASE job.checker = "signing-profile"
    <3>1. ValidateSigning(value, Revision)  BY <2>1, <2>3 DEF Validates
    <3>. QED  BY <2>3, <3>1, SigningResultShows
  <2>. QED  BY <1>5, <2>2, <2>3 DEF Probes
<1>. QED  BY <1>3, <1>4, <1>5

\* A checker that ends well had a file with one reading, and a probe's result
\* that it admits is of its own kind and revision, with every check that the
\* probe makes in it and none failed, bound to the message that was signed; no
\* hostile fixture passes because the decoder broke down: the mains of
\* check-probe-result.py and check-domain-model.py, for every file and revision.
THEOREM EvidenceIsCompleteHolds == Spec => []EvidenceIsComplete
<1>1. AdmissionInv => EvidenceIsComplete  BY EvidenceFollows
<1>. QED  BY <1>1, AdmissionInvariant, PTL

-----------------------------------------------------------------------------
\* What it means for the inventory.

\* Different positions that state different things are as many as these things.
LEMMA CountOfStatements ==
  ASSUME NEW n \in Nat, NEW f, DOMAIN f = 1 .. n,
         \A i, j \in 1 .. n : f[i] = f[j] => i = j
  PROVE  Cardinality({f[i] : i \in 1 .. n}) = n
<1> DEFINE T == {f[i] : i \in 1 .. n}
           g == [i \in 1 .. n |-> f[i]]
<1>1. g \in Bijection(1 .. n, T)
  BY DEF Bijection, Injection, Surjection, IsInjective
<1>2. ExistsBijection(1 .. n, T)
  BY <1>1 DEF ExistsBijection
<1> HIDE DEF T
<1>3. Cardinality(T) = n
  BY <1>2, FS_CountingElements
<1>. QED  BY <1>3 DEF T

\* One admitted inventory.
LEMMA ExactInventory ==
  ASSUME NEW repo \in Repositories, NEW inventory \in DecodedValues,
         WellFormedInventory(inventory), CheckInventory(repo, inventory)
  PROVE  LET entries == Get(inventory, "entries")[2] IN
         /\ {Stated(entries[i]) : i \in DOMAIN entries} = Expected(repo)
         /\ Len(entries) = Cardinality(Expected(repo))
         /\ repo.whole /\ \A c \in DOMAIN Producers : Len(repo.commits[c].parents) = 1
<1> DEFINE entries == Get(inventory, "entries")[2]
           tree(c) == repo.trees[repo.commits[c].tree]
           changed(c) == ChangedPaths(repo.commits[c].changes)
           mine(c) == {i \in DOMAIN entries : CommitOf(entries[i]) = c}
           path(i) == Get(entries[i], "path")
<1>0. entries \in Seq(DecodedValues)
  <2>1. IsObj(inventory) /\ Has(inventory, "entries") /\ IsArr(Get(inventory, "entries"))
    BY DEF WellFormedInventory, Has
  <2>2. Get(inventory, "entries") \in DecodedValues  BY <2>1, ObjectShape DEF Has
  <2>. QED  BY <2>1, <2>2, ListShape
<1>1. Len(entries) \in Nat /\ DOMAIN entries = 1 .. Len(entries)
  <2>. QED  BY <1>0
<1>2. /\ repo.whole /\ DistinctIdentities(entries)
      /\ \A i \in DOMAIN entries : EntryFits(entries[i])
      /\ \A c \in DOMAIN Producers : c \in DOMAIN repo.commits /\ ProducerExact(repo, c, entries)
  BY DEF CheckInventory
<1>3. ASSUME NEW c \in DOMAIN Producers
      PROVE  /\ Len(repo.commits[c].parents) = 1
             /\ {path(i)[2] : i \in mine(c)} = changed(c)
             /\ \A i \in mine(c) : MatchesBlob(entries[i], repo, c)
             /\ IsFiniteSet(tree(c))
             /\ \A b \in tree(c) : b = [path |-> b.path, mode |-> b.mode, kind |-> b.kind, oid |-> b.oid, sha |-> b.sha]
  BY <1>2, RepositoriesAssumption DEF ProducerExact
<1>4. ASSUME NEW i \in DOMAIN entries
      PROVE  /\ CommitOf(entries[i]) \in DOMAIN Producers
             /\ Get(entries[i], "source_commit") = Str(CommitOf(entries[i]))
             /\ path(i) = Text(path(i)[2])
  <2>1. EntryFits(entries[i])  BY <1>2
  <2>2. PICK c \in DOMAIN Producers : Get(entries[i], "source_commit") = Str(c)
    BY <2>1 DEF EntryFits
  <2>3. CommitOf(entries[i]) = c
    BY <2>2 DEF CommitOf, Str, Text
  <2>4. IsObj(entries[i]) /\ "path" \in Keys(entries[i]) /\ IsStr(path(i))
    BY <2>1 DEF EntryFits, EntryFields
  <2>5. path(i) = Text(path(i)[2])
    <3>1. entries[i] \in DecodedValues  BY <1>0
    <3>2. path(i) \in DecodedValues  BY <2>4, <3>1, ObjectShape
    <3>. QED  BY <2>4, <3>2, StringShape
  <2>. QED  BY <2>2, <2>3, <2>5
<1> HIDE DEF entries
\* What an entry states is the blob it was compared with.
<1>5. ASSUME NEW i \in DOMAIN entries, NEW c \in DOMAIN Producers, i \in mine(c)
      PROVE  \E b \in tree(c) :
               /\ b.path = path(i)[2] /\ {x \in tree(c) : x.path = path(i)[2]} = {b}
               /\ Stated(entries[i]) = [commit |-> c, parent |-> repo.commits[c].parents[1], blob |-> b]
  <2> DEFINE found == Blobs(repo, c, path(i)[2])
  <2>1. MatchesBlob(entries[i], repo, c)  BY <1>3, <1>5
  <2>2. PICK b \in found :
          /\ b.kind = "blob"
          /\ Get(entries[i], "git_file_mode") = Str(b.mode) /\ Get(entries[i], "blob_oid") = Str(b.oid)
          /\ Get(entries[i], "sha256") = Str(b.sha)
    BY <2>1 DEF MatchesBlob
  <2>3. b \in tree(c) /\ b.path = path(i)[2]  BY DEF Blobs
  <2>4. found = {b}
    <3>1. IsFiniteSet(found)
      <4>1. found \in SUBSET tree(c)  BY DEF Blobs
      <4>. QED  BY <1>3, <4>1, FS_Subset
    <3>2. Cardinality(found) = 1  BY <2>1 DEF MatchesBlob
    <3>. QED  BY <3>1, <3>2, FS_Singleton
  <2>5. Stated(entries[i]) =
          [commit |-> c, parent |-> repo.commits[c].parents[1],
           blob |-> [path |-> b.path, mode |-> b.mode, kind |-> b.kind, oid |-> b.oid, sha |-> b.sha]]
    <3>1. Get(entries[i], "parent_sha") = Str(repo.commits[c].parents[1])  BY <2>1 DEF MatchesBlob
    <3>2. CommitOf(entries[i]) = c  BY <1>5
    <3>. QED  BY <2>2, <2>3, <3>1, <3>2 DEF Stated, Str, Text
  <2>6. b = [path |-> b.path, mode |-> b.mode, kind |-> b.kind, oid |-> b.oid, sha |-> b.sha]
    BY <1>3, <2>3
  <2>. QED  BY <2>3, <2>4, <2>5, <2>6 DEF Blobs
<1>6. ASSUME NEW i \in DOMAIN entries PROVE Stated(entries[i]) \in Expected(repo)
  <2> DEFINE c == CommitOf(entries[i])
  <2>1. c \in DOMAIN Producers /\ i \in mine(c)  BY <1>4
  <2>2. PICK b \in tree(c) :
          /\ b.path = path(i)[2]
          /\ Stated(entries[i]) = [commit |-> c, parent |-> repo.commits[c].parents[1], blob |-> b]
    BY <1>5, <2>1
  <2>3. b.path \in changed(c)  BY <1>3, <2>1, <2>2
  <2> HIDE DEF c
  <2>4. b \in {x \in tree(c) : x.path \in changed(c)}  BY <2>2, <2>3
  <2> DEFINE part(p) == {[commit |-> p, parent |-> repo.commits[p].parents[1], blob |-> x] :
                           x \in {y \in tree(p) : y.path \in changed(p)}}
  <2>5. Expected(repo) = UNION {part(p) : p \in DOMAIN Producers}  BY DEF Expected
  <2>6. Stated(entries[i]) \in part(c)  BY <2>2, <2>4
  <2> HIDE DEF part
  <2>. QED  BY <2>1, <2>5, <2>6
<1>7. ASSUME NEW x \in Expected(repo) PROVE \E i \in DOMAIN entries : Stated(entries[i]) = x
  <2>a. PICK c \in DOMAIN Producers : \E b \in tree(c) :
          /\ b.path \in changed(c)
          /\ x = [commit |-> c, parent |-> repo.commits[c].parents[1], blob |-> b]
    BY DEF Expected
  <2>1. PICK b \in tree(c) :
          /\ b.path \in changed(c)
          /\ x = [commit |-> c, parent |-> repo.commits[c].parents[1], blob |-> b]
    BY <2>a
  <2>2. PICK i \in mine(c) : path(i)[2] = b.path  BY <1>3, <2>1
  <2>3. PICK a \in tree(c) :
          /\ {y \in tree(c) : y.path = path(i)[2]} = {a}
          /\ Stated(entries[i]) = [commit |-> c, parent |-> repo.commits[c].parents[1], blob |-> a]
    BY <1>5, <2>2
  <2>4. a = b  BY <2>2, <2>3
  <2>. QED  BY <2>1, <2>3, <2>4
<1>8. {Stated(entries[i]) : i \in DOMAIN entries} = Expected(repo)
  BY <1>6, <1>7
\* No two entries state the same.
<1>9. Len(entries) = Cardinality(Expected(repo))
  <2> DEFINE f == [i \in 1 .. Len(entries) |-> Stated(entries[i])]
  <2>1. ASSUME NEW i \in 1 .. Len(entries), NEW j \in 1 .. Len(entries), f[i] = f[j] PROVE i = j
    <3>1. i \in DOMAIN entries /\ j \in DOMAIN entries /\ Stated(entries[i]) = Stated(entries[j])  BY <1>1, <2>1
    <3>2. CommitOf(entries[i]) = CommitOf(entries[j]) /\ path(i)[2] = path(j)[2]  BY <3>1 DEF Stated
    <3>3. Get(entries[i], "source_commit") = Get(entries[j], "source_commit") /\ path(i) = path(j)
      BY <1>4, <3>1, <3>2
    <3>. QED  BY <1>2, <3>1, <3>3 DEF DistinctIdentities
  <2>2. DOMAIN f = 1 .. Len(entries)  OBVIOUS
  <2>3. {f[i] : i \in 1 .. Len(entries)} = Expected(repo)  BY <1>1, <1>8
  <2> HIDE DEF f
  <2>. QED  BY <1>1, <2>1, <2>2, <2>3, CountOfStatements
<1>. QED  BY <1>2, <1>3, <1>8, <1>9 DEF entries

LEMMA InventoryFollows ==
  ASSUME AdmissionInv
  PROVE  InventoryIsExact
<1> SUFFICES ASSUME job.checker = "inventory", verdict = "admitted"
             PROVE  LET entries == Get(value, "entries")[2] IN
                    /\ {Stated(entries[i]) : i \in DOMAIN entries} = Expected(origin)
                    /\ Len(entries) = Cardinality(Expected(origin))
                    /\ origin.whole /\ \A c \in DOMAIN Producers : Len(origin.commits[c].parents) = 1
  BY DEF InventoryIsExact
<1>1. job \in Jobs /\ origin \in Repositories  BY DEF AdmissionInv, PlaceInv
<1>2. DecodedFrom(job.file, value) /\ WellFormedInventory(value) /\ CheckInventory(origin, value)
  BY DEF AdmissionInv, VerdictInv, Admitted
<1>3. value \in DecodedValues
  BY <1>1, <1>2, AdmissionAssumption DEF DecodedFrom, DecodedValues
<1>. QED  BY <1>1, <1>2, <1>3, ExactInventory

\* An inventory that passes lists exactly what the producers in the pinned
\* bundle changed, each blob once, although the bundle's file may be replaced
\* between any two steps of check_inventory: for every set of producers and
\* every repository that the bundle may hold.
THEOREM InventoryIsExactHolds == Spec => []InventoryIsExact
<1>1. AdmissionInv => InventoryIsExact  BY InventoryFollows
<1>. QED  BY <1>1, AdmissionInvariant, PTL

-----------------------------------------------------------------------------
\* What it means for a record.

LEMMA DecodedFollows ==
  ASSUME AdmissionInv
  PROVE  DecodedIsUnambiguous
<1>1. job.file \in Texts /\ job.schema \in Texts
  BY AdmissionAssumption DEF AdmissionInv, PlaceInv
<1>2. ASSUME value # Absent PROVE Readings[job.file] = {value}
  BY <1>1, <1>2, DecodingIsUnambiguous DEF AdmissionInv, ValueInv, DecodedFrom
<1>3. ASSUME schema # Absent PROVE Readings[job.schema] = {schema}
  BY <1>1, <1>3, DecodingIsUnambiguous DEF AdmissionInv, ValueInv, DecodedFrom
<1>. QED  BY <1>2, <1>3 DEF DecodedIsUnambiguous

\* No checker ever works on a value that its file could also be read otherwise
\* than: load_json_file of strict_json.py, for every file and every schema.
THEOREM DecodedIsUnambiguousHolds == Spec => []DecodedIsUnambiguous
<1>1. AdmissionInv => DecodedIsUnambiguous  BY DecodedFollows
<1>. QED  BY <1>1, AdmissionInvariant, PTL

\* The checker's rules of extensions and of namespaces, on an object.
LEMMA ExtensionsAlike ==
  ASSUME NEW r, IsObj(r)
  PROVE  ExtensionsAdmissible(r) <=>
           (Has(r, "extensions") => IsObj(Get(r, "extensions")) /\ \A x \in Values(Get(r, "extensions")) : InertExtension(x))
<1> DEFINE o == Get(r, "extensions")
<1>1. (\A x \in Values(o) : InertExtension(x)) <=> \A n \in Keys(o) : InertExtension(Get(o, n))
  BY DEF Values
<1>2. \A n : InertExtension(Get(o, n)) <=>
         LET e == Get(o, n) IN
         /\ IsObj(e) /\ Has(e, "version") /\ Get(e, "version") = SupportedExtensionVersion
         /\ Has(e, "criticality") /\ Get(e, "criticality") = Str("required") => n \in UnderstoodRequiredExtensions
  BY DEF InertExtension, UnderstoodRequiredExtensions
<1> HIDE DEF o
<1>3. ExtensionsAdmissible(r) <=>
         (Has(r, "extensions") =>
            /\ IsObj(o)
            /\ \A n \in Keys(o) :
                 LET e == Get(o, n) IN
                 /\ IsObj(e) /\ Has(e, "version") /\ Get(e, "version") = SupportedExtensionVersion
                 /\ Has(e, "criticality") /\ Get(e, "criticality") = Str("required") => n \in UnderstoodRequiredExtensions)
  BY DEF ExtensionsAdmissible, o
<1>. QED  BY <1>1, <1>2, <1>3 DEF o

LEMMA RecordNamespaceAlike ==
  ASSUME NEW r \in DecodedValues, IsObj(r)
  PROVE  NamespaceAdmissible(r) <=>
           /\ \A k \in {"record_id", "publisher"} : Has(r, k) /\ IsStr(Get(r, k))
           /\ InNamespace(Get(r, "record_id")[2], Get(r, "publisher")[2])
<1> DEFINE id == Get(r, "record_id")[2]
           publisher == Get(r, "publisher")[2]
           colons == {i \in DOMAIN id : id[i] = ":"}
           qualifier == SubSeq(id, 1, Min(colons) - 1)
           Prefixed == colons # {} /\ (qualifier = publisher \/ IsPrefix(Append(publisher, "."), qualifier))
           Named == \A k \in {"record_id", "publisher"} : Has(r, k) /\ IsStr(Get(r, k))
<1>1. NamespaceAdmissible(r) <=> Named /\ Prefixed
  BY DEF NamespaceAdmissible, Has
<1>2. ASSUME Named PROVE InNamespace(id, publisher) <=> Prefixed
  <2>1. \A k \in {"record_id", "publisher"} : Get(r, k) \in DecodedValues  BY <1>2, ObjectShape DEF Has
  <2>2. Get(r, "record_id")[2] \in Seq(STRING) /\ Get(r, "publisher")[2] \in Seq(STRING)
    BY <1>2, <2>1, StringShape
  <2>3. \A f : f \in Seq(STRING) => f \in Seq(STRING \union {"."})  OBVIOUS
  <2>4. id \in Seq(STRING \union {"."}) /\ publisher \in Seq(STRING \union {"."})  BY <2>2, <2>3
  <2> HIDE DEF id, publisher
  <2>. QED  BY <2>4, NamespaceAlike
<1>. QED  BY <1>1, <1>2

LEMMA VerdictFollows ==
  ASSUME AdmissionInv
  PROVE  EnvelopeVerdictIsJustified
<1> SUFFICES ASSUME job.checker = "envelope", At("conclude"), verdict # "raised", value # Absent
             PROVE  verdict = "admitted" <=>
                      /\ Valid[[value |-> value, schema |-> schema, root |-> schema]] /\ IsObj(value)
                      /\ \A k \in {"record_id", "publisher"} : Has(value, k) /\ IsStr(Get(value, k))
                      /\ InNamespace(Get(value, "record_id")[2], Get(value, "publisher")[2])
                      /\ Has(value, "extensions") =>
                            /\ IsObj(Get(value, "extensions"))
                            /\ \A x \in Values(Get(value, "extensions")) : InertExtension(x)
  BY DEF EnvelopeVerdictIsJustified
<1>1. RecordJudged  BY DEF AdmissionInv, VerdictInv, At
<1>2. value \in DecodedValues /\ schema \in DecodedValues
  <2>1. job.file \in Texts /\ job.schema \in Texts
    BY AdmissionAssumption DEF AdmissionInv, PlaceInv
  <2>. QED  BY <1>1, <2>1 DEF RecordJudged, DecodedFrom, DecodedValues
<1> DEFINE a == [schema |-> schema, root |-> schema, isRoot |-> TRUE, stack |-> {}, instance |-> "none"]
           m == [value |-> value, schema |-> schema, root |-> schema]
<1>3. IsObj(schema) /\ Audited[a]  BY <1>1 DEF RecordJudged, RequireSupported
<1>4. a \in Audits /\ a.instance # "string" /\ Asked(value, a) = m
  BY <1>2, <1>3 DEF Audits, Objects, Asked
<1>5. Matches[m] <=> Valid[m]
  <2>1. value \in Instances  BY <1>2, ValueIsInstance
  <2> HIDE DEF a, m
  <2>. QED  BY <1>3, <1>4, <2>1, AuditIsSound DEF ReadAlike
<1>6. verdict = "admitted" <=> Matches[m] /\ NamespaceAdmissible(value) /\ ExtensionsAdmissible(value)
  BY <1>1 DEF RecordJudged, EnvelopeAdmissible, EnvelopeMatches
<1>7. NamespaceAdmissible(value) => IsObj(value)  BY DEF NamespaceAdmissible
<1> HIDE DEF m
<1>. QED  BY <1>2, <1>5, <1>6, <1>7, RecordNamespaceAlike, ExtensionsAlike DEF m

\* A record is admitted exactly when it is valid against the schema as JSON
\* Schema understands it, is in its publisher's namespace, and asks for no
\* extension that is not understood; main of check-domain-model.py, for every
\* record, every schema and every meaning of patterns.
THEOREM EnvelopeVerdictIsJustifiedHolds == Spec => []EnvelopeVerdictIsJustified
<1>1. AdmissionInv => EnvelopeVerdictIsJustified  BY VerdictFollows
<1>. QED  BY <1>1, AdmissionInvariant, PTL

=============================================================================
