----------------------------- MODULE StrictJson -----------------------------
(***************************************************************************)
(* sacrysty_runtime/strict_json.py: the decoder every checker and adapter  *)
(* of this repository reads its inputs with.                               *)
(***************************************************************************)
EXTENDS JsonValues, Integers, FiniteSetsExt

CONSTANTS Texts,    \* the texts considered, each with all of its parts
          Depth(_)  \* how deep a text is nested

Parts(t) == CASE t[1] = "arr" -> {t[2][i] : i \in DOMAIN t[2]}
              [] t[1] = "obj" -> {t[2][i][2] : i \in DOMAIN t[2]}
              [] OTHER -> {}

\* The shape of texts, and that every text is finitely deep.
ASSUME TextsAssumption ==
    \A t \in Texts :
       /\ \/ t = <<"null">>
          \/ t \in {"bool"} \X BOOLEAN
          \/ t \in {"int", "dec"} \X Int
          \/ t \in {"str"} \X Seq(STRING)
          \/ t \in {"arr"} \X Seq(Texts)
          \/ t \in {"obj"} \X Seq(STRING \X Texts)
          \/ t \in {"bad"} \X (StrictErrors \union Leaks)
       /\ Depth(t) \in Nat /\ \A p \in Parts(t) : Depth(p) < Depth(t)

\* The first error, or what all of them have decoded to.
InOrder(decoded) ==
    LET bad == {i \in DOMAIN decoded : ~IsOk(decoded[i])}
    IN  IF bad # {} THEN decoded[Min(bad)] ELSE Done([i \in DOMAIN decoded |-> decoded[i][2]])

NamesIn(pairs) == {pairs[i][1] : i \in DOMAIN pairs}
WrongObject(pairs, values) ==
    Done(<<"obj", [n \in NamesIn(pairs) |->
                     values[CHOOSE i \in DOMAIN pairs :
                              pairs[i][1] = n /\ \A j \in DOMAIN pairs : pairs[j][1] = n => j <= i]]>>)
ObjectWithoutDuplicateMembers(pairs, values) ==
    IF \E i, j \in DOMAIN pairs : i # j /\ pairs[i][1] = pairs[j][1] THEN Failed("duplicate")
    ELSE Done(<<"obj", [n \in NamesIn(pairs) |-> values[CHOOSE i \in DOMAIN pairs : pairs[i][1] = n]]>>)

\* Members and elements in the order written; an object's hook runs after them.
Decode[t \in Texts] ==
    CASE t[1] = "arr" ->
           LET all == InOrder([i \in DOMAIN t[2] |-> Decode[t[2][i]]])
           IN  IF IsOk(all) THEN Done(<<"arr", all[2]>>) ELSE all
      [] t[1] = "obj" ->
           LET all == InOrder([i \in DOMAIN t[2] |-> Decode[t[2][i][2]]])
           IN  IF IsOk(all) THEN ObjectWithoutDuplicateMembers(t[2], all[2]) ELSE all
      [] t[1] = "bad" -> Failed(t[2])
      [] OTHER -> Done(t)

-----------------------------------------------------------------------------
\* For the properties, independent of the decoder.

\* Every way to choose from of[n], for each n; where there is one thing to
\* choose, it is chosen.
Selections(of) ==
    LET open == {n \in DOMAIN of : ~\E v \in of[n] : of[n] = {v}}
    IN  {[n \in DOMAIN of |-> IF n \in open THEN f[n] ELSE CHOOSE v \in of[n] : TRUE] :
           f \in {g \in [open -> UNION {of[n] : n \in open}] : \A n \in open : g[n] \in of[n]}}

\* Every value a lenient reader could make of a text: of a repeated member any
\* of its values; of a place that is no JSON, nothing.
Readings[t \in Texts] ==
    CASE t[1] = "arr" -> {<<"arr", f>> : f \in Selections([i \in DOMAIN t[2] |-> Readings[t[2][i]]])}
      [] t[1] = "obj" ->
           {<<"obj", f>> : f \in Selections([n \in NamesIn(t[2]) |->
                                   UNION {Readings[t[2][i][2]] : i \in {j \in DOMAIN t[2] : t[2][j][1] = n}}])}
      [] t[1] = "bad" -> {}
      [] OTHER -> {t}
=============================================================================
