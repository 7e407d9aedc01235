----------------------------- MODULE JsonValues -----------------------------
(***************************************************************************)
(* JSON texts, the values they decode to, and what Python does with these. *)
(*                                                                         *)
(* A text is a tree of tagged tuples: a scalar, <<"arr", texts>>, or       *)
(* <<"obj", pairs>> with the pairs <<name, text>> in the order written and *)
(* names possibly repeated; <<"bad", class>> is a place where decoding     *)
(* fails.  A value is the same with an object as a function from names.    *)
(* A string is a sequence of tokens; its characters do not matter here.    *)
(***************************************************************************)
EXTENDS Naturals, Sequences

\* The errors that are StrictJsonErrors, and those json.loads lets through: a
\* ValueError for an integer with too many digits, and a RecursionError.
StrictErrors == {"utf8", "syntax", "duplicate", "nonfinite", "unrepresentable"}
Leaks == {"digits", "depth"}

Done(v)   == <<"ok", v>>
Failed(c) == <<"error", c>>
IsOk(d)   == d[1] = "ok"

-----------------------------------------------------------------------------
\* Values, as the checkers look at them.

IsObj(v) == v[1] = "obj"
IsStr(v) == v[1] = "str"
IsArr(v) == v[1] = "arr"
IsInt(v) == v[1] = "int"            \* isinstance(v, int) and not a bool
Keys(o)  == DOMAIN o[2]
Has(o, k) == k \in Keys(o)
Get(o, k) == o[2][k]
Text(s)  == <<"str", s>>
Str(token) == Text(<<token>>)
True  == <<"bool", TRUE>>
False == <<"bool", FALSE>>

\* Python's ==: a bool is a number, and an int equals a Decimal of its value.
Number(v) == CASE v[1] = "bool" -> {IF v[2] THEN 1 ELSE 0}
               [] v[1] \in {"int", "dec"} -> {v[2]}
               [] OTHER -> {}
PyEq(v, w) == v = w \/ Number(v) \cap Number(w) # {}
=============================================================================
