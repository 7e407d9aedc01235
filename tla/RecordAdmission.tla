--------------------------- MODULE RecordAdmission --------------------------
(***************************************************************************)
(* What the admission of a record rests on: the decoder and the matcher,   *)
(* compared with what a text and a schema mean.                            *)
(***************************************************************************)
EXTENDS Admission

-----------------------------------------------------------------------------
\* A reference definition, independent of the checker.

\* JSON Schema 2020-12, for the keywords of the subset: a schema is a truth
\* value or an object, a keyword constrains values of its own type only, and
\* the siblings of a reference count.
Validations == [value : Instances, schema : DecodedValues, root : Objects]
Valid[m \in Validations] ==
    LET v == m.value
        s == m.schema
        valid(w, c) == Valid[[m EXCEPT !.value = w, !.schema = c]]
        named == Members(s, "properties")
    IN
    IF ~IsObj(s) THEN s = True
    ELSE
    /\ Has(s, "$ref") => Resolvable(Get(s, "$ref"), m.root) /\ valid(v, Resolve(Get(s, "$ref"), m.root))
    /\ Has(s, "type") => Get(s, "type") = Str(CASE IsObj(v) -> "object" [] IsStr(v) -> "string" [] OTHER -> v[1])
    /\ Has(s, "const") => v = Get(s, "const")
    /\ Has(s, "enum") => v \in Elements(Get(s, "enum"))
    /\ Has(s, "pattern") /\ IsStr(v) => v[2] \in Language[Get(s, "pattern")[2]]
    /\ IsObj(v) =>
          /\ Has(s, "required") => \A x \in Elements(Get(s, "required")) : \E n \in Keys(v) : x = Str(n)
          /\ Has(s, "propertyNames") => \A n \in Keys(v) : valid(Str(n), Get(s, "propertyNames"))
          /\ \A n \in Keys(v) \cap DOMAIN named : valid(Get(v, n), named[n])
          /\ Has(s, "additionalProperties") =>
                \A n \in Keys(v) \ DOMAIN named : valid(Get(v, n), Get(s, "additionalProperties"))

\* The identifier of a record is its publisher's: what stands before the first
\* colon is the publisher, or the publisher up to a dot.
InNamespace(id, publisher) ==
    \E i \in DOMAIN id :
       /\ id[i] = ":" /\ \A j \in 1 .. i - 1 : id[j] # ":"
       /\ \E k \in 1 .. i : id[k] \in {".", ":"} /\ SubSeq(id, 1, k - 1) = publisher

\* Every extension is of the supported version, and inert where it is unknown.
InertExtension(x) ==
    IsObj(x) /\ Has(x, "version") /\ Get(x, "version") = SupportedExtensionVersion
    /\ ~(Has(x, "criticality") /\ Get(x, "criticality") = Str("required"))

-----------------------------------------------------------------------------
\* A file that was decoded had exactly one reading, and the checker works on
\* that one: no repeated member was resolved in anybody's favour.
DecodedIsUnambiguous ==
    /\ value # Absent => Readings[job.file] = {value}
    /\ schema # Absent => Readings[job.schema] = {schema}

\* The audit lets no schema pass that the matcher would read differently from
\* JSON Schema, recursive ones included; so a record is admitted exactly when
\* it is valid, belongs to its publisher's namespace and needs no extension
\* that the reader does not understand.
EnvelopeVerdictIsJustified ==
    job.checker = "envelope" /\ At("conclude") /\ verdict # "raised" /\ value # Absent =>
       (verdict = "admitted" <=>
          /\ Valid[[value |-> value, schema |-> schema, root |-> schema]] /\ IsObj(value)
          /\ \A k \in {"record_id", "publisher"} : Has(value, k) /\ IsStr(Get(value, k))
          /\ InNamespace(Get(value, "record_id")[2], Get(value, "publisher")[2])
          /\ Has(value, "extensions") =>
                /\ IsObj(Get(value, "extensions"))
                /\ \A x \in Values(Get(value, "extensions")) : InertExtension(x))
=============================================================================
