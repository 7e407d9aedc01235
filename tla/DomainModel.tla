---------------------------- MODULE DomainModel ----------------------------
(***************************************************************************)
(* conformance/check-domain-model.py: the audit of the envelope schema,    *)
(* the matcher that follows it, and the rules beside the schema.  Patterns *)
(* are names for sets of strings; a reference is the name of a definition. *)
(***************************************************************************)
EXTENDS StrictJson, SequencesExt

CONSTANTS Language,     \* Language[p]: the strings in which re.search finds pattern p
          Dialect,      \* the supported "$schema"
          SupportedExtensionVersion

\* The values that texts decode to; what is matched is one of them, or a name.
DecodedValues == {Decode[t][2] : t \in {u \in Texts : IsOk(Decode[u])}}
Objects == {v \in DecodedValues : IsObj(v)}
Instances == DecodedValues \union UNION {{Str(n) : n \in Keys(v)} : v \in Objects}

UnderstoodRequiredExtensions == {}
SchemaKeys == {"$defs", "$id", "$ref", "$schema", "additionalProperties", "const", "enum", "pattern",
               "properties", "propertyNames", "required", "title", "type"}
ObjectSchemaKeys == {"additionalProperties", "properties", "propertyNames", "required"}
RootOnlyKeys == {"$defs", "$id", "$schema"}
ObjectType == Str("object")
StringType == Str("string")
TypeOf(s) == IF Has(s, "type") THEN Get(s, "type") ELSE <<"null">>

\* A list of distinct strings.
DistinctStrings(v) ==
    /\ IsArr(v) /\ \A i \in DOMAIN v[2] : IsStr(v[2][i])
    /\ \A i, j \in DOMAIN v[2] : i # j => v[2][i] # v[2][j]
Elements(v) == {v[2][i] : i \in DOMAIN v[2]}

\* The members of the object that member k of o is, if it is one.
Members(o, k) == IF Has(o, k) /\ IsObj(Get(o, k)) THEN Get(o, k)[2] ELSE [n \in {} |-> {}]

\* _resolve_envelope_schema_reference
Resolvable(ref, root) == \E n \in DOMAIN Members(root, "$defs") : ref = Str(n)
Resolve(ref, root) == Members(root, "$defs")[ref[2][1]]

\* instance is the type that the place gives a schema without one of its own.
WrongPatternFits(s, instance) == IsStr(Get(s, "pattern")) /\ Get(s, "pattern")[2] \in DOMAIN Language
PatternFits(s, instance) ==
    /\ IF Has(s, "type") THEN Get(s, "type") = StringType ELSE instance = "string"
    /\ IsStr(Get(s, "pattern")) /\ Get(s, "pattern")[2] \in DOMAIN Language

KeywordsFit(s, instance) ==
    /\ Has(s, "type") => Get(s, "type") \in {ObjectType, StringType}
    /\ Keys(s) \cap ObjectSchemaKeys # {} => TypeOf(s) = ObjectType
    /\ Has(s, "pattern") => PatternFits(s, instance)
    /\ Has(s, "const") => IsStr(Get(s, "const"))
    /\ Has(s, "enum") => DistinctStrings(Get(s, "enum")) /\ Get(s, "enum")[2] # <<>>
    /\ Has(s, "required") => DistinctStrings(Get(s, "required"))
    /\ \A k \in {"properties", "$defs"} : Has(s, k) => IsObj(Get(s, k))
    /\ Has(s, "additionalProperties") => Get(s, "additionalProperties")[1] \in {"bool", "obj"}

\* _require_supported_envelope_schema; stack holds the references on the way
\* from the root, so that a schema that reaches itself is refused.
Audits == [schema : DecodedValues, root : Objects, isRoot : BOOLEAN, stack : SUBSET DecodedValues, instance : {"none", "string"}]
Audited[a \in Audits] ==
    LET s == a.schema
        part(c, instance) == Audited[[a EXCEPT !.schema = c, !.isRoot = FALSE, !.instance = instance]]
    IN
    /\ IsObj(s) /\ Keys(s) \subseteq SchemaKeys
    /\ a.isRoot \/ Keys(s) \cap RootOnlyKeys = {}
    /\ Has(s, "$schema") => Get(s, "$schema") = Dialect
    /\ \A k \in {"$id", "title"} : Has(s, k) => IsStr(Get(s, k))
    /\ IF Has(s, "$ref")
       THEN LET ref == Get(s, "$ref") IN
            /\ Keys(s) = {"$ref"} /\ IsStr(ref) /\ ref \notin a.stack /\ Resolvable(ref, a.root)
            /\ Audited[[a EXCEPT !.schema = Resolve(ref, a.root), !.isRoot = FALSE, !.stack = @ \union {ref}]]
       ELSE /\ KeywordsFit(s, a.instance)
            /\ \A k \in {"properties", "$defs"} : \A n \in DOMAIN Members(s, k) : part(Members(s, k)[n], "none")
            /\ Has(s, "propertyNames") => part(Get(s, "propertyNames"), "string")
            /\ Has(s, "additionalProperties") /\ IsObj(Get(s, "additionalProperties"))
                  => part(Get(s, "additionalProperties"), "none")
RequireSupported(schema) ==
    IsObj(schema) /\ Audited[[schema |-> schema, root |-> schema, isRoot |-> TRUE, stack |-> {}, instance |-> "none"]]

\* _matches_envelope_schema: where it would find a part of the schema to be of
\* the wrong type, nothing matches.
Matchings == [value : Instances, schema : Objects, root : Objects]
Matches[m \in Matchings] ==
    LET v == m.value
        s == m.schema
        fits(w, c) == IsObj(c) /\ Matches[[m EXCEPT !.value = w, !.schema = c]]
    IN
    IF Has(s, "$ref") THEN Resolvable(Get(s, "$ref"), m.root) /\ fits(v, Resolve(Get(s, "$ref"), m.root))
    ELSE
    /\ Has(s, "const") => v = Get(s, "const")
    /\ Has(s, "enum") => v \in Elements(Get(s, "enum"))
    /\ TypeOf(s) = StringType => IsStr(v)
    /\ Has(s, "pattern") => IsStr(v) /\ v[2] \in Language[Get(s, "pattern")[2]]
    /\ TypeOf(s) = ObjectType =>
          /\ IsObj(v)
          /\ Has(s, "required") => Elements(Get(s, "required")) \subseteq {Str(n) : n \in Keys(v)}
          /\ Has(s, "propertyNames") => \A n \in Keys(v) : fits(Str(n), Get(s, "propertyNames"))
          /\ \A n \in Keys(v) :
                IF n \in DOMAIN Members(s, "properties") THEN fits(Get(v, n), Members(s, "properties")[n])
                ELSE Has(s, "additionalProperties") =>
                       /\ Get(s, "additionalProperties") # False
                       /\ IsObj(Get(s, "additionalProperties")) => fits(Get(v, n), Get(s, "additionalProperties"))
EnvelopeMatches(record, schema) == Matches[[value |-> record, schema |-> schema, root |-> schema]]

\* extensions_admissible
ExtensionsAdmissible(r) ==
    /\ IsObj(r)
    /\ Has(r, "extensions") =>
          /\ IsObj(Get(r, "extensions"))
          /\ \A n \in Keys(Get(r, "extensions")) :
                LET e == Get(Get(r, "extensions"), n) IN
                /\ IsObj(e) /\ Has(e, "version") /\ Get(e, "version") = SupportedExtensionVersion
                /\ Has(e, "criticality") /\ Get(e, "criticality") = Str("required") => n \in UnderstoodRequiredExtensions

\* publisher_namespace_admissible: what stands before the first colon is the
\* publisher or one of its subdomains.
NamespaceAdmissible(r) ==
    /\ IsObj(r) /\ {"publisher", "record_id"} \subseteq Keys(r)
    /\ IsStr(Get(r, "publisher")) /\ IsStr(Get(r, "record_id"))
    /\ LET id == Get(r, "record_id")[2]
           publisher == Get(r, "publisher")[2]
           colons == {i \in DOMAIN id : id[i] = ":"}
           qualifier == SubSeq(id, 1, Min(colons) - 1)
       IN  /\ colons # {}
           /\ \/ qualifier = publisher
              \/ IsPrefix(Append(publisher, "."), qualifier)

EnvelopeAdmissible(r, schema) == EnvelopeMatches(r, schema) /\ NamespaceAdmissible(r) /\ ExtensionsAdmissible(r)
=============================================================================
