----------------------------- MODULE MCAdmission ----------------------------
(***************************************************************************)
(* Sound files of each kind and every file that differs from one of them   *)
(* in a single place: a value replaced by junk, or a member left out,      *)
(* repeated or added.                                                      *)
(***************************************************************************)
EXTENDS RecordAdmission, TLC

Bad(c) == <<"bad", c>>
O(pairs) == <<"obj", pairs>>
A(texts) == <<"arr", texts>>
S(token) == <<"str", <<token>>>>
Drop(s, i) == SubSeq(s, 1, i - 1) \o SubSeq(s, i + 1, Len(s))

\* A text with all of its parts, and the depth of its nesting.
RECURSIVE WithParts(_)
WithParts(t) == {t} \union UNION {WithParts(p) : p \in Parts(t)}
RECURSIVE MCDepth(_)
MCDepth(t) == IF Parts(t) = {} THEN 0 ELSE 1 + Max({MCDepth(p) : p \in Parts(t)})

\* Every text that differs from t in one place.
RECURSIVE Changes(_, _)
Changes(t, junk) ==
    (junk \ {t}) \union
    CASE t[1] = "obj" ->
           UNION {{O([t[2] EXCEPT ![i] = <<t[2][i][1], x>>]) : x \in Changes(t[2][i][2], junk)} : i \in DOMAIN t[2]}
           \union {O(Drop(t[2], i)) : i \in DOMAIN t[2]}
           \union UNION {{O(Append(t[2], <<t[2][i][1], x>>)) : x \in {True, t[2][i][2]}} : i \in DOMAIN t[2]}
           \union {O(Append(t[2], <<"extra", S("x")>>))}
      [] t[1] = "arr" ->
           UNION {{A([t[2] EXCEPT ![i] = x]) : x \in Changes(t[2][i], junk)} : i \in DOMAIN t[2]}
           \union {A(Drop(t[2], i)) : i \in DOMAIN t[2]} \union {A(Append(t[2], t[2][i])) : i \in DOMAIN t[2]}
      [] OTHER -> {}

Junk == {True, <<"int", 1>>, <<"dec", 1>>, S("x"), Bad("digits"), Bad("nonfinite")}

\* Probes.
Fixture == O(<<<<"bytes", <<"int", 1>>>>, <<"sha256", S("h64")>>, <<"sha512", S("h128")>>>>)
Checks(kind) == LET s == SetToSeq(DOMAIN ChecksOf(kind)) IN O([i \in DOMAIN s |-> <<s[i], ChecksOf(kind)[s[i]]>>])
Common == <<<<"source_revision", S("rev")>>, <<"reference_time", S("20260910")>>, <<"sq_version", S("1")>>, <<"sqv_version", S("1")>>>>
Crypto ==
    O(<<<<"schema", S("crypto-conformance-result/v1")>>,
        <<"fixtures", O(<<<<"message", Fixture>>, <<"signature", Fixture>>, <<"tampered_message", Fixture>>,
                          <<"tampered_signature", Fixture>>>>)>>,
        <<"fixture_bytes", <<"int", 1>>>>, <<"fixture_sha256", S("h64")>>, <<"fixture_sha512", S("h128")>>,
        <<"result", O(<<<<"openpgp-rfc9580-classical-v1", S("qualified-for-observed-runtime")>>,
                        <<"openpgp-rfc9980-pqc-v1", S("unsupported")>>>>)>>,
        <<"checks", Checks("crypto-conformance")>>>> \o Common)
Diagnostic == O(<<<<"command", S("sqv")>>, <<"exit_status", <<"int", 123>>>>, <<"stderr", <<"str", <<>>>>>>>>)
Signing ==
    O(<<<<"schema", S("signing-profile-result/v1")>>, <<"profile", S("openpgp-rfc9580-classical-v1")>>,
        <<"production_values_policy", S("forbidden")>>, <<"rfc9980", S("unsupported-capability-gated")>>,
        <<"fixtures", O(<<<<"message", Fixture>>, <<"signature", Fixture>>>>)>>,
        <<"checks", Checks("signing-profile")>>,
        <<"diagnostics", O(<<<<"tampered_message", Diagnostic>>, <<"tampered_signature", Diagnostic>>,
                             <<"wrong_certificate", Diagnostic>>>>)>>>> \o Common)
ProbeFiles == LET more == Junk \union {S("k64"), <<"int", 0>>, <<"int", 124>>, <<"null">>, A(<<>>), O(<<>>)} IN
    [checker : {"crypto-conformance"}, role : {"evidence"}, schema : {<<"null">>}, file : {Crypto, Signing} \union Changes(Crypto, more)]
    \union
    [checker : {"signing-profile"}, role : {"evidence"}, schema : {<<"null">>}, file : {Crypto, Signing} \union Changes(Signing, more)]

\* Envelopes: a small schema with every keyword, and records for it.
Kind(k) == <<"type", S(k)>>
Schema(records, names, extension, more) ==
    O(<<Kind("object"), <<"$schema", S("2020-12")>>, <<"$id", S("envelope")>>, <<"additionalProperties", False>>,
        <<"required", A(<<S("record_id"), S("publisher")>>)>>,
        <<"properties", O(<<<<"record_id", records>>, <<"publisher", O(<<Kind("string"), <<"pattern", S("word")>>>>)>>,
             <<"extensions", O(<<Kind("object"), <<"propertyNames", names>>,
                                 <<"additionalProperties", O(<<<<"$ref", S("extension")>>>>)>>>>)>>>>)>>,
        <<"$defs", O(<<<<"extension", extension>>>> \o more)>>>>)
Extension == O(<<Kind("object"), <<"properties", O(<<<<"state", O(<<<<"const", S("inert")>>>>)>>,
                    <<"criticality", O(<<<<"enum", A(<<S("optional"), S("required")>>)>>>>)>>>>)>>,
                 <<"required", A(<<S("version"), S("criticality")>>)>>>>)
Dotted == O(<<<<"pattern", S("dotted")>>>>)
Base == Schema(O(<<Kind("string")>>), Dotted, Extension, <<>>)
Schemas ==
    {Base,
     Schema(O(<<<<"$ref", S("self")>>>>), Dotted, Extension, <<<<"self", O(<<<<"$ref", S("self")>>>>)>>>>),
     Schema(O(<<Kind("object"), <<"properties", O(<<<<"p", O(<<<<"$ref", S("deep")>>>>)>>>>)>>>>), Dotted, Extension,
            <<<<"deep", O(<<Kind("object"), <<"properties", O(<<<<"p", O(<<<<"$ref", S("deep")>>>>)>>>>)>>>>)>>>>),
     Schema(O(<<Kind("string")>>), O(<<<<"$ref", S("named")>>>>), Extension, <<<<"named", Dotted>>>>)}
    \union {Schema(O(<<Kind("string")>>), names, Extension, <<>>) : names \in {O(<<Kind("object")>>), O(<<>>)}}
    \union Changes(Base, {True, S("object"), S("string"), O(<<>>), O(<<<<"pattern", S("word")>>>>), Bad("syntax")})

Id(tokens) == <<"record_id", <<"str", tokens>>>>
Pub(tokens) == <<"publisher", <<"str", tokens>>>>
Ext(name, v, c) == <<"extensions", O(<<<<name, O(<<<<"state", S("inert")>>, <<"version", S(v)>>, <<"criticality", S(c)>>>>)>>>>)>>
Record == O(<<Id(<<"acme", ".", "x", ":", "r">>), Pub(<<"acme">>), Ext("ext.x", "1.0.0", "optional")>>)
Records ==
    {Record, O(<<Id(<<"acme", ":", "r">>), Pub(<<"acme">>)>>), O(<<Id(<<"acmex", ".", "x", ":", "r">>), Pub(<<"acme">>)>>),
     O(<<Id(<<"x", ":", "acme", ":">>), Pub(<<"acme">>)>>), O(<<Id(<<"acme">>), Pub(<<"acme">>)>>),
     O(<<Id(<<"acme", ":", "r">>), Pub(<<"acme">>), Ext("ext", "1.0.0", "optional")>>),
     O(<<Id(<<"acme", ":", "r">>), Pub(<<"acme">>), Ext("ext.x", "2.0.0", "optional")>>),
     O(<<Id(<<"acme", ":", "r">>), Pub(<<"acme">>), Ext("ext.x", "1.0.0", "required")>>)}
Envelopes ==
    [checker : {"envelope"}, role : {"canonical"}, schema : Schemas, file : {Record, O(<<Id(<<"acme", ":", "r">>), Pub(<<"acme">>)>>)}]
    \union
    [checker : {"envelope"}, role : {"canonical", "hostile"}, schema : {Base}, file : Records \union Changes(Record, Junk \union {O(<<>>)})]

\* Inventories of two producers, one of them with two paths.
MCProducers == "c1" :> 12 @@ "c2" :> 13
MCSize(sha) == IF sha = "s1" THEN 1 ELSE 2
Blob(p, k) == [path |-> <<p>>, mode |-> "100644", kind |-> k, oid |-> "o1", sha |-> "s1"]
Added(p) == [status |-> "A", path |-> <<p>>]
Commit(parents, tree, changes) == [parents |-> parents, tree |-> tree, changes |-> changes]
Repo(whole, c1, t1) ==
    [whole |-> whole, refs |-> {<<"c1", 12>>, <<"c2", 13>>},
     commits |-> ("c1" :> c1 @@ "c2" :> Commit(<<"c1">>, "t2", <<Added("q")>>)),
     trees |-> ("t1" :> t1 @@ "t2" :> {Blob("p", "blob"), Blob("q", "blob")})]
C1 == Commit(<<"c0">>, "t1", <<Added("p"), Added("r")>>)
T1 == {Blob("p", "blob"), Blob("r", "blob")}
SoundRepo == Repo(TRUE, C1, T1)
MCRepositories ==
    {SoundRepo, Repo(FALSE, C1, T1), Repo(TRUE, Commit(<<"c0", "cx">>, "t1", C1.changes), T1),
     Repo(TRUE, Commit(<<"c0">>, "t1", <<Added("p"), [status |-> "D", path |-> <<"r">>]>>), {Blob("p", "blob")}),
     Repo(TRUE, Commit(<<"c0">>, "t1", <<Added("p")>>), T1), Repo(TRUE, C1, {Blob("p", "blob"), Blob("r", "commit")}),
     [SoundRepo EXCEPT !.refs = @ \union {<<"cx", 1>>}]}
Entry(c, t, parent, p) ==
    O(<<<<"source_commit", S(c)>>, <<"issue", <<"int", MCProducers[c]>>>>, <<"parent_sha", S(parent)>>, <<"tree_sha", S(t)>>,
        <<"path", S(p)>>, <<"git_file_mode", S("100644")>>, <<"blob_oid", S("o1")>>, <<"byte_length", <<"int", 1>>>>, <<"sha256", S("s1")>>>>)
Entries == <<Entry("c1", "t1", "c0", "p"), Entry("c1", "t1", "c0", "r"), Entry("c2", "t2", "c1", "q")>>
InventoryFile(entries, n) ==
    O(<<<<"entries", A(entries)>>, <<"format", S("sacrysty-source-inventory/v1")>>, <<"item_count", <<"int", n>>>>,
        <<"lookup_failures", A(<<>>)>>>>)
Inventories ==
    {InventoryFile(Entries, 3), InventoryFile(<<Entries[1], Entries[2]>>, 2), InventoryFile(<<Entries[1], Entries[3]>>, 2),
     InventoryFile(<<Entries[1], Entries[1], Entries[3]>>, 3), InventoryFile(Append(Entries, Entries[3]), 4)}
    \union Changes(InventoryFile(Entries, 3), {S("x"), S(".."), <<"int", 2>>, <<"dec", 12>>, True, Bad("depth")})
MCJobs == ProbeFiles \union Envelopes
    \union [checker : {"inventory"}, role : {"evidence"}, schema : {<<"null">>}, file : Inventories]

\* (TLC computes once what another definition names.)
TextsOfJobs == UNION {WithParts(j.file) \union WithParts(j.schema) : j \in MCJobs}
MCTexts == TextsOfJobs

MCLanguage == <<"word">> :> {<<"acme">>} @@ <<"dotted">> :> {<<"ext.x">>}
Dialect202012 == S("2020-12")
Version100 == S("1.0.0")
Hashes256 == {<<"h64">>, <<"k64">>}
Hashes512 == {<<"h128">>}
=============================================================================
