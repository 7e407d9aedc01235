------------------------------ MODULE Admission -----------------------------
(***************************************************************************)
(* The three checkers of conformance/ that admit evidence, each from the   *)
(* files it reads to its exit status: check-domain-model.py on a record,   *)
(* check-probe-result.py on a probe's result, check-source-inventory.py on *)
(* the inventory and the bundle, which somebody may replace meanwhile.     *)
(***************************************************************************)
EXTENDS ProbeResult, SourceInventory, DomainModel

CONSTANTS Jobs,          \* what is to be checked: [checker, role, file, schema]
          Revision,      \* the revision the aggregate expects of a probe
          PinnedBundle, OtherBundle,
          Repositories   \* what a clone of the pinned bundle may yield

ASSUME AdmissionAssumption ==
    /\ PinnedBundle # OtherBundle
    /\ \A j \in Jobs : j.checker \in {"envelope", "crypto-conformance", "signing-profile", "inventory"}
    /\ \A j \in Jobs : {j.file, j.schema} \subseteq Texts

\* Of git: a tree is a finite set of [path, mode, kind, oid, sha].
ASSUME RepositoriesAssumption ==
    \A repo \in Repositories : \A c \in DOMAIN repo.commits :
       LET tree == repo.trees[repo.commits[c].tree] IN
       /\ IsFiniteSet(tree)
       /\ \A b \in tree : b = [path |-> b.path, mode |-> b.mode, kind |-> b.kind, oid |-> b.oid, sha |-> b.sha]

VARIABLES job,     \* the checker's command line and the files it finds
          pc, value, schema,
          bundle,  \* the content of the bundle file
          frozen,  \* the bytes read from it, later those in the temporary directory
          origin,  \* what the pinned bundle holds
          clone, verdict, exit

vars == <<job, pc, value, schema, bundle, frozen, origin, clone, verdict, exit>>
Absent == <<"null">>
NoRepo == [whole |-> FALSE, refs |-> {}, commits |-> <<>>, trees |-> <<>>]

Init ==
    /\ job \in Jobs
    /\ pc = IF job.checker = "envelope" THEN "import" ELSE "load"
    /\ value = Absent /\ schema = Absent
    /\ bundle \in IF job.checker = "inventory" THEN {PinnedBundle, OtherBundle} ELSE {PinnedBundle}
    /\ origin \in IF job.checker = "inventory" THEN Repositories ELSE {NoRepo}
    /\ frozen = "none" /\ clone = NoRepo
    /\ verdict = "none" /\ exit = "none"

At(p) == pc = p
Give(v) == verdict' = v /\ pc' = "conclude"
Inventory == UNCHANGED <<bundle, frozen, origin, clone>>

\* The schema is decoded when the module is imported, where nothing catches an
\* error; main then looks at its identity.
ImportSchema ==
    /\ At("import")
    /\ LET d == Decode[job.schema] IN
       IF IsOk(d) /\ IsObj(d[2]) /\ Has(d[2], "$id") /\ Get(d[2], "$id") = Str("envelope")
       THEN schema' = d[2] /\ pc' = "load" /\ UNCHANGED verdict
       ELSE Give("raised") /\ UNCHANGED schema
    /\ UNCHANGED <<job, value, exit>> /\ Inventory

\* Every StrictJsonError becomes the checker's own refusal, other exceptions end
\* it as they are.
WrongLoad(checkers, next) ==
    /\ At("load") /\ job.checker \in checkers
    /\ LET d == Decode[job.file] IN
       IF IsOk(d) THEN value' = d[2] /\ pc' = next /\ UNCHANGED verdict
       ELSE Give("refused") /\ UNCHANGED value
    /\ UNCHANGED <<job, schema, exit>> /\ Inventory
Load(checkers, next) ==
    /\ At("load") /\ job.checker \in checkers
    /\ LET d == Decode[job.file] IN
       IF IsOk(d) THEN value' = d[2] /\ pc' = next /\ UNCHANGED verdict
       ELSE Give(IF d[2] \in StrictErrors THEN "refused" ELSE "raised") /\ UNCHANGED value
    /\ UNCHANGED <<job, schema, exit>> /\ Inventory
LoadFixture == Load({"envelope"}, "judge")
LoadResult == Load({"crypto-conformance", "signing-profile"}, "judge")
LoadInventory == Load({"inventory"}, "shape")

JudgeEnvelope ==
    /\ At("judge") /\ job.checker = "envelope"
    /\ Give(IF ~RequireSupported(schema) THEN "raised"
            ELSE IF EnvelopeAdmissible(value, schema) THEN "admitted" ELSE "refused")
    /\ UNCHANGED <<job, value, schema, exit>> /\ Inventory

JudgeProbe ==
    /\ At("judge") /\ job.checker \in {"crypto-conformance", "signing-profile"}
    /\ Give(IF ~IsObj(value) THEN "refused"
            ELSE IF Raises(job.checker, value, Revision) THEN "raised"
            ELSE IF Validates(job.checker, value, Revision) THEN "admitted" ELSE "refused")
    /\ UNCHANGED <<job, value, schema, exit>> /\ Inventory

-----------------------------------------------------------------------------
\* The inventory and the bundle.

Idle == UNCHANGED <<job, value, schema, exit, origin>>

\* Another file is put in the place of the bundle, at any moment.
BundleReplaced ==
    /\ job.checker = "inventory" /\ ~At("done")
    /\ bundle' \in {PinnedBundle, OtherBundle} \ {bundle}
    /\ UNCHANGED <<pc, frozen, clone, verdict>> /\ Idle

Shape ==
    /\ At("shape")
    /\ IF WellFormedInventory(value) THEN pc' = "read" /\ UNCHANGED verdict ELSE Give("refused")
    /\ UNCHANGED <<bundle, frozen, clone>> /\ Idle

\* Size and digest are those of the bytes that were read, and stay so.
ReadBundle ==
    /\ At("read")
    /\ IF bundle = PinnedBundle THEN pc' = "freeze" /\ frozen' = bundle /\ UNCHANGED verdict
       ELSE Give("refused") /\ UNCHANGED frozen
    /\ UNCHANGED <<bundle, clone>> /\ Idle

\* The temporary directory must be outside the checkout (a RuntimeError).
Freeze ==
    /\ At("freeze")
    /\ (pc' = "clone" /\ UNCHANGED verdict) \/ Give("raised")
    /\ UNCHANGED <<bundle, frozen, clone>> /\ Idle

\* What git makes of a bundle, unless the clone fails; the other bundle was
\* made to please: it holds whatever history the inventory tells of.
Cloned(from, repo) == clone' = (IF from = PinnedBundle THEN origin ELSE repo) /\ pc' = "refs" /\ UNCHANGED verdict
WrongClone ==
    /\ At("clone")
    /\ \E repo \in Repositories : Cloned(bundle, repo)
    /\ UNCHANGED <<bundle, frozen>> /\ Idle
Clone ==
    /\ At("clone")
    /\ \/ \E repo \in Repositories : Cloned(frozen, repo)
       \/ Give("refused") /\ UNCHANGED clone
    /\ UNCHANGED <<bundle, frozen>> /\ Idle

Refs ==
    /\ At("refs")
    /\ IF clone.refs = {<<c, Producers[c]>> : c \in DOMAIN Producers}
       THEN pc' = "check" /\ UNCHANGED verdict ELSE Give("refused")
    /\ UNCHANGED <<bundle, frozen, clone>> /\ Idle

Check ==
    /\ At("check")
    /\ Give(IF CheckInventory(clone, value) THEN "admitted" ELSE "refused")
    /\ UNCHANGED <<bundle, frozen, clone>> /\ Idle

-----------------------------------------------------------------------------
\* main: a hostile fixture must be refused, by the decoder or by the rules; an
\* uncaught exception ends the checker like a refusal.
Conclude ==
    /\ At("conclude") /\ pc' = "done"
    /\ exit' = IF verdict = (IF job.role = "hostile" THEN "refused" ELSE "admitted") THEN "zero" ELSE "nonzero"
    /\ UNCHANGED <<job, value, schema, verdict>> /\ Inventory

Next ==
    \/ ImportSchema \/ LoadFixture \/ LoadResult \/ LoadInventory \/ JudgeEnvelope \/ JudgeProbe
    \/ Shape \/ ReadBundle \/ Freeze \/ Clone \/ Refs \/ Check \/ BundleReplaced
    \/ Conclude
Spec == Init /\ [][Next]_vars

-----------------------------------------------------------------------------
\* What the inventory should say of a repository, entry by entry.
Expected(repo) ==
    UNION {{[commit |-> c, parent |-> repo.commits[c].parents[1], blob |-> b] :
              b \in {x \in repo.trees[repo.commits[c].tree] : x.path \in ChangedPaths(repo.commits[c].changes)}}
           : c \in DOMAIN Producers}
Stated(e) == [commit |-> CommitOf(e), parent |-> Get(e, "parent_sha")[2][1],
              blob |-> [path |-> Get(e, "path")[2], mode |-> Get(e, "git_file_mode")[2][1], kind |-> "blob",
                        oid |-> Get(e, "blob_oid")[2][1], sha |-> Get(e, "sha256")[2][1]]]

-----------------------------------------------------------------------------
\* Every check a probe makes, with its outcome when all went well: what the
\* runners print at their end (run-sq.sh, run-signing-profile.sh).
ChecksOf(kind) ==
    LET positive == IF kind = "signing-profile" THEN {"detached_sign_verify"} ELSE {"sq_sign_verify", "sqv_detached_verify"}
        negative == {"tampered_message_rejected", "tampered_signature_rejected", "wrong_certificate_rejected"}
        values == IF kind = "signing-profile" THEN {} ELSE {"production_values"}
    IN  [n \in positive \union negative \union {"temporary_key_material_removed"} \union values |->
           IF n \in values THEN False ELSE True]
AllChecked(kind, r) ==
    /\ Keys(Get(r, "checks")) = DOMAIN ChecksOf(kind)
    /\ \A n \in DOMAIN ChecksOf(kind) : Get(Get(r, "checks"), n) = ChecksOf(kind)[n]

\* The signature was over the fixture, the classical profile passed, and the
\* other one passed or is not supported.
CryptoShown(r) ==
    LET message == Get(Get(r, "fixtures"), "message")
        observed(profile) == Get(Get(r, "result"), profile)
    IN  /\ Get(r, "schema") = Str("crypto-conformance-result/v1")
        /\ Get(r, "fixture_sha256") = Get(message, "sha256") /\ Get(r, "fixture_sha512") = Get(message, "sha512")
        /\ observed("openpgp-rfc9580-classical-v1") = Str("qualified-for-observed-runtime")
        /\ observed("openpgp-rfc9980-pqc-v1") \in {Str("unsupported"), Str("qualified-for-observed-runtime")}

\* Each of the three damaged inputs was rejected: by the verifier itself, not
\* by a command that was not found or a signal that ended it.
SigningShown(r) ==
    /\ Get(r, "schema") = Str("signing-profile-result/v1")
    /\ \A n \in {"tampered_message", "tampered_signature", "wrong_certificate"} :
          LET status == Get(Get(Get(r, "diagnostics"), n), "exit_status") IN status[1] = "int" /\ status[2] \in 1 .. 123

\* A checker that ends well says something.  Of evidence: the file has one
\* reading, and a probe's result in this reading is of the kind and revision
\* asked for, holds every check that the probe makes, with its very outcome, and
\* what goes with them.  Of a hostile fixture: it was refused, and not because
\* the decoder broke down over it.
EvidenceIsComplete ==
    exit = "zero" =>
       /\ \A c \in Leaks : Decode[job.file] # Failed(c)
       /\ job.role # "hostile" => Readings[job.file] = {value}
       /\ job.role # "hostile" /\ job.checker \in {"crypto-conformance", "signing-profile"} =>
             /\ Get(value, "source_revision") = Str(Revision)
             /\ AllChecked(job.checker, value)
             /\ IF job.checker = "signing-profile" THEN SigningShown(value) ELSE CryptoShown(value)

\* The inventory that passes says, entry for entry and once each, what the
\* producers in the pinned bundle changed, whoever replaces the bundle's file
\* after, or while, it is checked.
InventoryIsExact ==
    job.checker = "inventory" /\ verdict = "admitted" =>
       LET entries == Get(value, "entries")[2] IN
       /\ {Stated(entries[i]) : i \in DOMAIN entries} = Expected(origin)
       /\ Len(entries) = Cardinality(Expected(origin))
       /\ origin.whole /\ \A c \in DOMAIN Producers : Len(origin.commits[c].parents) = 1
=============================================================================
