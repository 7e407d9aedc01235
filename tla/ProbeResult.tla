----------------------------- MODULE ProbeResult ----------------------------
(***************************************************************************)
(* conformance/check-probe-result.py: which results of the two disposable  *)
(* crypto probes support a passing aggregate.  Equality is Python's.       *)
(***************************************************************************)
EXTENDS JsonValues

CONSTANTS Sha256Texts, Sha512Texts  \* what the two regular expressions match fully

Eq(v, token) == PyEq(v, Str(token))
NonEmpty(v)  == IsStr(v) /\ v[2] # <<>>
ExactMembers(v, names) == IsObj(v) /\ Keys(v) = names
Values(o) == {Get(o, k) : k \in Keys(o)}

ValidateFixture(v) ==
    /\ ExactMembers(v, {"bytes", "sha256", "sha512"})
    /\ IsInt(Get(v, "bytes")) /\ Get(v, "bytes")[2] > 0
    /\ IsStr(Get(v, "sha256")) /\ Get(v, "sha256")[2] \in Sha256Texts
    /\ IsStr(Get(v, "sha512")) /\ Get(v, "sha512")[2] \in Sha512Texts

ValidateCommon(r, revision) ==
    /\ Eq(Get(r, "source_revision"), revision)
    /\ Eq(Get(r, "reference_time"), "20260910")
    /\ NonEmpty(Get(r, "sq_version")) /\ NonEmpty(Get(r, "sqv_version"))

\* checks[name] is True: identity, so neither 1 nor "true" will do.
AllTrue(checks, names) == \A n \in names : Get(checks, n) = True

WrongCryptoChecks == {"sq_sign_verify", "tampered_message_rejected", "tampered_signature_rejected",
                      "wrong_certificate_rejected", "temporary_key_material_removed"}
CryptoChecks == {"sq_sign_verify", "sqv_detached_verify", "tampered_message_rejected",
                 "tampered_signature_rejected", "wrong_certificate_rejected", "temporary_key_material_removed"}
CryptoMembers == {"checks", "fixture_bytes", "fixture_sha256", "fixture_sha512", "fixtures", "reference_time",
                  "result", "schema", "source_revision", "sq_version", "sqv_version"}

\* The fixture the result is bound to is the message among its fixtures.
WrongFixtureBinding(r) == \A k \in {"fixture_bytes", "fixture_sha256", "fixture_sha512"} : Has(r, k)
FixtureBinding(r) ==
    LET message == Get(Get(r, "fixtures"), "message") IN
    /\ PyEq(Get(r, "fixture_bytes"), Get(message, "bytes"))
    /\ PyEq(Get(r, "fixture_sha256"), Get(message, "sha256"))
    /\ PyEq(Get(r, "fixture_sha512"), Get(message, "sha512"))

\* _validate_crypto, up to its look at the PQC observation, ...
CryptoObserved(r, revision) ==
    /\ Keys(r) = CryptoMembers
    /\ Eq(Get(r, "schema"), "crypto-conformance-result/v1")
    /\ ValidateCommon(r, revision)
    /\ ExactMembers(Get(r, "fixtures"), {"message", "signature", "tampered_message", "tampered_signature"})
    /\ \A v \in Values(Get(r, "fixtures")) : ValidateFixture(v)
    /\ FixtureBinding(r)
    /\ ExactMembers(Get(r, "result"), {"openpgp-rfc9580-classical-v1", "openpgp-rfc9980-pqc-v1"})
    /\ Eq(Get(Get(r, "result"), "openpgp-rfc9580-classical-v1"), "qualified-for-observed-runtime")
PqcObservation(r) == Get(Get(r, "result"), "openpgp-rfc9980-pqc-v1")

\* ... which is looked up in a set: an array or an object has no hash, and the
\* TypeError is nobody's refusal.
Raises(kind, r, revision) ==
    kind = "crypto-conformance" /\ CryptoObserved(r, revision) /\ (IsArr(PqcObservation(r)) \/ IsObj(PqcObservation(r)))

ValidateCrypto(r, revision) ==
    /\ CryptoObserved(r, revision)
    /\ \E s \in {"unsupported", "qualified-for-observed-runtime"} : Eq(PqcObservation(r), s)
    /\ ExactMembers(Get(r, "checks"), CryptoChecks \union {"production_values"})
    /\ AllTrue(Get(r, "checks"), CryptoChecks)
    /\ Get(Get(r, "checks"), "production_values") = False

WrongSigningChecks == {"tampered_message_rejected", "tampered_signature_rejected", "wrong_certificate_rejected",
                       "temporary_key_material_removed"}
SigningChecks == {"detached_sign_verify", "tampered_message_rejected", "tampered_signature_rejected",
                  "wrong_certificate_rejected", "temporary_key_material_removed"}
SigningMembers == {"checks", "diagnostics", "fixtures", "production_values_policy", "profile", "reference_time",
                   "rfc9980", "schema", "source_revision", "sq_version", "sqv_version"}

\* A verifier that rejects exits with 1 to 123: not with success, not by a signal.
IsRejection(d) ==
    /\ ExactMembers(d, {"command", "exit_status", "stderr"})
    /\ NonEmpty(Get(d, "command")) /\ IsStr(Get(d, "stderr"))
    /\ IsInt(Get(d, "exit_status")) /\ Get(d, "exit_status")[2] \in 1 .. 123

ValidateSigning(r, revision) ==
    /\ Keys(r) = SigningMembers
    /\ Eq(Get(r, "schema"), "signing-profile-result/v1")
    /\ ValidateCommon(r, revision)
    /\ Eq(Get(r, "profile"), "openpgp-rfc9580-classical-v1")
    /\ Eq(Get(r, "production_values_policy"), "forbidden")
    /\ Eq(Get(r, "rfc9980"), "unsupported-capability-gated")
    /\ ExactMembers(Get(r, "fixtures"), {"message", "signature"})
    /\ \A v \in Values(Get(r, "fixtures")) : ValidateFixture(v)
    /\ ExactMembers(Get(r, "checks"), SigningChecks) /\ AllTrue(Get(r, "checks"), SigningChecks)
    /\ ExactMembers(Get(r, "diagnostics"), {"tampered_message", "tampered_signature", "wrong_certificate"})
    /\ \A d \in Values(Get(r, "diagnostics")) : IsRejection(d)

\* The result is known to be an object by then.
Validates(kind, r, revision) ==
    IF kind = "crypto-conformance" THEN ValidateCrypto(r, revision) ELSE ValidateSigning(r, revision)
=============================================================================
