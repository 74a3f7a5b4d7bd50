------------------------- MODULE PassportDocuments -------------------------
(***************************************************************************)
(* The Trust Passport library (packages/passport): documents are issued,   *)
(* renewed and revoked by their issuer, copied and edited by whoever holds *)
(* them, and judged by verifiers that hold the issuer's key or do not,     *)
(* trust the registry a revocation record came from or do not.             *)
(*                                                                         *)
(* A document is [issuance, attestation].  The issuance is what the digest *)
(* and the signature cover.  Both are taken to be free of collisions and   *)
(* forgeries: the digest of an issuance, and the signature of a payload by *)
(* the issuer, are written as the payload itself.                          *)
(***************************************************************************)
EXTENDS Integers, FiniteSets, Sequences

CONSTANTS
    None,             \* an optional field left out
    Reports,          \* audit reports, [score, findings]
    ValidityDays,     \* validity periods that are asked for
    MaxEvidenceAge,   \* maxEvidenceAgeDays, or None
    MaxClockSkew, MaxStaleness,
    EffectiveDates,   \* dates revocations are given
    Expected,         \* values of expectedSequence; records are made with 1
    MaxIssuances, MaxCopies, MaxRecords, MaxTime   \* bounds

ASSUME DocumentsAssumption ==
    /\ None \notin Int /\ ValidityDays \subseteq Int
    /\ MaxEvidenceAge = None \/ MaxEvidenceAge \in Nat
    /\ MaxClockSkew \in Nat /\ MaxStaleness \in Nat /\ EffectiveDates \subseteq Int

VARIABLES
    now,       \* the day
    docs,      \* every document in circulation
    records,   \* every revocation record in circulation
    minted,    \* history: the issuances issue() and renew() made
    evidence,  \* history: per id, when its lineage was last audited, or began without audit
    revoked    \* history: the issuances createRevocationRecord() was asked to revoke

vars == <<now, docs, records, minted, evidence, revoked>>

Init ==
    /\ now = 0 /\ docs = {} /\ records = {}
    /\ minted = {} /\ evidence = <<>> /\ revoked = {}

-----------------------------------------------------------------------------
(* What issue() derives from a report.                                     *)
EvidenceQuality(report) ==
    IF report.score = None THEN "insufficient"
    ELSE IF report.score >= 90 THEN "high" ELSE IF report.score >= 60 THEN "medium"
    ELSE IF report.score >= 30 THEN "low" ELSE "insufficient"

RiskSummary(report) ==
    [s \in {"critical", "high", "medium", "low"} |->
        Cardinality({i \in DOMAIN report.findings : report.findings[i] = s})]

(* Signing replaces the attestation; the hash binds the issuance.          *)
Attested(issuance, signed) ==
    [issuance |-> issuance,
     attestation |-> [method |-> IF signed THEN "ed25519" ELSE "none", hash |-> issuance,
                      signature |-> IF signed THEN issuance ELSE None]]

NewId == Len(evidence) + 1

Put(doc, date) ==
    /\ NewId <= MaxIssuances
    /\ docs' = docs \cup {doc}
    /\ minted' = minted \cup {doc.issuance}
    /\ evidence' = Append(evidence, date)
    /\ UNCHANGED <<now, records, revoked>>

Issue(report, days, signed) ==
    Put(Attested([id |-> NewId, renewed_from |-> None, agent |-> "agent",
                  report |-> report, generated_at |-> now,
                  quality |-> EvidenceQuality(report), risk |-> RiskSummary(report),
                  issued_at |-> now, expires_at |-> now + days, renewal_count |-> 0,
                  basis |-> None, evidence_as_of |-> None, embedded |-> FALSE], signed), now)

(* A document of another source: audit_ref is optional in the schema.      *)
Import ==
    /\ NewId <= MaxIssuances
    /\ docs' = docs \cup
          {Attested([id |-> NewId, renewed_from |-> None, agent |-> "agent",
                     report |-> None, generated_at |-> None, quality |-> None, risk |-> None,
                     issued_at |-> now, expires_at |-> now + 1, renewal_count |-> 0,
                     basis |-> None, evidence_as_of |-> None, embedded |-> FALSE], FALSE)}
    /\ evidence' = Append(evidence, now)
    /\ UNCHANGED <<now, records, minted, revoked>>

-----------------------------------------------------------------------------
(* Renewal.                                                                *)
Basis(report) == IF report # None THEN "reaudit" ELSE "administrative_extension"

(* Mutant of EvidenceAsOf: the source's issue date is the evidence's. *)
EvidenceAsOfIssue(source, report) == IF report # None THEN now ELSE source.issued_at

(* The date of the audit, or the date the source was issued when it names  *)
(* no audit: its own evidence_as_of is not looked at (lifecycle.ts:80).    *)
EvidenceAsOf(source, report) ==
    IF report # None THEN now
    ELSE IF source.generated_at # None THEN source.generated_at ELSE source.issued_at

TooOld(source, report) ==
    /\ report = None /\ MaxEvidenceAge # None
    /\ now - EvidenceAsOf(source, report) > MaxEvidenceAge

Renewable(doc, report, days, signed) ==
    /\ ~doc.issuance.embedded
    /\ doc.attestation.method = "ed25519" => signed
    /\ days > 0
    /\ ~TooOld(doc.issuance, report)

Renewed(source, report, days) ==
    [source EXCEPT !.id = NewId, !.renewed_from = source.id,
                   !.report = IF report # None THEN report ELSE @,
                   !.generated_at = IF report # None THEN now ELSE @,
                   !.issued_at = now, !.expires_at = now + days,
                   !.renewal_count = @ + 1, !.basis = Basis(report),
                   !.evidence_as_of = EvidenceAsOf(source, report), !.embedded = FALSE]

Evidence(source, report) ==
    IF report # None THEN now ELSE evidence[source.id]

Renew(doc, report, days, signed) ==
    /\ Renewable(doc, report, days, signed)
    /\ Put(Attested(Renewed(doc.issuance, report, days), signed), Evidence(doc.issuance, report))

-----------------------------------------------------------------------------
(* Revocation: a record of its own, or the deprecated embedded flag, which *)
(* leaves the attestation as it is.                                        *)
Payload(issuance, effective) ==
    [id |-> issuance.id, digest |-> issuance, effective_at |-> effective, sequence |-> 1]

CreateRevocationRecord(doc, effective, signed) ==
    LET payload == Payload(doc.issuance, effective) IN
    /\ Cardinality(records) < MaxRecords
    /\ records' = records \cup {[payload |-> payload, signature |-> IF signed THEN payload ELSE None]}
    /\ revoked' = revoked \cup {<<doc.issuance, effective>>}
    /\ UNCHANGED <<now, docs, minted, evidence>>

Revoke(doc) ==
    /\ Cardinality(docs) < MaxCopies
    /\ docs' = docs \cup {[doc EXCEPT !.issuance.embedded = TRUE]}
    /\ UNCHANGED <<now, records, minted, evidence, revoked>>

(* Whoever holds a document or a record can hand on a changed copy.        *)
EditDocument(doc) ==
    /\ Cardinality(docs) < MaxCopies
    /\ \E copy \in {[doc EXCEPT !.issuance.agent = "other"], [doc EXCEPT !.attestation.signature = None]} :
          docs' = docs \cup {copy}
    /\ UNCHANGED <<now, records, minted, evidence, revoked>>

EditRecord(record) ==
    /\ \E edited \in {[record EXCEPT !.payload.effective_at = 0],
                      [record EXCEPT !.payload.digest = None],
                      [record EXCEPT !.signature = None]} :
          records' = (records \ {record}) \cup {edited}
    /\ UNCHANGED <<now, docs, minted, evidence, revoked>>

Tick ==
    /\ now < MaxTime /\ now' = now + 1
    /\ UNCHANGED <<docs, records, minted, evidence, revoked>>

Next ==
    \/ Tick \/ Import
    \/ \E report \in Reports, days \in ValidityDays, signed \in BOOLEAN : Issue(report, days, signed)
    \/ \E doc \in docs :
          \/ \E report \in Reports \cup {None}, days \in ValidityDays, signed \in BOOLEAN :
                Renew(doc, report, days, signed)
          \/ \E effective \in EffectiveDates, signed \in BOOLEAN :
                CreateRevocationRecord(doc, effective, signed)
          \/ Revoke(doc) \/ EditDocument(doc)
    \/ \E record \in records : EditRecord(record)

Spec == Init /\ [][Next]_vars

-----------------------------------------------------------------------------
(* Verdicts.                                                               *)
Status(doc) ==
    IF doc.issuance.embedded THEN "revoked"
    ELSE IF doc.issuance.expires_at <= now THEN "expired" ELSE "valid"

IsExpired(doc) == doc.issuance.expires_at < now

(* validateTrustPassport on a document whose shape is right.               *)
Valid(doc) ==
    /\ doc.issuance.issued_at < doc.issuance.expires_at
    /\ doc.issuance.renewal_count >= 0
    /\ doc.attestation.hash = doc.issuance

(* Mutant of VerifySignatureOnly: the hash in the attestation is believed. *)
VerifySignatureByHash(doc) ==
    doc.attestation.method = "ed25519" /\ doc.attestation.signature = doc.attestation.hash

VerifySignatureOnly(doc) ==
    doc.attestation.method = "ed25519" /\ doc.attestation.signature = doc.issuance

VerifySignature(doc) == ~IsExpired(doc) /\ VerifySignatureOnly(doc)

IssuanceAuthenticity(doc, key) ==
    IF doc.attestation.method # "ed25519" \/ doc.attestation.signature = None THEN "not-present"
    ELSE IF ~key THEN "unverified"
    ELSE IF VerifySignatureOnly(doc) THEN "valid" ELSE "invalid"

(* Mutant of Bound: the id alone binds a record to a document. *)
BoundById(doc, record) == record.payload.id = doc.issuance.id

(* A record without the digest is bound by the id alone, if it is not      *)
(* signed; a signed one must have it.                                      *)
Bound(doc, record) ==
    /\ record.payload.id = doc.issuance.id
    /\ record.payload.digest \in {doc.issuance, None}
    /\ record.signature # None => record.payload.digest # None

RevocationAuthenticity(doc, record, key, expected) ==
    IF ~Bound(doc, record) \/ record.payload.sequence < expected THEN "invalid"
    ELSE IF record.signature = None THEN "not-present"
    ELSE IF ~key THEN "unverified"
    ELSE IF record.signature = record.payload THEN "valid" ELSE "invalid"

FutureBeyondSkew(record) == record.payload.effective_at > now + MaxClockSkew

(* Mutant of RevocationStatus: a stale record is not believed any more. *)
RevocationStatusFresh(doc, record, key, trusted, expected) ==
    LET authenticity == RevocationAuthenticity(doc, record, key, expected) IN
    IF FutureBeyondSkew(record) \/ now - record.payload.effective_at > MaxStaleness THEN "unknown"
    ELSE IF authenticity = "valid" \/ (trusted /\ authenticity # "invalid") THEN "revoked" ELSE "unknown"

RevocationStatus(doc, record, key, trusted, expected) ==
    LET authenticity == RevocationAuthenticity(doc, record, key, expected) IN
    IF FutureBeyondSkew(record) THEN "unknown"
    ELSE IF authenticity = "valid" \/ (trusted /\ authenticity # "invalid") THEN "revoked" ELSE "unknown"

Freshness(record) ==
    IF FutureBeyondSkew(record) THEN "unknown"
    ELSE IF now - record.payload.effective_at > MaxStaleness THEN "stale" ELSE "current"

-----------------------------------------------------------------------------
(* Properties.                                                             *)
(* A verifier that holds the key finds no issuance authentic that issue()  *)
(* or renew() did not make as it stands, whatever was edited.              *)
AuthenticIsMinted ==
    \A doc \in docs : IssuanceAuthenticity(doc, TRUE) = "valid" => doc.issuance \in minted

(* Whoever holds the key and trusts nobody judges a document revoked only  *)
(* when its issuer revoked this very issuance, from a date that has come.  *)
RevokedIsRevoked ==
    \A doc \in docs, record \in records, expected \in Expected :
        RevocationStatus(doc, record, TRUE, FALSE, expected) = "revoked"
            => \E r \in revoked : r[1] = doc.issuance /\ r[2] <= now + MaxClockSkew

(* A verdict "revoked" on a record stays, with everybody who reached it:   *)
(* no lapse of time takes it back, staleness and skew included.            *)
RevocationLasts ==
    [][\A doc \in docs, record \in records, key, trusted \in BOOLEAN, expected \in Expected :
          RevocationStatus(doc, record, key, trusted, expected) = "revoked"
              => RevocationStatus(doc, record, key, trusted, expected)' = "revoked"]_vars

(* An extension dates its evidence by the last audit in the lineage, over  *)
(* any number of extensions and renewals; where no document of the lineage *)
(* names an audit, the first extension has the date the lineage began.     *)
EvidenceDated ==
    \A issuance \in minted :
        issuance.basis # None /\ (issuance.generated_at # None \/ issuance.renewal_count = 1)
            => issuance.evidence_as_of = evidence[issuance.id]

(* "For an administrative extension this is the original evidence time,    *)
(* not the renewal time" (types.ts:79-81).  The second extension of a      *)
(* document that names no audit has the time of the first.                 *)
EvidenceNeverYounger ==
    \A issuance \in minted :
        issuance.basis # None => issuance.evidence_as_of <= evidence[issuance.id]

(* audit_ref is the "audit report that produced the evidence backing this  *)
(* passport" (docs/trust-passport-v0.1.md:79): what a document says of the *)
(* evidence is what that report says.                                      *)
SummaryIsOfReport ==
    \A issuance \in minted :
        issuance.risk # None => issuance.risk = RiskSummary(issuance.report)
=============================================================================
