---------------------- MODULE PassportDocumentsProofs ----------------------
(***************************************************************************)
(* What the passport library's verdicts are worth, for any number of       *)
(* documents, copies and records.                                          *)
(***************************************************************************)
EXTENDS PassportDocuments, TLAPS

USE DocumentsAssumption

(* Every signature in circulation covers something its issuer signed.      *)
SignedIsMinted == \A doc \in docs : doc.attestation.signature \in minted \cup {None}

RecordsAreSigned ==
    \A record \in records :
        /\ record.payload.effective_at \in Int
        /\ record.signature \in {Payload(r[1], r[2]) : r \in revoked} \cup {None}

(* Documents that name an audit carry the date of their lineage's last one;*)
(* one that names none has, before any renewal, the date it began with.    *)
DatedBy(issuance, date) ==
    /\ issuance.renewal_count \in Nat
    /\ issuance.generated_at # None => issuance.generated_at = date
    /\ issuance.generated_at = None /\ issuance.renewal_count = 0 => issuance.issued_at = date

Lineage ==
    /\ now \in Nat /\ evidence \in Seq(Nat)
    /\ \A issuance \in minted \cup {doc.issuance : doc \in docs} :
          issuance.id \in 1 .. Len(evidence) /\ DatedBy(issuance, evidence[issuance.id])

(* The fields documents and records have.                                  *)
IssuanceFields ==
    {"id", "renewed_from", "agent", "report", "generated_at", "quality", "risk", "issued_at",
     "expires_at", "renewal_count", "basis", "evidence_as_of", "embedded"}

IsDocument(doc) ==
    /\ DOMAIN doc = {"issuance", "attestation"}
    /\ DOMAIN doc.issuance = IssuanceFields
    /\ DOMAIN doc.attestation = {"method", "hash", "signature"}

IsRecord(record) ==
    /\ DOMAIN record = {"payload", "signature"}
    /\ DOMAIN record.payload = {"id", "digest", "effective_at", "sequence"}

Shape == (\A doc \in docs : IsDocument(doc)) /\ (\A record \in records : IsRecord(record))

(* The inductive invariant. *)
Sound == SignedIsMinted /\ RecordsAreSigned /\ Lineage /\ EvidenceDated /\ Shape

-----------------------------------------------------------------------------
(* What one more issuance does to each part of it: it is the newest id,    *)
(* and its dates are right.                                                *)
LEMMA PutKeeps ==
    ASSUME Sound, NEW issuance, NEW signed \in BOOLEAN, NEW date \in Nat,
           Put(Attested(issuance, signed), date),
           issuance.id = NewId, DOMAIN issuance = IssuanceFields,
           DatedBy(issuance, date),
           issuance.basis # None /\ (issuance.generated_at # None \/ issuance.renewal_count = 1)
               => issuance.evidence_as_of = date
    PROVE  Sound'
<1> DEFINE doc == Attested(issuance, signed)
<1>1. /\ docs' = docs \cup {doc} /\ minted' = minted \cup {issuance}
      /\ evidence' = Append(evidence, date) /\ UNCHANGED <<now, records, revoked>>
      /\ doc.issuance = issuance /\ doc.attestation.signature \in {issuance, None}
      /\ IsDocument(doc)
  BY DEF Put, Attested, IsDocument
<1> HIDE DEF doc
<1>2. SignedIsMinted' BY <1>1 DEF Sound, SignedIsMinted
<1>3. RecordsAreSigned' BY <1>1 DEF Sound, RecordsAreSigned
<1>4. /\ evidence \in Seq(Nat) /\ evidence' \in Seq(Nat)
      /\ Len(evidence) \in Nat /\ Len(evidence') = Len(evidence) + 1
      /\ evidence'[Len(evidence) + 1] = date
      /\ \A i \in 1 .. Len(evidence) : evidence'[i] = evidence[i]
  BY <1>1 DEF Sound, Lineage
<1>5. issuance.id \in 1 .. Len(evidence') /\ evidence'[issuance.id] = date
  BY <1>4 DEF NewId
<1>6. ASSUME NEW old \in minted \cup {d.issuance : d \in docs}
      PROVE  old.id \in 1 .. Len(evidence') /\ evidence'[old.id] = evidence[old.id]
  <2>1. old.id \in 1 .. Len(evidence) BY DEF Sound, Lineage
  <2> QED BY <1>4, <2>1
<1>7. Lineage'
  <2>1. minted' \cup {d.issuance : d \in docs'} = minted \cup {d.issuance : d \in docs} \cup {issuance}
    BY <1>1
  <2>2. ASSUME NEW new \in minted' \cup {d.issuance : d \in docs'}
        PROVE  new.id \in 1 .. Len(evidence') /\ DatedBy(new, evidence'[new.id])
    <3>1. CASE new = issuance BY <1>5, <3>1
    <3>2. CASE new \in minted \cup {d.issuance : d \in docs} BY <1>6, <3>2 DEF Sound, Lineage
    <3> QED BY <2>1, <3>1, <3>2
  <2> QED BY <1>1, <1>4, <2>2 DEF Sound, Lineage
<1>8. EvidenceDated'
  <2>1. ASSUME NEW new \in minted', new.basis # None,
               new.generated_at # None \/ new.renewal_count = 1
        PROVE  new.evidence_as_of = evidence'[new.id]
    <3>1. CASE new = issuance BY <1>5, <2>1, <3>1
    <3>2. CASE new \in minted BY <1>6, <2>1, <3>2 DEF Sound, EvidenceDated
    <3> QED BY <1>1, <3>1, <3>2
  <2> QED BY <2>1 DEF EvidenceDated
<1>9. Shape' BY <1>1 DEF Sound, Shape, IsDocument, IsRecord
<1> QED BY <1>2, <1>3, <1>7, <1>8, <1>9 DEF Sound

LEMMA IssueKeeps ==
    ASSUME Sound, NEW report, NEW days, NEW signed \in BOOLEAN, Issue(report, days, signed)
    PROVE  Sound'
<1> DEFINE issuance ==
        [id |-> NewId, renewed_from |-> None, agent |-> "agent",
         report |-> report, generated_at |-> now,
         quality |-> EvidenceQuality(report), risk |-> RiskSummary(report),
         issued_at |-> now, expires_at |-> now + days, renewal_count |-> 0,
         basis |-> None, evidence_as_of |-> None, embedded |-> FALSE]
<1>1. Put(Attested(issuance, signed), now) BY DEF Issue
<1>2. now \in Nat BY DEF Sound, Lineage
<1>3. issuance.id = NewId /\ DatedBy(issuance, now) /\ issuance.basis = None BY <1>2 DEF DatedBy
<1>4. DOMAIN issuance = IssuanceFields BY DEF IssuanceFields
<1> HIDE DEF issuance
<1> QED BY <1>1, <1>2, <1>3, <1>4, PutKeeps

(* An extension keeps the date of the audit, a renewal on a new report     *)
(* takes the date of that report.                                          *)
LEMMA RenewKeeps ==
    ASSUME Sound, NEW doc \in docs, NEW report, NEW days, NEW signed \in BOOLEAN,
           Renew(doc, report, days, signed)
    PROVE  Sound'
<1> DEFINE source == doc.issuance
           issuance == Renewed(source, report, days)
           date == Evidence(source, report)
<1>1. Put(Attested(issuance, signed), date) BY DEF Renew
<1>2. /\ now \in Nat /\ source.id \in 1 .. Len(evidence) /\ evidence \in Seq(Nat)
      /\ DatedBy(source, evidence[source.id])
  BY DEF Sound, Lineage
<1>3. date \in Nat BY <1>2 DEF Evidence
<1>5. DOMAIN source = IssuanceFields BY DEF Sound, Shape, IsDocument
<1>6. DOMAIN issuance = IssuanceFields BY <1>5 DEF Renewed
<1>4. /\ issuance.id = NewId /\ issuance.renewal_count = source.renewal_count + 1
      /\ issuance.generated_at = IF report # None THEN now ELSE source.generated_at
      /\ issuance.evidence_as_of = EvidenceAsOf(source, report)
  BY <1>5 DEF Renewed, IssuanceFields
<1> HIDE DEF issuance
<1>7. DatedBy(issuance, date)
  <2>1. issuance.renewal_count \in Nat /\ issuance.renewal_count # 0 BY <1>2, <1>4 DEF DatedBy
  <2>2. issuance.generated_at # None => issuance.generated_at = date
    BY <1>2, <1>4 DEF DatedBy, Evidence
  <2> QED BY <2>1, <2>2 DEF DatedBy
<1>8. issuance.generated_at # None \/ issuance.renewal_count = 1 => issuance.evidence_as_of = date
  BY <1>2, <1>4 DEF DatedBy, Evidence, EvidenceAsOf
<1> HIDE DEF date
<1> QED BY <1>1, <1>3, <1>4, <1>6, <1>7, <1>8, PutKeeps

LEMMA ImportKeeps == ASSUME Sound, Import PROVE Sound'
<1> DEFINE issuance ==
        [id |-> NewId, renewed_from |-> None, agent |-> "agent",
         report |-> None, generated_at |-> None, quality |-> None, risk |-> None,
         issued_at |-> now, expires_at |-> now + 1, renewal_count |-> 0,
         basis |-> None, evidence_as_of |-> None, embedded |-> FALSE]
           doc == Attested(issuance, FALSE)
<1>1. /\ docs' = docs \cup {doc} /\ evidence' = Append(evidence, now)
      /\ UNCHANGED <<now, records, minted, revoked>>
  BY DEF Import
<1>2. /\ doc.issuance = issuance /\ doc.attestation.signature = None
      /\ issuance.id = Len(evidence) + 1 /\ DatedBy(issuance, now)
  BY DEF Attested, NewId, DatedBy, Sound, Lineage
<1>8. IsDocument(doc) BY DEF Attested, IsDocument, IssuanceFields
<1> HIDE DEF doc, issuance
<1>3. SignedIsMinted' /\ RecordsAreSigned'
  BY <1>1, <1>2 DEF Sound, SignedIsMinted, RecordsAreSigned
<1>4. /\ evidence \in Seq(Nat) /\ evidence' \in Seq(Nat)
      /\ Len(evidence) \in Nat /\ Len(evidence') = Len(evidence) + 1
      /\ evidence'[Len(evidence) + 1] = now
      /\ \A i \in 1 .. Len(evidence) : evidence'[i] = evidence[i]
  BY <1>1 DEF Sound, Lineage
<1>5. ASSUME NEW old \in minted \cup {d.issuance : d \in docs}
      PROVE  old.id \in 1 .. Len(evidence') /\ evidence'[old.id] = evidence[old.id]
  <2>1. old.id \in 1 .. Len(evidence) BY DEF Sound, Lineage
  <2> QED BY <1>4, <2>1
<1>6. Lineage'
  <2>1. minted' \cup {d.issuance : d \in docs'} = minted \cup {d.issuance : d \in docs} \cup {issuance}
    BY <1>1, <1>2
  <2>2. ASSUME NEW new \in minted' \cup {d.issuance : d \in docs'}
        PROVE  new.id \in 1 .. Len(evidence') /\ DatedBy(new, evidence'[new.id])
    <3>1. CASE new = issuance BY <1>2, <1>4, <3>1
    <3>2. CASE new \in minted \cup {d.issuance : d \in docs} BY <1>5, <3>2 DEF Sound, Lineage
    <3> QED BY <2>1, <3>1, <3>2
  <2> QED BY <1>1, <1>4, <2>2 DEF Sound, Lineage
<1>7. EvidenceDated' BY <1>1, <1>5 DEF Sound, EvidenceDated
<1>9. Shape' BY <1>1, <1>8 DEF Sound, Shape, IsDocument, IsRecord
<1> QED BY <1>3, <1>6, <1>7, <1>9 DEF Sound

(* A copy keeps its id, its dates and, if any, its signature.              *)
LEMMA CopyKeeps ==
    ASSUME Sound, NEW doc \in docs, NEW copy, IsDocument(copy),
           copy.issuance.id = doc.issuance.id,
           copy.issuance.generated_at = doc.issuance.generated_at,
           copy.issuance.issued_at = doc.issuance.issued_at,
           copy.issuance.renewal_count = doc.issuance.renewal_count,
           copy.attestation.signature \in {doc.attestation.signature, None},
           docs' = docs \cup {copy}, UNCHANGED <<now, records, minted, evidence, revoked>>
    PROVE  Sound'
<1>1. SignedIsMinted' BY DEF Sound, SignedIsMinted
<1>2. RecordsAreSigned' /\ EvidenceDated' BY DEF Sound, RecordsAreSigned, EvidenceDated
<1>3. Lineage'
  <2>1. ASSUME NEW new \in minted' \cup {d.issuance : d \in docs'}
        PROVE  new.id \in 1 .. Len(evidence) /\ DatedBy(new, evidence[new.id])
    <3>1. new \in minted \cup {d.issuance : d \in docs} \/ new = copy.issuance OBVIOUS
    <3>2. CASE new \in minted \cup {d.issuance : d \in docs} BY <3>2 DEF Sound, Lineage
    <3>3. CASE new = copy.issuance
      <4>1. doc.issuance.id \in 1 .. Len(evidence) /\ DatedBy(doc.issuance, evidence[doc.issuance.id])
        BY DEF Sound, Lineage
      <4> QED BY <3>3, <4>1 DEF DatedBy
    <3> QED BY <3>1, <3>2, <3>3
  <2> QED BY <2>1 DEF Sound, Lineage
<1>4. Shape' BY DEF Sound, Shape, IsDocument, IsRecord
<1> QED BY <1>1, <1>2, <1>3, <1>4 DEF Sound

LEMMA RecordKeeps ==
    ASSUME Sound, NEW doc \in docs, NEW effective \in EffectiveDates, NEW signed \in BOOLEAN,
           CreateRevocationRecord(doc, effective, signed)
    PROVE  Sound'
<1> DEFINE payload == Payload(doc.issuance, effective)
           record == [payload |-> payload, signature |-> IF signed THEN payload ELSE None]
<1>1. /\ records' = records \cup {record} /\ revoked' = revoked \cup {<<doc.issuance, effective>>}
      /\ UNCHANGED <<now, docs, minted, evidence>>
  BY DEF CreateRevocationRecord
<1>2. record.payload.effective_at \in Int /\ IsRecord(record) BY DEF Payload, IsRecord
<1>3. record.signature \in {Payload(r[1], r[2]) : r \in revoked'} \cup {None}
  <2>1. <<doc.issuance, effective>> \in revoked' BY <1>1
  <2>2. payload \in {Payload(r[1], r[2]) : r \in revoked'} BY <2>1
  <2> QED BY <2>2
<1> HIDE DEF record
<1>4. RecordsAreSigned' BY <1>1, <1>2, <1>3 DEF Sound, RecordsAreSigned
<1>5. Shape' BY <1>1, <1>2 DEF Sound, Shape, IsDocument, IsRecord
<1> QED BY <1>1, <1>4, <1>5 DEF Sound, SignedIsMinted, Lineage, EvidenceDated

LEMMA SoundInvariant == Spec => []Sound
<1>1. Init => Sound
  BY DEF Init, Sound, SignedIsMinted, RecordsAreSigned, Lineage, EvidenceDated, Shape
<1>2. Sound /\ [Next]_vars => Sound'
  <2> SUFFICES ASSUME Sound, [Next]_vars PROVE Sound' OBVIOUS
  <2>1. CASE Tick
    BY <2>1 DEF Tick, Sound, SignedIsMinted, RecordsAreSigned, Lineage, EvidenceDated,
           Shape, IsDocument, IsRecord
  <2>2. CASE Import BY <2>2, ImportKeeps
  <2>3. ASSUME NEW report \in Reports, NEW days \in ValidityDays, NEW signed \in BOOLEAN,
               Issue(report, days, signed)
        PROVE  Sound'
    BY <2>3, IssueKeeps
  <2>4. ASSUME NEW doc \in docs, NEW report \in Reports \cup {None}, NEW days \in ValidityDays,
               NEW signed \in BOOLEAN, Renew(doc, report, days, signed)
        PROVE  Sound'
    BY <2>4, RenewKeeps
  <2>5. ASSUME NEW doc \in docs, NEW effective \in EffectiveDates, NEW signed \in BOOLEAN,
               CreateRevocationRecord(doc, effective, signed)
        PROVE  Sound'
    BY <2>5, RecordKeeps
  <2>6. ASSUME NEW doc \in docs, Revoke(doc) PROVE Sound'
    <3> DEFINE copy == [doc EXCEPT !.issuance.embedded = TRUE]
    <3>1. /\ copy.issuance.id = doc.issuance.id
          /\ copy.issuance.generated_at = doc.issuance.generated_at
          /\ copy.issuance.issued_at = doc.issuance.issued_at
          /\ copy.issuance.renewal_count = doc.issuance.renewal_count
          /\ copy.attestation.signature \in {doc.attestation.signature, None}
          /\ IsDocument(copy)
      BY DEF Sound, Shape, IsDocument, IssuanceFields
    <3>2. docs' = docs \cup {copy} /\ UNCHANGED <<now, records, minted, evidence, revoked>>
      BY <2>6 DEF Revoke
    <3> HIDE DEF copy
    <3> QED BY <3>1, <3>2, CopyKeeps
  <2>7. ASSUME NEW doc \in docs, EditDocument(doc) PROVE Sound'
    <3>1. PICK copy \in {[doc EXCEPT !.issuance.agent = "other"],
                         [doc EXCEPT !.attestation.signature = None]} :
             docs' = docs \cup {copy} /\ UNCHANGED <<now, records, minted, evidence, revoked>>
      BY <2>7 DEF EditDocument
    <3>2. /\ copy.issuance.id = doc.issuance.id
          /\ copy.issuance.generated_at = doc.issuance.generated_at
          /\ copy.issuance.issued_at = doc.issuance.issued_at
          /\ copy.issuance.renewal_count = doc.issuance.renewal_count
          /\ copy.attestation.signature \in {doc.attestation.signature, None}
          /\ IsDocument(copy)
      <4>1. CASE copy = [doc EXCEPT !.issuance.agent = "other"]
        BY <4>1 DEF Sound, Shape, IsDocument, IssuanceFields
      <4>2. CASE copy = [doc EXCEPT !.attestation.signature = None]
        BY <4>2 DEF Sound, Shape, IsDocument, IssuanceFields
      <4> QED BY <4>1, <4>2
    <3> QED BY <3>1, <3>2, CopyKeeps
  <2>8. ASSUME NEW record \in records, EditRecord(record) PROVE Sound'
    <3>1. PICK edited \in {[record EXCEPT !.payload.effective_at = 0],
                           [record EXCEPT !.payload.digest = None],
                           [record EXCEPT !.signature = None]} :
             /\ records' = (records \ {record}) \cup {edited}
             /\ UNCHANGED <<now, docs, minted, evidence, revoked>>
      BY <2>8 DEF EditRecord
    <3>2. /\ edited.payload.effective_at \in Int
          /\ edited.signature \in {record.signature, None} /\ IsRecord(edited)
      <4>1. CASE edited = [record EXCEPT !.payload.effective_at = 0]
        BY <4>1 DEF Sound, Shape, IsRecord
      <4>2. CASE edited = [record EXCEPT !.payload.digest = None]
        BY <4>2 DEF Sound, Shape, IsRecord, RecordsAreSigned
      <4>3. CASE edited = [record EXCEPT !.signature = None]
        BY <4>3 DEF Sound, Shape, IsRecord, RecordsAreSigned
      <4> QED BY <4>1, <4>2, <4>3
    <3>3. RecordsAreSigned' BY <3>1, <3>2 DEF Sound, RecordsAreSigned
    <3>4. Shape' BY <3>1, <3>2 DEF Sound, Shape, IsDocument, IsRecord
    <3> QED BY <3>1, <3>3, <3>4 DEF Sound, SignedIsMinted, Lineage, EvidenceDated
  <2>9. CASE UNCHANGED vars
    BY <2>9 DEF vars, Sound, SignedIsMinted, RecordsAreSigned, Lineage, EvidenceDated,
           Shape, IsDocument, IsRecord
  <2> QED BY <2>1, <2>2, <2>3, <2>4, <2>5, <2>6, <2>7, <2>8, <2>9 DEF Next
<1> QED BY <1>1, <1>2, PTL DEF Spec

-----------------------------------------------------------------------------
(* With the key, "valid" means made by issue() or renew(), as it stands.   *)
THEOREM AuthenticIsMintedThm == Spec => []AuthenticIsMinted
<1>1. Sound => AuthenticIsMinted
  BY DEF Sound, SignedIsMinted, AuthenticIsMinted, IssuanceAuthenticity, VerifySignatureOnly
<1> QED BY <1>1, SoundInvariant, PTL

(* Extensions date evidence by the last audit, however many there are; the *)
(* first extension where there is none, by the date the lineage began.     *)
THEOREM EvidenceDatedThm == Spec => []EvidenceDated
<1>1. Sound => EvidenceDated BY DEF Sound
<1> QED BY <1>1, SoundInvariant, PTL

(* With the key and no trust, "revoked" means revoked by the issuer.       *)
THEOREM RevokedIsRevokedThm == Spec => []RevokedIsRevoked
<1>1. Sound => RevokedIsRevoked
  <2> SUFFICES ASSUME Sound, NEW doc \in docs, NEW record \in records, NEW expected \in Expected,
                      RevocationStatus(doc, record, TRUE, FALSE, expected) = "revoked"
               PROVE  \E r \in revoked : r[1] = doc.issuance /\ r[2] <= now + MaxClockSkew
    BY DEF RevokedIsRevoked
  <2>1. /\ ~FutureBeyondSkew(record) /\ Bound(doc, record)
        /\ record.signature = record.payload /\ record.signature # None
    BY DEF RevocationStatus, RevocationAuthenticity
  <2>2. PICK r \in revoked : record.payload = Payload(r[1], r[2])
    BY <2>1 DEF Sound, RecordsAreSigned
  <2>3. r[1] = doc.issuance BY <2>1, <2>2 DEF Bound, Payload
  <2>4. r[2] \in Int /\ r[2] = record.payload.effective_at
    BY <2>2 DEF Sound, RecordsAreSigned, Payload
  <2>5. r[2] <= now + MaxClockSkew BY <2>1, <2>4 DEF FutureBeyondSkew, Sound, Lineage
  <2> QED BY <2>3, <2>5
<1> QED BY <1>1, SoundInvariant, PTL

(* A verdict "revoked" lasts.                                              *)
THEOREM RevocationLastsThm == Spec => RevocationLasts
<1>1. Sound /\ [Next]_vars =>
         [\A doc \in docs, record \in records, key, trusted \in BOOLEAN, expected \in Expected :
             RevocationStatus(doc, record, key, trusted, expected) = "revoked"
                 => RevocationStatus(doc, record, key, trusted, expected)' = "revoked"]_vars
  <2> SUFFICES ASSUME Sound, [Next]_vars, NEW doc \in docs, NEW record \in records,
                      NEW key \in BOOLEAN, NEW trusted \in BOOLEAN, NEW expected \in Expected,
                      RevocationStatus(doc, record, key, trusted, expected) = "revoked"
               PROVE  RevocationStatus(doc, record, key, trusted, expected)' = "revoked"
    OBVIOUS
  <2>1. now \in Nat /\ now' \in Nat /\ now <= now'
    <3>1. now' = now \/ now' = now + 1
      <4>1. Tick => now' = now + 1 BY DEF Tick
      <4>2. Import \/ UNCHANGED vars => now' = now BY DEF Import, vars
      <4>3. ASSUME NEW r, NEW days, NEW signed, NEW d, NEW e,
                   \/ Issue(r, days, signed) \/ Renew(d, r, days, signed)
                   \/ CreateRevocationRecord(d, e, signed) \/ Revoke(d) \/ EditDocument(d) \/ EditRecord(d)
            PROVE  now' = now
        BY <4>3 DEF Issue, Renew, Put, CreateRevocationRecord, Revoke, EditDocument, EditRecord
      <4> QED BY <4>1, <4>2, <4>3 DEF Next
    <3> QED BY <3>1 DEF Sound, Lineage
  <2>2. record.payload.effective_at \in Int BY DEF Sound, RecordsAreSigned
  <2>3. ~FutureBeyondSkew(record) BY DEF RevocationStatus
  <2>4. ~(record.payload.effective_at > now' + MaxClockSkew)
    BY <2>1, <2>2, <2>3 DEF FutureBeyondSkew
  <2> QED BY <2>4 DEF RevocationStatus, RevocationAuthenticity, FutureBeyondSkew, Bound
<1> QED BY <1>1, SoundInvariant, PTL DEF Spec, RevocationLasts
=============================================================================
