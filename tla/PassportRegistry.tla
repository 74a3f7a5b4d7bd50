-------------------------- MODULE PassportRegistry --------------------------
(***************************************************************************)
(* The Passport routes of the Worker (packages/worker/src/index.ts):       *)
(*   POST /passport/issue, /passport/:id/revoke, /passport/:id/renew and   *)
(*   GET /passport/:id/status                                              *)
(* at the granularity of their awaits.  Every request is a process; a step *)
(* ends at the next call on a binding, so requests interleave exactly      *)
(* where the handlers yield.                                               *)
(*                                                                         *)
(* Stores: the PASSPORTS KV namespace holds the documents and, under       *)
(* revocation:<id>, a best-effort mirror of revocation records; the D1     *)
(* tables passport_issuances and passport_revocations are authoritative.   *)
(* Every call may fail, a failed D1 insert or KV put may have been applied,*)
(* either table may be missing until a handler bootstraps it, and the      *)
(* isolate that serves a request may be evicted between two calls.         *)
(***************************************************************************)
EXTENDS FiniteSets

CONSTANTS
    Passports,         \* passport ids: the legacy ones and those to be minted
    Legacy,            \* passports whose documents are older than the registries
    Tenants,           \* tenants an owner row can name
    Requests,          \* one HTTP request each
    MultiTenant,       \* isMultiTenantConfigured(env)
    DeploymentTenant,  \* deploymentTenant(env), the only caller otherwise
    NoTenant,          \* no owner row
    NoRecord,          \* no revocation record
    LegacyRecord,      \* a revocation record older than the D1 registry
    NoPassport         \* the pid of an issuance request

ASSUME ConstantsAssumption ==
    /\ Legacy \subseteq Passports
    /\ MultiTenant \in BOOLEAN
    /\ DeploymentTenant \in Tenants
    /\ NoTenant \notin Tenants
    /\ NoRecord \notin Requests
    /\ LegacyRecord \notin Requests
    /\ NoRecord # LegacyRecord
    /\ NoPassport \notin Passports

VARIABLES
    tables,     \* D1 tables that exist
    owner,      \* passport_issuances: passport -> tenant
    revokedBy,  \* passport_revocations: passport -> request that wrote the record
    doc,        \* PASSPORTS KV, <id>: passport -> kind of document
    mirror,     \* PASSPORTS KV, revocation:<id>: passport -> record
    call,       \* request -> operation, authenticated tenant, passport id
    pc,         \* request -> the binding call it awaits
    unowned,    \* request -> guard.needsBackfill
    minted,     \* request -> passport_id of the issuance it created
    known,      \* request -> revocation evidence stored when it arrived (history)
    answer      \* request -> its response, "none" before

stores == <<tables, owner, revokedBy, doc, mirror>>
vars == <<tables, owner, revokedBy, doc, mirror,
          call, pc, unowned, minted, known, answer>>

Records == Requests \cup {NoRecord, LegacyRecord}
Callers == IF MultiTenant THEN Tenants ELSE {DeploymentTenant}
Calls ==
    [op : {"issue"}, tenant : Callers, pid : {NoPassport}]
      \cup [op : {"revoke", "renew"}, tenant : Callers, pid : Passports]
      \cup [op : {"status"}, tenant : {NoTenant}, pid : Passports]
NoCall == [op |-> "none", tenant |-> NoTenant, pid |-> NoPassport]

(* The table each D1 call uses; every other step is a KV or R2 call. *)
OnIssuances == {"guard", "claim", "own"}
OnRevocations == {"lookup", "heal", "transition"}
InFlight == OnIssuances \cup OnRevocations \cup
    {"evidence", "document", "mirror", "publish", "put", "undo", "reply"}
Table(l) == IF l \in OnIssuances THEN "issuances" ELSE "revocations"

-----------------------------------------------------------------------------
(* Documents older than the registries may carry an embedded revocation,   *)
(* may be revoked in KV only, and may or may not have an owner row.        *)
Init ==
    /\ tables \in SUBSET {"issuances", "revocations"}
    /\ owner \in [Passports -> Tenants \cup {NoTenant}]
    /\ \A p \in Passports :
         owner[p] # NoTenant => p \in Legacy /\ "issuances" \in tables
    /\ revokedBy = [p \in Passports |-> NoRecord]
    /\ doc \in [Passports -> {"none", "plain", "embedded"}]
    /\ \A p \in Passports : doc[p] # "none" <=> p \in Legacy
    /\ mirror \in [Passports -> {NoRecord, LegacyRecord}]
    /\ \A p \in Passports : mirror[p] # NoRecord => p \in Legacy
    /\ call = [r \in Requests |-> NoCall]
    /\ pc = [r \in Requests |-> "idle"]
    /\ unowned = [r \in Requests |-> FALSE]
    /\ minted = [r \in Requests |-> NoPassport]
    /\ known = [r \in Requests |-> {}]
    /\ answer = [r \in Requests |-> "none"]

Goto(r, l) == pc' = [pc EXCEPT ![r] = l] /\ UNCHANGED answer
Answer(r, a) ==
    /\ pc' = [pc EXCEPT ![r] = "done"]
    /\ answer' = [answer EXCEPT ![r] = a]

(* Which evidence of a revocation the stores hold for a passport. *)
Evidence(p) ==
    {e \in {"registry", "mirror", "embedded"} :
       /\ p \in Passports
       /\ \/ e = "registry" /\ revokedBy[p] # NoRecord
          \/ e = "mirror" /\ mirror[p] # NoRecord
          \/ e = "embedded" /\ doc[p] = "embedded"}

EntryPoint(op) ==
    CASE op = "issue" -> "evidence" [] op = "status" -> "document" [] OTHER -> "guard"

(* A request passes the router's authentication and body validation.       *)
Arrive(r) ==
    /\ pc[r] = "idle"
    /\ \E c \in Calls :
         /\ call' = [call EXCEPT ![r] = c]
         /\ known' = [known EXCEPT ![r] = Evidence(c.pid)]
         /\ Goto(r, EntryPoint(c.op))
    /\ UNCHANGED <<stores, unowned, minted>>

-----------------------------------------------------------------------------
(* loadCanonicalRunReport: the caller's run and its stored report.  Which  *)
(* report the passport cites is not part of this state.                    *)
LoadEvidence(r) ==
    /\ pc[r] = "evidence"
    /\ \/ Goto(r, "put")
       \/ \E a \in {"not_found", "conflict", "unavailable", "error"} : Answer(r, a)
    /\ UNCHANGED <<stores, call, unowned, minted, known>>

(* Mutant of Guard: any owner row lets the caller pass. *)
GuardAnyOwner(r) ==
    /\ pc[r] = "guard"
    /\ "issuances" \in tables
    /\ \/ owner[call[r].pid] # NoTenant /\ Goto(r, "document")
       \/ owner[call[r].pid] = NoTenant /\ Answer(r, "not_found")
    /\ UNCHANGED <<stores, call, unowned, minted, known>>

(* checkPassportOwner, guardPassportWrite *)
Guard(r) ==
    LET o == owner[call[r].pid] IN
    /\ pc[r] = "guard"
    /\ "issuances" \in tables
    /\ \/ /\ o = call[r].tenant
          /\ Goto(r, "document") /\ UNCHANGED unowned
       \/ /\ o = NoTenant /\ ~MultiTenant
          /\ Goto(r, "document") /\ unowned' = [unowned EXCEPT ![r] = TRUE]
       \/ /\ \/ o \notin {NoTenant, call[r].tenant}
             \/ o = NoTenant /\ MultiTenant
          /\ Answer(r, "not_found") /\ UNCHANGED unowned
    /\ UNCHANGED <<stores, call, minted, known>>

(* The document is immutable, so its kind is read again instead of being   *)
(* carried along: an embedded revocation ends a write here.                *)
RefuseEmbedded(r) ==
    IF call[r].op # "status" /\ doc[call[r].pid] = "embedded"
    THEN Answer(r, "conflict") ELSE Goto(r, "lookup")

ReadDocument(r) ==
    /\ pc[r] = "document"
    /\ \/ doc[call[r].pid] = "none" /\ Answer(r, "not_found")
       \/ doc[call[r].pid] # "none" /\ unowned[r] /\ Goto(r, "claim")
       \/ doc[call[r].pid] # "none" /\ ~unowned[r] /\ RefuseEmbedded(r)
       \/ Answer(r, "error")
    /\ UNCHANGED <<stores, call, unowned, minted, known>>

(* backfillPassportOwnership: a plain INSERT, an existing row is an error. *)
Claim(r) ==
    /\ pc[r] = "claim"
    /\ "issuances" \in tables
    /\ \/ /\ owner[call[r].pid] = NoTenant
          /\ owner' = [owner EXCEPT ![call[r].pid] = call[r].tenant]
          /\ RefuseEmbedded(r)
       \/ /\ owner[call[r].pid] # NoTenant
          /\ Answer(r, "unavailable")
          /\ UNCHANGED owner
    /\ UNCHANGED <<tables, revokedBy, doc, mirror, call, unowned, minted, known>>

-----------------------------------------------------------------------------
(* How each route reads the outcome of resolveRevocation.  A status answer *)
(* is the verdict of verifyPassportLayers with a trusted registry; a       *)
(* legacy record may fail its digest binding, which reads as unknown.      *)
Present(r, rec) ==
    \/ call[r].op \in {"revoke", "renew"} /\ Answer(r, "conflict")
    \/ call[r].op = "status" /\ Answer(r, "revoked")
    \/ call[r].op = "status" /\ rec = LegacyRecord /\ Answer(r, "unknown")

(* renew() itself refuses a signed passport and an invalid validity. *)
Absent(r) ==
    \/ call[r].op = "revoke" /\ Goto(r, "transition")
    \/ call[r].op = "renew" /\ (Goto(r, "put") \/ Answer(r, "conflict"))
    \/ call[r].op = "status" /\ Answer(r, "active")

(* Mutant of Unavailable: a failed lookup reads as "not revoked". *)
UnavailableAsAbsent(r) == Absent(r)

Unavailable(r) ==
    \/ call[r].op \in {"revoke", "renew"} /\ Answer(r, "unavailable")
    \/ call[r].op = "status" /\ Answer(r, "unknown")

(* readAuthoritativeRevocation: the D1 answer wins. *)
Lookup(r) ==
    LET rec == revokedBy[call[r].pid] IN
    /\ pc[r] = "lookup"
    /\ "revocations" \in tables
    /\ \/ rec # NoRecord /\ Present(r, rec)
       \/ rec = NoRecord /\ Goto(r, "mirror")
    /\ UNCHANGED <<stores, call, unowned, minted, known>>

(* readMirroredRevocation: a failed read counts as no record. *)
ReadMirror(r) ==
    /\ pc[r] = "mirror"
    /\ \/ mirror[call[r].pid] # NoRecord /\ Goto(r, "heal")
       \/ Absent(r)
    /\ UNCHANGED <<stores, call, unowned, minted, known>>

(* INSERT ... ON CONFLICT(passport_id) DO NOTHING *)
InsertRecord(p, rec) ==
    revokedBy' = [revokedBy EXCEPT ![p] = IF @ = NoRecord THEN rec ELSE @]

(* The mirrored record is copied into D1; it counts as present either way. *)
Heal(r) ==
    /\ pc[r] = "heal"
    /\ "revocations" \in tables
    /\ InsertRecord(call[r].pid, mirror[call[r].pid])
    /\ Present(r, mirror[call[r].pid])
    /\ UNCHANGED <<tables, owner, doc, mirror, call, unowned, minted, known>>

(* Mutant of Transition: the number of changed rows is not looked at. *)
TransitionUnchecked(r) ==
    /\ pc[r] = "transition"
    /\ "revocations" \in tables
    /\ InsertRecord(call[r].pid, r)
    /\ Goto(r, "publish")
    /\ UNCHANGED <<tables, owner, doc, mirror, call, unowned, minted, known>>

(* writeAuthoritativeRevocation: changes > 0 is the winner, 0 a conflict.  *)
Transition(r) ==
    /\ pc[r] = "transition"
    /\ "revocations" \in tables
    /\ InsertRecord(call[r].pid, r)
    /\ IF revokedBy[call[r].pid] = NoRecord
       THEN Goto(r, "publish") ELSE Answer(r, "conflict")
    /\ UNCHANGED <<tables, owner, doc, mirror, call, unowned, minted, known>>

(* The mirror is best effort: the request succeeds when the put fails too. *)
Publish(r) ==
    /\ pc[r] = "publish"
    /\ mirror' \in {mirror, [mirror EXCEPT ![call[r].pid] = r]}
    /\ Answer(r, "ok")
    /\ UNCHANGED <<tables, owner, revokedBy, doc, call, unowned, minted, known>>

-----------------------------------------------------------------------------
(* crypto.randomUUID: an id no document, row or other request ever had. *)
Fresh(p) == p \notin Legacy /\ \A r \in Requests : minted[r] # p

(* The new document is stored under a fresh id; a failed put may have been *)
(* applied and ends the request with an exception.                         *)
PutDocument(r) ==
    /\ pc[r] = "put"
    /\ \E p \in Passports :
         /\ Fresh(p)
         /\ minted' = [minted EXCEPT ![r] = p]
         /\ \/ doc' = [doc EXCEPT ![p] = "plain"] /\ Goto(r, "own")
            \/ doc' \in {doc, [doc EXCEPT ![p] = "plain"]} /\ Answer(r, "error")
    /\ UNCHANGED <<tables, owner, revokedBy, mirror, call, unowned, known>>

(* writePassportOwnership of the new issuance, a plain INSERT. *)
Own(r) ==
    /\ pc[r] = "own"
    /\ "issuances" \in tables
    /\ \/ /\ owner[minted[r]] = NoTenant
          /\ owner' = [owner EXCEPT ![minted[r]] = call[r].tenant]
          /\ Goto(r, "reply")
       \/ /\ owner[minted[r]] # NoTenant
          /\ Goto(r, "undo")
          /\ UNCHANGED owner
    /\ UNCHANGED <<tables, revokedBy, doc, mirror, call, unowned, minted, known>>

(* The rollback of an issuance whose owner row failed swallows its error. *)
Undo(r) ==
    /\ pc[r] = "undo"
    /\ doc' \in {doc, [doc EXCEPT ![minted[r]] = "none"]}
    /\ Answer(r, "unavailable")
    /\ UNCHANGED <<tables, owner, revokedBy, mirror, call, unowned, minted, known>>

Reply(r) ==
    /\ pc[r] = "reply"
    /\ Answer(r, "ok")
    /\ UNCHANGED <<stores, call, unowned, minted, known>>

-----------------------------------------------------------------------------
(* A statement that reports "no such table" creates it and is tried again. *)
Bootstrap(r) ==
    /\ pc[r] \in OnIssuances \cup OnRevocations
    /\ Table(pc[r]) \notin tables
    /\ tables' = tables \cup {Table(pc[r])}
    /\ UNCHANGED <<owner, revokedBy, doc, mirror,
                   call, pc, unowned, minted, known, answer>>

(* Mutant of AfterD1Error: a failed owner row does not undo the issuance. *)
AfterD1ErrorOwnIgnored(r, l) ==
    \/ l \in {"guard", "claim", "transition"} /\ Answer(r, "unavailable")
    \/ l = "lookup" /\ Unavailable(r)
    \/ l = "heal" /\ Present(r, mirror[call[r].pid])
    \/ l = "own" /\ Goto(r, "reply")

(* What the handlers do when the D1 call at l throws. *)
AfterD1Error(r, l) ==
    \/ l \in {"guard", "claim", "transition"} /\ Answer(r, "unavailable")
    \/ l = "lookup" /\ Unavailable(r)
    \/ l = "heal" /\ Present(r, mirror[call[r].pid])
    \/ l = "own" /\ Goto(r, "undo")

(* A D1 call, or the bootstrap before its second try, throws: it may have  *)
(* created the table or written its row all the same.                      *)
D1Error(r) ==
    /\ pc[r] \in OnIssuances \cup OnRevocations
    /\ AfterD1Error(r, pc[r])
    /\ tables' \in {tables, tables \cup {Table(pc[r])}}
    /\ \/ UNCHANGED <<owner, revokedBy>>
       \/ /\ Table(pc[r]) \in tables
          /\ \/ /\ pc[r] = "claim" /\ owner[call[r].pid] = NoTenant
                /\ owner' = [owner EXCEPT ![call[r].pid] = call[r].tenant]
                /\ UNCHANGED revokedBy
             \/ /\ pc[r] = "own" /\ owner[minted[r]] = NoTenant
                /\ owner' = [owner EXCEPT ![minted[r]] = call[r].tenant]
                /\ UNCHANGED revokedBy
             \/ /\ pc[r] = "heal"
                /\ InsertRecord(call[r].pid, mirror[call[r].pid])
                /\ UNCHANGED owner
             \/ /\ pc[r] = "transition"
                /\ InsertRecord(call[r].pid, r)
                /\ UNCHANGED owner
    /\ UNCHANGED <<doc, mirror, call, unowned, minted, known>>

(* The isolate is evicted: the request ends without an answer. *)
Evict(r) ==
    /\ pc[r] \in InFlight
    /\ Goto(r, "dead")
    /\ UNCHANGED <<stores, call, unowned, minted, known>>

(* Every request has ended; the bound on requests stops the model here. *)
Quiescent ==
    /\ \A r \in Requests : pc[r] \in {"done", "dead"}
    /\ UNCHANGED vars

Write(r) == Claim(r) \/ Transition(r) \/ Publish(r) \/ PutDocument(r) \/ Own(r) \/ Undo(r)
Read(r) == LoadEvidence(r) \/ Guard(r) \/ ReadDocument(r) \/ Lookup(r) \/ ReadMirror(r)
Step(r) == Read(r) \/ Write(r) \/ Heal(r) \/ Reply(r) \/ Bootstrap(r) \/ D1Error(r)

Next ==
    \/ \E r \in Requests : Arrive(r) \/ Step(r) \/ Evict(r)
    \/ Quiescent

Spec == Init /\ [][Next]_vars

-----------------------------------------------------------------------------
(* Every variable holds a value of its kind. *)
TypeOK ==
    /\ tables \subseteq {"issuances", "revocations"}
    /\ owner \in [Passports -> Tenants \cup {NoTenant}]
    /\ revokedBy \in [Passports -> Records]
    /\ doc \in [Passports -> {"none", "plain", "embedded"}]
    /\ mirror \in [Passports -> Records]
    /\ call \in [Requests -> Calls \cup {NoCall}]
    /\ pc \in [Requests -> InFlight \cup {"idle", "done", "dead"}]
    /\ unowned \in [Requests -> BOOLEAN]
    /\ minted \in [Requests -> Passports \cup {NoPassport}]
    /\ known \in [Requests -> SUBSET {"registry", "mirror", "embedded"}]
    /\ answer \in [Requests -> {"none", "ok", "not_found", "conflict",
                                "unavailable", "error",
                                "revoked", "unknown", "active"}]

Succeeded(r, op) == call[r].op = op /\ answer[r] = "ok"

(* A revocation record other than a legacy one was written by a revoke     *)
(* request of the tenant that owns the passport, and it still does: no     *)
(* interleaving of the guard, the claim of an unowned passport and the     *)
(* insert lets one tenant revoke what another one owns.                    *)
RevocationAuthorized ==
    \A p \in Passports : revokedBy[p] \in Requests =>
        /\ call[revokedBy[p]].op = "revoke"
        /\ call[revokedBy[p]].pid = p
        /\ owner[p] = call[revokedBy[p]].tenant

(* Of all concurrent revocations of a passport at most one is told it      *)
(* succeeded (passport-revocation-authoritative.test.ts, N4-RV-02).        *)
OneRevocationWinner ==
    \A q, r \in Requests :
        Succeeded(q, "revoke") /\ Succeeded(r, "revoke")
          /\ call[q].pid = call[r].pid => q = r

(* A reported issuance or renewal has its document and its owner row: a    *)
(* failed or lost write on either store is never reported as a success.    *)
ReportedIssuanceOwned ==
    \A r \in Requests : Succeeded(r, "issue") \/ Succeeded(r, "renew") =>
        /\ doc[minted[r]] = "plain"
        /\ owner[minted[r]] = call[r].tenant

(* A renewal never changes the owner tenant (handlePassportRenew): parent  *)
(* and child have the same owner, now and whatever is claimed later.       *)
RenewalKeepsOwner ==
    \A r \in Requests :
        Succeeded(r, "renew") => owner[minted[r]] = owner[call[r].pid]

(* Once a record is in D1, no request that arrives later is told the       *)
(* passport is active, renews it, or revokes it a second time, whatever    *)
(* the mirror holds and whichever calls fail.                              *)
RegistryRevocationSticks ==
    \A r \in Requests : "registry" \in known[r] =>
        /\ answer[r] # "active"
        /\ ~Succeeded(r, "renew") /\ ~Succeeded(r, "revoke")

(* Rows of the two registries are written once and never change; an issued *)
(* document is only ever removed by the request that created it and has    *)
(* not answered.                                                           *)
RowsAreFinal ==
    [][\A p \in Passports :
         /\ owner[p] # NoTenant => owner'[p] = owner[p]
         /\ revokedBy[p] # NoRecord => revokedBy'[p] = revokedBy[p]
         /\ doc[p] # "none" /\ doc'[p] # doc[p] =>
              \E r \in Requests : minted[r] = p /\ answer[r] = "none"]_vars

(* The two registries and the answers keep the promises of the ledger. *)
Ledger == INSTANCE PassportLedger
LedgerSpec == Ledger!Spec

-----------------------------------------------------------------------------
(* The inductive invariant behind these properties, by named parts.        *)

(* Which operations reach which call, and when an id has been minted. *)
HandlerPositionOf(r) ==
    /\ pc[r] = "idle" <=> call[r].op = "none"
    /\ answer[r] # "none" => pc[r] = "done"
    /\ pc[r] = "evidence" => call[r].op = "issue"
    /\ pc[r] \in {"guard", "claim"} => call[r].op \in {"revoke", "renew"}
    /\ pc[r] \in {"document", "lookup", "mirror", "heal"} =>
           call[r].op \in {"revoke", "renew", "status"}
    /\ pc[r] \in {"transition", "publish"} => call[r].op = "revoke"
    /\ pc[r] \in {"put", "own", "undo", "reply"} =>
           call[r].op \in {"issue", "renew"}
    /\ minted[r] = NoPassport \/ pc[r] \in {"own", "undo", "reply", "done", "dead"}
    /\ pc[r] \in {"own", "undo", "reply"} => minted[r] # NoPassport
    /\ unowned[r] => call[r].op \in {"revoke", "renew"}
HandlerPosition == \A r \in Requests : HandlerPositionOf(r)

(* Ids are never drawn twice. *)
MintedOnce ==
    /\ \A r \in Requests : minted[r] \notin Legacy
    /\ \A q, r \in Requests :
         minted[q] = minted[r] /\ minted[q] # NoPassport => q = r

(* Every document is a legacy one or was put by a request. *)
DocumentOrigin ==
    \A p \in Passports :
        doc[p] # "none" => p \in Legacy \/ \E r \in Requests : minted[r] = p

(* Past the guard and the claim, a write holds the caller's owner row. *)
PastGuard == {"lookup", "mirror", "heal", "transition", "publish",
              "put", "own", "undo", "reply"}
Entitled ==
    \A r \in Requests :
        /\ call[r].op \in {"revoke", "renew"}
        /\ \/ pc[r] \in PastGuard
           \/ pc[r] = "document" /\ ~unowned[r]
           \/ answer[r] = "ok"
        => owner[call[r].pid] = call[r].tenant

(* Requests put only records into the mirror that D1 already holds. *)
MirrorFollowsRegistry ==
    /\ \A p \in Passports : mirror[p] \in Requests => revokedBy[p] = mirror[p]
    /\ \A r \in Requests : pc[r] = "heal" => mirror[call[r].pid] # NoRecord

(* From its insert on, the winner's record is the one in D1. *)
CommittedRevocation ==
    \A r \in Requests : pc[r] = "publish" \/ Succeeded(r, "revoke") =>
        revokedBy[call[r].pid] = r

(* From its put on, a document stands, and from its insert on, an owner. *)
CommittedIssuanceOf(r) ==
    /\ pc[r] \in {"own", "reply"} => doc[minted[r]] = "plain"
    /\ pc[r] = "reply" => owner[minted[r]] = call[r].tenant
    /\ Succeeded(r, "issue") \/ Succeeded(r, "renew") =>
         /\ minted[r] \in Passports
         /\ doc[minted[r]] = "plain"
         /\ owner[minted[r]] = call[r].tenant
CommittedIssuance == \A r \in Requests : CommittedIssuanceOf(r)

(* A request that arrived after the insert gets no further than the lookup.*)
KnownRevocation ==
    \A r \in Requests : "registry" \in known[r] =>
        /\ revokedBy[call[r].pid] # NoRecord
        /\ call[r].op \in {"revoke", "renew", "status"}
        /\ pc[r] \in {"guard", "document", "claim", "lookup", "done", "dead"}
        /\ answer[r] \notin {"ok", "active"}

IInv ==
    /\ TypeOK
    /\ HandlerPosition
    /\ MintedOnce
    /\ DocumentOrigin
    /\ Entitled
    /\ RevocationAuthorized
    /\ MirrorFollowsRegistry
    /\ CommittedRevocation
    /\ CommittedIssuance
    /\ KnownRevocation

-----------------------------------------------------------------------------
(* Statements of comments and docs that the handlers do not keep.          *)

(* "a stale KV mirror can at worst produce a false REVOKED (safe), never a *)
(* false ACTIVE" (resolveRevocation): no status request that arrives when  *)
(* a mirrored record exists is answered active.                            *)
MirrorNeverFalseActive ==
    \A r \in Requests : "mirror" \in known[r] => answer[r] # "active"

(* "Legacy embedded revocation is terminal" (handlePassportRevoke): its    *)
(* passport is never reported active by the status route.                  *)
EmbeddedNeverActive ==
    \A r \in Requests : "embedded" \in known[r] => answer[r] # "active"

(* "renewing must never resurrect a revoked passport" (lifecycle.ts): the  *)
(* new document is not stored once the source is revoked in D1.            *)
RenewalNeverFromRevoked ==
    [][\A r \in Requests :
         pc[r] = "put" /\ pc'[r] = "own" /\ call[r].op = "renew" =>
             revokedBy[call[r].pid] = NoRecord]_vars
=============================================================================
