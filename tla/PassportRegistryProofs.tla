----------------------- MODULE PassportRegistryProofs -----------------------
(***************************************************************************)
(* Theorems about PassportRegistry for every set of passports, tenants and *)
(* requests: the inductive invariant IInv, the safety properties that      *)
(* follow from it, and that the registry implements PassportLedger.        *)
(***************************************************************************)
EXTENDS PassportRegistry, TLAPS

USE ConstantsAssumption

(* What a call of each operation carries. *)
LEMMA CallFacts ==
    ASSUME NEW c \in Calls \cup {NoCall}
    PROVE  /\ c.op \in {"none", "issue", "revoke", "renew", "status"}
           /\ c.op \in {"issue", "revoke", "renew"} => c.tenant \in Tenants
           /\ c.op \in {"revoke", "renew", "status"} => c.pid \in Passports
           /\ c.op \in {"none", "issue"} => c.pid = NoPassport
           /\ c.op = "none" => c = NoCall
BY DEF Calls, NoCall, Callers

(* A handler step of request r moves only r and keeps the inputs. *)
LEMMA TypeInvariance == TypeOK /\ [Next]_vars => TypeOK'
<1> SUFFICES ASSUME TypeOK, [Next]_vars PROVE TypeOK'
  OBVIOUS
<1> USE DEF TypeOK, Records, InFlight, OnIssuances, OnRevocations, stores
<1> DEFINE Answers == {"none", "ok", "not_found", "conflict", "unavailable",
                       "error", "revoked", "unknown", "active"}
<1>1. ASSUME NEW r \in Requests, Arrive(r) PROVE TypeOK'
  <2>1. PICK c \in Calls : /\ call' = [call EXCEPT ![r] = c]
                           /\ known' = [known EXCEPT ![r] = Evidence(c.pid)]
                           /\ Goto(r, EntryPoint(c.op))
    BY <1>1 DEF Arrive
  <2>2. EntryPoint(c.op) \in InFlight
    BY DEF EntryPoint, Calls
  <2>3. Evidence(c.pid) \in SUBSET {"registry", "mirror", "embedded"}
    BY DEF Evidence
  <2>4. QED
    BY <1>1, <2>1, <2>2, <2>3 DEF Arrive, Goto
<1>2. ASSUME NEW r \in Requests, Step(r) PROVE TypeOK'
  <2>0. call[r].tenant \in Tenants \cup {NoTenant}
    BY DEF Calls, NoCall, Callers
  <2>1. CASE Read(r)
    <3>1. CASE LoadEvidence(r)
      BY <3>1 DEF LoadEvidence, Goto, Answer
    <3>2. CASE Guard(r)
      BY <3>2, ZenonT(40) DEF Guard, Goto, Answer
    <3>3. CASE ReadDocument(r)
      BY <3>3 DEF ReadDocument, RefuseEmbedded, Goto, Answer
    <3>4. CASE Lookup(r)
      BY <3>4 DEF Lookup, Present, Goto, Answer
    <3>5. CASE ReadMirror(r)
      BY <3>5 DEF ReadMirror, Absent, Goto, Answer
    <3>6. QED
      BY <2>1, <3>1, <3>2, <3>3, <3>4, <3>5 DEF Read
  <2>2. CASE Claim(r)
    BY <2>0, <2>2 DEF Claim, RefuseEmbedded, Goto, Answer
  <2>3. CASE Own(r)
    BY <2>0, <2>3 DEF Own, Goto, Answer
  <2>4. CASE Heal(r)
    BY <2>4 DEF Heal, InsertRecord, Present, Goto, Answer
  <2>5. CASE Transition(r)
    BY <2>5, ZenonT(40) DEF Transition, InsertRecord, Goto, Answer
  <2>6. CASE Publish(r)
    BY <2>6 DEF Publish, Answer
  <2>7. CASE PutDocument(r)
    BY <2>7 DEF PutDocument, Goto, Answer
  <2>8. CASE Undo(r)
    BY <2>8 DEF Undo, Answer
  <2>9. CASE Reply(r)
    BY <2>9 DEF Reply, Answer
  <2>10. CASE Bootstrap(r)
    BY <2>10 DEF Bootstrap, Table
  <2>11. CASE D1Error(r)
    <3>1. tables' \subseteq {"issuances", "revocations"}
      BY <2>11 DEF D1Error, Table
    <3>2. AfterD1Error(r, pc[r])
      BY <2>11 DEF D1Error
    <3>3. /\ pc' \in [Requests -> InFlight \cup {"idle", "done", "dead"}]
          /\ answer' \in [Requests -> Answers]
      BY <3>2 DEF AfterD1Error, Present, Unavailable, Goto, Answer
    <3>4. owner' \in [Passports -> Tenants \cup {NoTenant}]
      BY <2>0, <2>11 DEF D1Error
    <3>5. revokedBy' \in [Passports -> Records]
      BY <2>11 DEF D1Error, InsertRecord
    <3>6. QED
      BY <2>11, <3>1, <3>3, <3>4, <3>5 DEF D1Error
  <2>12. QED
    BY <1>2, <2>1, <2>2, <2>3, <2>4, <2>5, <2>6, <2>7, <2>8, <2>9, <2>10, <2>11
       DEF Step, Write
<1>3. ASSUME NEW r \in Requests, Evict(r) PROVE TypeOK'
  BY <1>3 DEF Evict, Goto
<1>4. ASSUME UNCHANGED vars PROVE TypeOK'
  BY <1>4 DEF vars
<1>5. QED
  BY <1>1, <1>2, <1>3, <1>4 DEF Next, Quiescent

-----------------------------------------------------------------------------
(* A handler step moves its own request, changes no input, overwrites no   *)
(* row, and removes no document but the one its request minted.            *)
LEMMA StepFrame ==
    ASSUME TypeOK, NEW r \in Requests, Step(r) \/ Evict(r)
    PROVE  /\ call' = call /\ known' = known
           /\ \A q \in Requests \ {r} :
                /\ pc'[q] = pc[q] /\ answer'[q] = answer[q]
                /\ minted'[q] = minted[q] /\ unowned'[q] = unowned[q]
           /\ \A p \in Passports :
                /\ owner[p] # NoTenant => owner'[p] = owner[p]
                /\ revokedBy[p] # NoRecord => revokedBy'[p] = revokedBy[p]
                /\ doc[p] # "none" /\ doc'[p] # doc[p] =>
                     \/ pc[r] = "undo" /\ minted[r] = p
                     \/ pc[r] = "put" /\ Fresh(p)
                /\ mirror'[p] # mirror[p] => pc[r] = "publish" /\ call[r].pid = p
<1> USE DEF TypeOK, stores
<1>1. CASE Read(r)
  <2>1. CASE LoadEvidence(r)
    BY <2>1 DEF LoadEvidence, Goto, Answer
  <2>2. CASE Guard(r)
    BY <2>2 DEF Guard, Goto, Answer
  <2>3. CASE ReadDocument(r)
    BY <2>3 DEF ReadDocument, RefuseEmbedded, Goto, Answer
  <2>4. CASE Lookup(r)
    BY <2>4 DEF Lookup, Present, Goto, Answer
  <2>5. CASE ReadMirror(r)
    BY <2>5 DEF ReadMirror, Absent, Goto, Answer
  <2>6. QED
    BY <1>1, <2>1, <2>2, <2>3, <2>4, <2>5 DEF Read
<1>2. CASE Claim(r)
  BY <1>2 DEF Claim, RefuseEmbedded, Goto, Answer
<1>3. CASE Own(r)
  BY <1>3 DEF Own, Goto, Answer
<1>4. CASE Heal(r)
  BY <1>4 DEF Heal, InsertRecord, Present, Goto, Answer
<1>5. CASE Transition(r)
  BY <1>5 DEF Transition, InsertRecord, Goto, Answer
<1>6. CASE Publish(r)
  BY <1>6 DEF Publish, Answer
<1>7. CASE PutDocument(r)
  BY <1>7 DEF PutDocument, Goto, Answer
<1>8. CASE Undo(r)
  BY <1>8 DEF Undo, Answer
<1>9. CASE Reply(r)
  BY <1>9 DEF Reply, Answer
<1>10. CASE Bootstrap(r)
  BY <1>10 DEF Bootstrap
<1>11. CASE D1Error(r)
  <2>1. AfterD1Error(r, pc[r])
    BY <1>11 DEF D1Error
  <2>2. \A q \in Requests \ {r} : pc'[q] = pc[q] /\ answer'[q] = answer[q]
    BY <2>1 DEF AfterD1Error, Present, Unavailable, Goto, Answer
  <2>3. \A p \in Passports :
          /\ owner[p] # NoTenant => owner'[p] = owner[p]
          /\ revokedBy[p] # NoRecord => revokedBy'[p] = revokedBy[p]
    BY <1>11 DEF D1Error, InsertRecord
  <2>4. QED
    BY <1>11, <2>2, <2>3 DEF D1Error
<1>12. CASE Evict(r)
  BY <1>12 DEF Evict, Goto
<1>13. QED
  BY <1>1, <1>2, <1>3, <1>4, <1>5, <1>6, <1>7, <1>8, <1>9, <1>10, <1>11, <1>12
     DEF Step, Write

-----------------------------------------------------------------------------
(* The position of a request after one of its own steps. *)
LEMMA OwnPosition ==
    ASSUME TypeOK, HandlerPosition, NEW r \in Requests, Step(r) \/ Evict(r)
    PROVE  HandlerPositionOf(r)'
<1> USE DEF TypeOK, HandlerPosition, HandlerPositionOf, stores
<1>1. CASE LoadEvidence(r)
  BY <1>1 DEF LoadEvidence, Goto, Answer
<1>2. CASE Guard(r)
  BY <1>2 DEF Guard, Goto, Answer
<1>3. CASE ReadDocument(r)
  <2>1. \/ Answer(r, "not_found") \/ Answer(r, "conflict") \/ Answer(r, "error")
        \/ Goto(r, "claim") /\ unowned[r]
        \/ Goto(r, "lookup")
    BY <1>3 DEF ReadDocument, RefuseEmbedded
  <2>2. QED
    BY <1>3, <2>1 DEF ReadDocument, Goto, Answer
<1>4. CASE Lookup(r)
  BY <1>4 DEF Lookup, Present, Goto, Answer
<1>5. CASE ReadMirror(r)
  BY <1>5 DEF ReadMirror, Absent, Goto, Answer
<1>6. CASE Claim(r)
  BY <1>6 DEF Claim, RefuseEmbedded, Goto, Answer
<1>7. CASE Own(r)
  BY <1>7 DEF Own, Goto, Answer
<1>8. CASE Heal(r)
  BY <1>8 DEF Heal, InsertRecord, Present, Goto, Answer
<1>9. CASE Transition(r)
  BY <1>9 DEF Transition, InsertRecord, Goto, Answer
<1>10. CASE Publish(r)
  BY <1>10 DEF Publish, Answer
<1>11. CASE PutDocument(r)
  BY <1>11 DEF PutDocument, Goto, Answer
<1>12. CASE Undo(r)
  BY <1>12 DEF Undo, Answer
<1>13. CASE Reply(r)
  BY <1>13 DEF Reply, Answer
<1>14. CASE Bootstrap(r)
  BY <1>14 DEF Bootstrap
<1>15. CASE D1Error(r)
  BY <1>15 DEF D1Error, AfterD1Error, Present, Unavailable, InsertRecord, Goto, Answer
<1>16. CASE Evict(r)
  BY <1>16 DEF Evict, Goto, InFlight, OnIssuances, OnRevocations
<1>17. QED
  BY <1>1, <1>2, <1>3, <1>4, <1>5, <1>6, <1>7, <1>8, <1>9, <1>10, <1>11, <1>12, <1>13, <1>14, <1>15, <1>16
     DEF Step, Read, Write

-----------------------------------------------------------------------------
LEMMA PositionStep ==
    ASSUME TypeOK, HandlerPosition, NEW r \in Requests, Step(r) \/ Evict(r)
    PROVE  HandlerPosition'
<1>1. ASSUME NEW q \in Requests \ {r} PROVE HandlerPositionOf(q)'
  BY StepFrame DEF HandlerPosition, HandlerPositionOf
<1>2. QED
  BY <1>1, OwnPosition DEF HandlerPosition

(* Only PutDocument draws an id, and it draws a fresh one. *)
LEMMA MintStep ==
    ASSUME TypeOK, NEW r \in Requests, Step(r) \/ Evict(r)
    PROVE  minted' = minted \/ \E p \in Passports :
               Fresh(p) /\ minted' = [minted EXCEPT ![r] = p] /\ pc[r] = "put"
BY DEF Step, Read, Write, LoadEvidence, Guard, ReadDocument, Lookup, ReadMirror,
       Claim, Own, Heal, Transition, Publish, PutDocument, Undo, Reply,
       Bootstrap, D1Error, Evict

LEMMA MintedOnceStep ==
    ASSUME TypeOK, MintedOnce, NEW r \in Requests, Step(r) \/ Evict(r)
    PROVE  MintedOnce'
<1>1. CASE minted' = minted
  BY <1>1 DEF MintedOnce
<1>2. ASSUME NEW p \in Passports, Fresh(p), minted' = [minted EXCEPT ![r] = p]
      PROVE  MintedOnce'
  BY <1>2 DEF MintedOnce, Fresh, TypeOK
<1>3. QED
  BY <1>1, <1>2, MintStep

LEMMA OriginStep ==
    ASSUME TypeOK, HandlerPosition, DocumentOrigin, NEW r \in Requests, Step(r) \/ Evict(r)
    PROVE  DocumentOrigin'
<1> USE DEF TypeOK
<1>1. \A q \in Requests : minted[q] # NoPassport => minted'[q] = minted[q]
  BY MintStep DEF HandlerPosition, HandlerPositionOf
<1>2. ASSUME NEW p \in Passports, doc'[p] # "none", doc[p] = "none"
      PROVE  minted'[r] = p
  <2>1. PutDocument(r)
    BY <1>2
       DEF Step, Read, Write, LoadEvidence, Guard, ReadDocument, Lookup, ReadMirror,
           Claim, Own, Heal, Transition, Publish, Undo, Reply, Bootstrap, D1Error,
           Evict, stores
  <2>2. QED
    BY <1>2, <2>1 DEF PutDocument
<1>3. QED
  BY <1>1, <1>2 DEF DocumentOrigin

(* An owner row that is there stays the caller's. *)
LEMMA EntitledStep ==
    ASSUME TypeOK, HandlerPosition, Entitled, NEW r \in Requests, Step(r) \/ Evict(r)
    PROVE  Entitled'
<1> USE DEF TypeOK
<1> DEFINE Due(q) == /\ call[q].op \in {"revoke", "renew"}
                     /\ \/ pc[q] \in PastGuard
                        \/ pc[q] = "document" /\ ~unowned[q]
                        \/ answer[q] = "ok"
           Holds(q) == owner[call[q].pid] = call[q].tenant
<1>1. ASSUME NEW q \in Requests, call[q].op \in {"revoke", "renew"}, Holds(q)
      PROVE  Holds(q)'
  BY <1>1, CallFacts, StepFrame
<1>2. ASSUME NEW q \in Requests \ {r}, Due(q)' PROVE Holds(q)'
  BY <1>1, <1>2, StepFrame DEF Entitled
<1>3. ASSUME Due(r)' PROVE Holds(r)'
  <2>0. call' = call /\ call[r].op \in {"revoke", "renew"}
    BY <1>3, StepFrame
  <2>1. CASE Due(r)
    BY <1>1, <2>0, <2>1 DEF Entitled
  <2>2. CASE ~Due(r) /\ Guard(r)
    BY <1>3, <2>0, <2>2 DEF Guard, Goto, Answer, stores, PastGuard, HandlerPosition, HandlerPositionOf
  <2>3. CASE ~Due(r) /\ ReadDocument(r)
    <3>1. unowned[r]
      BY <2>0, <2>3 DEF ReadDocument
    <3>2. \/ Answer(r, "not_found") \/ Answer(r, "error")
          \/ Goto(r, "claim")
      BY <2>3, <3>1 DEF ReadDocument
    <3>3. ~Due(r)'
      BY <2>0, <2>3, <3>2 DEF Goto, Answer, PastGuard
    <3>4. QED
      BY <1>3, <3>3
  <2>4. CASE Claim(r)
    <3>1. CASE owner[call[r].pid] = NoTenant
      BY <2>0, <2>4, <3>1, CallFacts DEF Claim
    <3>2. CASE owner[call[r].pid] # NoTenant
      BY <1>3, <2>4, <3>2 DEF Claim, Answer, PastGuard
    <3>3. QED
      BY <3>1, <3>2
  <2>5. CASE ~Due(r) /\ D1Error(r)
    <3>1. pc[r] \in {"guard", "claim"}
      BY <2>0, <2>5 DEF D1Error, OnIssuances, OnRevocations, PastGuard
    <3>2. Answer(r, "unavailable")
      BY <2>5, <3>1 DEF D1Error, AfterD1Error
    <3>3. QED
      BY <1>3, <2>0, <3>2 DEF Answer, PastGuard
  <2>6. CASE ~Due(r) /\ Evict(r)
    BY <1>3, <2>0, <2>6 DEF Evict, Goto, PastGuard
  <2>7. CASE ~Due(r) /\ Bootstrap(r)
    BY <1>3, <2>0, <2>7 DEF Bootstrap
  <2>8. CASE LoadEvidence(r)
    BY <2>0, <2>8 DEF LoadEvidence, HandlerPosition, HandlerPositionOf
  <2>9. CASE pc[r] \in PastGuard
    BY <2>0, <2>1, <2>9
  <2>10. QED
    BY <2>1, <2>2, <2>3, <2>4, <2>5, <2>6, <2>7, <2>8, <2>9
       DEF Step, Read, Write, Lookup, ReadMirror, Own, Heal, Transition,
           Publish, PutDocument, Undo, Reply, PastGuard
<1>4. QED
  BY <1>2, <1>3 DEF Entitled

-----------------------------------------------------------------------------
(* A record enters D1 by the transition or the heal of the stepping        *)
(* request, and only where there was none.                                 *)
LEMMA RecordStep ==
    ASSUME TypeOK, NEW r \in Requests, Step(r) \/ Evict(r)
    PROVE  \/ revokedBy' = revokedBy
           \/ /\ pc[r] = "transition"
              /\ revokedBy[call[r].pid] = NoRecord
              /\ revokedBy' = [revokedBy EXCEPT ![call[r].pid] = r]
           \/ /\ pc[r] = "heal"
              /\ revokedBy[call[r].pid] = NoRecord
              /\ revokedBy' = [revokedBy EXCEPT ![call[r].pid] = mirror[call[r].pid]]
<1> USE DEF TypeOK
<1>1. ASSUME NEW rec, InsertRecord(call[r].pid, rec)
      PROVE  \/ revokedBy' = revokedBy
             \/ /\ revokedBy[call[r].pid] = NoRecord
                /\ revokedBy' = [revokedBy EXCEPT ![call[r].pid] = rec]
  BY <1>1 DEF InsertRecord
<1>2. CASE Transition(r)
  BY <1>1, <1>2 DEF Transition
<1>3. CASE Heal(r)
  BY <1>1, <1>3 DEF Heal
<1>4. CASE D1Error(r)
  BY <1>1, <1>4 DEF D1Error
<1>5. QED
  BY <1>2, <1>3, <1>4
     DEF Step, Read, Write, LoadEvidence, Guard, ReadDocument, Lookup, ReadMirror,
         Claim, Own, Publish, PutDocument, Undo, Reply, Bootstrap, Evict, stores

LEMMA AuthorizedStep ==
    ASSUME TypeOK, HandlerPosition, Entitled, MirrorFollowsRegistry,
           RevocationAuthorized, NEW r \in Requests, Step(r) \/ Evict(r)
    PROVE  RevocationAuthorized'
<1> USE DEF TypeOK
<1> SUFFICES ASSUME NEW p \in Passports, revokedBy'[p] \in Requests
             PROVE  /\ call[revokedBy'[p]].op = "revoke"
                    /\ call[revokedBy'[p]].pid = p
                    /\ owner'[p] = call[revokedBy'[p]].tenant
  BY StepFrame DEF RevocationAuthorized
<1>1. CASE revokedBy'[p] = revokedBy[p]
  <2>1. call[revokedBy[p]].op = "revoke" /\ owner[p] = call[revokedBy[p]].tenant
    BY <1>1 DEF RevocationAuthorized
  <2>2. owner[p] # NoTenant
    BY <1>1, <2>1, CallFacts
  <2>3. QED
    BY <1>1, <2>1, <2>2, StepFrame DEF RevocationAuthorized
<1>2. CASE revokedBy'[p] # revokedBy[p]
  <2>1. p = call[r].pid /\ revokedBy[p] = NoRecord
    BY <1>2, RecordStep
  <2>2. pc[r] # "heal"
    BY <1>2, <2>1, RecordStep DEF MirrorFollowsRegistry
  <2>3. pc[r] = "transition" /\ revokedBy'[p] = r
    BY <1>2, <2>1, <2>2, RecordStep
  <2>4. call[r].op = "revoke" /\ owner[p] = call[r].tenant
    BY <2>1, <2>3 DEF HandlerPosition, HandlerPositionOf, Entitled, PastGuard
  <2>5. owner[p] # NoTenant
    BY <2>4, CallFacts
  <2>6. QED
    BY <2>1, <2>3, <2>4, <2>5, StepFrame
<1>3. QED
  BY <1>1, <1>2

(* Publish is the only step that writes the mirror, and it follows the     *)
(* insert; a request heals only what it has just read from the mirror.     *)
LEMMA MirrorStep ==
    ASSUME TypeOK, HandlerPosition, MirrorFollowsRegistry, CommittedRevocation,
           NEW r \in Requests, Step(r) \/ Evict(r)
    PROVE  MirrorFollowsRegistry'
<1> USE DEF TypeOK
<1>0. mirror' = mirror \/ /\ pc[r] = "publish"
                          /\ mirror' = [mirror EXCEPT ![call[r].pid] = r]
  BY DEF Step, Read, Write, LoadEvidence, Guard, ReadDocument, Lookup, ReadMirror,
         Claim, Own, Heal, Transition, Publish, PutDocument, Undo, Reply,
         Bootstrap, D1Error, Evict, stores
<1>1. ASSUME NEW p \in Passports, mirror'[p] \in Requests
      PROVE  revokedBy'[p] = mirror'[p]
  <2>1. mirror'[p] = revokedBy[p]
    BY <1>0, <1>1 DEF MirrorFollowsRegistry, CommittedRevocation
  <2>2. QED
    BY <1>1, <2>1, StepFrame
<1>2. ASSUME NEW q \in Requests, pc'[q] = "heal" PROVE mirror'[call'[q].pid] # NoRecord
  <2>1. CASE pc[q] = "heal"
    <3>1. mirror[call[q].pid] # NoRecord /\ call'[q] = call[q]
      BY <2>1, StepFrame DEF MirrorFollowsRegistry
    <3>2. call[q].pid \in Passports
      BY <2>1, CallFacts DEF HandlerPosition, HandlerPositionOf
    <3>3. QED
      BY <1>0, <3>1, <3>2
  <2>2. CASE pc[q] # "heal"
    <3>1. q = r
      BY <1>2, <2>2, StepFrame
    <3>2. ReadMirror(r)
      BY <1>2, <2>2, <3>1
         DEF Step, Read, Write, LoadEvidence, Guard, ReadDocument, RefuseEmbedded,
             Lookup, Claim, Own, Heal, Transition, Publish, PutDocument, Undo,
             Reply, Bootstrap, D1Error, AfterD1Error, Present, Unavailable,
             Evict, Goto, Answer
    <3>3. QED
      BY <1>2, <2>2, <3>1, <3>2, StepFrame
         DEF ReadMirror, Absent, Goto, Answer, stores
  <2>3. QED
    BY <2>1, <2>2
<1>3. QED
  BY <1>1, <1>2 DEF MirrorFollowsRegistry

-----------------------------------------------------------------------------
LEMMA RevocationStep ==
    ASSUME TypeOK, HandlerPosition, CommittedRevocation,
           NEW r \in Requests, Step(r) \/ Evict(r)
    PROVE  CommittedRevocation'
<1> USE DEF TypeOK
<1> DEFINE Due(q) == pc[q] = "publish" \/ Succeeded(q, "revoke")
<1> SUFFICES ASSUME NEW q \in Requests, Due(q)'
             PROVE  revokedBy'[call'[q].pid] = q
  BY DEF CommittedRevocation
<1>1. CASE Due(q)
  <2>1. revokedBy[call[q].pid] = q
    BY <1>1 DEF CommittedRevocation
  <2>2. call[q].op = "revoke"
    BY <1>1 DEF Succeeded, HandlerPosition, HandlerPositionOf
  <2>3. QED
    BY <2>1, <2>2, CallFacts, StepFrame
<1>2. CASE ~Due(q)
  <2>1. q = r
    BY <1>2, StepFrame DEF Succeeded
  <2>2. Transition(r)
    BY <1>2, <2>1
       DEF Step, Read, Write, LoadEvidence, Guard, ReadDocument, RefuseEmbedded,
           Lookup, ReadMirror, Absent, Claim, Own, Heal, Publish, PutDocument,
           Undo, Reply, Bootstrap, D1Error, AfterD1Error, Present, Unavailable,
           Evict, Goto, Answer, Succeeded, HandlerPosition, HandlerPositionOf, stores
  <2>3. revokedBy[call[r].pid] = NoRecord
    BY <1>2, <2>1, <2>2, StepFrame DEF Transition, Answer, Succeeded
  <2>4. call[r].pid \in Passports
    BY <2>2, CallFacts DEF Transition, HandlerPosition, HandlerPositionOf
  <2>5. QED
    BY <2>1, <2>2, <2>3, <2>4, StepFrame DEF Transition, InsertRecord
<1>3. QED
  BY <1>1, <1>2

LEMMA IssuanceStep ==
    ASSUME TypeOK, HandlerPosition, MintedOnce, CommittedIssuance,
           NEW r \in Requests, Step(r) \/ Evict(r)
    PROVE  CommittedIssuance'
<1> USE DEF TypeOK
<1> DEFINE Minted(q) == Succeeded(q, "issue") \/ Succeeded(q, "renew")
<1>1. ASSUME NEW q \in Requests \ {r} PROVE CommittedIssuanceOf(q)'
  <2>1. minted[q] # NoPassport => minted[q] # minted[r] /\ ~Fresh(minted[q])
    BY DEF MintedOnce, Fresh
  <2>2. doc[minted[q]] = "plain" /\ minted[q] \in Passports => doc'[minted[q]] = "plain"
    BY <2>1, StepFrame
  <2>3. pc[q] \in {"own", "reply"} => minted[q] \in Passports
    BY DEF HandlerPosition, HandlerPositionOf
  <2>4. call[q].op \in {"issue", "renew"} => call[q].tenant # NoTenant
    BY CallFacts
  <2>5. pc[q] = "reply" => call[q].op \in {"issue", "renew"}
    BY DEF HandlerPosition, HandlerPositionOf
  <2>6. QED
    BY <2>2, <2>3, <2>4, <2>5, StepFrame
       DEF CommittedIssuance, CommittedIssuanceOf, Succeeded
<1>2. CommittedIssuanceOf(r)'
  <2>1. CASE PutDocument(r)
    BY <2>1 DEF PutDocument, Goto, Answer, CommittedIssuanceOf, Succeeded,
                HandlerPosition, HandlerPositionOf
  <2>2. CASE Own(r)
    <3>1. minted[r] \in Passports /\ doc[minted[r]] = "plain"
      BY <2>2 DEF Own, HandlerPosition, HandlerPositionOf, CommittedIssuance,
                  CommittedIssuanceOf
    <3>2. QED
      BY <2>2, <3>1 DEF Own, Goto, CommittedIssuanceOf, Succeeded,
                        HandlerPosition, HandlerPositionOf
  <2>3. CASE Reply(r)
    BY <2>3 DEF Reply, Answer, stores, CommittedIssuance, CommittedIssuanceOf,
                Succeeded, HandlerPosition, HandlerPositionOf
  <2>4. CASE D1Error(r)
    BY <2>4 DEF D1Error, AfterD1Error, Present, Unavailable, Goto, Answer,
                CommittedIssuanceOf, Succeeded, HandlerPosition, HandlerPositionOf
  <2>5. CASE Bootstrap(r)
    BY <2>5 DEF Bootstrap, CommittedIssuance, CommittedIssuanceOf, Succeeded
  <2>6. CASE Evict(r)
    BY <2>6 DEF Evict, Goto, CommittedIssuanceOf, Succeeded, HandlerPosition,
                HandlerPositionOf, InFlight, OnIssuances, OnRevocations
  <2>7. CASE Publish(r) \/ Undo(r)
    BY <2>7 DEF Publish, Undo, Answer, CommittedIssuanceOf, Succeeded,
                HandlerPosition, HandlerPositionOf
  <2>8. CASE Read(r) \/ Claim(r) \/ Heal(r) \/ Transition(r)
    <3>1. /\ pc'[r] \notin {"own", "reply"}
          /\ answer'[r] # "ok"
      BY <2>8 DEF Read, LoadEvidence, Guard, ReadDocument, RefuseEmbedded, Lookup,
                  ReadMirror, Absent, Claim, Heal, Transition, Present, Goto,
                  Answer, HandlerPosition, HandlerPositionOf
    <3>2. QED
      BY <3>1 DEF CommittedIssuanceOf, Succeeded
  <2>9. QED
    BY <2>1, <2>2, <2>3, <2>4, <2>5, <2>6, <2>7, <2>8 DEF Step, Write
<1>3. QED
  BY <1>1, <1>2 DEF CommittedIssuance

LEMMA KnownStep ==
    ASSUME TypeOK, HandlerPosition, KnownRevocation,
           NEW r \in Requests, Step(r) \/ Evict(r)
    PROVE  KnownRevocation'
<1> USE DEF TypeOK
<1> SUFFICES ASSUME NEW q \in Requests, "registry" \in known'[q]
             PROVE  /\ revokedBy'[call'[q].pid] # NoRecord
                    /\ call'[q].op \in {"revoke", "renew", "status"}
                    /\ pc'[q] \in {"guard", "document", "claim", "lookup", "done", "dead"}
                    /\ answer'[q] \notin {"ok", "active"}
  BY DEF KnownRevocation
<1>1. /\ revokedBy[call[q].pid] # NoRecord
      /\ call'[q] = call[q]
      /\ call[q].op \in {"revoke", "renew", "status"}
      /\ pc[q] \in {"guard", "document", "claim", "lookup", "done", "dead"}
      /\ answer[q] \notin {"ok", "active"}
  BY StepFrame DEF KnownRevocation
<1>2. revokedBy'[call[q].pid] # NoRecord
  BY <1>1, CallFacts, StepFrame
<1>3. CASE q # r
  BY <1>1, <1>2, <1>3, StepFrame
<1>4. CASE q = r
  BY <1>1, <1>2, <1>4
     DEF Step, Read, Write, LoadEvidence, Guard, ReadDocument, RefuseEmbedded,
         Lookup, ReadMirror, Claim, Own, Heal, Transition, Publish, PutDocument,
         Undo, Reply, Bootstrap, D1Error, AfterD1Error, Present, Unavailable,
         Evict, Goto, Answer
<1>5. QED
  BY <1>3, <1>4

-----------------------------------------------------------------------------
(* A request arrives with nothing minted, claimed or answered. *)
LEMMA ArriveStep ==
    ASSUME IInv, NEW r \in Requests, Arrive(r)
    PROVE  HandlerPosition' /\ MintedOnce' /\ DocumentOrigin' /\ Entitled' /\ RevocationAuthorized'
           /\ MirrorFollowsRegistry' /\ CommittedRevocation'
           /\ CommittedIssuance' /\ KnownRevocation'
<1> USE DEF IInv, TypeOK, stores
<1>1. PICK c \in Calls : /\ call' = [call EXCEPT ![r] = c]
                         /\ known' = [known EXCEPT ![r] = Evidence(c.pid)]
                         /\ Goto(r, EntryPoint(c.op))
  BY DEF Arrive
<1>2. /\ pc[r] = "idle" /\ call[r].op = "none" /\ answer[r] = "none"
      /\ minted[r] = NoPassport /\ ~unowned[r]
  BY DEF Arrive, HandlerPosition, HandlerPositionOf
<1>3. /\ UNCHANGED <<stores, unowned, minted, answer>>
      /\ \A q \in Requests \ {r} :
           call'[q] = call[q] /\ pc'[q] = pc[q] /\ known'[q] = known[q]
      /\ call'[r] = c /\ pc'[r] = EntryPoint(c.op) /\ known'[r] = Evidence(c.pid)
  BY <1>1 DEF Arrive, Goto
<1>4. /\ c.op \in {"issue", "revoke", "renew", "status"}
      /\ c.op = "issue" => c.pid = NoPassport /\ pc'[r] = "evidence"
      /\ c.op = "status" => pc'[r] = "document"
      /\ c.op \in {"revoke", "renew"} => pc'[r] = "guard"
  BY <1>3 DEF Calls, EntryPoint
<1>5. HandlerPosition'
  <2>1. HandlerPositionOf(r)'
    BY <1>2, <1>3, <1>4 DEF HandlerPositionOf
  <2>2. \A q \in Requests \ {r} : HandlerPositionOf(q)'
    BY <1>3 DEF HandlerPosition, HandlerPositionOf
  <2>3. QED
    BY <2>1, <2>2 DEF HandlerPosition
<1>6. MintedOnce' /\ DocumentOrigin'
  BY <1>3 DEF MintedOnce, DocumentOrigin
<1>7. Entitled'
  BY <1>2, <1>3, <1>4 DEF Entitled, PastGuard
<1>8. RevocationAuthorized'
  BY <1>2, <1>3 DEF RevocationAuthorized
<1>9. MirrorFollowsRegistry'
  BY <1>3, <1>4 DEF MirrorFollowsRegistry
<1>10. CommittedRevocation'
  BY <1>2, <1>3, <1>4 DEF CommittedRevocation, Succeeded
<1>11. CommittedIssuance'
  BY <1>2, <1>3, <1>4 DEF CommittedIssuance, CommittedIssuanceOf, Succeeded
<1>12. KnownRevocation'
  <2>1. "registry" \in known'[r] => c.pid \in Passports /\ revokedBy[c.pid] # NoRecord
    BY <1>3 DEF Evidence
  <2>2. QED
    BY <1>2, <1>3, <1>4, <2>1 DEF KnownRevocation
<1>13. QED
  BY <1>5, <1>6, <1>7, <1>8, <1>9, <1>10, <1>11, <1>12

LEMMA InitIInv == Init => IInv
<1> SUFFICES ASSUME Init PROVE IInv
  OBVIOUS
<1> USE DEF Init, NoCall
<1>1. TypeOK
  BY DEF TypeOK, Records
<1>2. HandlerPosition /\ MintedOnce /\ DocumentOrigin /\ Entitled
  BY DEF HandlerPosition, HandlerPositionOf, MintedOnce, DocumentOrigin, Entitled,
         PastGuard
<1>3. RevocationAuthorized /\ MirrorFollowsRegistry /\ CommittedRevocation
  BY DEF RevocationAuthorized, MirrorFollowsRegistry, CommittedRevocation, Succeeded
<1>4. CommittedIssuance /\ KnownRevocation
  BY DEF CommittedIssuance, CommittedIssuanceOf, Succeeded, KnownRevocation
<1>5. QED
  BY <1>1, <1>2, <1>3, <1>4 DEF IInv

LEMMA NextIInv == IInv /\ [Next]_vars => IInv'
<1> SUFFICES ASSUME IInv, [Next]_vars PROVE IInv'
  OBVIOUS
<1>1. TypeOK'
  BY TypeInvariance DEF IInv
<1>2. ASSUME NEW r \in Requests, Arrive(r) PROVE IInv'
  BY <1>1, <1>2, ArriveStep DEF IInv
<1>3. ASSUME NEW r \in Requests, Step(r) \/ Evict(r) PROVE IInv'
  <2>1. TypeOK /\ HandlerPosition /\ MintedOnce /\ DocumentOrigin /\ Entitled
        /\ RevocationAuthorized /\ MirrorFollowsRegistry /\ CommittedRevocation
        /\ CommittedIssuance /\ KnownRevocation
    BY DEF IInv
  <2>2. HandlerPosition' /\ MintedOnce' /\ DocumentOrigin' /\ Entitled'
    BY <1>3, <2>1, PositionStep, MintedOnceStep, OriginStep, EntitledStep
  <2>3. RevocationAuthorized' /\ MirrorFollowsRegistry' /\ CommittedRevocation'
    BY <1>3, <2>1, AuthorizedStep, MirrorStep, RevocationStep
  <2>4. CommittedIssuance' /\ KnownRevocation'
    BY <1>3, <2>1, IssuanceStep, KnownStep
  <2>5. QED
    BY <1>1, <2>2, <2>3, <2>4 DEF IInv
<1>4. CASE UNCHANGED vars
  BY <1>4 DEF vars, IInv, TypeOK, HandlerPosition, HandlerPositionOf, MintedOnce,
              DocumentOrigin, Entitled, RevocationAuthorized, MirrorFollowsRegistry,
              CommittedRevocation, CommittedIssuance, CommittedIssuanceOf,
              KnownRevocation, Succeeded
<1>5. QED
  BY <1>2, <1>3, <1>4 DEF Next, Quiescent

(* IInv holds in every reachable state, whatever the constants are. *)
THEOREM Invariance == Spec => []IInv
<1>1. Init => IInv
  BY InitIInv
<1>2. IInv /\ [Next]_vars => IInv'
  BY NextIInv
<1>3. QED
  BY <1>1, <1>2, PTL DEF Spec

-----------------------------------------------------------------------------
(* Every variable keeps its type, for any sets of passports and requests.  *)
THEOREM TypeCorrect == Spec => []TypeOK
<1>1. IInv => TypeOK
  BY DEF IInv
<1>2. QED
  BY Invariance, <1>1, PTL

(* No interleaving of guard, claim and insert, and no failing or half-     *)
(* applied call, lets a tenant revoke a passport of another tenant.        *)
THEOREM RevocationIsAuthorized == Spec => []RevocationAuthorized
<1>1. IInv => RevocationAuthorized
  BY DEF IInv
<1>2. QED
  BY Invariance, <1>1, PTL

(* At most one of any number of concurrent revocations succeeds. *)
THEOREM SingleWinner == Spec => []OneRevocationWinner
<1>1. IInv => OneRevocationWinner
  BY DEF IInv, CommittedRevocation, OneRevocationWinner
<1>2. QED
  BY Invariance, <1>1, PTL

(* A success reported by issue or renew has its document and owner row. *)
THEOREM ReportedIssuance == Spec => []ReportedIssuanceOwned
<1>1. IInv => ReportedIssuanceOwned
  BY DEF IInv, CommittedIssuance, CommittedIssuanceOf, ReportedIssuanceOwned
<1>2. QED
  BY Invariance, <1>1, PTL

(* The new issuance of a renewal has the owner of the renewed passport. *)
THEOREM RenewalOwner == Spec => []RenewalKeepsOwner
<1>1. IInv => RenewalKeepsOwner
  BY DEF IInv, CommittedIssuance, CommittedIssuanceOf, Entitled, Succeeded,
         RenewalKeepsOwner
<1>2. QED
  BY Invariance, <1>1, PTL

(* A request that arrives after a revocation reached D1 is never told the  *)
(* passport is active and never renews or revokes it.                      *)
THEOREM RevocationSticks == Spec => []RegistryRevocationSticks
<1>1. IInv => RegistryRevocationSticks
  BY DEF IInv, KnownRevocation, RegistryRevocationSticks, Succeeded
<1>2. QED
  BY Invariance, <1>1, PTL

(* Owner rows and records are write-once, and a document is only removed   *)
(* by the unanswered request that created it.                              *)
THEOREM FinalRows == Spec => RowsAreFinal
<1> DEFINE A == \A p \in Passports :
         /\ owner[p] # NoTenant => owner'[p] = owner[p]
         /\ revokedBy[p] # NoRecord => revokedBy'[p] = revokedBy[p]
         /\ doc[p] # "none" /\ doc'[p] # doc[p] =>
              \E r \in Requests : minted[r] = p /\ answer[r] = "none"
<1>1. IInv /\ [Next]_vars => [A]_vars
  <2> SUFFICES ASSUME IInv, [Next]_vars PROVE [A]_vars
    OBVIOUS
  <2>1. ASSUME NEW r \in Requests, Arrive(r) PROVE A
    BY <2>1 DEF Arrive, stores
  <2>2. ASSUME NEW r \in Requests, Step(r) \/ Evict(r) PROVE A
    <3>1. TypeOK
      BY DEF IInv
    <3>2. \A p \in Passports : doc[p] # "none" => ~Fresh(p)
      BY DEF IInv, DocumentOrigin, Fresh
    <3>3. pc[r] = "undo" => answer[r] = "none"
      BY DEF IInv, HandlerPosition, HandlerPositionOf
    <3>4. QED
      BY <2>2, <3>1, <3>2, <3>3, StepFrame
  <2>3. QED
    BY <2>1, <2>2 DEF Next, Quiescent
<1>2. QED
  BY Invariance, <1>1, PTL DEF Spec, RowsAreFinal

-----------------------------------------------------------------------------
(* The steps of a request seen by the ledger: the rows of the two          *)
(* registries change as one of its operations allows, and the answer keeps *)
(* its promise.                                                            *)
LEMMA LedgerInit == Init => Ledger!Init
BY DEF Init, Ledger!Init, NoCall

LEMMA LedgerArrive ==
    ASSUME IInv, NEW r \in Requests, Arrive(r)
    PROVE  Ledger!Arrive(r)
<1> USE DEF IInv, TypeOK
<1>1. PICK c \in Calls : /\ call' = [call EXCEPT ![r] = c]
                         /\ known' = [known EXCEPT ![r] = Evidence(c.pid)]
                         /\ Goto(r, EntryPoint(c.op))
  BY DEF Arrive
<1>2. c \in [op : {"issue", "revoke", "renew", "status"},
             tenant : Tenants \cup {NoTenant}, pid : Passports \cup {NoPassport}]
  BY DEF Calls, Callers
<1>3. /\ Evidence(c.pid) \in SUBSET {"registry", "mirror", "embedded"}
      /\ "registry" \in Evidence(c.pid) <=> /\ c.pid # NoPassport
                                            /\ revokedBy[c.pid] # NoRecord
  BY <1>2 DEF Evidence
<1>4. call[r].op = "none"
  BY DEF Arrive, HandlerPosition, HandlerPositionOf
<1>5. QED
  BY <1>1, <1>2, <1>3, <1>4 DEF Ledger!Arrive, Arrive, Goto, stores

(* What a step does to the rows. *)
LEMMA LedgerRows ==
    ASSUME IInv, NEW r \in Requests, Step(r) \/ Evict(r)
    PROVE  \/ Ledger!Keep \/ Ledger!Mint(r) \/ Ledger!Own(r)
           \/ Ledger!Revoke(r) \/ Ledger!Import(r)
<1> USE DEF IInv, TypeOK
<1>1. CASE Claim(r)
  <2>1. call[r].op \in {"revoke", "renew"} /\ call[r].pid \in Passports
    BY <1>1, CallFacts DEF Claim, HandlerPosition, HandlerPositionOf
  <2>2. QED
    BY <1>1, <2>1 DEF Claim, Ledger!Own, Ledger!Keep
<1>2. CASE Own(r)
  <2>1. call[r].op \in {"issue", "renew"} /\ minted[r] \in Passports
    BY <1>2 DEF Own, HandlerPosition, HandlerPositionOf
  <2>2. QED
    BY <1>2, <2>1 DEF Own, Ledger!Own, Ledger!Keep
<1>3. CASE revokedBy' # revokedBy
  <2>1. owner' = owner /\ minted' = minted
    BY <1>3
       DEF Step, Read, Write, LoadEvidence, Guard, ReadDocument, Lookup, ReadMirror,
           Claim, Own, Heal, Transition, Publish, PutDocument, Undo, Reply,
           Bootstrap, D1Error, Evict, stores
  <2>2. CASE pc[r] = "transition"
    <3>1. call[r].op = "revoke" /\ owner[call[r].pid] = call[r].tenant
      BY <2>2 DEF HandlerPosition, HandlerPositionOf, Entitled, PastGuard
    <3>2. QED
      BY <1>3, <2>1, <2>2, <3>1, RecordStep DEF Ledger!Revoke
  <2>3. CASE pc[r] = "heal"
    <3>1. call[r].op \in {"revoke", "renew", "status"} /\ call[r].pid \in Passports
      BY <2>3, CallFacts DEF HandlerPosition, HandlerPositionOf
    <3>2. revokedBy[call[r].pid] = NoRecord
      BY <1>3, <2>3, RecordStep
    <3>3. mirror[call[r].pid] = LegacyRecord
      BY <2>3, <3>1, <3>2 DEF MirrorFollowsRegistry, Records
    <3>4. QED
      BY <1>3, <2>1, <2>3, <3>1, <3>2, <3>3, RecordStep DEF Ledger!Import
  <2>4. QED
    BY <1>3, <2>2, <2>3, RecordStep
<1>4. CASE PutDocument(r)
  <2>1. call[r].op \in {"issue", "renew"} /\ minted[r] = NoPassport
    BY <1>4 DEF PutDocument, HandlerPosition, HandlerPositionOf
  <2>2. QED
    BY <1>4, <2>1 DEF PutDocument, Fresh, Ledger!Mint
<1>5. CASE D1Error(r) /\ revokedBy' = revokedBy
  <2>1. CASE pc[r] = "claim"
    <3>1. call[r].op \in {"revoke", "renew"} /\ call[r].pid \in Passports
      BY <2>1, CallFacts DEF HandlerPosition, HandlerPositionOf
    <3>2. QED
      BY <1>5, <2>1, <3>1 DEF D1Error, Ledger!Own, Ledger!Keep
  <2>2. CASE pc[r] = "own"
    <3>1. call[r].op \in {"issue", "renew"} /\ minted[r] \in Passports
      BY <2>2 DEF HandlerPosition, HandlerPositionOf
    <3>2. QED
      BY <1>5, <2>2, <3>1 DEF D1Error, Ledger!Own, Ledger!Keep
  <2>3. CASE pc[r] \notin {"claim", "own"}
    BY <1>5, <2>3 DEF D1Error, Ledger!Keep
  <2>4. QED
    BY <2>1, <2>2, <2>3
<1>6. QED
  BY <1>1, <1>2, <1>3, <1>4, <1>5
     DEF Step, Read, Write, LoadEvidence, Guard, ReadDocument, Lookup, ReadMirror,
         Heal, Transition, Publish, Undo, Reply, Bootstrap, Evict, stores, Ledger!Keep

(* What a step answers. *)
LEMMA LedgerReply ==
    ASSUME IInv, IInv', NEW r \in Requests, Step(r) \/ Evict(r)
    PROVE  answer[r] = "none" /\ Ledger!Reply(r)
<1> USE DEF IInv, TypeOK
<1>1. answer[r] = "none" /\ call[r].op # "none"
  BY DEF Step, Read, Write, LoadEvidence, Guard, ReadDocument, Lookup, ReadMirror,
         Claim, Own, Heal, Transition, Publish, PutDocument, Undo, Reply,
         Bootstrap, D1Error, Evict, HandlerPosition, HandlerPositionOf,
         InFlight, OnIssuances, OnRevocations
<1>2. answer' = [answer EXCEPT ![r] = answer'[r]]
  BY StepFrame
<1>3. CASE answer'[r] # "none"
  <2>1. Ledger!Promise(r, answer'[r])
    <3>1. call'[r] = call[r] /\ known'[r] = known[r]
      BY StepFrame
    <3>2. answer'[r] = "ok" => minted'[r] = minted[r]
      <4>1. CASE PutDocument(r)
        BY <1>1, <4>1 DEF PutDocument, Goto, Answer
      <4>2. CASE ~PutDocument(r)
        <5>1. minted' = minted
          BY <4>2, SMTT(30) DEF Step, Read, Write, LoadEvidence, Guard, ReadDocument,
             Lookup, ReadMirror, Claim, Own, Heal, Transition, Publish, Undo, Reply,
             Bootstrap, D1Error, Evict
        <5>2. QED
          BY <5>1
      <4>3. QED
        BY <4>1, <4>2
    <3>3. answer'[r] = "ok" /\ call[r].op \in {"issue", "renew"} =>
             minted[r] \in Passports /\ owner'[minted[r]] = call[r].tenant
      BY <3>1, <3>2 DEF CommittedIssuance, CommittedIssuanceOf, Succeeded
    <3>4. answer'[r] = "ok" /\ call[r].op = "revoke" => revokedBy'[call[r].pid] = r
      BY <3>1 DEF CommittedRevocation, Succeeded
    <3>5. answer'[r] = "ok" /\ call[r].op = "renew" =>
             owner'[call[r].pid] = call[r].tenant
      BY <3>1 DEF Entitled
    <3>6. answer'[r] \in {"ok", "active"} => "registry" \notin known[r]
      BY <3>1 DEF KnownRevocation
    <3>7. QED
      BY <3>3, <3>4, <3>5, <3>6 DEF Ledger!Promise
  <2>2. QED
    BY <1>1, <1>2, <1>3, <2>1 DEF Ledger!Reply
<1>4. CASE answer'[r] = "none"
  BY <1>1, <1>2, <1>4 DEF Ledger!Reply
<1>5. QED
  BY <1>1, <1>3, <1>4

(* Every behaviour of the handlers, over every failure they meet, is a     *)
(* behaviour of the two write-once registries and their promises.          *)
THEOREM ImplementsLedger == Spec => LedgerSpec
<1>1. Init => Ledger!Init
  BY LedgerInit
<1>2. IInv /\ IInv' /\ [Next]_vars => [Ledger!Next]_(Ledger!vars)
  <2> SUFFICES ASSUME IInv, IInv', [Next]_vars PROVE [Ledger!Next]_(Ledger!vars)
    OBVIOUS
  <2>1. ASSUME NEW r \in Requests, Arrive(r) PROVE Ledger!Next
    BY <2>1, LedgerArrive DEF Ledger!Next
  <2>2. ASSUME NEW r \in Requests, Step(r) \/ Evict(r) PROVE Ledger!Next
    <3>1. call' = call /\ known' = known
      BY <2>2, StepFrame DEF IInv
    <3>2. Ledger!Serve(r)
      BY <2>2, <3>1, LedgerRows, LedgerReply DEF Ledger!Serve
    <3>3. QED
      BY <3>2 DEF Ledger!Next
  <2>3. CASE UNCHANGED vars
    BY <2>3 DEF vars, Ledger!vars
  <2>4. QED
    BY <2>1, <2>2, <2>3 DEF Next, Quiescent
<1>3. QED
  BY Invariance, <1>1, <1>2, PTL DEF Spec, LedgerSpec, Ledger!Spec
=============================================================================
