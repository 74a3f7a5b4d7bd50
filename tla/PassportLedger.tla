--------------------------- MODULE PassportLedger ---------------------------
(***************************************************************************)
(* What the Passport write and status routes of the Worker promise, with   *)
(* every store but the two authoritative D1 registries hidden.             *)
(*                                                                         *)
(* The ledger holds one owner row and at most one revocation record per    *)
(* passport, both write-once.  A request changes a row only for a passport *)
(* it is entitled to, and it is answered with success only when the row it *)
(* stands for is there.  No document store, no mirror, no failing call and *)
(* no handler position appears here: PassportRegistry implements this      *)
(* module by the identity on the variables they share.                     *)
(***************************************************************************)

CONSTANTS
    Passports,        \* passport ids
    Tenants,          \* tenants an owner row can name
    Requests,         \* one HTTP request each
    NoTenant,         \* "no owner row"
    NoRecord,         \* "no revocation record"
    LegacyRecord,     \* a record written before the D1 registry existed
    NoPassport        \* the pid of an issuance, which names no passport

VARIABLES
    owner,            \* passport -> owner row (passport_issuances)
    revokedBy,        \* passport -> record (passport_revocations)
    call,             \* request -> operation, caller's tenant and passport
    minted,           \* request -> the passport id it minted
    known,            \* request -> revocation evidence stored on arrival
    answer            \* request -> its answer, "none" before

vars == <<owner, revokedBy, call, minted, known, answer>>

Init ==
    /\ owner \in [Passports -> Tenants \cup {NoTenant}]
    /\ revokedBy = [p \in Passports |-> NoRecord]
    /\ call = [r \in Requests |->
                 [op |-> "none", tenant |-> NoTenant, pid |-> NoPassport]]
    /\ minted = [r \in Requests |-> NoPassport]
    /\ known = [r \in Requests |-> {}]
    /\ answer = [r \in Requests |-> "none"]

(* A request arrives; what the ledger already holds is noted. *)
Arrive(r) ==
    /\ call[r].op = "none"
    /\ \E c \in [op : {"issue", "revoke", "renew", "status"},
                 tenant : Tenants \cup {NoTenant},
                 pid : Passports \cup {NoPassport}] :
         /\ call' = [call EXCEPT ![r] = c]
         /\ \E k \in SUBSET {"registry", "mirror", "embedded"} :
              /\ known' = [known EXCEPT ![r] = k]
              /\ "registry" \in k <=> /\ c.pid # NoPassport
                                      /\ revokedBy[c.pid] # NoRecord
    /\ UNCHANGED <<owner, revokedBy, minted, answer>>

(* What a request may do to the rows in one step.                          *)
Keep == UNCHANGED <<owner, revokedBy, minted>>

(* A new passport id is drawn, once per request and never twice. *)
Mint(r) ==
    /\ call[r].op \in {"issue", "renew"}
    /\ minted[r] = NoPassport
    /\ \E p \in Passports :
         /\ \A q \in Requests : minted[q] # p
         /\ minted' = [minted EXCEPT ![r] = p]
    /\ UNCHANGED <<owner, revokedBy>>

(* An unowned passport gets the caller's tenant as its owner: the one the  *)
(* request minted, or a legacy one it writes to.                           *)
Own(r) ==
    /\ call[r].op \in {"issue", "revoke", "renew"}
    /\ \E p \in Passports \cap {minted[r], call[r].pid} :
         /\ owner[p] = NoTenant
         /\ owner' = [owner EXCEPT ![p] = call[r].tenant]
    /\ UNCHANGED <<revokedBy, minted>>

(* The one transition of a passport to revoked, by its owner. *)
Revoke(r) ==
    /\ call[r].op = "revoke"
    /\ owner[call[r].pid] = call[r].tenant
    /\ revokedBy[call[r].pid] = NoRecord
    /\ revokedBy' = [revokedBy EXCEPT ![call[r].pid] = r]
    /\ UNCHANGED <<owner, minted>>

(* A record that predates the registry is copied into it by a lookup. *)
Import(r) ==
    /\ call[r].op \in {"revoke", "renew", "status"}
    /\ revokedBy[call[r].pid] = NoRecord
    /\ revokedBy' = [revokedBy EXCEPT ![call[r].pid] = LegacyRecord]
    /\ UNCHANGED <<owner, minted>>

(* What an answer promises about the rows as the step leaves them. *)
Promise(r, a) ==
    /\ (a = "ok" /\ call[r].op = "revoke") => revokedBy'[call[r].pid] = r
    /\ (a = "ok" /\ call[r].op \in {"issue", "renew"}) =>
          /\ minted[r] \in Passports
          /\ owner'[minted[r]] = call[r].tenant
    /\ (a = "ok" /\ call[r].op = "renew") =>
          owner'[call[r].pid] = call[r].tenant
    /\ (a = "ok" /\ call[r].op \in {"revoke", "renew"}) =>
          "registry" \notin known[r]
    /\ a = "active" => "registry" \notin known[r]

Reply(r) ==
    \/ UNCHANGED answer
    \/ /\ call[r].op # "none"
       /\ \E a \in {"ok", "not_found", "conflict", "unavailable", "error",
                    "revoked", "unknown", "active"} :
            /\ Promise(r, a)
            /\ answer' = [answer EXCEPT ![r] = a]

(* An answered request touches nothing any more. *)
Serve(r) ==
    /\ answer[r] = "none"
    /\ Keep \/ Mint(r) \/ Own(r) \/ Revoke(r) \/ Import(r)
    /\ Reply(r)
    /\ UNCHANGED <<call, known>>

Next == \E r \in Requests : Arrive(r) \/ Serve(r)

Spec == Init /\ [][Next]_vars
=============================================================================
