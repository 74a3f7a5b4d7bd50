------------------------ MODULE FederationStatusList ------------------------
(***************************************************************************)
(* The cross-organisation registry of the Worker                           *)
(* (packages/worker/src/index.ts): registration claims an index of the     *)
(* default status list with one UPDATE ... RETURNING and then inserts its  *)
(* row; revocation flags the row and then reads, modifies and writes the   *)
(* list's bitstring in two further statements.                             *)
(*                                                                         *)
(* One step per D1 statement.  A statement may throw, applied or not, and  *)
(* the isolate may be evicted between two of them.  A handler that has     *)
(* ended is reused for the next request.                                   *)
(***************************************************************************)
EXTENDS Naturals, FiniteSets

CONSTANTS
    Agents,       \* agent_id, UNIQUE in registered_passports
    Requests,     \* handlers running at the same time
    NoAgent,      \* the agent of an idle handler
    MaxCount      \* bound on credential_count, for model checking

ASSUME FederationAssumption == MaxCount \in Nat /\ NoAgent \notin Agents

VARIABLES
    count,        \* status_lists.credential_count of the default list
    bits,         \* positions set in status_lists.bitstring
    nibbles,      \* the length of that string in hex characters
    registered,   \* agents with a row in registered_passports
    indexOf,      \* registered agent -> status_list_index
    revoked,      \* agents whose row has is_revoked = 1
    pc,           \* handler -> the statement it runs next
    agent,        \* handler -> the agent of its request
    index,        \* handler -> the status_list_index it claimed or read
    copy,         \* handler -> the bitstring it read
    acked         \* agents whose revocation was answered 200 (history)

list == <<count, bits, nibbles>>
table == <<registered, indexOf, revoked>>
vars == <<list, table, pc, agent, index, copy, acked>>

Empty == [bits |-> {}, nibbles |-> 0]

(* Migration 0002 provisions the default list with an empty bitstring. *)
Init ==
    /\ count = 0 /\ bits = {} /\ nibbles = 0
    /\ registered = {} /\ revoked = {}
    /\ indexOf = [a \in Agents |-> 0]
    /\ pc = [r \in Requests |-> "idle"]
    /\ agent = [r \in Requests |-> NoAgent]
    /\ index = [r \in Requests |-> 0]
    /\ copy = [r \in Requests |-> Empty]
    /\ acked = {}

(* The handler ends, with an answer or an exception. *)
End(r) ==
    /\ pc' = [pc EXCEPT ![r] = "idle"]
    /\ agent' = [agent EXCEPT ![r] = NoAgent]
    /\ index' = [index EXCEPT ![r] = 0]
    /\ copy' = [copy EXCEPT ![r] = Empty]

Proceed(r, l) == pc' = [pc EXCEPT ![r] = l] /\ UNCHANGED agent

Arrive(r) ==
    /\ pc[r] = "idle"
    /\ \E a \in Agents, l \in {"claim", "find"} :
         /\ pc' = [pc EXCEPT ![r] = l]
         /\ agent' = [agent EXCEPT ![r] = a]
    /\ UNCHANGED <<list, table, index, copy, acked>>

-----------------------------------------------------------------------------
(* handleFederationRegister *)

(* Mutant of ClaimIndex: the next index is the number of rows. *)
ClaimIndexByRows(r) ==
    /\ pc[r] = "claim"
    /\ count < MaxCount
    /\ count' = count + 1
    /\ index' = [index EXCEPT ![r] = Cardinality(registered)]
    /\ Proceed(r, "insert")
    /\ UNCHANGED <<bits, nibbles, table, copy, acked>>

(* UPDATE ... SET credential_count = credential_count + 1 RETURNING: the   *)
(* claimed index is the new count less one.                                *)
ClaimIndex(r) ==
    /\ pc[r] = "claim"
    /\ count < MaxCount
    /\ count' = count + 1
    /\ index' = [index EXCEPT ![r] = count]
    /\ Proceed(r, "insert")
    /\ UNCHANGED <<bits, nibbles, table, copy, acked>>

(* INSERT: an agent that is registered already violates UNIQUE(agent_id),  *)
(* and the index that was claimed for it is lost.                          *)
InsertRow(r) ==
    /\ pc[r] = "insert"
    /\ IF agent[r] \in registered
       THEN UNCHANGED table
       ELSE /\ registered' = registered \cup {agent[r]}
            /\ indexOf' = [indexOf EXCEPT ![agent[r]] = index[r]]
            /\ UNCHANGED revoked
    /\ End(r)
    /\ UNCHANGED <<list, acked>>

-----------------------------------------------------------------------------
(* handleFederationRevoke *)

FindRow(r) ==
    /\ pc[r] = "find"
    /\ IF agent[r] \in registered
       THEN /\ index' = [index EXCEPT ![r] = indexOf[agent[r]]]
            /\ Proceed(r, "flag")
            /\ UNCHANGED copy
       ELSE End(r)
    /\ UNCHANGED <<list, table, acked>>

(* Mutant of Flag: the row is left for a later statement. *)
FlagLater(r) ==
    /\ pc[r] = "flag"
    /\ Proceed(r, "read")
    /\ UNCHANGED <<list, table, index, copy, acked>>

Flag(r) ==
    /\ pc[r] = "flag"
    /\ revoked' = revoked \cup {agent[r]}
    /\ Proceed(r, "read")
    /\ UNCHANGED <<list, registered, indexOf, index, copy, acked>>

ReadList(r) ==
    /\ pc[r] = "read"
    /\ copy' = [copy EXCEPT ![r] = [bits |-> bits, nibbles |-> nibbles]]
    /\ Proceed(r, "write")
    /\ UNCHANGED <<list, table, index, acked>>

(* Mutant of SetBit: the copy grows by one character too few. *)
SetBitShort(c, i) ==
    [bits |-> c.bits \cup {i},
     nibbles |-> IF c.nibbles < i \div 4 THEN i \div 4 ELSE c.nibbles]

(* setBit: the copy grows to hold position i, padded to whole nibbles. *)
SetBit(c, i) ==
    [bits |-> c.bits \cup {i},
     nibbles |-> IF c.nibbles < i \div 4 + 1 THEN i \div 4 + 1 ELSE c.nibbles]

StoreList(r) ==
    LET updated == SetBit(copy[r], index[r]) IN
    /\ bits' = updated.bits
    /\ nibbles' = updated.nibbles
    /\ UNCHANGED count

WriteList(r) ==
    /\ pc[r] = "write"
    /\ StoreList(r)
    /\ acked' = acked \cup {agent[r]}
    /\ End(r)
    /\ UNCHANGED table

-----------------------------------------------------------------------------
(* handleStatusList: the hex string is cut into pairs, one byte each; an   *)
(* odd last character has no pair.                                         *)
ServedBits(b, n) == {i \in b : i \div 8 < n \div 2}

Served == ServedBits(bits, nibbles)

-----------------------------------------------------------------------------
(* A statement throws after it took effect, or the isolate is evicted      *)
(* before its next statement; either way the request ends unanswered.      *)
Fail(r) ==
    /\ pc[r] # "idle"
    /\ \/ UNCHANGED <<list, table>>
       \/ /\ pc[r] = "claim" /\ count < MaxCount
          /\ count' = count + 1
          /\ UNCHANGED <<bits, nibbles, table>>
       \/ /\ pc[r] = "insert" /\ agent[r] \notin registered
          /\ registered' = registered \cup {agent[r]}
          /\ indexOf' = [indexOf EXCEPT ![agent[r]] = index[r]]
          /\ UNCHANGED <<revoked, list>>
       \/ /\ pc[r] = "flag"
          /\ revoked' = revoked \cup {agent[r]}
          /\ UNCHANGED <<registered, indexOf, list>>
       \/ pc[r] = "write" /\ StoreList(r) /\ UNCHANGED table
    /\ End(r)
    /\ UNCHANGED acked

Register(r) == ClaimIndex(r) \/ InsertRow(r)
Revoke(r) == FindRow(r) \/ Flag(r) \/ ReadList(r) \/ WriteList(r)

Next == \E r \in Requests : Arrive(r) \/ Register(r) \/ Revoke(r) \/ Fail(r)

Spec == Init /\ [][Next]_vars

-----------------------------------------------------------------------------
Bitstrings == [bits : SUBSET Nat, nibbles : Nat]
Labels == {"idle", "claim", "insert", "find", "flag", "read", "write"}

(* Every variable holds a value of its kind. *)
TypeOK ==
    /\ count \in Nat /\ nibbles \in Nat /\ bits \in SUBSET Nat
    /\ registered \subseteq Agents /\ revoked \subseteq Agents
    /\ indexOf \in [Agents -> Nat]
    /\ pc \in [Requests -> Labels]
    /\ agent \in [Requests -> Agents \cup {NoAgent}]
    /\ index \in [Requests -> Nat]
    /\ copy \in [Requests -> Bitstrings]
    /\ acked \subseteq Agents

(* Two registered passports never share a position of the list, however    *)
(* registrations interleave and whichever of their statements fail         *)
(* (handleFederationRegister's reason for UPDATE ... RETURNING).           *)
DistinctIndices ==
    \A a, b \in registered : indexOf[a] = indexOf[b] => a = b

(* Every position set in the stored bitstring belongs to a passport whose  *)
(* row is revoked: whatever stale copies handleFederationRevoke writes     *)
(* back, it never marks a passport nobody revoked.                         *)
RevokedPositions == {indexOf[a] : a \in revoked}
NoFalseRevocation == bits \subseteq RevokedPositions

(* What a verifier misses of the stored list is what an odd last character *)
(* holds, and no more: the string has grown to hold every position set in  *)
(* it, also where a stale and shorter copy was written over a longer one.  *)
OnlyLastCharacterUnserved ==
    \A i \in bits \ Served : nibbles % 2 = 1 /\ i \div 4 = nibbles - 1

(* A flagged row stays flagged, and a registered passport keeps its index. *)
RowsAreFinal ==
    [][/\ revoked \subseteq revoked'
       /\ \A a \in registered : a \in registered' /\ indexOf'[a] = indexOf[a]]_vars

-----------------------------------------------------------------------------
(* The inductive invariant behind them.                                    *)

(* Claimed positions lie below the counter and are each claimed once. *)
ClaimedOnce ==
    /\ \A a \in registered : indexOf[a] < count
    /\ \A r \in Requests : pc[r] = "insert" =>
         /\ index[r] < count
         /\ \A a \in registered : indexOf[a] # index[r]
         /\ \A q \in Requests : pc[q] = "insert" /\ index[q] = index[r] => q = r

(* The string, and every copy of it, holds the positions set in it. *)
Holds(b, n) == \A i \in b : i \div 4 < n

StringsHold == Holds(bits, nibbles) /\ \A r \in Requests : Holds(copy[r].bits, copy[r].nibbles)

(* A revocation works on the row it found, and on a copy no newer than D1. *)
RevokingHandlers ==
    \A r \in Requests :
        /\ pc[r] # "idle" => agent[r] \in Agents
        /\ pc[r] \in {"flag", "read", "write"} =>
               agent[r] \in registered /\ index[r] = indexOf[agent[r]]
        /\ pc[r] \in {"read", "write"} => agent[r] \in revoked
        /\ pc[r] = "write" => copy[r].bits \subseteq RevokedPositions

IInv ==
    /\ TypeOK
    /\ revoked \subseteq registered
    /\ ClaimedOnce
    /\ DistinctIndices
    /\ RevokingHandlers
    /\ NoFalseRevocation
    /\ StringsHold

-----------------------------------------------------------------------------
(* What the code says and does not keep.                                   *)

(* The list's statusPurpose is "revocation" (handleStatusList): once a     *)
(* revocation has been answered 200, its bit is in the stored list.        *)
AckedRevocationListed == \A a \in acked : indexOf[a] \in bits

(* "encodedList must be base64url of the raw bitstring BYTES"              *)
(* (handleStatusList): no bit of the stored string is missing in it.       *)
ServedListComplete == Served = bits
=============================================================================
