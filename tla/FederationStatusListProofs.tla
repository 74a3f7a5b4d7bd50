--------------------- MODULE FederationStatusListProofs ---------------------
(***************************************************************************)
(* Theorems about FederationStatusList for any agents, handlers and bound: *)
(* claimed positions are never shared, no bit is ever set for a passport   *)
(* whose row is not revoked, and the string that is stored holds its bits. *)
(***************************************************************************)
EXTENDS FederationStatusList, TLAPS

USE FederationAssumption

LEMMA InitIInv == Init => IInv
BY DEF Init, IInv, TypeOK, ClaimedOnce, DistinctIndices, RevokingHandlers,
       NoFalseRevocation, StringsHold, Holds, Bitstrings, Labels, Empty

(* A step that leaves the string alone, and every copy but for taking or   *)
(* dropping one, keeps the strings long enough.                            *)
LEMMA StringsStay ==
    ASSUME IInv, UNCHANGED <<bits, nibbles>>,
           \A r \in Requests : copy'[r] \in {copy[r], Empty, [bits |-> bits, nibbles |-> nibbles]}
    PROVE  StringsHold'
BY DEF IInv, StringsHold, Holds, Empty

(* Positions of revoked rows are only ever added. *)
LEMMA PositionsGrow ==
    ASSUME IInv, revoked \subseteq revoked', revoked \subseteq registered,
           \A a \in registered : indexOf'[a] = indexOf[a]
    PROVE  RevokedPositions \subseteq RevokedPositions'
BY DEF RevokedPositions

(* The handlers that do not move keep what RevokingHandlers says of them. *)
LEMMA OthersRevoking ==
    ASSUME IInv, NEW r \in Requests,
           registered \subseteq registered', revoked \subseteq revoked',
           \A a \in registered : indexOf'[a] = indexOf[a],
           \A q \in Requests \ {r} :
             /\ pc'[q] = pc[q] /\ agent'[q] = agent[q]
             /\ index'[q] = index[q] /\ copy'[q] = copy[q],
           NEW q \in Requests \ {r}
    PROVE  /\ pc'[q] # "idle" => agent'[q] \in Agents
           /\ pc'[q] \in {"flag", "read", "write"} =>
                  agent'[q] \in registered' /\ index'[q] = indexOf'[agent'[q]]
           /\ pc'[q] \in {"read", "write"} => agent'[q] \in revoked'
           /\ pc'[q] = "write" => copy'[q].bits \subseteq RevokedPositions'
<1>1. RevokedPositions \subseteq RevokedPositions'
  BY PositionsGrow DEF IInv
<1>2. QED
  BY <1>1 DEF IInv, RevokingHandlers

LEMMA NextIInv == IInv /\ [Next]_vars => IInv'
<1> SUFFICES ASSUME IInv, [Next]_vars PROVE IInv'
  OBVIOUS
<1> USE DEF TypeOK, list, table, Bitstrings, Labels
<1>0. TypeOK /\ revoked \subseteq registered /\ ClaimedOnce /\ DistinctIndices
      /\ RevokingHandlers /\ NoFalseRevocation /\ StringsHold
  BY DEF IInv
<1>1. ASSUME NEW r \in Requests, Arrive(r) PROVE IInv'
  <2>1. TypeOK'
    BY <1>0, <1>1 DEF Arrive
  <2>2. ClaimedOnce' /\ DistinctIndices' /\ NoFalseRevocation' /\ (revoked \subseteq registered)'
    BY <1>0, <1>1 DEF Arrive, ClaimedOnce, DistinctIndices, NoFalseRevocation, RevokedPositions
  <2>3. RevokingHandlers'
    BY <1>0, <1>1 DEF Arrive, RevokingHandlers, RevokedPositions
  <2>4. StringsHold'
    BY <1>1, StringsStay DEF Arrive
  <2>5. QED
    BY <2>1, <2>2, <2>3, <2>4 DEF IInv
<1>2. ASSUME NEW r \in Requests, ClaimIndex(r) PROVE IInv'
  <2>1. TypeOK'
    BY <1>0, <1>2 DEF ClaimIndex, Proceed
  <2>2. ClaimedOnce'
    BY <1>0, <1>2 DEF ClaimIndex, Proceed, ClaimedOnce
  <2>3. DistinctIndices' /\ NoFalseRevocation' /\ (revoked \subseteq registered)'
    BY <1>0, <1>2 DEF ClaimIndex, DistinctIndices, NoFalseRevocation, RevokedPositions
  <2>4. RevokingHandlers'
    BY <1>0, <1>2 DEF ClaimIndex, Proceed, RevokingHandlers, RevokedPositions
  <2>5. StringsHold'
    BY <1>2, StringsStay DEF ClaimIndex
  <2>6. QED
    BY <2>1, <2>2, <2>3, <2>4, <2>5 DEF IInv
<1>3. ASSUME NEW r \in Requests, InsertRow(r) PROVE IInv'
  <2>1. agent[r] \in Agents
    BY <1>0, <1>3 DEF InsertRow, RevokingHandlers
  <2>2. TypeOK'
    BY <1>0, <1>3, <2>1 DEF InsertRow, End, Empty
  <2>3. /\ registered \subseteq registered' /\ revoked' = revoked
        /\ \A a \in registered : indexOf'[a] = indexOf[a]
    BY <1>0, <1>3 DEF InsertRow
  <2>4. ClaimedOnce' /\ DistinctIndices'
    BY <1>0, <1>3, <2>1 DEF InsertRow, End, ClaimedOnce, DistinctIndices
  <2>5. NoFalseRevocation' /\ (revoked \subseteq registered)'
    BY <1>0, <1>3, <2>3, PositionsGrow DEF InsertRow, NoFalseRevocation
  <2>6. RevokingHandlers'
    <3>1. \A q \in Requests \ {r} : /\ pc'[q] = pc[q] /\ agent'[q] = agent[q]
                                    /\ index'[q] = index[q] /\ copy'[q] = copy[q]
      BY <1>0, <1>3 DEF InsertRow, End
    <3>2. pc'[r] = "idle"
      BY <1>0, <1>3 DEF InsertRow, End
    <3>3. QED
      BY <2>3, <3>1, <3>2, OthersRevoking DEF RevokingHandlers
  <2>7. StringsHold'
    BY <1>0, <1>3, StringsStay DEF InsertRow, End
  <2>8. QED
    BY <2>2, <2>4, <2>5, <2>6, <2>7 DEF IInv
<1>4. ASSUME NEW r \in Requests, FindRow(r) PROVE IInv'
  <2>1. TypeOK'
    <3>1. CASE agent[r] \in registered
      BY <1>0, <1>4, <3>1 DEF FindRow, Proceed
    <3>2. CASE agent[r] \notin registered
      <4>1. End(r) /\ UNCHANGED <<list, table, acked>>
        BY <1>4, <3>2 DEF FindRow
      <4>2. QED
        BY <1>0, <4>1 DEF End, Empty, list, table
    <3>3. QED
      BY <3>1, <3>2
  <2>2. ClaimedOnce' /\ DistinctIndices' /\ NoFalseRevocation' /\ (revoked \subseteq registered)'
    BY <1>0, <1>4 DEF FindRow, End, Proceed, ClaimedOnce, DistinctIndices,
                      NoFalseRevocation, RevokedPositions
  <2>3. RevokingHandlers'
    BY <1>0, <1>4 DEF FindRow, End, Proceed, RevokingHandlers, RevokedPositions
  <2>4. StringsHold'
    BY <1>0, <1>4, StringsStay DEF FindRow, End
  <2>5. QED
    BY <2>1, <2>2, <2>3, <2>4 DEF IInv
<1>5. ASSUME NEW r \in Requests, Flag(r) PROVE IInv'
  <2>1. agent[r] \in registered
    BY <1>0, <1>5 DEF Flag, RevokingHandlers
  <2>2. TypeOK' /\ (revoked \subseteq registered)'
    BY <1>0, <1>5, <2>1 DEF Flag, Proceed
  <2>3. ClaimedOnce' /\ DistinctIndices'
    BY <1>0, <1>5 DEF Flag, Proceed, ClaimedOnce, DistinctIndices
  <2>4. NoFalseRevocation'
    BY <1>0, <1>5, PositionsGrow DEF Flag, NoFalseRevocation
  <2>5. RevokingHandlers'
    <3>1. \A q \in Requests \ {r} : pc'[q] = pc[q]
      BY <1>0, <1>5 DEF Flag, Proceed
    <3>2. /\ pc'[r] = "read" /\ agent'[r] \in registered' /\ agent'[r] \in revoked'
          /\ index'[r] = indexOf'[agent'[r]]
      BY <1>0, <1>5, <2>1 DEF Flag, Proceed, RevokingHandlers
    <3>3. /\ registered \subseteq registered' /\ revoked \subseteq revoked'
          /\ \A a \in registered : indexOf'[a] = indexOf[a]
          /\ \A q \in Requests \ {r} : agent'[q] = agent[q] /\ index'[q] = index[q]
                                       /\ copy'[q] = copy[q]
      BY <1>5 DEF Flag, Proceed
    <3>4. QED
      BY <1>0, <2>2, <3>1, <3>2, <3>3, OthersRevoking DEF RevokingHandlers
  <2>6. StringsHold'
    BY <1>5, StringsStay DEF Flag
  <2>7. QED
    BY <2>2, <2>3, <2>4, <2>5, <2>6 DEF IInv
<1>6. ASSUME NEW r \in Requests, ReadList(r) PROVE IInv'
  <2>1. TypeOK' /\ ClaimedOnce' /\ DistinctIndices' /\ NoFalseRevocation'
        /\ (revoked \subseteq registered)'
    BY <1>0, <1>6 DEF ReadList, Proceed, ClaimedOnce, DistinctIndices,
                      NoFalseRevocation, RevokedPositions
  <2>2. RevokingHandlers'
    <3>1. /\ pc'[r] = "write" /\ copy'[r].bits = bits /\ index' = index /\ agent' = agent
          /\ \A q \in Requests \ {r} : pc'[q] = pc[q] /\ copy'[q] = copy[q]
          /\ UNCHANGED <<registered, indexOf, revoked>> /\ pc[r] = "read"
      BY <1>0, <1>6 DEF ReadList, Proceed
    <3>2. RevokedPositions' = RevokedPositions
      BY <3>1 DEF RevokedPositions
    <3>3. QED
      BY <1>0, <3>1, <3>2 DEF RevokingHandlers, NoFalseRevocation
  <2>3. StringsHold'
    BY <1>0, <1>6, StringsStay DEF ReadList
  <2>4. QED
    BY <2>1, <2>2, <2>3 DEF IInv
<1>7. ASSUME NEW r \in Requests, pc[r] = "write", StoreList(r)
      PROVE  NoFalseRevocation /\ bits' \subseteq RevokedPositions /\ bits' \in SUBSET Nat
             /\ nibbles' \in Nat /\ count' = count /\ Holds(bits', nibbles')
  <2>1. /\ agent[r] \in revoked /\ index[r] = indexOf[agent[r]]
        /\ copy[r].bits \subseteq RevokedPositions
    BY <1>0, <1>7 DEF RevokingHandlers
  <2>2. index[r] \in RevokedPositions
    BY <2>1 DEF RevokedPositions
  <2>3. copy[r].bits \in SUBSET Nat /\ copy[r].nibbles \in Nat /\ index[r] \in Nat
    BY <1>0
  <2>4. index[r] \div 4 + 1 \in Nat
    BY <2>3
  <2>5. Holds(bits', nibbles')
    <3>1. Holds(copy[r].bits, copy[r].nibbles)
      BY <1>0 DEF StringsHold
    <3>2. bits' = copy[r].bits \cup {index[r]} /\ nibbles' >= copy[r].nibbles
          /\ nibbles' >= index[r] \div 4 + 1
      BY <1>7, <2>3, <2>4 DEF StoreList, SetBit
    <3>3. ASSUME NEW i \in bits' PROVE i \div 4 < nibbles'
      <4>1. i \div 4 \in Nat /\ nibbles' \in Nat
        BY <1>7, <2>3, <2>4, <3>2 DEF StoreList, SetBit
      <4>2. QED
        BY <2>3, <2>4, <3>1, <3>2, <4>1 DEF Holds
    <3>4. QED
      BY <3>3 DEF Holds
  <2>6. QED
    BY <1>0, <1>7, <2>1, <2>2, <2>3, <2>4, <2>5 DEF StoreList, SetBit
<1>8. ASSUME NEW r \in Requests, WriteList(r) PROVE IInv'
  <2>1. /\ bits' \subseteq RevokedPositions /\ bits' \in SUBSET Nat /\ nibbles' \in Nat
        /\ count' = count /\ Holds(bits', nibbles')
    BY <1>7, <1>8 DEF WriteList
  <2>2. agent[r] \in Agents
    BY <1>0, <1>8 DEF WriteList, RevokingHandlers
  <2>3. TypeOK'
    BY <1>0, <1>8, <2>1, <2>2 DEF WriteList, End, Empty
  <2>4. ClaimedOnce' /\ DistinctIndices' /\ NoFalseRevocation' /\ (revoked \subseteq registered)'
    BY <1>0, <1>8, <2>1 DEF WriteList, End, ClaimedOnce, DistinctIndices,
                            NoFalseRevocation, RevokedPositions
  <2>5. RevokingHandlers'
    BY <1>0, <1>8 DEF WriteList, End, RevokingHandlers, RevokedPositions
  <2>6. StringsHold'
    BY <1>0, <1>8, <2>1 DEF WriteList, End, Empty, StringsHold, Holds
  <2>7. QED
    BY <2>3, <2>4, <2>5, <2>6 DEF IInv
<1>9. ASSUME NEW r \in Requests, Fail(r) PROVE IInv'
  <2>1. agent[r] \in Agents
    BY <1>0, <1>9 DEF Fail, RevokingHandlers
  <2>2. End(r) /\ acked' = acked
    BY <1>9 DEF Fail
  <2>3. CASE UNCHANGED <<list, table>>
    <3>1. TypeOK'
      BY <1>0, <2>2, <2>3 DEF End, Empty
    <3>2. ClaimedOnce' /\ DistinctIndices' /\ NoFalseRevocation' /\ (revoked \subseteq registered)'
      BY <1>0, <2>2, <2>3 DEF End, ClaimedOnce, DistinctIndices, NoFalseRevocation,
                              RevokedPositions
    <3>3. RevokingHandlers'
      BY <1>0, <2>2, <2>3 DEF End, RevokingHandlers, RevokedPositions
    <3>4. StringsHold'
      BY <1>0, <2>2, <2>3, StringsStay DEF End
    <3>5. QED
      BY <3>1, <3>2, <3>3, <3>4 DEF IInv
  <2>4. CASE /\ pc[r] = "claim" /\ count < MaxCount /\ count' = count + 1
             /\ UNCHANGED <<bits, nibbles, table>>
    <3>1. TypeOK'
      BY <1>0, <2>2, <2>4 DEF End, Empty
    <3>2. ClaimedOnce' /\ DistinctIndices' /\ NoFalseRevocation' /\ (revoked \subseteq registered)'
      BY <1>0, <2>2, <2>4 DEF End, ClaimedOnce, DistinctIndices, NoFalseRevocation,
                              RevokedPositions
    <3>3. RevokingHandlers'
      BY <1>0, <2>2, <2>4 DEF End, RevokingHandlers, RevokedPositions
    <3>4. StringsHold'
      BY <1>0, <2>2, <2>4, StringsStay DEF End
    <3>5. QED
      BY <3>1, <3>2, <3>3, <3>4 DEF IInv
  <2>5. CASE /\ pc[r] = "insert" /\ agent[r] \notin registered
             /\ registered' = registered \cup {agent[r]}
             /\ indexOf' = [indexOf EXCEPT ![agent[r]] = index[r]]
             /\ UNCHANGED <<revoked, list>>
    <3>0. InsertRow(r)
      BY <2>2, <2>5 DEF InsertRow
    <3>1. QED
      BY <1>3, <3>0
  <2>6. CASE /\ pc[r] = "flag" /\ revoked' = revoked \cup {agent[r]}
             /\ UNCHANGED <<registered, indexOf, list>>
    <3>0. agent[r] \in registered
      BY <1>0, <2>6 DEF RevokingHandlers
    <3>1. TypeOK' /\ (revoked \subseteq registered)'
      BY <1>0, <2>1, <2>2, <2>6, <3>0 DEF End, Empty
    <3>2. ClaimedOnce' /\ DistinctIndices'
      BY <1>0, <2>2, <2>6 DEF End, ClaimedOnce, DistinctIndices
    <3>3. NoFalseRevocation'
      BY <1>0, <2>6, PositionsGrow DEF NoFalseRevocation
    <3>4. RevokingHandlers'
      <4>1. \A q \in Requests \ {r} : /\ pc'[q] = pc[q] /\ agent'[q] = agent[q]
                                      /\ index'[q] = index[q] /\ copy'[q] = copy[q]
        BY <1>0, <2>2 DEF End
      <4>2. pc'[r] = "idle"
        BY <1>0, <2>2 DEF End
      <4>3. QED
        BY <1>0, <2>6, <4>1, <4>2, OthersRevoking DEF RevokingHandlers
    <3>5. StringsHold'
      BY <1>0, <2>2, <2>6, StringsStay DEF End
    <3>6. QED
      BY <3>1, <3>2, <3>3, <3>4, <3>5 DEF IInv
  <2>7. CASE pc[r] = "write" /\ StoreList(r) /\ UNCHANGED table
    <3>1. /\ bits' \subseteq RevokedPositions /\ bits' \in SUBSET Nat /\ nibbles' \in Nat
          /\ count' = count /\ Holds(bits', nibbles')
      BY <1>7, <2>7
    <3>2. TypeOK'
      BY <1>0, <2>2, <2>7, <3>1 DEF End, Empty
    <3>3. ClaimedOnce' /\ DistinctIndices' /\ NoFalseRevocation' /\ (revoked \subseteq registered)'
      BY <1>0, <2>2, <2>7, <3>1 DEF End, ClaimedOnce, DistinctIndices, NoFalseRevocation,
                                    RevokedPositions
    <3>4. RevokingHandlers'
      BY <1>0, <2>2, <2>7 DEF End, RevokingHandlers, RevokedPositions
    <3>5. StringsHold'
      BY <1>0, <2>2, <3>1 DEF End, Empty, StringsHold, Holds
    <3>6. QED
      BY <3>2, <3>3, <3>4, <3>5 DEF IInv
  <2>8. QED
    BY <1>9, <2>3, <2>4, <2>5, <2>6, <2>7 DEF Fail
<1>10. CASE UNCHANGED vars
  BY <1>0, <1>10 DEF vars, IInv, ClaimedOnce, DistinctIndices, RevokingHandlers,
                     NoFalseRevocation, RevokedPositions, StringsHold, Holds
<1>11. QED
  BY <1>1, <1>2, <1>3, <1>4, <1>5, <1>6, <1>8, <1>9, <1>10 DEF Next, Register, Revoke

THEOREM Invariance == Spec => []IInv
<1>1. QED
  BY InitIInv, NextIInv, PTL DEF Spec

(* No interleaving and no failing statement gives two registered passports *)
(* the same position of the status list.                                   *)
THEOREM IndicesAreDistinct == Spec => []DistinctIndices
<1>1. IInv => DistinctIndices
  BY DEF IInv
<1>2. QED
  BY Invariance, <1>1, PTL

(* A stored bit always belongs to a passport whose row is revoked. *)
THEOREM BitsAreRevocations == Spec => []NoFalseRevocation
<1>1. IInv => NoFalseRevocation
  BY DEF IInv
<1>2. QED
  BY Invariance, <1>1, PTL

(* The served list lacks nothing of the stored one but what an odd last    *)
(* character holds.                                                        *)
THEOREM LittleIsUnserved == Spec => []OnlyLastCharacterUnserved
<1>1. IInv => OnlyLastCharacterUnserved
  <2> SUFFICES ASSUME IInv, NEW i \in bits \ Served
               PROVE  nibbles % 2 = 1 /\ i \div 4 = nibbles - 1
    BY DEF OnlyLastCharacterUnserved
  <2>1. i \in Nat /\ nibbles \in Nat /\ i \div 4 < nibbles /\ ~(i \div 8 < nibbles \div 2)
    BY DEF IInv, TypeOK, StringsHold, Holds, Served, ServedBits
  <2>2. QED
    BY <2>1, SMTT(30)
<1>2. QED
  BY Invariance, <1>1, PTL

(* is_revoked is terminal and a registered passport keeps its index. *)
THEOREM RowsStay == Spec => RowsAreFinal
<1> DEFINE A == /\ revoked \subseteq revoked'
                /\ \A a \in registered : a \in registered' /\ indexOf'[a] = indexOf[a]
<1>1. IInv /\ [Next]_vars => [A]_vars
  <2> SUFFICES ASSUME TypeOK, [Next]_vars PROVE A \/ UNCHANGED vars
    BY DEF IInv
  <2>1. ASSUME NEW r \in Requests, Arrive(r) \/ Register(r) \/ Revoke(r) PROVE A
    BY <2>1 DEF TypeOK, Arrive, Register, ClaimIndex, InsertRow, Revoke, FindRow,
                Flag, ReadList, WriteList, table
  <2>2. ASSUME NEW r \in Requests, Fail(r) PROVE A
    BY <2>2 DEF TypeOK, Fail, table
  <2>3. QED
    BY <2>1, <2>2 DEF Next
<1>2. QED
  BY Invariance, <1>1, PTL DEF Spec, RowsAreFinal
=============================================================================
