--------------------------- MODULE ApprovalsProofs ---------------------------
(***************************************************************************)
(* The inductive invariant of Approvals and the theorems that follow from  *)
(* it, for every set of ids, tenants and requests and any batch length.    *)
(***************************************************************************)
EXTENDS Approvals, TLAPS

USE DEF Decisions

(* The current item of a request that awaits a statement for it. *)
LEMMA ItemFacts ==
    ASSUME TypeOK, NEW r \in Requests, pc[r] \in {"decide", "explain"}
    PROVE  /\ Len(results[r]) \in Nat
           /\ Len(results[r]) + 1 \in 1..Len(items[r])
           /\ Item(r) = items[r][Len(results[r]) + 1]
           /\ Item(r) \in Items
           /\ tenant[r] \in Tenants
  BY DEF TypeOK, Item

(* What recording an outcome does to the results and positions. *)
LEMMA RecordFacts ==
    ASSUME TypeOK, NEW r \in Requests, NEW o \in Outcomes,
           pc[r] \in {"decide", "explain"}, Record(r, o)
    PROVE  /\ results' \in [Requests -> Seq(Outcomes)]
           /\ Len(results'[r]) = Len(results[r]) + 1
           /\ \A k \in 1..Len(results[r]) : results'[r][k] = results[r][k]
           /\ results'[r][Len(results[r]) + 1] = o
           /\ \A q \in Requests \ {r} : results'[q] = results[q] /\ pc'[q] = pc[q]
           /\ pc' = [pc EXCEPT ![r] = pc'[r]]
           /\ pc'[r] \in {"decide", "done"}
           /\ pc'[r] = "decide" => Len(results'[r]) < Len(items[r])
  <1>1. /\ results[r] \in Seq(Outcomes) /\ items[r] \in Seq(Items)
        /\ Len(results[r]) < Len(items[r])
    BY DEF TypeOK
  <1>2. results' = [results EXCEPT ![r] = Append(results[r], o)]
    BY DEF Record
  <1>3. results'[r] = Append(results[r], o)
    BY <1>2 DEF TypeOK
  <1>4. /\ results'[r] \in Seq(Outcomes)
        /\ Len(results'[r]) = Len(results[r]) + 1
        /\ \A k \in 1..Len(results[r]) : results'[r][k] = results[r][k]
        /\ results'[r][Len(results[r]) + 1] = o
    BY <1>1, <1>3
  <1>5. results' \in [Requests -> Seq(Outcomes)]
    BY <1>2, <1>3, <1>4 DEF TypeOK
  <1>6. \A q \in Requests \ {r} : results'[q] = results[q] /\ pc'[q] = pc[q]
    BY <1>2 DEF TypeOK, Record, Goto
  <1>7. /\ pc' = [pc EXCEPT ![r] = pc'[r]]
        /\ pc'[r] \in {"decide", "done"}
        /\ pc'[r] = "decide" => Len(results[r]) + 1 # Len(items[r])
    BY DEF TypeOK, Record, Goto
  <1>8. pc'[r] = "decide" => Len(results'[r]) < Len(items[r])
    BY <1>1, <1>4, <1>7
  <1>9. QED
    BY <1>4, <1>5, <1>6, <1>7, <1>8

-----------------------------------------------------------------------------
(* What a step does to the rows. *)
Added == \E r \in Requests, a \in Ids : tenant[r] \in Tenants /\ AddRow(r, a)
Set == \E r \in Requests : \E i \in Items :
         Matches(r, i) /\ i.decision # "invalid" /\ SetDecision(r, i)

LEMMA RowsStep == TypeOK /\ [Next]_vars => UNCHANGED rows \/ Added \/ Set
  <1> SUFFICES ASSUME TypeOK, [Next]_vars PROVE UNCHANGED rows \/ Added \/ Set
    OBVIOUS
  <1>1. ASSUME NEW r \in Requests, Arrive(r) PROVE UNCHANGED rows
    BY <1>1 DEF Arrive, rows
  <1>2. ASSUME NEW r \in Requests, Insert(r) PROVE Added
    BY <1>2 DEF Insert, Added, TypeOK
  <1>3. ASSUME NEW r \in Requests, RejectItem(r) \/ Explain(r) \/ Evict(r)
        PROVE  UNCHANGED rows
    BY <1>3 DEF RejectItem, Explain, Evict, rows
  <1>4. ASSUME NEW r \in Requests, Transition(r) PROVE UNCHANGED rows \/ Set
    <2>1. Item(r) \in Items /\ Item(r).decision # "invalid"
      BY <1>4, ItemFacts DEF Transition
    <2>2. QED
      BY <1>4, <2>1 DEF Transition, Set, rows
  <1>5. ASSUME NEW r \in Requests, Throw(r) PROVE UNCHANGED rows \/ Added \/ Set
    <2>1. CASE UNCHANGED rows
      BY <2>1
    <2>2. CASE pc[r] = "insert" /\ \E a \in Ids : AddRow(r, a)
      BY <2>2 DEF Added, TypeOK
    <2>3. CASE pc[r] = "decide" /\ Matches(r, Item(r)) /\ SetDecision(r, Item(r))
      <3>1. Item(r) \in Items /\ Item(r).decision # "invalid"
        BY <1>5, <2>3, ItemFacts DEF Throw
      <3>2. QED
        BY <2>3, <3>1 DEF Set
    <2>4. QED
      BY <1>5, <2>1, <2>2, <2>3 DEF Throw
  <1>6. CASE UNCHANGED vars
    BY <1>6 DEF vars, rows
  <1>7. QED
    BY <1>1, <1>2, <1>3, <1>4, <1>5, <1>6 DEF Next, Handle, Quiescent

(* Types, shape and finality of the rows. *)
RowTypes ==
    /\ tenantOf \in [Ids -> Tenants \cup {NoTenant}]
    /\ status \in [Ids -> {"approved", "denied", "none", "pending"}]
    /\ decider \in [Ids -> Requests \cup {Nobody}]

RowsKept ==
    \A a \in Ids :
        /\ status[a] \in Decisions => status'[a] = status[a] /\ decider'[a] = decider[a]
        /\ status[a] # "none" => status'[a] # "none" /\ tenantOf'[a] = tenantOf[a]

LEMMA RowsInvariance ==
    ASSUME TypeOK, RowShape, [Next]_vars
    PROVE  RowTypes' /\ RowShape' /\ RowsKept
  <1>1. RowTypes
    BY DEF TypeOK, RowTypes
  <1>2. CASE UNCHANGED rows
    BY <1>1, <1>2 DEF rows, RowTypes, RowShape, RowsKept
  <1>3. CASE Added
    <2>1. PICK r \in Requests, a \in Ids : tenant[r] \in Tenants /\ AddRow(r, a)
      BY <1>3 DEF Added
    <2>2. QED
      BY <1>1, <2>1, ApprovalsAssumption DEF AddRow, RowTypes, RowShape, RowsKept
  <1>4. CASE Set
    <2>1. PICK r \in Requests, i \in Items :
            Matches(r, i) /\ i.decision \in Decisions /\ SetDecision(r, i)
      BY <1>4 DEF Set, Items
    <2>2. i.id \in Ids /\ status[i.id] = "pending"
      BY <2>1 DEF Matches
    <2>3. QED
      BY <1>1, <2>1, <2>2, ApprovalsAssumption DEF SetDecision, RowTypes, RowShape, RowsKept
  <1>5. QED
    BY <1>2, <1>3, <1>4, RowsStep

-----------------------------------------------------------------------------
(* What a request that another one overtakes still relies on. *)
LEMMA OutcomeKept ==
    ASSUME TypeOK, RowShape, NamedRows, RowsKept,
           NEW r \in Requests, NEW k \in 1..Len(results[r]), OutcomeHolds(r, k),
           items'[r] = items[r], tenant'[r] = tenant[r],
           results'[r][k] = results[r][k]
    PROVE  OutcomeHolds(r, k)'
  <1> DEFINE a == items[r][k].id
  <1>1. k \in 1..Len(items[r]) /\ items[r][k] \in Items
    BY DEF TypeOK
  <1>2. a \in Ids => status[a] # "none"
    BY <1>1 DEF NamedRows
  <1>3. a \in Ids /\ decider[a] = r => status[a] \in Decisions
    BY ApprovalsAssumption DEF RowShape
  <1>4. QED
    BY <1>2, <1>3 DEF OutcomeHolds, RowsKept

LEMMA NamedKept ==
    ASSUME TypeOK, NamedRows, RowsKept, NEW r \in Requests,
           items'[r] = items[r], tenant'[r] = tenant[r], results'[r] = results[r]
    PROVE  /\ \A k \in 1..Len(items'[r]) :
                items'[r][k].id \in Ids => status'[items'[r][k].id] # "none"
           /\ pc[r] = "explain" => ~Matches(r, Item(r))'
  <1>1. \A k \in 1..Len(items[r]) :
           items[r][k].id \in Ids => status[items[r][k].id] # "none"
    BY DEF NamedRows
  <1>2. ASSUME pc[r] = "explain" PROVE ~Matches(r, Item(r))'
    <2>1. Item(r)' = Item(r) /\ ~Matches(r, Item(r))
      BY <1>2 DEF Item, NamedRows
    <2>2. Item(r).id \in Ids => status[Item(r).id] # "none"
      BY <1>1, <1>2, ItemFacts
    <2>3. Matches(r, Item(r))' => /\ Item(r).id \in Ids
                                  /\ status'[Item(r).id] = "pending"
                                  /\ tenantOf'[Item(r).id] = tenant[r]
      BY <2>1 DEF Matches
    <2>4. Item(r).id \in Ids /\ status'[Item(r).id] = "pending" =>
             status[Item(r).id] = "pending"
      BY <2>2 DEF RowsKept, TypeOK
    <2>5. QED
      BY <2>1, <2>2, <2>3, <2>4 DEF RowsKept, Matches
  <1>3. QED
    BY <1>1, <1>2 DEF RowsKept

(* The tenant that decided a row is the one the row belongs to. *)
LEMMA DecidedByStep ==
    ASSUME TypeOK, RowShape, DecidedByOwnTenant, RowsKept, RowTypes', RowShape',
           \A r \in Requests : pc[r] # "idle" => tenant'[r] = tenant[r],
           \A a \in Ids : decider[a] # Nobody => pc[decider[a]] # "idle",
           \A a \in Ids : decider'[a] # decider[a] =>
              /\ decider'[a] \in Requests
              /\ tenant'[decider'[a]] = tenantOf[a] /\ status[a] = "pending"
    PROVE  DecidedByOwnTenant'
  <1> SUFFICES ASSUME NEW a \in Ids, decider'[a] # Nobody
               PROVE  status'[a] \in Decisions /\ tenant'[decider'[a]] = tenantOf'[a]
    BY DEF DecidedByOwnTenant
  <1>1. status'[a] \in Decisions
    BY DEF RowShape
  <1>2. CASE decider'[a] = decider[a]
    BY <1>1, <1>2 DEF DecidedByOwnTenant, RowsKept, TypeOK
  <1>3. CASE decider'[a] # decider[a]
    BY <1>1, <1>3 DEF RowsKept
  <1>4. QED
    BY <1>1, <1>2, <1>3

-----------------------------------------------------------------------------
LEMMA InitIInv == Init => IInv
  BY ApprovalsAssumption
  DEF Init, IInv, TypeOK, RowShape, DecidedByOwnTenant, DecidersArrived, NamedRows,
      OutcomesHold, DecidedOnceBy, Matches, Item

(* A request arrives: its items are new and nothing is recorded yet. *)
LEMMA ArriveStep ==
    ASSUME IInv, NEW r \in Requests, Arrive(r), RowShape', RowTypes', RowsKept
    PROVE  IInv'
  <1> USE DEF IInv
  <1>1. UNCHANGED rows /\ results' = results /\ pc[r] = "idle"
    BY DEF Arrive, rows
  <1>2. /\ pc'[r] \in {"insert", "decide"} /\ pc' = [pc EXCEPT ![r] = pc'[r]]
        /\ tenant'[r] \in Tenants /\ tenant' = [tenant EXCEPT ![r] = tenant'[r]]
    BY DEF Arrive, Goto, TypeOK
  <1>3. /\ items'[r] \in Seq(Items) /\ items' = [items EXCEPT ![r] = items'[r]]
        /\ pc'[r] = "decide" => Len(items'[r]) > 0
        /\ \A k \in 1..Len(items'[r]) : Nameable(items'[r][k])
    <2>1. CASE Goto(r, "insert") /\ UNCHANGED items
      BY <1>1, <2>1 DEF Goto, TypeOK, NamedRows
    <2>2. CASE \E n \in 1..MaxItems : \E s \in [1..n -> Items] :
                  /\ \A k \in 1..n : Nameable(s[k])
                  /\ items' = [items EXCEPT ![r] = s]
                  /\ Goto(r, "decide")
      <3>1. PICK n \in 1..MaxItems : \E s \in [1..n -> Items] :
                  /\ \A k \in 1..n : Nameable(s[k])
                  /\ items' = [items EXCEPT ![r] = s]
        BY <2>2
      <3>2. PICK s \in [1..n -> Items] :
                  /\ \A k \in 1..n : Nameable(s[k])
                  /\ items' = [items EXCEPT ![r] = s]
        BY <3>1
      <3>3. n \in Nat /\ n > 0 /\ s \in Seq(Items) /\ Len(s) = n
        BY <3>2, ApprovalsAssumption
      <3>4. items'[r] = s
        BY <3>2 DEF TypeOK
      <3>5. QED
        BY <3>2, <3>3, <3>4
    <2>3. QED
      BY <2>1, <2>2 DEF Arrive
  <1>4. results[r] = << >> /\ results'[r] = << >>
    BY <1>1 DEF NamedRows
  <1>5. TypeOK'
    <2>1. \A q \in Requests \ {r} : UNCHANGED <<pc[q], tenant[q], items[q], results[q]>>
      BY <1>1, <1>2, <1>3 DEF TypeOK
    <2>2. items' \in [Requests -> Seq(Items)]
      BY <1>3 DEF TypeOK
    <2>3. /\ tenant' \in [Requests -> Tenants \cup {NoTenant}]
          /\ pc' \in [Requests -> {"idle", "insert", "decide", "explain",
                                   "done", "error", "dead"}]
      BY <1>2, ZenonT(40) DEF TypeOK
    <2>4. Len(results'[r]) = 0 /\ Len(items'[r]) \in Nat
      BY <1>3, <1>4
    <2>5. ASSUME NEW q \in Requests
          PROVE  /\ Len(results'[q]) <= Len(items'[q])
                 /\ pc'[q] \in {"decide", "explain"} =>
                      Len(results'[q]) < Len(items'[q]) /\ tenant'[q] \in Tenants
                 /\ pc'[q] = "insert" => tenant'[q] \in Tenants
      <3>1. CASE q = r
        BY <1>2, <1>3, <2>4, <3>1
      <3>2. CASE q # r
        BY <2>1, <3>2 DEF TypeOK
      <3>3. QED
        BY <3>1, <3>2
    <2>6. results' \in [Requests -> Seq(Outcomes)]
      BY <1>1 DEF TypeOK
    <2>7. QED
      BY <2>2, <2>3, <2>5, <2>6 DEF TypeOK, RowTypes
  <1>6. DecidedByOwnTenant' /\ DecidersArrived'
    BY <1>1, <1>2 DEF DecidedByOwnTenant, DecidersArrived, rows, TypeOK
  <1>7. NamedRows'
    <2>1. ASSUME NEW k \in 1..Len(items'[r]), items'[r][k].id \in Ids
          PROVE  status'[items'[r][k].id] # "none"
      BY <1>1, <1>3, <2>1 DEF Nameable, rows
    <2>2. ASSUME NEW q \in Requests \ {r}
          PROVE  items'[q] = items[q] /\ tenant'[q] = tenant[q] /\ pc'[q] = pc[q]
      BY <1>2, <1>3 DEF TypeOK
    <2>3. QED
      BY <1>1, <1>2, <2>1, <2>2, NamedKept DEF NamedRows
  <1>8. OutcomesHold' /\ DecidedOnceBy'
    <2>1. ASSUME NEW q \in Requests, NEW k \in 1..Len(results'[q])
          PROVE  q # r /\ OutcomeHolds(q, k)'
      <3>1. q # r /\ k \in 1..Len(results[q])
        BY <1>1, <1>4
      <3>2. items'[q] = items[q] /\ tenant'[q] = tenant[q] /\ results'[q] = results[q]
        BY <1>1, <1>2, <1>3, <3>1 DEF TypeOK
      <3>3. QED
        BY <3>1, <3>2, OutcomeKept DEF OutcomesHold
    <2>2. DecidedOnceBy'
      BY <1>1, <1>3, <2>1 DEF DecidedOnceBy, TypeOK
    <2>3. QED
      BY <2>1, <2>2 DEF OutcomesHold
  <1>9. QED
    BY <1>5, <1>6, <1>7, <1>8

(* A request ends without recording an outcome, or waits to explain one. *)
LEMMA MoveStep ==
    ASSUME IInv, RowTypes', RowShape', RowsKept, DecidedByOwnTenant', DecidersArrived',
           NEW r \in Requests, NEW l \in {"explain", "done", "error", "dead"},
           pc[r] \in {"insert", "decide", "explain"},
           Goto(r, l), UNCHANGED <<tenant, items, results>>,
           l = "explain" => pc[r] = "decide" /\ UNCHANGED rows /\ ~Matches(r, Item(r))
    PROVE  IInv'
  <1> USE DEF IInv
  <1>1. TypeOK'
    BY DEF TypeOK, RowTypes, Goto
  <1>2. NamedRows'
    <2>1. \A q \in Requests \ {r} : pc'[q] = pc[q]
      BY DEF Goto, TypeOK
    <2>2. pc'[r] = l /\ (l = "explain" => ~Matches(r, Item(r))')
      BY DEF Goto, TypeOK, Matches, Item, rows
    <2>3. QED
      BY <2>1, <2>2, NamedKept DEF NamedRows
  <1>3. OutcomesHold' /\ DecidedOnceBy'
    BY OutcomeKept DEF OutcomesHold, DecidedOnceBy
  <1>4. QED
    BY <1>1, <1>2, <1>3

(* A request records an outcome that holds of its current item. *)
LEMMA RecordStep ==
    ASSUME IInv, RowTypes', RowShape', RowsKept, DecidedByOwnTenant', DecidersArrived',
           NEW r \in Requests, NEW o \in Outcomes,
           pc[r] \in {"decide", "explain"},
           Record(r, o), UNCHANGED <<tenant, items>>,
           NEW n \in Nat, n = Len(results[r]) + 1, OutcomeHolds(r, n)',
           o = "decided" => Item(r).id \in Ids /\ status[Item(r).id] = "pending"
    PROVE  IInv'
  <1> USE DEF IInv
  <1>1. /\ results' \in [Requests -> Seq(Outcomes)] /\ Len(results'[r]) = n
        /\ \A k \in 1..Len(results[r]) : results'[r][k] = results[r][k]
        /\ results'[r][n] = o
        /\ \A q \in Requests \ {r} : results'[q] = results[q] /\ pc'[q] = pc[q]
        /\ pc' = [pc EXCEPT ![r] = pc'[r]] /\ pc'[r] \in {"decide", "done"}
        /\ pc'[r] = "decide" => Len(results'[r]) < Len(items[r])
    BY RecordFacts
  <1>2. Len(results[r]) \in Nat /\ n \in 1..Len(items[r]) /\ Item(r) = items[r][n]
    BY ItemFacts
  <1>3. TypeOK'
    <2>1. \A q \in Requests \ {r} : UNCHANGED <<pc[q], tenant[q], items[q], results[q]>>
      BY <1>1 DEF TypeOK
    <2>2. tenant'[r] \in Tenants /\ Len(results'[r]) <= Len(items'[r])
      BY <1>1, <1>2, ItemFacts DEF TypeOK
    <2>3. pc' \in [Requests -> {"idle", "insert", "decide", "explain",
                                "done", "error", "dead"}]
      BY <1>1 DEF TypeOK
    <2>4. QED
      BY <1>1, <2>1, <2>2, <2>3 DEF TypeOK, RowTypes
  <1>4. NamedRows'
    <2>1. ASSUME NEW q \in Requests \ {r}
          PROVE  UNCHANGED <<pc[q], tenant[q], items[q], results[q]>>
      BY <1>1 DEF TypeOK
    <2>2. \A k \in 1..Len(items'[r]) :
             items'[r][k].id \in Ids => status'[items'[r][k].id] # "none"
      BY DEF NamedRows, RowsKept
    <2>3. QED
      BY <1>1, <2>1, <2>2, NamedKept DEF NamedRows
  <1>5. OutcomesHold'
    <2>1. ASSUME NEW q \in Requests, NEW k \in 1..Len(results'[q])
          PROVE  OutcomeHolds(q, k)'
      <3>1. CASE q = r /\ k = n
        BY <3>1
      <3>2. CASE q # r \/ k # n
        <4>1. k \in 1..Len(results[q]) /\ results'[q][k] = results[q][k]
          BY <1>1, <1>2, <3>2
        <4>2. QED
          BY <4>1, OutcomeKept DEF OutcomesHold
      <3>3. QED
        BY <3>1, <3>2
    <2>2. QED
      BY <2>1 DEF OutcomesHold
  <1>6. DecidedOnceBy'
    <2>1. ASSUME NEW k \in 1..Len(results[r]), results[r][k] = "decided", o = "decided"
          PROVE  items[r][k].id # items[r][n].id
      <3>1. status[items[r][k].id] \in Decisions
        BY <2>1, ApprovalsAssumption DEF OutcomesHold, OutcomeHolds, RowShape
      <3>2. QED
        BY <1>2, <2>1, <3>1
    <2>2. ASSUME NEW k \in 1..n, NEW l \in 1..n,
                 results'[r][k] = "decided", results'[r][l] = "decided",
                 items[r][k].id = items[r][l].id
          PROVE  k = l
      <3>0. n - 1 = Len(results[r]) /\ n - 1 \in Nat
        BY <1>2
      <3>1. CASE k = n \/ l = n
        <4>1. CASE k = n /\ l # n
          <5>1. l \in 1..Len(results[r]) /\ results[r][l] = "decided"
            BY <1>1, <2>2, <3>0, <4>1
          <5>2. o = "decided"
            BY <1>1, <2>2, <4>1
          <5>3. QED
            BY <2>1, <2>2, <4>1, <5>1, <5>2
        <4>2. CASE l = n /\ k # n
          <5>1. k \in 1..Len(results[r]) /\ results[r][k] = "decided"
            BY <1>1, <2>2, <3>0, <4>2
          <5>2. o = "decided"
            BY <1>1, <2>2, <4>2
          <5>3. QED
            BY <2>1, <2>2, <4>2, <5>1, <5>2
        <4>3. QED
          BY <3>1, <4>1, <4>2
      <3>2. CASE k # n /\ l # n
        <4>1. k \in 1..Len(results[r]) /\ l \in 1..Len(results[r])
          BY <1>2, <2>2, <3>2
        <4>2. QED
          BY <1>1, <2>2, <4>1, SMTT(30) DEF DecidedOnceBy
      <3>3. QED
        BY <3>1, <3>2
    <2>3. ASSUME NEW q \in Requests \ {r}
          PROVE  results'[q] = results[q] /\ items'[q] = items[q]
      BY <1>1
    <2>4. ASSUME NEW q \in Requests, NEW k \in 1..Len(results'[q]),
                 NEW l \in 1..Len(results'[q]),
                 results'[q][k] = "decided", results'[q][l] = "decided",
                 items'[q][k].id = items'[q][l].id
          PROVE  k = l
      <3>1. CASE q = r
        BY <1>1, <2>2, <2>4, <3>1
      <3>2. CASE q # r
        BY <2>3, <2>4, <3>2 DEF DecidedOnceBy
      <3>3. QED
        BY <3>1, <3>2
    <2>5. QED
      BY <2>4 DEF DecidedOnceBy
  <1>7. QED
    BY <1>3, <1>4, <1>5, <1>6

-----------------------------------------------------------------------------
(* One step per action. *)
LEMMA NextIInv == IInv /\ [Next]_vars => IInv'
  <1> SUFFICES ASSUME IInv, [Next]_vars PROVE IInv'
    OBVIOUS
  <1> USE DEF IInv
  <1>0. RowTypes' /\ RowShape' /\ RowsKept
    BY RowsInvariance
  <1>1. ASSUME NEW r \in Requests, Arrive(r) PROVE IInv'
    BY <1>0, <1>1, ArriveStep
  <1>2. ASSUME NEW r \in Requests, pc[r] \in {"insert", "decide", "explain"},
               UNCHANGED tenant, pc' = [pc EXCEPT ![r] = pc'[r]], pc'[r] # "idle",
               \/ UNCHANGED rows
               \/ \E a \in Ids : AddRow(r, a)
               \/ \E i \in Items : Matches(r, i) /\ SetDecision(r, i)
        PROVE  DecidedByOwnTenant' /\ DecidersArrived'
    <2>1. \A a \in Ids : decider'[a] # decider[a] =>
             /\ decider'[a] = r /\ tenant'[decider'[a]] = tenantOf[a]
             /\ status[a] = "pending"
      BY <1>2 DEF rows, AddRow, SetDecision, Matches, TypeOK
    <2>2. DecidedByOwnTenant'
      BY <1>0, <1>2, <2>1, DecidedByStep DEF DecidersArrived
    <2>3. \A q \in Requests : pc[q] # "idle" => pc'[q] # "idle"
      BY <1>2 DEF TypeOK
    <2>4. \A a \in Ids : decider[a] \in Requests \cup {Nobody}
      BY DEF TypeOK
    <2>5. pc'[r] # "idle"
      BY <1>2
    <2>6. DecidersArrived'
      BY <2>1, <2>3, <2>4, <2>5 DEF DecidersArrived
    <2>7. QED
      BY <2>2, <2>6
  <1>3. ASSUME NEW r \in Requests, Insert(r) PROVE IInv'
    <2>1. DecidedByOwnTenant' /\ DecidersArrived'
      BY <1>2, <1>3 DEF Insert, Goto, TypeOK
    <2>2. QED
      BY <1>0, <1>3, <2>1, MoveStep DEF Insert
  <1>4. ASSUME NEW r \in Requests, NEW o \in Outcomes, Record(r, o),
               pc[r] \in {"decide", "explain"}
        PROVE  pc' = [pc EXCEPT ![r] = pc'[r]] /\ pc'[r] # "idle"
    BY <1>4, RecordFacts
  <1>5. ASSUME NEW r \in Requests, RejectItem(r) PROVE IInv'
    <2>1. UNCHANGED rows /\ Record(r, "invalid") /\ pc[r] = "decide"
          /\ UNCHANGED <<tenant, items>>
      BY <1>5 DEF RejectItem, rows
    <2>2. PICK n \in Nat : n = Len(results[r]) + 1
      BY <2>1, ItemFacts
    <2>3. OutcomeHolds(r, n)'
      BY <2>1, <2>2, RecordFacts DEF OutcomeHolds, Outcomes
    <2>4. DecidedByOwnTenant' /\ DecidersArrived'
      BY <1>2, <1>4, <2>1 DEF Outcomes
    <2>5. QED
      BY <1>0, <2>1, <2>2, <2>3, <2>4, RecordStep DEF Outcomes
  <1>6. ASSUME NEW r \in Requests, Transition(r) PROVE IInv'
    <2>1. pc[r] = "decide" /\ UNCHANGED <<tenant, items>> /\ Item(r).decision # "invalid"
      BY <1>6 DEF Transition
    <2>2. PICK n \in Nat : n = Len(results[r]) + 1
      BY <2>1, ItemFacts
    <2>3. Item(r) = items[r][n] /\ Item(r) \in Items
      BY <2>1, <2>2, ItemFacts
    <2>4. CASE Matches(r, Item(r)) /\ SetDecision(r, Item(r)) /\ Record(r, "decided")
      <3>1. OutcomeHolds(r, n)'
        <4>1. results'[r][n] = "decided"
          BY <2>1, <2>2, <2>4, RecordFacts DEF Outcomes
        <4>2. /\ items'[r][n].id \in Ids /\ decider'[items'[r][n].id] = r
              /\ status'[items'[r][n].id] = items'[r][n].decision
          BY <2>1, <2>3, <2>4 DEF Matches, SetDecision, TypeOK
        <4>3. QED
          BY <4>1, <4>2 DEF OutcomeHolds
      <3>2. DecidedByOwnTenant' /\ DecidersArrived'
        BY <1>2, <1>4, <2>1, <2>3, <2>4 DEF Outcomes
      <3>3. QED
        BY <1>0, <2>1, <2>2, <2>4, <3>1, <3>2, RecordStep DEF Outcomes, Matches
    <2>5. CASE ~Matches(r, Item(r)) /\ Goto(r, "explain") /\ UNCHANGED <<rows, results>>
      <3>1. DecidedByOwnTenant' /\ DecidersArrived'
        BY <1>2, <2>1, <2>5 DEF Goto, TypeOK
      <3>2. QED
        BY <1>0, <2>1, <2>5, <3>1, MoveStep
    <2>6. QED
      BY <1>6, <2>4, <2>5 DEF Transition
  <1>7. ASSUME NEW r \in Requests, Explain(r) PROVE IInv'
    <2>1. UNCHANGED rows /\ pc[r] = "explain" /\ UNCHANGED <<tenant, items>>
      BY <1>7 DEF Explain, rows
    <2>2. PICK n \in Nat : n = Len(results[r]) + 1
      BY <2>1, ItemFacts
    <2>3. Item(r) = items[r][n] /\ n \in 1..Len(items[r]) /\ tenant[r] \in Tenants
      BY <2>1, <2>2, ItemFacts
    <2>4. PICK o \in {"conflict", "not_found"} :
            Record(r, o) /\ (o = "conflict" <=> Exists(r, Item(r)))
      BY <1>7 DEF Explain
    <2>5. results'[r][n] = o
      BY <2>1, <2>2, <2>4, RecordFacts DEF Outcomes
    <2>6. OutcomeHolds(r, n)'
      <3>1. CASE o = "conflict"
        <4>1. Item(r).id \in Ids /\ tenantOf[Item(r).id] = tenant[r]
          BY <2>4, <3>1 DEF Exists
        <4>2. status[Item(r).id] # "none" /\ status[Item(r).id] # "pending"
          BY <2>1, <2>3, <4>1 DEF NamedRows, Matches
        <4>3. QED
          BY <2>1, <2>3, <2>5, <3>1, <4>1, <4>2 DEF OutcomeHolds, TypeOK, rows
      <3>2. CASE o = "not_found"
        BY <2>1, <2>3, <2>4, <2>5, <3>2 DEF OutcomeHolds, Exists, rows
      <3>3. QED
        BY <3>1, <3>2
    <2>7. DecidedByOwnTenant' /\ DecidersArrived'
      BY <1>2, <1>4, <2>1, <2>4 DEF Outcomes
    <2>8. QED
      BY <1>0, <2>1, <2>2, <2>4, <2>6, <2>7, RecordStep DEF Outcomes
  <1>8. ASSUME NEW r \in Requests, Throw(r) PROVE IInv'
    <2>1. pc[r] \in {"insert", "decide", "explain"} /\ Goto(r, "error")
          /\ UNCHANGED <<tenant, items, results>>
      BY <1>8 DEF Throw
    <2>2. pc[r] = "decide" => Item(r) \in Items
      BY ItemFacts
    <2>3. DecidedByOwnTenant' /\ DecidersArrived'
      BY <1>2, <1>8, <2>1, <2>2 DEF Throw, Goto, TypeOK
    <2>4. QED
      BY <1>0, <2>1, <2>3, MoveStep
  <1>9. ASSUME NEW r \in Requests, Evict(r) PROVE IInv'
    <2>1. DecidedByOwnTenant' /\ DecidersArrived'
      BY <1>2, <1>9 DEF Evict, Goto, TypeOK, rows
    <2>2. QED
      BY <1>0, <1>9, <2>1, MoveStep DEF Evict
  <1>10. CASE UNCHANGED vars
    BY <1>10 DEF vars, TypeOK, RowShape, DecidedByOwnTenant, DecidersArrived, NamedRows,
                 OutcomesHold, OutcomeHolds, DecidedOnceBy, Matches, Item
  <1>11. QED
    BY <1>1, <1>3, <1>5, <1>6, <1>7, <1>8, <1>9, <1>10 DEF Next, Handle, Quiescent

(* The inductive invariant holds in every reachable state. *)
THEOREM Invariance == Spec => []IInv
  <1>1. Init => IInv
    BY InitIInv
  <1>2. IInv /\ [Next]_vars => IInv'
    BY NextIInv
  <1>3. QED
    BY <1>1, <1>2, PTL DEF Spec

(* transitionApproval: a decision reported with 200 stands, and it is the  *)
(* only one that was ever reported for its approval.                       *)
THEOREM ReportedDecisions == Spec => []ReportedDecisionStands
  <1>1. IInv => ReportedDecisionStands
    <2> SUFFICES ASSUME IInv, NEW r \in Requests, NEW k \in 1..Len(results[r]), Decided(r, k)
                 PROVE  /\ status[items[r][k].id] = items[r][k].decision
                        /\ decider[items[r][k].id] = r
                        /\ \A q \in Requests : \A l \in 1..Len(results[q]) :
                              Decided(q, l) /\ items[q][l].id = items[r][k].id
                                => q = r /\ l = k
      BY DEF ReportedDecisionStands
    <2>1. /\ status[items[r][k].id] = items[r][k].decision
          /\ decider[items[r][k].id] = r
      BY DEF IInv, OutcomesHold, OutcomeHolds, Decided
    <2>2. ASSUME NEW q \in Requests, NEW l \in 1..Len(results[q]),
                 Decided(q, l), items[q][l].id = items[r][k].id
          PROVE  q = r /\ l = k
      <3>1. q = r
        BY <2>1, <2>2 DEF IInv, OutcomesHold, OutcomeHolds, Decided
      <3>2. QED
        BY <2>2, <3>1 DEF IInv, DecidedOnceBy, Decided
    <2>3. QED
      BY <2>1, <2>2
  <1>2. QED
    BY <1>1, Invariance, PTL

(* approvalDecisionFailure tells 404 and 409 apart correctly, although it  *)
(* runs in a second statement.                                             *)
THEOREM TrueRefusals == Spec => []RefusalsAreTrue
  <1>1. IInv => RefusalsAreTrue
    <2> SUFFICES ASSUME IInv, NEW r \in Requests, NEW k \in 1..Len(results[r])
                 PROVE  LET a == items[r][k].id IN
                        /\ results[r][k] = "conflict" =>
                             /\ a \in Ids /\ status[a] \in Decisions
                             /\ tenantOf[a] = tenant[r]
                        /\ results[r][k] = "not_found" =>
                             a = UnknownId \/ tenantOf[a] # tenant[r]
      BY DEF RefusalsAreTrue
    <2>1. items[r][k] \in Items
      BY DEF IInv, TypeOK
    <2>2. QED
      BY <2>1 DEF IInv, OutcomesHold, OutcomeHolds, Items
  <1>2. QED
    BY <1>1, Invariance, PTL

(* The tenant clause of the UPDATE: nobody decides for another tenant. *)
THEOREM OwnTenantDecides == Spec => []DecidedByOwnTenant
  <1>1. IInv => DecidedByOwnTenant
    BY DEF IInv
  <1>2. QED
    BY <1>1, Invariance, PTL

(* The status clause of the UPDATE: decisions and owners never change. *)
THEOREM FinalDecisions == Spec => DecisionsAreFinal
  <1>1. IInv /\ [Next]_vars => [RowsKept]_vars
    BY RowsInvariance DEF IInv
  <1>2. [RowsKept]_vars =>
          [\A a \in Ids :
             /\ status[a] \in Decisions =>
                  status'[a] = status[a] /\ decider'[a] = decider[a]
             /\ status[a] # "none" =>
                  status'[a] # "none" /\ tenantOf'[a] = tenantOf[a]]_vars
    BY DEF RowsKept
  <1>3. QED
    BY <1>1, <1>2, Invariance, PTL DEF Spec, DecisionsAreFinal

-----------------------------------------------------------------------------
(* The handlers implement the ledger.  What a request that waits between   *)
(* two statements, or for its insert, still relies on:                     *)
Waiting ==
    \A r \in Requests :
        /\ pc[r] = "insert" => items[r] = << >>
        /\ pc[r] = "explain" => Item(r).decision # "invalid"

LEMMA WaitingStep == IInv /\ Waiting /\ [Next]_vars => Waiting'
  <1> SUFFICES ASSUME IInv, Waiting, [Next]_vars PROVE Waiting'
    OBVIOUS
  <1>0. TypeOK
    BY DEF IInv
  <1>1. ASSUME NEW r \in Requests,
               \A q \in Requests \ {r} : UNCHANGED <<pc[q], items[q], results[q]>>,
               pc'[r] = "insert" => items'[r] = << >>,
               pc'[r] = "explain" => Item(r)'.decision # "invalid"
        PROVE  Waiting'
    BY <1>1 DEF Waiting, Item
  <1>2. ASSUME NEW r \in Requests, Arrive(r) PROVE Waiting'
    <2>1. items[r] = << >> /\ results' = results /\ pc'[r] \in {"insert", "decide"}
      BY <1>0, <1>2 DEF Arrive, Goto, IInv, NamedRows, TypeOK
    <2>2. \A q \in Requests \ {r} : pc'[q] = pc[q] /\ items'[q] = items[q]
      BY <1>0, <1>2 DEF Arrive, Goto, TypeOK
    <2>3. pc'[r] = "insert" => items' = items
      BY <1>0, <1>2 DEF Arrive, Goto, TypeOK
    <2> QED
      BY <1>1, <2>1, <2>2, <2>3
  <1>3. ASSUME NEW r \in Requests, Insert(r) \/ Throw(r) \/ Evict(r) PROVE Waiting'
    <2>1. /\ UNCHANGED <<items, results>> /\ pc'[r] \in {"done", "error", "dead"}
          /\ \A q \in Requests \ {r} : pc'[q] = pc[q]
      BY <1>0, <1>3 DEF Insert, Throw, Evict, Goto, TypeOK
    <2> QED
      BY <1>1, <2>1
  <1>4. ASSUME NEW r \in Requests, NEW o \in Outcomes, pc[r] \in {"decide", "explain"},
               Record(r, o), UNCHANGED items
        PROVE  Waiting'
    <2>1. /\ pc'[r] \in {"decide", "done"}
          /\ \A q \in Requests \ {r} : results'[q] = results[q] /\ pc'[q] = pc[q]
      BY <1>0, <1>4, RecordFacts
    <2> QED
      BY <1>1, <1>4, <2>1
  <1>5. ASSUME NEW r \in Requests, RejectItem(r) \/ Explain(r) PROVE Waiting'
    <2>1. PICK o \in Outcomes : pc[r] \in {"decide", "explain"} /\ Record(r, o) /\ UNCHANGED items
      BY <1>5 DEF RejectItem, Explain, Outcomes
    <2> QED
      BY <1>4, <2>1
  <1>6. ASSUME NEW r \in Requests, Transition(r) PROVE Waiting'
    <2>1. CASE Record(r, "decided")
      BY <1>4, <1>6, <2>1 DEF Transition, Outcomes
    <2>2. CASE Goto(r, "explain") /\ UNCHANGED results
      <3>1. Item(r)' = Item(r) /\ Item(r).decision # "invalid" /\ UNCHANGED items
        BY <1>6, <2>2 DEF Transition, Item
      <3>2. pc'[r] = "explain" /\ \A q \in Requests \ {r} : pc'[q] = pc[q]
        BY <1>0, <2>2 DEF Goto, TypeOK
      <3> QED
        BY <1>1, <2>2, <3>1, <3>2
    <2> QED
      BY <1>6, <2>1, <2>2 DEF Transition
  <1>7. CASE UNCHANGED vars
    BY <1>7 DEF vars, Waiting, Item
  <1> QED
    BY <1>2, <1>3, <1>5, <1>6, <1>7 DEF Next, Handle, Quiescent

Labels == {"idle", "insert", "decide", "explain", "done", "error", "dead"}

LEMMA PhaseMoves ==
    ASSUME TypeOK, NEW r \in Requests, NEW l \in Labels, Goto(r, l)
    PROVE  Phase' = [Phase EXCEPT ![r] = PhaseOf(l)]
  BY DEF TypeOK, Goto, Phase

LEMMA SameItems == Ledger!Items = Items
  BY DEF Ledger!Items, Items

(* One statement that settles the current item is a decision of the ledger. *)
LEMMA LedgerDecide ==
    ASSUME IInv, NEW r \in Requests, pc[r] \in {"decide", "explain"},
           NEW o \in Outcomes, Record(r, o), o = Ledger!Outcome(r, Item(r)),
           Ledger!TakesEffect(r, Item(r)), UNCHANGED <<tenant, items>>
    PROVE  Ledger!Decide(r)
  <1>0. TypeOK
    BY DEF IInv
  <1>1. Phase[r] = "open"
    BY DEF Phase, PhaseOf
  <1>2. Item(r) = Ledger!Current(r) /\ Len(results[r]) < Len(items[r])
    BY <1>0 DEF Item, Ledger!Current, TypeOK
  <1>3. Phase' = [Phase EXCEPT ![r] = IF Len(results[r]) + 1 = Len(items[r]) THEN "over" ELSE "open"]
    <2>1. CASE Len(results[r]) + 1 = Len(items[r])
      BY <1>0, <2>1, PhaseMoves DEF Record, Labels, PhaseOf
    <2>2. CASE Len(results[r]) + 1 # Len(items[r])
      BY <1>0, <2>2, PhaseMoves DEF Record, Labels, PhaseOf
    <2> QED
      BY <2>1, <2>2
  <1> QED
    BY <1>1, <1>2, <1>3 DEF Record, Ledger!Decide, Ledger!Becomes

(* A request that ends without an outcome has failed in the ledger.        *)
LEMMA LedgerFail ==
    ASSUME IInv, NEW r \in Requests, pc[r] \in {"insert", "decide", "explain"},
           NEW l \in {"error", "dead"}, Goto(r, l), UNCHANGED <<tenant, items, results>>,
           \/ UNCHANGED rows
           \/ items[r] = << >> /\ Ledger!AddRow(r)
           \/ Len(results[r]) < Len(items[r]) /\ Ledger!TakesEffect(r, Item(r))
    PROVE  Ledger!Fail(r)
  <1>1. Phase[r] = "open"
    BY DEF Phase, PhaseOf
  <1>2. Phase' = [Phase EXCEPT ![r] = "over"]
    BY PhaseMoves DEF IInv, Labels, PhaseOf
  <1>3. Item(r) = Ledger!Current(r)
    BY DEF Item, Ledger!Current
  <1> QED
    BY <1>1, <1>2, <1>3 DEF Ledger!Fail, Ledger!Becomes, Ledger!rows, rows

(* The UPDATE, where it matches, is what the ledger does to the rows.      *)
LEMMA UpdateTakesEffect ==
    ASSUME NEW r \in Requests, NEW i, i.decision # "invalid", Matches(r, i), SetDecision(r, i)
    PROVE  Ledger!Outcome(r, i) = "decided" /\ Ledger!TakesEffect(r, i)
  <1>1. Ledger!Own(r, i.id) /\ status[i.id] = "pending"
    BY DEF Matches, Ledger!Own
  <1>2. Ledger!Outcome(r, i) = "decided"
    BY <1>1 DEF Ledger!Outcome
  <1> QED
    BY <1>2 DEF SetDecision, Ledger!TakesEffect

LEMMA RefusalHasNoEffect ==
    ASSUME NEW r, NEW i, Ledger!Outcome(r, i) # "decided", UNCHANGED rows
    PROVE  Ledger!TakesEffect(r, i)
  BY DEF Ledger!TakesEffect, rows

(* The SELECT tells, later, what the ledger would have told at once: the   *)
(* approval was not pending for this tenant, and it will not be.           *)
LEMMA ExplainIsOutcome ==
    ASSUME IInv, Waiting, NEW r \in Requests, pc[r] = "explain"
    PROVE  Ledger!Outcome(r, Item(r)) =
              IF Exists(r, Item(r)) THEN "conflict" ELSE "not_found"
  <1>1. Item(r).decision # "invalid" /\ ~Matches(r, Item(r))
    BY DEF Waiting, IInv, NamedRows
  <1>2. CASE Exists(r, Item(r))
    <2>1. Ledger!Own(r, Item(r).id) /\ status[Item(r).id] # "pending"
      BY <1>1, <1>2 DEF Exists, Matches, Ledger!Own
    <2> QED
      BY <1>1, <1>2, <2>1 DEF Ledger!Outcome
  <1>3. CASE ~Exists(r, Item(r))
    <2>1. ~Ledger!Own(r, Item(r).id)
      BY <1>3 DEF Exists, Ledger!Own
    <2> QED
      BY <1>1, <1>3, <2>1 DEF Ledger!Outcome
  <1> QED
    BY <1>2, <1>3

LEMMA LedgerStep == IInv /\ IInv' /\ Waiting /\ [Next]_vars => [Ledger!Next]_(Ledger!vars)
  <1> SUFFICES ASSUME IInv, IInv', Waiting, [Next]_vars PROVE [Ledger!Next]_(Ledger!vars)
    OBVIOUS
  <1>0. TypeOK /\ TypeOK'
    BY DEF IInv
  <1>1. ASSUME NEW r \in Requests, Arrive(r) PROVE Ledger!Arrive(r)
    <2>1. Phase[r] = "new"
      BY <1>1 DEF Arrive, Phase, PhaseOf
    <2>2. Phase' = [Phase EXCEPT ![r] = "open"]
      BY <1>0, <1>1, PhaseMoves DEF Arrive, Labels, PhaseOf
    <2>3. items'[r] \in Seq(Ledger!Items) /\ items' = [items EXCEPT ![r] = items'[r]]
      <3>1. items'[r] \in Seq(Items)
        BY <1>0 DEF TypeOK
      <3>2. items' = [items EXCEPT ![r] = items'[r]]
        BY <1>0, <1>1 DEF Arrive, TypeOK
      <3> QED
        BY <3>1, <3>2, SameItems
    <2> QED
      BY <1>1, <2>1, <2>2, <2>3 DEF Arrive, Ledger!Arrive, Ledger!Becomes
  <1>2. ASSUME NEW r \in Requests, Insert(r) PROVE Ledger!Create(r)
    <2>1. Phase[r] = "open" /\ items[r] = << >>
      BY <1>2 DEF Insert, Phase, PhaseOf, Waiting
    <2>2. Phase' = [Phase EXCEPT ![r] = "over"]
      BY <1>0, <1>2, PhaseMoves DEF Insert, Labels, PhaseOf
    <2> QED
      BY <1>2, <2>1, <2>2 DEF Insert, AddRow, Ledger!Create, Ledger!AddRow, Ledger!Becomes
  <1>3. ASSUME NEW r \in Requests, RejectItem(r) PROVE Ledger!Decide(r)
    <2>1. Ledger!Outcome(r, Item(r)) = "invalid"
      BY <1>3 DEF RejectItem, Ledger!Outcome
    <2>2. Ledger!TakesEffect(r, Item(r))
      BY <1>3, <2>1, RefusalHasNoEffect DEF RejectItem, rows
    <2> QED
      BY <1>3, <2>1, <2>2, LedgerDecide DEF RejectItem, Outcomes
  <1>4. ASSUME NEW r \in Requests, Transition(r) PROVE Ledger!Decide(r) \/ UNCHANGED Ledger!vars
    <2>1. CASE Matches(r, Item(r)) /\ SetDecision(r, Item(r)) /\ Record(r, "decided")
      BY <1>4, <2>1, UpdateTakesEffect, LedgerDecide DEF Transition, Outcomes
    <2>2. CASE Goto(r, "explain") /\ UNCHANGED <<rows, results>>
      <3>1. Phase[r] = "open"
        BY <1>4 DEF Transition, Phase, PhaseOf
      <3>2. Phase' = [Phase EXCEPT ![r] = "open"]
        BY <1>0, <2>2, PhaseMoves DEF Labels, PhaseOf
      <3>3. Phase' = Phase
        BY <3>1, <3>2 DEF Phase
      <3> QED
        BY <1>4, <2>2, <3>3 DEF Transition, rows, Ledger!vars
    <2> QED
      BY <1>4, <2>1, <2>2 DEF Transition
  <1>5. ASSUME NEW r \in Requests, Explain(r) PROVE Ledger!Decide(r)
    <2> DEFINE o == Ledger!Outcome(r, Item(r))
    <2>1. o \in {"conflict", "not_found"} /\ Record(r, o)
      BY <1>5, ExplainIsOutcome DEF Explain
    <2>2. Ledger!TakesEffect(r, Item(r))
      BY <1>5, <2>1, RefusalHasNoEffect DEF Explain, rows
    <2> QED
      BY <1>5, <2>1, <2>2, LedgerDecide DEF Explain, Outcomes
  <1>6. ASSUME NEW r \in Requests, Throw(r) PROVE Ledger!Fail(r)
    <2>1. \/ UNCHANGED rows
          \/ items[r] = << >> /\ Ledger!AddRow(r)
          \/ Len(results[r]) < Len(items[r]) /\ Ledger!TakesEffect(r, Item(r))
      <3>1. CASE pc[r] = "insert" /\ \E a \in Ids : AddRow(r, a)
        BY <3>1 DEF Waiting, AddRow, Ledger!AddRow
      <3>2. CASE pc[r] = "decide" /\ Matches(r, Item(r)) /\ SetDecision(r, Item(r))
        BY <1>0, <1>6, <3>2, UpdateTakesEffect DEF Throw, TypeOK
      <3> QED
        BY <1>6, <3>1, <3>2 DEF Throw
    <2> QED
      BY <1>6, <2>1, LedgerFail DEF Throw
  <1>7. ASSUME NEW r \in Requests, Evict(r) PROVE Ledger!Fail(r)
    BY <1>7, LedgerFail DEF Evict, rows
  <1>8. CASE UNCHANGED vars
    BY <1>8 DEF vars, Ledger!vars, Phase
  <1> QED
    BY <1>1, <1>2, <1>3, <1>4, <1>5, <1>6, <1>7, <1>8 DEF Next, Handle, Quiescent, Ledger!Next

(* The handlers implement the ledger: every statement is one step of it or *)
(* none, although a refusal takes two statements and others run between.   *)
THEOREM ImplementsLedger == Spec => LedgerSpec
  <1>1. Init => Ledger!Init
    BY DEF Init, Ledger!Init, Phase, PhaseOf
  <1>2. Init => Waiting
    BY DEF Init, Waiting
  <1>3. Spec => []Waiting
    BY <1>2, WaitingStep, Invariance, PTL DEF Spec
  <1> QED
    BY <1>1, <1>3, LedgerStep, Invariance, PTL DEF Spec, LedgerSpec, Ledger!Spec
=============================================================================
