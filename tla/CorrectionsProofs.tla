------------------------- MODULE CorrectionsProofs --------------------------
(***************************************************************************)
(* Proofs about the corrections of settled requests, for any number of     *)
(* requests, deliveries and keys and any amounts.                          *)
(***************************************************************************)
EXTENDS Corrections, TLAPS

\* An open request has nothing in the ledger yet; a settled one nets to its
\* settled amount.
Books ==
    \A r \in Requests :
        IF settled[r] = -1
        THEN ledger[r] = [charge |-> 0, reversed |-> 0, adjusted |-> 0]
        ELSE Net(r) = settled[r]

Inv == TypeOK /\ Books /\ AppliedOnce

\* The job operators of the reconciliation queue yield jobs.
LEMMA JobsClosed ==
    ASSUME NEW j \in Jobs, NEW r \in Requests, NEW to \in Nat
    PROVE  /\ Escalated(j) \in Jobs
           /\ \A reason \in JobReasons : Enqueue(j, reason) \in Jobs
           /\ OverageChecked(EvidenceLanded(j), r, to) \in Jobs
  <1>1. \A i \in Jobs, reason \in JobReasons : Enqueue(i, reason) \in Jobs
    BY DEF Jobs, JobStatuses, JobReasons, Enqueue, Reopens
  <1>2. \A i \in Jobs : ResolveOpen(i) \in Jobs
    BY DEF Jobs, JobStatuses, JobReasons, ResolveOpen
  <1>3. EvidenceLanded(j) \in Jobs
    BY <1>2 DEF EvidenceLanded
  <1>4. OverageChecked(EvidenceLanded(j), r, to) \in Jobs
    BY <1>1, <1>2, <1>3 DEF OverageChecked, JobReasons
  <1>5. Escalated(j) \in Jobs
    BY DEF Jobs, JobStatuses, JobReasons, Escalated
  <1> QED BY <1>1, <1>4, <1>5

\* No request has been settled or corrected at the start.
LEMMA InitInv == Init => Inv
  <1> SUFFICES ASSUME Init PROVE Inv
    OBVIOUS
  <1>1. NoJob \in Jobs /\ Enqueue(NoJob, "unknown_usage") \in Jobs
    BY DEF NoJob, Enqueue, Reopens, Jobs, JobStatuses, JobReasons
  <1>2. TypeOK
    BY <1>1 DEF Init, TypeOK
  <1>3. Books /\ AppliedOnce
    BY DEF Init, Books, AppliedOnce
  <1> QED BY <1>2, <1>3 DEF Inv

\* A settlement charges an open request exactly what it settles.
LEMMA SettleKeeps ==
    ASSUME Inv, NEW r \in Requests, Settle(r)
    PROVE  Inv'
  <1>1. PICK c \in Charges, recovery \in BOOLEAN :
            /\ settled' = [settled EXCEPT ![r] = c]
            /\ ledger' = [ledger EXCEPT ![r].charge = c]
            /\ used' = used + c
            /\ job' = [job EXCEPT ![r] =
                          IF recovery THEN Enqueue(@, "crash_recovery")
                          ELSE IF c > Hold[r] THEN Enqueue(@, "settlement_overage") ELSE @]
    BY ZenonT(60) DEF Settle
  <1>2. c \in Nat /\ settled[r] = -1 /\ UNCHANGED <<posted, step>>
    BY CorrectionsAssumption DEF Settle
  <1>3. TypeOK'
    <2>1. job' \in [Requests -> Jobs]
      BY <1>1, JobsClosed DEF Inv, TypeOK, JobReasons
    <2>2. ledger' \in [Requests -> [charge : Nat, reversed : Nat, adjusted : Int]]
      BY <1>1, <1>2 DEF Inv, TypeOK
    <2> QED BY <1>1, <1>2, <2>1, <2>2 DEF Inv, TypeOK
  <1>4. Books'
    <2> SUFFICES ASSUME NEW s \in Requests
                 PROVE  IF settled'[s] = -1
                        THEN ledger'[s] = [charge |-> 0, reversed |-> 0, adjusted |-> 0]
                        ELSE Net(s)' = settled'[s]
      BY DEF Books
    <2>1. CASE s = r
      BY <1>1, <1>2, <2>1 DEF Inv, TypeOK, Books, Net
    <2>2. CASE s # r
      BY <1>1, <1>2, <2>2 DEF Inv, TypeOK, Books, Net
    <2> QED BY <2>1, <2>2
  <1>5. AppliedOnce'
    BY <1>2 DEF Inv, AppliedOnce
  <1> QED BY <1>3, <1>4, <1>5 DEF Inv

\* A correction moves the ledger and the settled amount together, and only
\* under a key that was not used.
LEMMA CorrectKeeps ==
    ASSUME Inv, NEW d \in Deliveries, Correct(d)
    PROVE  Inv'
  <1>1. PICK r \in Requests, to \in Nat, key \in Keys :
            r = Command[d].req /\ to = Command[d].to /\ key = Command[d].key
    BY CorrectionsAssumption DEF Keys
  <1>2. /\ ledger' = [ledger EXCEPT ![r] = Posted(r, to)]
        /\ posted' = [posted EXCEPT ![key] = @ + 1]
        /\ used' = used + Delta(r, to)
        /\ settled' = [settled EXCEPT ![r] = to]
        /\ job' = [job EXCEPT ![r] = OverageChecked(EvidenceLanded(@), r, to)]
        /\ step' = [step EXCEPT ![d] = "applied"]
    BY <1>1 DEF Correct
  <1>3. settled[r] \in Nat /\ ~(posted[key] > 0) /\ ~(used + Delta(r, to) < 0)
    BY <1>1 DEF Correct, Refusal, Inv, TypeOK
  <1>4. Delta(r, to) = to - settled[r] /\ Delta(r, to) \in Int
    BY <1>3 DEF Delta
  <1>5. /\ Posted(r, to) \in [charge : Nat, reversed : Nat, adjusted : Int]
        /\ Posted(r, to).charge - Posted(r, to).reversed + Posted(r, to).adjusted = to
    <2>1. Net(r) = settled[r]
      BY <1>3 DEF Inv, Books
    <2>2. ledger[r] \in [charge : Nat, reversed : Nat, adjusted : Int]
      BY DEF Inv, TypeOK
    <2>3. PICK a \in Nat, b \in Nat, e \in Int :
              ledger[r] = [charge |-> a, reversed |-> b, adjusted |-> e]
      BY <2>2
    <2>4. a - b + e = settled[r]
      BY <2>1, <2>3 DEF Net
    <2>5. CASE to = 0 /\ settled[r] > 0
      <3>1. Posted(r, to) = [charge |-> a, reversed |-> b + settled[r], adjusted |-> e]
        BY <2>3, <2>5 DEF Posted
      <3> QED BY <1>3, <2>4, <2>5, <3>1
    <2>6. CASE ~(to = 0 /\ settled[r] > 0)
      <3>1. Posted(r, to) = [charge |-> a, reversed |-> b, adjusted |-> e + Delta(r, to)]
        BY <2>3, <2>6 DEF Posted
      <3> QED BY <1>3, <1>4, <2>4, <3>1
    <2> QED BY <2>5, <2>6
  <1>6. TypeOK'
    <2>1. job' \in [Requests -> Jobs]
      BY <1>2, JobsClosed DEF Inv, TypeOK
    <2>2. ledger' \in [Requests -> [charge : Nat, reversed : Nat, adjusted : Int]]
      BY <1>2, <1>5 DEF Inv, TypeOK
    <2>3. used' \in Nat
      BY <1>2, <1>3, <1>4 DEF Inv, TypeOK
    <2>4. settled' \in [Requests -> Nat \cup {-1}]
      BY <1>2 DEF Inv, TypeOK
    <2>6. posted' \in [Keys -> Nat]
      BY <1>2 DEF Inv, TypeOK
    <2>5. step' \in [Deliveries -> {"new", "looked"} \cup Answers]
      BY <1>2 DEF Inv, TypeOK, Answers
    <2> QED BY <2>1, <2>2, <2>3, <2>4, <2>5, <2>6 DEF TypeOK
  <1>7. Books'
    <2> SUFFICES ASSUME NEW s \in Requests
                 PROVE  IF settled'[s] = -1
                        THEN ledger'[s] = [charge |-> 0, reversed |-> 0, adjusted |-> 0]
                        ELSE Net(s)' = settled'[s]
      BY DEF Books
    <2>1. CASE s = r
      BY <1>2, <1>5, <2>1 DEF Inv, TypeOK, Net
    <2>2. CASE s # r
      BY <1>2, <2>2 DEF Inv, TypeOK, Books, Net
    <2> QED BY <2>1, <2>2
  <1>8. AppliedOnce'
    BY <1>2, <1>3 DEF Inv, AppliedOnce, TypeOK
  <1> QED BY <1>6, <1>7, <1>8 DEF Inv

\* Every other step leaves the books alone.
LEMMA OthersKeep ==
    ASSUME Inv,
           \/ \E r \in Requests : Escalate(r)
           \/ \E d \in Deliveries : LookUp(d) \/ Refuse(d)
           \/ UNCHANGED vars
    PROVE  Inv'
  <1>1. ASSUME NEW r \in Requests, Escalate(r)
        PROVE  Inv'
    <2>1. job' \in [Requests -> Jobs]
      BY <1>1, JobsClosed DEF Escalate, Inv, TypeOK
    <2> QED BY <1>1, <2>1 DEF Escalate, Inv, TypeOK, Books, Net, AppliedOnce
  <1>2. ASSUME NEW d \in Deliveries, LookUp(d) \/ Refuse(d)
        PROVE  Inv'
    <2>1. step' \in [Deliveries -> {"new", "looked"} \cup Answers]
      <3>1. Refusal(Command[d].req, Command[d].to, Command[d].key) \in Answers \cup {"none"}
        BY DEF Refusal, Answers
      <3> QED BY <1>2, <3>1 DEF LookUp, Refuse, Inv, TypeOK, Answers
    <2>2. UNCHANGED <<settled, ledger, posted, used, job>>
      BY <1>2 DEF LookUp, Refuse
    <2> QED BY <2>1, <2>2 DEF Inv, TypeOK, Books, Net, AppliedOnce
  <1>3. CASE UNCHANGED vars
    BY <1>3 DEF vars, Inv, TypeOK, Books, Net, AppliedOnce
  <1> QED BY <1>1, <1>2, <1>3

\* Inv is inductive.
THEOREM InvHolds == Spec => []Inv
  <1>1. Inv /\ [Next]_vars => Inv'
    <2> SUFFICES ASSUME Inv, [Next]_vars PROVE Inv'
      OBVIOUS
    <2> QED BY SettleKeeps, CorrectKeeps, OthersKeep DEF Next
  <1> QED BY InitInv, <1>1, PTL DEF Spec

\* However corrections are chained, repeated and interleaved, the ledger of
\* a settled request nets to its settled amount (CorrectSettlement).
THEOREM NetHolds == Spec => []NetIsSettled
  <1>1. Inv => NetIsSettled
    BY DEF Inv, Books, NetIsSettled
  <1> QED BY InvHolds, <1>1, PTL

\* No command is applied twice (the UNIQUE key of inference_adjustments
\* behind the unlocked lookup).
THEOREM AppliedOnceHolds == Spec => []AppliedOnce
  <1>1. Inv => AppliedOnce
    BY DEF Inv
  <1> QED BY InvHolds, <1>1, PTL

\* Corrections take effect once each and compose, for any number of commands,
\* requests and concurrent deliveries (CorrectSettlement).
THEOREM CorrectionsHold == Spec => []CorrectionsNet
  <1>1. NetIsSettled /\ AppliedOnce => CorrectionsNet
    BY DEF CorrectionsNet
  <1> QED BY NetHolds, AppliedOnceHolds, <1>1, PTL

=============================================================================
