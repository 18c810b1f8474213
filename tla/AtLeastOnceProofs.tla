------------------------- MODULE AtLeastOnceProofs -------------------------
(* What AtLeastOnce guarantees, for every value of its constants. *)
EXTENDS AtLeastOnce, TLAPS

TypeOK ==
    /\ log \in [Logs -> Seq(BOOLEAN)]
    /\ \A l \in Logs : Len(log[l]) <= MaxRecords
    /\ received \in [Logs -> [1..MaxRecords -> 0..MaxCount]]
    /\ committed \in [Logs -> 0..MaxRecords]

LEMMA LengthIsNatural == ASSUME NEW S, NEW s \in Seq(S) PROVE Len(s) \in Nat
  OBVIOUS

LEMMA InitSafe == ASSUME Bounded, Init PROVE TypeOK /\ Safe
  <1>1. MaxRecords \in Nat /\ MaxCount \in Nat
        BY DEF Bounded
  <1>2. log \in [Logs -> Seq(BOOLEAN)] /\ \A l \in Logs : Len(log[l]) <= MaxRecords
        BY <1>1 DEF Init
  <1>3. /\ received \in [Logs -> [1..MaxRecords -> 0..MaxCount]]
        /\ committed \in [Logs -> 0..MaxRecords]
        BY <1>1 DEF Init
  <1>4. \A l \in Logs : committed[l] = 0
        BY DEF Init
  <1>5. \A l \in Logs : 0 <= Len(log[l])
        <2>1. \A l \in Logs : Len(log[l]) \in Nat
              BY <1>2, LengthIsNatural, Zenon
        <2>2. \A n \in Nat : 0 <= n
              OBVIOUS
        <2> QED BY <2>1, <2>2, Zenon
  <1>6. ASSUME NEW l \in Logs PROVE Covered(l, 0)
        <2>1. \A i \in 1..0 : FALSE
              OBVIOUS
        <2> QED BY <1>5, <2>1, Zenon DEF Covered
  <1>7. Safe
        BY <1>4, <1>6 DEF Safe
  <1> QED BY <1>2, <1>3, <1>7 DEF TypeOK

LEMMA WriteSafe ==
  ASSUME Bounded, TypeOK, Safe, NEW l \in Logs, Write(l)
  PROVE  TypeOK' /\ Safe'
  <1>1. PICK f \in BOOLEAN : log' = [log EXCEPT ![l] = Append(@, f)]
        BY DEF Write
  <1>2. /\ log'[l] = Append(log[l], f) /\ log[l] \in Seq(BOOLEAN)
        /\ \A m \in Logs : m # l => log'[m] = log[m]
        BY <1>1 DEF TypeOK
  <1>3. /\ Len(log'[l]) = Len(log[l]) + 1 /\ Len(log[l]) \in Nat
        /\ log'[l] \in Seq(BOOLEAN)
        /\ \A i \in 1..Len(log[l]) : log'[l][i] = log[l][i]
        BY <1>2
  <1>4. UNCHANGED <<received, committed>> /\ Len(log[l]) < MaxRecords
        BY DEF Write
  <1>5. TypeOK'
        <2>1. log' \in [Logs -> Seq(BOOLEAN)]
              BY <1>1, <1>3 DEF TypeOK
        <2>2. ASSUME NEW m \in Logs PROVE Len(log'[m]) <= MaxRecords
              <3>1. CASE m = l
                    BY <1>3, <1>4, <3>1 DEF Bounded
              <3>2. CASE m # l
                    BY <1>2, <3>2 DEF TypeOK
              <3> QED BY <3>1, <3>2
        <2> QED BY <1>4, <2>1, <2>2 DEF TypeOK
  <1>6. ASSUME NEW m \in Logs PROVE Covered(m, committed[m])'
        <2>1. committed[m] \in Nat /\ Covered(m, committed[m])
              BY DEF Bounded, TypeOK, Safe
        <2>2. CASE m = l
              BY <1>3, <1>4, <2>1, <2>2 DEF Covered
        <2>3. CASE m # l
              BY <1>2, <1>4, <2>1, <2>3 DEF Covered
        <2> QED BY <2>2, <2>3
  <1> QED BY <1>5, <1>6 DEF Safe

LEMMA DeliverSafe ==
  ASSUME Bounded, TypeOK, Safe, NEW l \in Logs, NEW sent, Deliver(l, sent)
  PROVE  TypeOK' /\ Safe'
  <1> DEFINE now == [i \in 1..MaxRecords |->
                       IF i \in sent THEN Counted(received[l][i] + 1) ELSE received[l][i]]
  <1>1. UNCHANGED <<log, committed>> /\ received' = [received EXCEPT ![l] = now]
        BY DEF Deliver
  <1>2. \A n \in 0..MaxCount : Counted(n + 1) \in 0..MaxCount /\ Counted(n + 1) > 0
        BY DEF Bounded, Counted
  <1>3. \A m \in Logs, i \in 1..MaxRecords : received[m][i] \in 0..MaxCount
        BY DEF TypeOK
  <1>4. /\ now \in [1..MaxRecords -> 0..MaxCount]
        /\ \A i \in 1..MaxRecords : received[l][i] > 0 => now[i] > 0
        BY <1>2, <1>3
  <1> HIDE DEF now
  <1>5. TypeOK'
        BY <1>1, <1>4 DEF TypeOK
  <1>6. ASSUME NEW m \in Logs, NEW i \in 1..MaxRecords, received[m][i] > 0
        PROVE  received'[m][i] > 0
        BY <1>1, <1>4, <1>6 DEF TypeOK
  <1>7. ASSUME NEW m \in Logs PROVE Covered(m, committed[m])'
        <2>1. Covered(m, committed[m]) /\ committed[m] \in 0..MaxRecords
              BY DEF TypeOK, Safe
        <2>2. \A j \in 1..committed[m] : j \in 1..MaxRecords
              BY <2>1 DEF Bounded
        <2> QED BY <1>1, <1>6, <2>1, <2>2 DEF Covered
  <1> QED BY <1>5, <1>7 DEF Safe

LEMMA NextSafe == ASSUME Bounded, TypeOK, Safe, [Next]_vars PROVE TypeOK' /\ Safe'
  <1>1. CASE Commit
        BY <1>1 DEF Commit, TypeOK, Safe, Covered
  <1>2. CASE Forget
        <2>1. TypeOK'
              BY <1>2 DEF Bounded, Forget, TypeOK
        <2>2. Safe'
              BY <1>2 DEF Forget, TypeOK, Safe, Covered
        <2> QED BY <2>1, <2>2
  <1>3. CASE UNCHANGED vars
        BY <1>3 DEF vars, TypeOK, Safe, Covered
  <1> QED BY <1>1, <1>2, <1>3, WriteSafe, DeliverSafe DEF Next

\* In every behaviour the promise allows, what is committed was delivered.
THEOREM CommittedDelivered == ASSUME Bounded PROVE Spec => []Safe
  <1>1. Init => TypeOK /\ Safe
        BY InitSafe
  <1>2. TypeOK /\ Safe /\ [Next]_vars => TypeOK' /\ Safe'
        BY NextSafe
  <1> QED BY <1>1, <1>2, PTL DEF Spec
=============================================================================
