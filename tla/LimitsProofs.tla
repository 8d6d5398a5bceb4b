---------------------------- MODULE LimitsProofs ----------------------------
(***************************************************************************)
(* Proofs about Limits, for all services and users, limits and windows.    *)
(*                                                                         *)
(* A bucket knows how many calls it has counted and when it began, the     *)
(* bound on bursts speaks of calls that two buckets have let pass.  The    *)
(* invariant says which of the latest calls of a service or a user can be  *)
(* those of the bucket there is, that the others are older than it, and    *)
(* that all but as many as the limit of these are out of the window.  The  *)
(* alerts of a service are tied to the time that the code keeps.           *)
(***************************************************************************)
EXTENDS Limits, TLAPS

USE LimitsConstants

Bucket(k) == IF k \in Services THEN service[k] ELSE user[k]

\* At most so many of the latest calls are those of the bucket.
MayBeOf(b, limit) == IF b.count <= limit THEN b.count ELSE limit

BucketFits(b, ages, limit) ==
    /\ b.age >= Window => b.count = 0 /\ \A i \in 1 .. 2 * limit + 1 : ages[i] > 0
    /\ b.age < Window =>
          \A i \in 1 .. 2 * limit + 1 : i > MayBeOf(b, limit) => ages[i] > b.age
    /\ \A i \in 1 .. 2 * limit + 1 : i > MayBeOf(b, limit) + limit => ages[i] = Window

AlertsFit(s) == alerts[s][1] = last[s] /\ alerts[s][2] = Silence

IInv == /\ TypeOK
        /\ \A k \in Services \cup Users : BucketFits(Bucket(k), calls[k], Limit(k))
        /\ \A s \in Services : AlertsFit(s)

-----------------------------------------------------------------------------
(* What becomes of one bucket and of the calls that go with it.            *)

\* A limit is a number, and 0 for none.
LEMMA LimitTyped == \A k \in Services \cup Users : Limit(k) \in Nat
BY DEF Limit

\* A bucket that is asked stays one.
LEMMA CountedTyped ==
    ASSUME NEW limit \in Nat, NEW b \in Buckets(limit)
    PROVE  Counted(b, limit) \in Buckets(limit)
BY DEF Counted, Buckets

\* The age of a bucket stays within the window.
LEMMA AgedTyped ==
    ASSUME NEW limit \in Nat, NEW b \in Buckets(limit)
    PROVE  Aged(b) \in Buckets(limit)
BY DEF Aged, NoBucket, Buckets

\* The ages of the latest calls stay within the window.
LEMMA AgesTyped ==
    ASSUME NEW n \in Nat, NEW w \in Nat \ {0}, NEW ages \in [1 .. n -> 0 .. w]
    PROVE  Recorded(ages) \in [1 .. n -> 0 .. w] /\ Older(ages, w) \in [1 .. n -> 0 .. w]
BY DEF Recorded, Older

\* A call that is counted and then refused, by this bucket or by another.
LEMMA CountedFits ==
    ASSUME NEW limit \in Nat, NEW b \in Buckets(limit),
           NEW ages \in [1 .. 2 * limit + 1 -> 0 .. Window], BucketFits(b, ages, limit),
           limit > 0
    PROVE  BucketFits(Counted(b, limit), ages, limit)
<1>. DEFINE next == Counted(b, limit)
<1>. SUFFICES BucketFits(next, ages, limit)
  OBVIOUS
<1>1. b.age \in 0 .. Window /\ b.count \in Nat /\ next.count \in Nat
  BY DEF Counted, Buckets
<1>2. CASE b.age >= Window
  <2>1. next.age = 0 /\ next.count = 1
    BY <1>2 DEF Counted
  <2>2. \A i \in 1 .. 2 * limit + 1 : ages[i] > 0 /\ (i > limit => ages[i] = Window)
    BY <1>2 DEF BucketFits, MayBeOf, Buckets
  <2>3. MayBeOf(next, limit) = 1
    BY <2>1 DEF MayBeOf
  <2>. HIDE DEF next
  <2>. QED BY <2>1, <2>2, <2>3 DEF BucketFits
<1>3. CASE b.age < Window
  <2>1. next.age = b.age /\ next.count >= b.count
    BY <1>1, <1>3 DEF Counted, Buckets
  <2>. HIDE DEF next
  <2>2. MayBeOf(next, limit) >= MayBeOf(b, limit) /\ MayBeOf(next, limit) \in Nat
    BY <1>1, <2>1 DEF MayBeOf
  <2>3. MayBeOf(b, limit) \in Nat
    BY <1>1 DEF MayBeOf
  <2>4. ~(next.age >= Window)
    BY <1>1, <1>3, <2>1
  <2>5. \A i \in 1 .. 2 * limit + 1 : i > MayBeOf(next, limit) => ages[i] > next.age
    BY <1>3, <2>1, <2>2, <2>3 DEF BucketFits
  <2>6. \A i \in 1 .. 2 * limit + 1 : i > MayBeOf(next, limit) + limit => ages[i] = Window
    BY <2>2, <2>3 DEF BucketFits
  <2>. QED BY <2>4, <2>5, <2>6 DEF BucketFits
<1>. QED BY <1>1, <1>2, <1>3

\* A call that is allowed is the latest, and is one of the bucket's.
LEMMA AllowedFits ==
    ASSUME NEW limit \in Nat, NEW b \in Buckets(limit),
           NEW ages \in [1 .. 2 * limit + 1 -> 0 .. Window], BucketFits(b, ages, limit),
           limit > 0, ~Refused(b, limit)
    PROVE  BucketFits(Counted(b, limit), Recorded(ages), limit)
<1>. DEFINE next == Counted(b, limit)
            now == Recorded(ages)
<1>. SUFFICES BucketFits(next, now, limit)
  OBVIOUS
<1>1. \A i \in 1 .. 2 * limit + 1 : i > 1 => now[i] = ages[i - 1] /\ i - 1 \in 1 .. 2 * limit
  BY DEF Recorded
<1>2. next.count <= limit /\ next.count \in Nat /\ next.age \in Nat /\ next.age < Window
  BY DEF Counted, Refused, Within, Buckets
<1>. HIDE DEF next, now
<1>3. CASE b.age >= Window
  <2>1. next.age = 0 /\ next.count = 1
    BY <1>3 DEF next, Counted
  <2>2. \A i \in 1 .. 2 * limit : ages[i] > 0 /\ (i > limit => ages[i] = Window)
    BY <1>3 DEF BucketFits, MayBeOf, Buckets
  <2>3. \A i \in 1 .. 2 * limit + 1 : i > 1 => now[i] > 0
    BY <1>1, <2>2
  <2>4. \A i \in 1 .. 2 * limit + 1 : i > 1 + limit => now[i] = Window
    BY <1>1, <2>2
  <2>. QED BY <1>2, <2>1, <2>3, <2>4 DEF BucketFits, MayBeOf
<1>4. CASE b.age < Window
  <2>1. next.age = b.age /\ next.count = b.count + 1 /\ b.count \in Nat /\ b.age \in Nat
    BY <1>2, <1>4 DEF next, Counted, Buckets
  <2>2. \A i \in 1 .. 2 * limit : /\ i > b.count => ages[i] > b.age
                                  /\ i > b.count + limit => ages[i] = Window
    BY <1>2, <1>4, <2>1 DEF BucketFits, MayBeOf
  <2>3. ASSUME NEW i \in 1 .. 2 * limit + 1, i > next.count
        PROVE  now[i] > b.age /\ (i > next.count + limit => now[i] = Window)
    <3>. i \in Nat
      OBVIOUS
    <3>1. i > 1 /\ i - 1 > b.count /\ (i > next.count + limit => i - 1 > b.count + limit)
      BY <2>1, <2>3
    <3>2. now[i] = ages[i - 1] /\ i - 1 \in 1 .. 2 * limit
      BY <1>1, <3>1
    <3>. QED BY <2>2, <3>1, <3>2
  <2>4. MayBeOf(next, limit) = next.count
    BY <1>2 DEF MayBeOf
  <2>5. ~(next.age >= Window) /\ next.age = b.age
    BY <1>2, <2>1
  <2>6. \A i \in 1 .. 2 * limit + 1 : i > next.count + limit => i > next.count
    BY <1>2
  <2>. QED BY <2>3, <2>4, <2>5, <2>6 DEF BucketFits
<1>. QED BY <1>3, <1>4 DEF Buckets

\* Time passes for the bucket as it does for the calls.
LEMMA OlderFits ==
    ASSUME NEW limit \in Nat, NEW b \in Buckets(limit),
           NEW ages \in [1 .. 2 * limit + 1 -> 0 .. Window], BucketFits(b, ages, limit)
    PROVE  BucketFits(Aged(b), Older(ages, Window), limit)
<1>. DEFINE next == Aged(b)
            now == Older(ages, Window)
<1>. SUFFICES BucketFits(next, now, limit)
  OBVIOUS
<1>1. \A i \in 1 .. 2 * limit + 1 : /\ ages[i] \in 0 .. Window
                                    /\ now[i] = IF ages[i] < Window THEN ages[i] + 1 ELSE Window
  BY DEF Older
<1>2. b.age \in 0 .. Window /\ b.count \in Nat
  BY DEF Buckets
<1>. HIDE DEF next, now
<1>3. CASE b.age + 1 >= Window
  <2>1. next.age = Window /\ next.count = 0
    BY <1>3 DEF next, Aged, NoBucket
  <2>2. \A i \in 1 .. 2 * limit + 1 : now[i] > 0
    BY <1>1
  <2>3. \A i \in 1 .. 2 * limit + 1 : i > limit => ages[i] = Window
    <3>1. CASE b.age >= Window
      <4>1. b.count = 0 BY <3>1 DEF BucketFits
      <4>. QED BY <4>1 DEF BucketFits, MayBeOf
    <3>2. CASE b.age < Window
      <4>1. b.age \in Nat /\ Window \in Nat /\ b.age = Window - 1 BY <1>2, <1>3, <3>2
      <4>2. MayBeOf(b, limit) <= limit /\ MayBeOf(b, limit) \in Nat BY <1>2 DEF MayBeOf
      <4>3. \A i \in 1 .. 2 * limit + 1 : i > MayBeOf(b, limit) => ages[i] > b.age
        BY <3>2 DEF BucketFits
      <4>4. ASSUME NEW i \in 1 .. 2 * limit + 1, i > limit PROVE ages[i] = Window
        <5>1. ages[i] > b.age BY <4>2, <4>3, <4>4
        <5>2. ages[i] \in 0 .. Window BY <1>1
        <5>. QED BY <4>1, <5>1, <5>2
      <4>. QED BY <4>4
    <3>. QED BY <1>2, <3>1, <3>2
  <2>4. \A i \in 1 .. 2 * limit + 1 : i > limit => now[i] = Window
    BY <1>1, <2>3
  <2>. QED BY <2>1, <2>2, <2>4 DEF BucketFits, MayBeOf
<1>4. CASE b.age + 1 < Window
  <2>1. next.age = b.age + 1 /\ next.count = b.count
    BY <1>4 DEF next, Aged, Buckets
  <2>2. MayBeOf(next, limit) = MayBeOf(b, limit) /\ MayBeOf(b, limit) \in Nat
    BY <1>2, <2>1 DEF MayBeOf
  <2>3. \A i \in 1 .. 2 * limit + 1 : i > MayBeOf(b, limit) => ages[i] > b.age
    BY <1>2, <1>4 DEF BucketFits
  <2>4. \A i \in 1 .. 2 * limit + 1 : i > MayBeOf(b, limit) => now[i] > b.age + 1
    BY <1>1, <1>2, <1>4, <2>2, <2>3
  <2>5. \A i \in 1 .. 2 * limit + 1 : i > MayBeOf(b, limit) + limit => now[i] = Window
    BY <1>1 DEF BucketFits
  <2>. QED BY <1>2, <1>4, <2>1, <2>2, <2>4, <2>5 DEF BucketFits
<1>. QED BY <1>2, <1>3, <1>4

-----------------------------------------------------------------------------
(* The invariant.                                                          *)

\* A service or a user of whom nothing was asked yet.
LEMMA InitInvariant == Init => IInv
<1>. SUFFICES ASSUME Init PROVE IInv
  OBVIOUS
<1>1. TypeOK
  <2>1. NoBucket \in Buckets(ServiceLimit) /\ NoBucket \in Buckets(UserLimit)
    BY DEF NoBucket, Buckets
  <2>2. service \in [Services -> Buckets(ServiceLimit)] /\ user \in [Users -> Buckets(UserLimit)]
    BY <2>1 DEF Init
  <2>3. DOMAIN calls = Services \cup Users
        /\ \A k \in Services \cup Users : calls[k] \in [Latest(k) -> 0 .. Window]
    <3>1. Window \in 0 .. Window OBVIOUS
    <3>. QED BY <3>1 DEF Init
  <2>4. [i \in 1..2 |-> Silence] \in [1..2 -> 0 .. Silence]
    OBVIOUS
  <2>5. alerts \in [Services -> [1..2 -> 0 .. Silence]]
    BY <2>4 DEF Init
  <2>6. last \in [Services -> 0 .. Silence] /\ notify \in [Notifiers -> Services \cup {Nobody}]
    BY DEF Init
  <2>. QED BY <2>2, <2>3, <2>5, <2>6 DEF TypeOK
<1>2. ASSUME NEW k \in Services \cup Users PROVE BucketFits(Bucket(k), calls[k], Limit(k))
  <2>1. /\ Bucket(k).age = Window /\ Bucket(k).count = 0
        /\ \A i \in 1 .. 2 * Limit(k) + 1 : calls[k][i] = Window
    BY DEF Init, Bucket, NoBucket, Latest
  <2>. QED BY <2>1, LimitTyped DEF BucketFits, MayBeOf
<1>3. ASSUME NEW s \in Services PROVE AlertsFit(s)
  <2>1. alerts[s] = [i \in 1..2 |-> Silence] /\ last[s] = Silence
    BY DEF Init
  <2>. QED BY <2>1 DEF AlertsFit
<1>. QED BY <1>1, <1>2, <1>3 DEF IInv

\* What TypeOK says of one service or user.
LEMMA BucketTyped ==
    ASSUME TypeOK, NEW k \in Services \cup Users
    PROVE  /\ Bucket(k) \in Buckets(Limit(k)) /\ Limit(k) \in Nat
           /\ calls[k] \in [1 .. 2 * Limit(k) + 1 -> 0 .. Window]
<1>1. Bucket(k) \in Buckets(Limit(k))
  BY DEF TypeOK, Bucket, Limit
<1>. QED BY <1>1, LimitTyped DEF TypeOK, Latest

\* A call charges the service, and the user if the service is not refused; it
\* is allowed if neither is refused.
LEMMA AllowEffect ==
    ASSUME TypeOK, NEW s \in Services, NEW u \in Users, Allow(s, u),
           NEW k \in Services \cup Users
    PROVE  \/ Bucket(k)' = Bucket(k) /\ calls'[k] = calls[k]
           \/ /\ Limit(k) > 0
              /\ Bucket(k)' = Counted(Bucket(k), Limit(k))
              /\ \/ calls'[k] = calls[k]
                 \/ ~Refused(Bucket(k), Limit(k)) /\ calls'[k] = Recorded(calls[k])
<1>. DEFINE refused == Refused(service[s], ServiceLimit)
            over == Refused(user[u], UserLimit)
<1>1. /\ Limit(s) = ServiceLimit /\ Limit(u) = UserLimit /\ u \notin Services
      /\ Bucket(s) = service[s] /\ Bucket(u) = user[u]
  BY DEF Limit, Bucket
<1>2. /\ service'[s] = IF ServiceLimit = 0 THEN service[s] ELSE Counted(service[s], ServiceLimit)
      /\ \A r \in Services \ {s} : service'[r] = service[r]
  BY <1>1 DEF Allow, Charged, TypeOK
<1>3. /\ refused => user' = user /\ calls' = calls
      /\ ~refused /\ over => calls' = calls
      /\ ~refused => /\ user'[u] = IF UserLimit = 0 THEN user[u] ELSE Counted(user[u], UserLimit)
                     /\ \A r \in Users \ {u} : user'[r] = user[r]
  BY <1>1 DEF Allow, Charged, TypeOK
<1>4. ~refused /\ ~over =>
         calls'[k] = IF k \in {s, u} /\ Limit(k) > 0 THEN Recorded(calls[k]) ELSE calls[k]
  BY DEF Allow, TypeOK
<1>5. calls'[k] = calls[k] \/ (~refused /\ ~over)
  BY <1>3
<1>6. refused \in BOOLEAN /\ over \in BOOLEAN /\ ServiceLimit \in Nat /\ UserLimit \in Nat
  BY DEF Refused
<1>. HIDE DEF refused, over
<1>7. CASE k = s
  <2>1. Bucket(k)' = service'[s] BY <1>7 DEF Bucket
  <2>. QED BY <1>1, <1>2, <1>3, <1>4, <1>5, <1>6, <1>7, <2>1 DEF refused
<1>8. CASE k = u
  <2>1. Bucket(k)' = user'[u] BY <1>1, <1>8 DEF Bucket
  <2>. QED BY <1>1, <1>3, <1>4, <1>5, <1>6, <1>8, <2>1 DEF over
<1>9. CASE k \notin {s, u}
  <2>1. Bucket(k)' = Bucket(k) BY <1>2, <1>3, <1>6, <1>9 DEF Bucket
  <2>. QED BY <1>4, <1>5, <1>9, <2>1
<1>. QED BY <1>7, <1>8, <1>9

\* Every step keeps the types.
LEMMA NextTyped == TypeOK /\ [Next]_vars => TypeOK'
<1>. SUFFICES ASSUME TypeOK, [Next]_vars PROVE TypeOK'
  OBVIOUS
<1>1. CASE Tick
  <2>1. service' \in [Services -> Buckets(ServiceLimit)] /\ user' \in [Users -> Buckets(UserLimit)]
    BY <1>1, AgedTyped DEF Tick, TypeOK
  <2>2. last' \in [Services -> 0 .. Silence] /\ notify' \in [Notifiers -> Services \cup {Nobody}]
    <3>1. \A s \in Services : last[s] \in 0 .. Silence BY DEF TypeOK
    <3>2. \A s \in Services :
             (IF last[s] = Silence THEN Silence ELSE last[s] + 1) \in 0 .. Silence
      BY <3>1
    <3>. QED BY <1>1, <3>2 DEF Tick, TypeOK
  <2>3. alerts' \in [Services -> [1..2 -> 0 .. Silence]]
    <3>1. ASSUME NEW s \in Services
          PROVE  Older(alerts[s], Silence) \in [1..2 -> 0 .. Silence]
      <4>1. alerts[s] \in [1..2 -> 0 .. Silence] BY DEF TypeOK
      <4>. QED BY <4>1, AgesTyped
    <3>. QED BY <1>1, <3>1 DEF Tick
  <2>4. DOMAIN calls' = Services \cup Users
        /\ \A k \in Services \cup Users : calls'[k] = Older(calls[k], Window)
    <3>1. DOMAIN calls = Services \cup Users BY DEF TypeOK
    <3>2. calls' = [k \in DOMAIN calls |-> Older(calls[k], Window)] BY <1>1 DEF Tick
    <3>. QED BY <3>1, <3>2
  <2>5. \A k \in Services \cup Users : calls'[k] \in [Latest(k) -> 0 .. Window]
    <3>. SUFFICES ASSUME NEW k \in Services \cup Users
                  PROVE  calls'[k] \in [1 .. 2 * Limit(k) + 1 -> 0 .. Window]
      BY DEF Latest
    <3>1. 2 * Limit(k) + 1 \in Nat /\ calls[k] \in [1 .. 2 * Limit(k) + 1 -> 0 .. Window]
      BY BucketTyped
    <3>2. /\ Recorded(calls[k]) \in [1 .. 2 * Limit(k) + 1 -> 0 .. Window]
          /\ Older(calls[k], Window) \in [1 .. 2 * Limit(k) + 1 -> 0 .. Window]
      BY <3>1, AgesTyped
    <3>. QED BY <2>4, <3>1, <3>2
  <2>. QED BY <2>1, <2>2, <2>3, <2>4, <2>5 DEF TypeOK
<1>2. ASSUME NEW s \in Services, NEW u \in Users, Allow(s, u) PROVE TypeOK'
  <2>1. service' \in [Services -> Buckets(ServiceLimit)] /\ user' \in [Users -> Buckets(UserLimit)]
    BY <1>2, CountedTyped DEF Allow, Charged, Limit, TypeOK
  <2>2. UNCHANGED <<last, notify, alerts>>
    BY <1>2 DEF Allow
  <2>3. DOMAIN calls' = Services \cup Users
    BY <1>2 DEF Allow, TypeOK
  <2>4. \A k \in Services \cup Users : calls'[k] \in {calls[k], Recorded(calls[k])}
    BY <1>2, AllowEffect
  <2>5. \A k \in Services \cup Users : calls'[k] \in [Latest(k) -> 0 .. Window]
    <3>. SUFFICES ASSUME NEW k \in Services \cup Users
                  PROVE  calls'[k] \in [1 .. 2 * Limit(k) + 1 -> 0 .. Window]
      BY DEF Latest
    <3>1. 2 * Limit(k) + 1 \in Nat /\ calls[k] \in [1 .. 2 * Limit(k) + 1 -> 0 .. Window]
      BY BucketTyped
    <3>2. /\ Recorded(calls[k]) \in [1 .. 2 * Limit(k) + 1 -> 0 .. Window]
          /\ Older(calls[k], Window) \in [1 .. 2 * Limit(k) + 1 -> 0 .. Window]
      BY <3>1, AgesTyped
    <3>. QED BY <2>4, <3>1, <3>2
  <2>. QED BY <2>1, <2>2, <2>3, <2>5 DEF TypeOK
<1>3. ASSUME NEW n \in Notifiers, NEW s \in Services, NotifyServiceError(n, s) PROVE TypeOK'
  <2>1. UNCHANGED <<service, user, calls>>
    BY <1>3 DEF NotifyServiceError
  <2>2. last' \in [Services -> 0 .. Silence] /\ notify' \in [Notifiers -> Services \cup {Nobody}]
    BY <1>3 DEF NotifyServiceError, TypeOK
  <2>3. Recorded(alerts[s]) \in [1..2 -> 0 .. Silence]
    <3>1. alerts[s] \in [1..2 -> 0 .. Silence] BY DEF TypeOK
    <3>. QED BY <3>1, AgesTyped
  <2>4. alerts' \in [Services -> [1..2 -> 0 .. Silence]]
    BY <1>3, <2>3 DEF NotifyServiceError, TypeOK
  <2>. QED BY <2>1, <2>2, <2>4 DEF TypeOK
<1>4. ASSUME NEW n \in Notifiers, Send(n) PROVE TypeOK'
  BY <1>4 DEF Send, After, TypeOK
<1>5. CASE UNCHANGED vars
  BY <1>5 DEF vars, TypeOK
<1>. QED BY <1>1, <1>2, <1>3, <1>4, <1>5 DEF Next

\* Every step keeps the invariant.
LEMMA NextInvariant == IInv /\ [Next]_vars => IInv'
<1>. SUFFICES ASSUME IInv, [Next]_vars PROVE IInv'
  OBVIOUS
<1>1. TypeOK /\ TypeOK'
  BY NextTyped DEF IInv
<1>2. \A k \in Services \cup Users : BucketFits(Bucket(k), calls[k], Limit(k))
  BY DEF IInv
<1>. DEFINE FitNext == /\ \A k \in Services \cup Users : BucketFits(Bucket(k)', calls'[k], Limit(k))
                       /\ \A s \in Services : AlertsFit(s)'
<1>3. ASSUME Tick PROVE FitNext
  <2>1. ASSUME NEW k \in Services \cup Users
        PROVE  BucketFits(Bucket(k)', calls'[k], Limit(k))
    <3>1. Bucket(k)' = Aged(Bucket(k)) /\ calls'[k] = Older(calls[k], Window)
      BY <1>1, <1>3 DEF Tick, Bucket, TypeOK
    <3>. QED BY <1>1, <1>2, <3>1, BucketTyped, OlderFits
  <2>2. \A s \in Services : AlertsFit(s)'
    BY <1>1, <1>3 DEF IInv, AlertsFit, Tick, Older, TypeOK
  <2>. QED BY <2>1, <2>2
<1>4. ASSUME NEW s \in Services, NEW u \in Users, Allow(s, u) PROVE FitNext
  <2>1. ASSUME NEW k \in Services \cup Users
        PROVE  BucketFits(Bucket(k)', calls'[k], Limit(k))
    <3>. DEFINE b == Bucket(k)
                ages == calls[k]
                limit == Limit(k)
    <3>1. /\ limit \in Nat /\ b \in Buckets(limit)
          /\ ages \in [1 .. 2 * limit + 1 -> 0 .. Window] /\ BucketFits(b, ages, limit)
      BY <1>1, <1>2, BucketTyped
    <3>2. \/ Bucket(k)' = b /\ calls'[k] = ages
          \/ /\ limit > 0 /\ Bucket(k)' = Counted(b, limit)
             /\ \/ calls'[k] = ages
                \/ ~Refused(b, limit) /\ calls'[k] = Recorded(ages)
      BY <1>1, <1>4, AllowEffect
    <3>. HIDE DEF b, ages, limit
    <3>3. limit > 0 => BucketFits(Counted(b, limit), ages, limit)
      BY <3>1, CountedFits
    <3>4. limit > 0 /\ ~Refused(b, limit) => BucketFits(Counted(b, limit), Recorded(ages), limit)
      BY <3>1, AllowedFits
    <3>5. BucketFits(Bucket(k)', calls'[k], limit)
      BY <3>1, <3>2, <3>3, <3>4
    <3>. QED BY <3>5 DEF limit
  <2>2. UNCHANGED <<last, alerts>>
    BY <1>4 DEF Allow
  <2>. QED BY <2>1, <2>2 DEF IInv, AlertsFit
<1>5. ASSUME NEW n \in Notifiers, NEW s \in Services, NotifyServiceError(n, s) PROVE FitNext
  <2>1. UNCHANGED <<service, user, calls>>
    BY <1>5 DEF NotifyServiceError
  <2>2. \A r \in Services : AlertsFit(r)'
    BY <1>1, <1>5 DEF IInv, AlertsFit, NotifyServiceError, Recorded, TypeOK
  <2>. QED BY <1>2, <2>1, <2>2 DEF Bucket
<1>6. ASSUME NEW n \in Notifiers, Send(n) PROVE FitNext
  <2>1. UNCHANGED <<service, user, calls, last, alerts>>
    BY <1>6 DEF Send, After
  <2>. QED BY <2>1 DEF IInv, AlertsFit, Bucket
<1>7. ASSUME UNCHANGED vars PROVE FitNext
  BY <1>7 DEF vars, IInv, AlertsFit, Bucket
<1>8. FitNext
  BY <1>3, <1>4, <1>5, <1>6, <1>7 DEF Next
<1>9. \A k \in Services \cup Users : BucketFits(Bucket(k), calls[k], Limit(k))'
  BY <1>8 DEF BucketFits, MayBeOf, Limit
<1>. QED BY <1>1, <1>8, <1>9 DEF IInv

\* The invariant holds in every reachable state.
THEOREM Invariant == Spec => []IInv
BY InitInvariant, NextInvariant, PTL DEF Spec

\* The buckets, the times and the history keep their types: ages within the
\* windows, counts up to one above the limit.
THEOREM TypeCorrect == Spec => []TypeOK
<1>1. IInv => TypeOK BY DEF IInv
<1>. QED BY <1>1, Invariant, PTL

\* InvokeController never lets more than twice the limit pass in one window's
\* time, for a service and for a user, whatever the limits and the window.
THEOREM BurstsAreBounded == Spec => []BurstIsBounded
<1>1. IInv => BurstIsBounded
  <2>. SUFFICES ASSUME IInv, NEW k \in Services \cup Users
                PROVE  calls[k][2 * Limit(k) + 1] = Window
    BY DEF BurstIsBounded
  <2>1. Bucket(k).count \in Nat /\ Limit(k) \in Nat
    BY BucketTyped DEF IInv, Buckets
  <2>2. MayBeOf(Bucket(k), Limit(k)) <= Limit(k) /\ MayBeOf(Bucket(k), Limit(k)) \in Nat
    BY <2>1 DEF MayBeOf
  <2>. QED BY <2>1, <2>2 DEF IInv, BucketFits
<1>. QED BY <1>1, Invariant, PTL

\* NotifyServiceError never alerts twice about one service within the silence,
\* however many goroutines report it and whatever becomes of the mails.
THEOREM AlertsKeepApart == Spec => []AlertsAreSpaced
<1>1. IInv => AlertsAreSpaced
  BY DEF IInv, AlertsFit, AlertsAreSpaced
<1>. QED BY <1>1, Invariant, PTL
=============================================================================
