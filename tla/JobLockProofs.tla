---------------------------- MODULE JobLockProofs ----------------------------
(***************************************************************************)
(* Proofs about JobLock for every number of replicas and occurrences, and  *)
(* for every timing that TimingAssumption allows.                          *)
(*                                                                         *)
(* That an occurrence runs once is not inductive: a key expires, and Free  *)
(* then lets a second replica in.  What forbids it is time.  A key is set  *)
(* no earlier than its occurrence is due, so it outlives DueAt(d) + Ttl,   *)
(* while nobody still asks for d after DueAt(d) + Late: IInv ties the keys, *)
(* the requests and the clock together.                                    *)
(***************************************************************************)
EXTENDS JobLock, FiniteSetTheorems, TLAPS

\* Whoever waits for a reply asks for an occurrence that is due and not yet late.
AsksOnTime ==
    \A r \in Replicas : phase[r] = "asking" =>
        /\ occ[r] \in Days
        /\ DueAt(occ[r]) <= now /\ now <= DueAt(occ[r]) + Late

\* A key was set when its occurrence was due, and an occurrence that ran has one.
KeyOutlivesAsking ==
    \A d \in Days :
        /\ holder[d] # Nobody => expires[d] >= DueAt(d) + Ttl /\ DueAt(d) <= now
        /\ runs[d] > 0 => holder[d] # Nobody

\* A running replica holds the key of its occurrence, began it on time and has
\* not overrun.
RunsOnTime ==
    \A r \in Replicas : phase[r] = "running" =>
        /\ occ[r] \in Days
        /\ holder[occ[r]] = r
        /\ DueAt(occ[r]) <= started[r] /\ started[r] <= DueAt(occ[r]) + Late
        /\ started[r] <= now /\ now <= started[r] + MaxRun

IInv == TypeOK /\ AsksOnTime /\ KeyOutlivesAsking /\ RunsOnTime /\ OneRunPerOccurrence

-----------------------------------------------------------------------------
LEMMA Timing ==
    /\ Ttl \in Nat /\ Day \in Nat /\ Late \in Nat /\ MaxRun \in Nat
    /\ MaxDays \in Nat /\ MaxFaults \in Nat
    /\ Late < Ttl /\ MaxRun + Late < Day
    /\ Nobody \notin Replicas
    /\ Days \subseteq Nat
BY TimingAssumption DEF Days

LEMMA DueIsNat == ASSUME NEW d \in Nat PROVE DueAt(d) \in Nat
BY Timing DEF DueAt

\* A later occurrence is due at least a Day later.
LEMMA DueInOrder ==
    ASSUME NEW d \in Nat, NEW e \in Nat, d < e
    PROVE  DueAt(d) + Day <= DueAt(e)
<1>1. PICK k \in Nat : e = d + 1 + k
  <2>1. e - d - 1 \in Nat
    OBVIOUS
  <2> QED BY <2>1
<1>2. e * Day = d * Day + Day + k * Day
  BY <1>1, Timing
<1>3. k * Day \in Nat /\ d * Day \in Nat
  BY Timing
<1> QED BY <1>2, <1>3, Timing DEF DueAt

LEMMA PassedIsNat == ASSUME NEW skew PROVE Passed(skew) \in Nat
<1> DEFINE S == {d \in Days : DueAt(d) + skew <= now}
<1>1. IsFiniteSet(Days)
  BY FS_Interval, Timing DEF Days
<1>2. S \subseteq Days
  OBVIOUS
<1>3. IsFiniteSet(S)
  BY <1>1, <1>2, FS_Subset
<1> QED BY <1>3, FS_CardinalityType DEF Passed

LEMMA UpdateKeepsType ==
    ASSUME NEW S, NEW T, NEW f \in [S -> T], NEW x, NEW v, x \in S => v \in T
    PROVE  [f EXCEPT ![x] = v] \in [S -> T]
OBVIOUS

LEMMA ClaimKeepsTypes ==
    ASSUME TypeOK, NEW r \in Replicas, Claim(r)
    PROVE  /\ holder' \in [Days -> Replicas \cup {Nobody}]
           /\ expires' \in [Days -> Nat]
<1>1. now + Ttl \in Nat
  BY Timing DEF TypeOK
<1> QED BY <1>1, UpdateKeepsType DEF TypeOK, Claim

LEMMA BeginRunKeepsTypes ==
    ASSUME TypeOK, NEW r \in Replicas, BeginRun(r)
    PROVE  /\ phase' \in [Replicas -> {"idle", "asking", "running", "dead"}]
           /\ started' \in [Replicas -> Nat]
           /\ runs' \in [Days -> Nat]
<1>1. occ[r] \in Days => runs[occ[r]] + 1 \in Nat
  BY DEF TypeOK
<1>2. runs' \in [Days -> Nat]
  BY <1>1, UpdateKeepsType DEF TypeOK, BeginRun
<1> QED BY <1>2 DEF TypeOK, BeginRun

-----------------------------------------------------------------------------
\* Every action keeps the types.
LEMMA TypeStep == TypeOK /\ [Next]_vars => TypeOK'
<1> SUFFICES ASSUME TypeOK, [Next]_vars PROVE TypeOK'
  OBVIOUS
<1> USE DEF TypeOK
<1>1. CASE Tick
  BY <1>1 DEF Tick, lockVars
<1>2. ASSUME NEW r \in Replicas, NEW d \in Days, Fire(r, d) PROVE TypeOK'
  BY <1>2, Timing DEF Fire, lockVars
<1>3. ASSUME NEW r \in Replicas, NEW d \in Days, Misfire(r, d) PROVE TypeOK'
  BY <1>3, Timing DEF Misfire, Spend, lockVars
<1>4. ASSUME NEW r \in Replicas, RunUnlocked(r) PROVE TypeOK'
  BY <1>4, BeginRunKeepsTypes DEF RunUnlocked, lockVars
<1>5. ASSUME NEW r \in Replicas, Win(r) PROVE TypeOK'
  BY <1>5, BeginRunKeepsTypes, ClaimKeepsTypes DEF Win
<1>6. ASSUME NEW r \in Replicas, WinUnnoticed(r) PROVE TypeOK'
  BY <1>6, ClaimKeepsTypes DEF WinUnnoticed, Spend
<1>7. ASSUME NEW r \in Replicas, Lose(r) PROVE TypeOK'
  BY <1>7 DEF Lose, Spend, lockVars
<1>8. ASSUME NEW r \in Replicas, Finish(r) PROVE TypeOK'
  BY <1>8 DEF Finish, lockVars
<1>9. ASSUME NEW r \in Replicas, Crash(r) PROVE TypeOK'
  BY <1>9 DEF Crash, Spend, lockVars
<1>10. ASSUME NEW r \in Replicas, NEW skew \in 0 .. Late, Restart(r, skew) PROVE TypeOK'
  BY <1>10, PassedIsNat DEF Restart, lockVars
<1>11. CASE UNCHANGED vars
  BY <1>11 DEF vars, lockVars
<1> QED
  BY <1>1, <1>2, <1>3, <1>4, <1>5, <1>6, <1>7, <1>8, <1>9, <1>10, <1>11 DEF Next

\* The lock's state and every scheduler's stay within their types.
THEOREM TypeCorrect == Spec => []TypeOK
<1>1. Init => TypeOK
  BY DEF Init, TypeOK
<1> QED BY <1>1, TypeStep, PTL DEF Spec

-----------------------------------------------------------------------------
\* A replica that claims a key finds it absent, not expired: it asks no later than
\* DueAt(d) + Late, when a key of d that was ever set is still there.
LEMMA ClaimedIsFresh ==
    ASSUME IInv, NEW r \in Replicas, Claim(r)
    PROVE  /\ occ[r] \in Days
           /\ holder[occ[r]] = Nobody
           /\ runs[occ[r]] = 0
<1>1. occ[r] \in Days /\ now <= DueAt(occ[r]) + Late
  BY DEF IInv, AsksOnTime, Claim
<1>2. occ[r] \in Nat /\ DueAt(occ[r]) \in Nat /\ expires[occ[r]] \in Nat /\ now \in Nat
  BY <1>1, Timing, DueIsNat DEF IInv, TypeOK
<1>3. holder[occ[r]] = Nobody
  <2> SUFFICES ASSUME holder[occ[r]] # Nobody PROVE FALSE
    OBVIOUS
  <2>1. expires[occ[r]] >= DueAt(occ[r]) + Ttl
    BY <1>1 DEF IInv, KeyOutlivesAsking
  <2>2. expires[occ[r]] <= now
    BY DEF Claim, Free
  <2> QED BY <1>1, <1>2, <2>1, <2>2, Timing
<1>4. runs[occ[r]] = 0
  BY <1>1, <1>3 DEF IInv, KeyOutlivesAsking, TypeOK
<1> QED BY <1>1, <1>3, <1>4

LEMMA KeysAfterClaim ==
    ASSUME IInv, NEW r \in Replicas, Claim(r)
    PROVE  /\ \A d \in Days : holder'[d] # Nobody =>
                 expires'[d] >= DueAt(d) + Ttl /\ DueAt(d) <= now
           /\ \A d \in Days : holder[d] # Nobody => holder'[d] = holder[d]
           /\ holder'[occ[r]] = r
<1>1. occ[r] \in Days /\ holder[occ[r]] = Nobody
  BY ClaimedIsFresh
<1>2. holder' = [holder EXCEPT ![occ[r]] = r] /\ expires' = [expires EXCEPT ![occ[r]] = now + Ttl]
  BY DEF Claim
<1>3. DueAt(occ[r]) <= now /\ DueAt(occ[r]) \in Nat /\ now \in Nat
  BY <1>1, DueIsNat, Timing DEF IInv, AsksOnTime, Claim, TypeOK
<1>4. now + Ttl >= DueAt(occ[r]) + Ttl
  BY <1>3, Timing
<1>5. holder'[occ[r]] = r /\ expires'[occ[r]] = now + Ttl
  BY <1>1, <1>2 DEF IInv, TypeOK
<1>6. \A d \in Days : d # occ[r] => holder'[d] = holder[d] /\ expires'[d] = expires[d]
  BY <1>2 DEF IInv, TypeOK
<1> QED BY <1>1, <1>3, <1>4, <1>5, <1>6 DEF IInv, KeyOutlivesAsking


\* A step that only takes replicas out of asking and running keeps the invariant.
LEMMA Withdraw ==
    ASSUME IInv, TypeOK', UNCHANGED <<now, holder, expires, occ, started, runs>>,
           \A q \in Replicas : phase'[q] \in {"asking", "running"} => phase'[q] = phase[q]
    PROVE  IInv'
BY DEF IInv, AsksOnTime, KeyOutlivesAsking, RunsOnTime, OneRunPerOccurrence, DueAt

LEMMA TickStep == ASSUME IInv, TypeOK', Tick PROVE IInv'
<1>1. UNCHANGED <<holder, expires, phase, occ, started, runs>> /\ now' = now + 1
  BY DEF Tick, lockVars
<1>2. AsksOnTime'
  <2> SUFFICES ASSUME NEW r \in Replicas, phase[r] = "asking"
               PROVE  /\ occ[r] \in Days
                      /\ DueAt(occ[r]) <= now + 1 /\ now + 1 <= DueAt(occ[r]) + Late
    BY <1>1 DEF AsksOnTime, DueAt
  <2>1. occ[r] \in Days /\ DueAt(occ[r]) <= now
    BY DEF IInv, AsksOnTime
  <2>2. now < DueAt(occ[r]) + Late
    BY DEF Tick
  <2>3. DueAt(occ[r]) \in Nat /\ now \in Nat
    BY <2>1, DueIsNat, Timing DEF IInv, TypeOK
  <2> QED BY <2>1, <2>2, <2>3, Timing
<1>3. KeyOutlivesAsking'
  <2>1. \A d \in Days : DueAt(d) <= now => DueAt(d) <= now + 1
    BY DueIsNat, Timing DEF IInv, TypeOK
  <2> QED BY <1>1, <2>1 DEF IInv, KeyOutlivesAsking, DueAt
<1>4. RunsOnTime'
  <2> SUFFICES ASSUME NEW r \in Replicas, phase[r] = "running"
               PROVE  started[r] <= now + 1 /\ now + 1 <= started[r] + MaxRun
    BY <1>1 DEF IInv, RunsOnTime, DueAt
  <2>1. started[r] <= now
    BY DEF IInv, RunsOnTime
  <2>2. now < started[r] + MaxRun
    BY DEF Tick
  <2> QED BY <2>1, <2>2, Timing DEF IInv, TypeOK
<1> QED BY <1>1, <1>2, <1>3, <1>4 DEF IInv, OneRunPerOccurrence

LEMMA FireStep ==
    ASSUME IInv, TypeOK', NEW r \in Replicas, NEW d \in Days, Fire(r, d)
    PROVE  IInv'
<1>1. UNCHANGED <<now, holder, expires, started, runs>>
  BY DEF Fire, lockVars
<1>2. CASE phase[r] # "idle"
  BY <1>1, <1>2, Withdraw DEF Fire
<1>3. CASE phase[r] = "idle"
  <2>1. phase' = [phase EXCEPT ![r] = "asking"] /\ occ' = [occ EXCEPT ![r] = d]
    BY <1>3 DEF Fire
  <2>2. \A q \in Replicas : q # r => phase'[q] = phase[q] /\ occ'[q] = occ[q]
    BY <2>1 DEF IInv, TypeOK
  <2>3. phase'[r] = "asking" /\ occ'[r] = d
    BY <2>1 DEF IInv, TypeOK
  <2>4. DueAt(d) <= now /\ now <= DueAt(d) + Late
    BY DEF Fire
  <2>5. AsksOnTime'
    BY <1>1, <2>2, <2>3, <2>4 DEF IInv, AsksOnTime, DueAt
  <2>6. RunsOnTime'
    BY <1>1, <2>2, <2>3 DEF IInv, RunsOnTime, DueAt
  <2> QED
    BY <1>1, <2>5, <2>6 DEF IInv, KeyOutlivesAsking, OneRunPerOccurrence, DueAt
<1> QED BY <1>2, <1>3

LEMMA WinStep == ASSUME IInv, TypeOK', NEW r \in Replicas, Win(r) PROVE IInv'
<1> DEFINE d == occ[r]
<1>1. Claim(r) /\ BeginRun(r) /\ UNCHANGED <<now, occ>>
  BY DEF Win
<1>2. d \in Days /\ holder[d] = Nobody /\ runs[d] = 0
  BY <1>1, ClaimedIsFresh
<1>3. /\ \A e \in Days : holder'[e] # Nobody =>
            expires'[e] >= DueAt(e) + Ttl /\ DueAt(e) <= now
      /\ \A e \in Days : holder[e] # Nobody => holder'[e] = holder[e]
      /\ holder'[d] = r
  BY <1>1, KeysAfterClaim
<1>4. DueAt(d) <= now /\ now <= DueAt(d) + Late
  BY <1>1 DEF IInv, AsksOnTime, Claim
<1>5. /\ phase'[r] = "running" /\ started'[r] = now
      /\ \A q \in Replicas : q # r => phase'[q] = phase[q] /\ started'[q] = started[q]
  BY <1>1 DEF BeginRun, IInv, TypeOK
<1>6. runs'[d] = 1 /\ \A e \in Days : e # d => runs'[e] = runs[e]
  BY <1>1, <1>2 DEF BeginRun, IInv, TypeOK
<1>7. OneRunPerOccurrence'
  BY <1>6 DEF IInv, OneRunPerOccurrence
<1>8. KeyOutlivesAsking'
  <2>1. \A e \in Days : runs'[e] > 0 => holder'[e] # Nobody
    BY <1>3, <1>6, Timing DEF IInv, KeyOutlivesAsking
  <2> QED BY <1>1, <1>3, <2>1 DEF KeyOutlivesAsking, DueAt
<1>9. AsksOnTime'
  BY <1>1, <1>5 DEF IInv, AsksOnTime, DueAt
<1>10. RunsOnTime'
  <2> SUFFICES ASSUME NEW q \in Replicas, phase'[q] = "running"
               PROVE  /\ occ[q] \in Days
                      /\ holder'[occ[q]] = q
                      /\ DueAt(occ[q]) <= started'[q] /\ started'[q] <= DueAt(occ[q]) + Late
                      /\ started'[q] <= now /\ now <= started'[q] + MaxRun
    BY <1>1 DEF RunsOnTime, DueAt
  <2>1. CASE q = r
    <3>1. now <= now /\ now <= now + MaxRun
      BY Timing DEF IInv, TypeOK
    <3> QED BY <1>2, <1>3, <1>4, <1>5, <2>1, <3>1
  <2>2. CASE q # r
    <3>1. occ[q] \in Days /\ holder[occ[q]] = q /\ phase[q] = "running"
      BY <1>5, <2>2 DEF IInv, RunsOnTime
    <3>2. holder'[occ[q]] = q
      BY <1>3, <3>1, Timing
    <3> QED BY <1>5, <2>2, <3>1, <3>2 DEF IInv, RunsOnTime
  <2> QED BY <2>1, <2>2
<1> QED BY <1>7, <1>8, <1>9, <1>10 DEF IInv

LEMMA WinUnnoticedStep ==
    ASSUME IInv, TypeOK', NEW r \in Replicas, WinUnnoticed(r)
    PROVE  IInv'
<1>1. Claim(r) /\ UNCHANGED <<now, occ, started, runs>>
  BY DEF WinUnnoticed
<1>2. /\ \A e \in Days : holder'[e] # Nobody =>
            expires'[e] >= DueAt(e) + Ttl /\ DueAt(e) <= now
      /\ \A e \in Days : holder[e] # Nobody => holder'[e] = holder[e]
  BY <1>1, KeysAfterClaim
<1>3. \A q \in Replicas : phase'[q] \in {"asking", "running"} => phase'[q] = phase[q]
  BY DEF WinUnnoticed, IInv, TypeOK
<1>4. KeyOutlivesAsking'
  BY <1>1, <1>2 DEF IInv, KeyOutlivesAsking, DueAt
<1>5. AsksOnTime'
  BY <1>1, <1>3 DEF IInv, AsksOnTime, DueAt
<1>6. RunsOnTime'
  <2> SUFFICES ASSUME NEW q \in Replicas, phase'[q] = "running" PROVE holder'[occ[q]] = q
    BY <1>1, <1>3 DEF IInv, RunsOnTime, DueAt
  <2>1. occ[q] \in Days /\ holder[occ[q]] = q
    BY <1>3 DEF IInv, RunsOnTime
  <2> QED BY <1>2, <2>1, Timing
<1> QED BY <1>1, <1>4, <1>5, <1>6 DEF IInv, OneRunPerOccurrence

LEMMA InitHolds == Init => IInv
<1> SUFFICES ASSUME Init PROVE IInv
  OBVIOUS
<1>1. TypeOK
  BY DEF Init, TypeOK
<1>2. AsksOnTime /\ RunsOnTime
  BY DEF Init, AsksOnTime, RunsOnTime
<1>3. \A d \in Days : holder[d] = Nobody /\ runs[d] = 0
  BY DEF Init
<1>4. KeyOutlivesAsking /\ OneRunPerOccurrence
  BY <1>3 DEF KeyOutlivesAsking, OneRunPerOccurrence
<1> QED BY <1>1, <1>2, <1>4 DEF IInv

\* The invariant is inductive when a lock backend is configured.
LEMMA Inductive == ASSUME LockConfigured PROVE IInv /\ [Next]_vars => IInv'
<1> SUFFICES ASSUME IInv, [Next]_vars PROVE IInv'
  OBVIOUS
<1>0. TypeOK'
  BY TypeStep DEF IInv
<1>1. CASE Tick
  BY <1>0, <1>1, TickStep
<1>2. ASSUME NEW r \in Replicas, NEW d \in Days, Fire(r, d) PROVE IInv'
  BY <1>0, <1>2, FireStep
<1>3. ASSUME NEW r \in Replicas, NEW d \in Days, Misfire(r, d) PROVE IInv'
  BY <1>0, <1>3, Withdraw DEF Misfire, lockVars
<1>4. ASSUME NEW r \in Replicas, RunUnlocked(r) PROVE IInv'
  BY <1>4 DEF RunUnlocked
<1>5. ASSUME NEW r \in Replicas, Win(r) PROVE IInv'
  BY <1>0, <1>5, WinStep
<1>6. ASSUME NEW r \in Replicas, WinUnnoticed(r) PROVE IInv'
  BY <1>0, <1>6, WinUnnoticedStep
<1>7. ASSUME NEW r \in Replicas, Lose(r) \/ Finish(r) \/ Crash(r) PROVE IInv'
  <2>1. UNCHANGED <<now, holder, expires, occ, started, runs>>
    BY <1>7 DEF Lose, Finish, Crash, lockVars
  <2>2. phase' = [phase EXCEPT ![r] = "idle"] \/ phase' = [phase EXCEPT ![r] = "dead"]
    BY <1>7 DEF Lose, Finish, Crash
  <2>3. \A q \in Replicas : phase'[q] \in {"asking", "running"} => phase'[q] = phase[q]
    BY <2>2 DEF IInv, TypeOK
  <2> QED BY <1>0, <2>1, <2>3, Withdraw
<1>8. ASSUME NEW r \in Replicas, NEW skew \in 0 .. Late, Restart(r, skew) PROVE IInv'
  <2>1. \A q \in Replicas : phase'[q] \in {"asking", "running"} => phase'[q] = phase[q]
    BY <1>8 DEF Restart, IInv, TypeOK
  <2> QED BY <1>0, <1>8, <2>1, Withdraw DEF Restart, lockVars
<1>9. CASE UNCHANGED vars
  BY <1>0, <1>9, Withdraw DEF vars, lockVars
<1> QED
  BY <1>1, <1>2, <1>3, <1>4, <1>5, <1>6, <1>7, <1>8, <1>9 DEF Next

\* No occurrence of a nightly job is ever run twice, by any number of replicas,
\* whatever crashes, restarts, clock skew and lost replies there are.
THEOREM RunsOnce == ASSUME LockConfigured PROVE Spec => []OneRunPerOccurrence
<1>1. IInv => OneRunPerOccurrence
  BY DEF IInv
<1> QED BY <1>1, InitHolds, Inductive, PTL DEF Spec

-----------------------------------------------------------------------------
\* The replicas of the deployment are the model's.
LEMMA RunningReplicas ==
    /\ TypeOK => Running = {r \in Replicas : phase[r] = "running"}
    /\ TypeOK' => Running' = {r \in Replicas : phase'[r] = "running"}
<1>1. TypeOK => DOMAIN phase = Replicas
  BY DEF TypeOK
<1>2. TypeOK' => DOMAIN phase' = Replicas
  BY DEF TypeOK
<1> QED BY <1>1, <1>2 DEF Running, Deployed

\* A replica that begins an occurrence finds no other replica running: that one
\* would be running an earlier occurrence and have overrun into this one, or a
\* later one, begun before it was due.
LEMMA NobodyElseRuns ==
    ASSUME IInv, NEW r \in Replicas, Claim(r)
    PROVE  Running = {}
<1> SUFFICES ASSUME NEW s \in Replicas, phase[s] = "running" PROVE FALSE
  BY RunningReplicas DEF IInv
<1> DEFINE d == occ[r]
           e == occ[s]
<1>1. d \in Days /\ holder[d] = Nobody /\ DueAt(d) <= now /\ now <= DueAt(d) + Late
  BY ClaimedIsFresh DEF IInv, AsksOnTime, Claim
<1>2. /\ e \in Days /\ holder[e] = s
      /\ DueAt(e) <= started[s] /\ started[s] <= DueAt(e) + Late
      /\ started[s] <= now /\ now <= started[s] + MaxRun
  BY DEF IInv, RunsOnTime
<1>3. d # e
  BY <1>1, <1>2, Timing
<1>4. /\ d \in Nat /\ e \in Nat /\ DueAt(d) \in Nat /\ DueAt(e) \in Nat
      /\ now \in Nat /\ started[s] \in Nat
  BY <1>1, <1>2, DueIsNat, Timing DEF IInv, TypeOK
<1> HIDE DEF d, e
<1>5. CASE d < e
  <2>1. DueAt(d) + Day <= DueAt(e)
    BY <1>4, <1>5, DueInOrder
  <2> QED BY <1>1, <1>2, <1>4, <2>1, Timing
<1>6. CASE e < d
  <2>1. DueAt(e) + Day <= DueAt(d)
    BY <1>4, <1>6, DueInOrder
  <2> QED BY <1>1, <1>2, <1>4, <2>1, Timing
<1> QED BY <1>3, <1>4, <1>5, <1>6

\* No occurrence after the one being claimed has run: it is not yet due.
LEMMA LaterHasNotRun ==
    ASSUME IInv, NEW r \in Replicas, Claim(r)
    PROVE  \A e \in Ran : e < occ[r]
<1> SUFFICES ASSUME NEW e \in Ran PROVE e < occ[r]
  OBVIOUS
<1> DEFINE d == occ[r]
<1>1. d \in Days /\ runs[d] = 0 /\ now <= DueAt(d) + Late
  BY ClaimedIsFresh DEF IInv, AsksOnTime, Claim
<1>2. e \in Days /\ runs[e] > 0 /\ DueAt(e) <= now
  BY DEF Ran, IInv, KeyOutlivesAsking
<1>3. d # e
  BY <1>1, <1>2
<1>4. d \in Nat /\ e \in Nat /\ DueAt(d) \in Nat /\ DueAt(e) \in Nat /\ now \in Nat
  BY <1>1, <1>2, DueIsNat, Timing DEF IInv, TypeOK
<1> HIDE DEF d
<1>5. ~(d < e)
  <2> SUFFICES ASSUME d < e PROVE FALSE
    OBVIOUS
  <2>1. DueAt(d) + Day <= DueAt(e)
    BY <1>4, DueInOrder
  <2> QED BY <1>1, <1>2, <1>4, <2>1, Timing
<1>6. d \in Nat /\ e \in Nat
  BY <1>4
<1>7. e < d
  BY <1>3, <1>5, <1>6
<1> QED BY <1>7 DEF d

LEMMA RefinementInit == Init => Job!Init
<1> SUFFICES ASSUME Init PROVE Job!Init
  OBVIOUS
<1>1. Running = {}
  BY InitHolds, RunningReplicas DEF Init, IInv
<1>2. \A d \in Days : runs[d] = 0
  BY DEF Init
<1>3. Ran = {}
  BY <1>2 DEF Ran
<1> QED BY <1>1, <1>3 DEF Job!Init

LEMMA RefinementStep ==
    ASSUME LockConfigured, IInv, IInv', [Next]_vars
    PROVE  [Job!Next]_<<Running, Ran>>
<1>1. CASE \E r \in Replicas : Win(r)
  <2>1. PICK r \in Replicas : Win(r)
    BY <1>1
  <2>2. Claim(r) /\ BeginRun(r)
    BY <2>1 DEF Win
  <2>3. occ[r] \in Days /\ runs[occ[r]] = 0 /\ Running = {} /\ \A e \in Ran : e < occ[r]
    BY <2>2, ClaimedIsFresh, NobodyElseRuns, LaterHasNotRun
  <2>4. Running' = {r}
    BY <2>2, <2>3, RunningReplicas DEF BeginRun, IInv, TypeOK
  <2>5. runs'[occ[r]] = 1 /\ \A e \in Days : e # occ[r] => runs'[e] = runs[e]
    BY <2>2, <2>3 DEF BeginRun, IInv, TypeOK
  <2>6. Ran' = Ran \cup {occ[r]}
    BY <2>3, <2>5 DEF Ran
  <2>7. Job!Begin(r, occ[r])
    BY <2>3, <2>4, <2>6 DEF Job!Begin
  <2> QED BY <2>3, <2>7 DEF Job!Next
<1>2. CASE \E r \in Replicas : Finish(r) \/ Crash(r)
  <2>1. PICK r \in Replicas : Finish(r) \/ Crash(r)
    BY <1>2
  <2>2. /\ runs' = runs
        /\ phase' = [phase EXCEPT ![r] = "idle"] \/ phase' = [phase EXCEPT ![r] = "dead"]
    BY <2>1 DEF Finish, Crash
  <2>3. Running' = Running \ {r} /\ Ran' = Ran
    BY <2>2, RunningReplicas DEF Ran, IInv, TypeOK
  <2>4. CASE r \in Running
    BY <2>3, <2>4 DEF Job!Next, Job!End
  <2> QED BY <2>3, <2>4
<1>3. ASSUME runs' = runs, \A q \in Replicas : phase'[q] = "running" <=> phase[q] = "running"
      PROVE  UNCHANGED <<Running, Ran>>
  BY <1>3, RunningReplicas DEF Ran, IInv
<1>4. CASE \E r \in Replicas, d \in Days : Fire(r, d) \/ Misfire(r, d)
  BY <1>3, <1>4 DEF Fire, Misfire, IInv, TypeOK
<1>5. CASE \E r \in Replicas : WinUnnoticed(r) \/ Lose(r)
  BY <1>3, <1>5 DEF WinUnnoticed, Claim, Lose, IInv, TypeOK
<1>6. CASE \E r \in Replicas, skew \in 0 .. Late : Restart(r, skew)
  BY <1>3, <1>6 DEF Restart, IInv, TypeOK
<1>7. CASE Tick \/ UNCHANGED vars
  BY <1>3, <1>7 DEF Tick, vars
<1>8. ~ \E r \in Replicas : RunUnlocked(r)
  BY DEF RunUnlocked
<1> QED
  BY <1>1, <1>2, <1>4, <1>5, <1>6, <1>7, <1>8 DEF Next

\* The lock implements the exclusive, ordered nightly job: two replicas never run
\* the job at once, and never an occurrence after a later one.
THEOREM ImplementsNightlyJob == ASSUME LockConfigured PROVE Spec => OneReplicaInOrder
<1> QED
  BY RefinementInit, RefinementStep, InitHolds, Inductive, PTL DEF Spec, OneReplicaInOrder, Job!Spec

-----------------------------------------------------------------------------
(***************************************************************************)
(* A fault costs one night.  The model does not record what a fault fell   *)
(* on: the invariant says that replicas F and occurrences U can be blamed  *)
(* for all faults, one fault each.  A replica that is not blamed has asked *)
(* for every occurrence it was there for, and an occurrence that is        *)
(* claimed but not run is one of U.                                        *)
(***************************************************************************)
Answered(r, d) == holder[d] # Nobody \/ (phase[r] = "asking" /\ occ[r] = d)

Punctual(r) ==
    /\ phase[r] # "dead"
    /\ phase[r] \in {"asking", "running"} => occ[r] <= fired[r]
    /\ \A d \in Days : /\ d <= fired[r] => Answered(r, d)
                       /\ fired[r] < d => now <= DueAt(d) + Late

Blame(F, U) ==
    /\ IsFiniteSet(F) /\ IsFiniteSet(U)
    /\ Cardinality(F) + Cardinality(U) <= faults
    /\ \A r \in Replicas \ F : Punctual(r)
    /\ \A d \in Days : holder[d] # Nobody => runs[d] > 0 \/ d \in U

FInv ==
    /\ IInv /\ faults <= MaxFaults
    /\ \E F \in SUBSET Replicas, U \in SUBSET Days : Blame(F, U)

LEMMA BlameReplica ==
    ASSUME NEW F, NEW U, NEW x, IsFiniteSet(F), IsFiniteSet(U), NEW n \in Nat,
           Cardinality(F) + Cardinality(U) <= n
    PROVE  IsFiniteSet(F \cup {x}) /\ Cardinality(F \cup {x}) + Cardinality(U) <= n + 1
<1>1. /\ IsFiniteSet(F \cup {x})
      /\ Cardinality(F \cup {x}) = IF x \in F THEN Cardinality(F) ELSE Cardinality(F) + 1
  BY FS_AddElement
<1>2. Cardinality(F) \in Nat /\ Cardinality(U) \in Nat
  BY FS_CardinalityType
<1> QED BY <1>1, <1>2

\* A replica that does nothing stays punctual: keys stay set.
LEMMA StaysPunctual ==
    ASSUME NEW r \in Replicas, Punctual(r), UNCHANGED now,
           phase'[r] = phase[r], occ'[r] = occ[r], fired'[r] = fired[r],
           \A d \in Days : holder[d] # Nobody => holder'[d] # Nobody
    PROVE  Punctual(r)'
BY DEF Punctual, Answered, DueAt

\* A step of a replica that costs no fault, and one that costs a fault blamed on it.
LEMMA BlameKept ==
    ASSUME NEW F, NEW U, Blame(F, U), faults' = faults,
           \A r \in Replicas \ F : Punctual(r)',
           \A d \in Days : holder'[d] # Nobody => runs'[d] > 0 \/ d \in U
    PROVE  Blame(F, U)'
BY DEF Blame

LEMMA BlameAdded ==
    ASSUME NEW F, NEW U, NEW x \in Replicas, Blame(F, U), faults \in Nat, faults' = faults + 1,
           UNCHANGED <<now, holder, runs>>,
           \A r \in Replicas : r # x => /\ phase'[r] = phase[r] /\ occ'[r] = occ[r]
                                        /\ fired'[r] = fired[r]
    PROVE  Blame(F \cup {x}, U)'
<1>1. IsFiniteSet(F \cup {x}) /\ Cardinality(F \cup {x}) + Cardinality(U) <= faults'
  BY BlameReplica DEF Blame
<1>2. \A r \in Replicas \ (F \cup {x}) : Punctual(r)'
  BY StaysPunctual DEF Blame
<1> QED BY <1>1, <1>2 DEF Blame

LEMMA BlameTick ==
    ASSUME IInv, NEW F \in SUBSET Replicas, NEW U \in SUBSET Days, Blame(F, U), Tick
    PROVE  Blame(F, U)'
<1>1. UNCHANGED <<holder, phase, occ, fired, runs, faults>> /\ now' = now + 1
  BY DEF Tick, lockVars
<1>2. ASSUME NEW r \in Replicas \ F PROVE Punctual(r)'
  <2>1. ASSUME NEW d \in Days, fired[r] < d PROVE now + 1 <= DueAt(d) + Late
    <3>1. now < DueAt(d) + Late
      BY <2>1 DEF Tick, Blame, Punctual
    <3>2. DueAt(d) \in Nat /\ now \in Nat
      BY DueIsNat, Timing DEF IInv, TypeOK
    <3> QED BY <3>1, <3>2, Timing
  <2> QED BY <1>1, <2>1 DEF Blame, Punctual, Answered, DueAt
<1> QED BY <1>1, <1>2, BlameKept DEF Blame

\* A punctual replica is idle when an occurrence falls due, and has answered all
\* that came before it.
LEMMA ReadyToFire ==
    ASSUME IInv, NEW r \in Replicas, Punctual(r), NEW d \in Days, fired[r] < d,
           DueAt(d) <= now, now <= DueAt(d) + Late
    PROVE  phase[r] = "idle" /\ \A e \in Days : e < d => e <= fired[r]
<1>1. /\ d \in Nat /\ fired[r] \in Nat /\ now \in Nat /\ DueAt(d) \in Nat
  BY DueIsNat, Timing DEF IInv, TypeOK
<1>2. ASSUME NEW e \in Days, e < d PROVE DueAt(e) + Late + MaxRun < now
  <2>1. DueAt(e) + Day <= DueAt(d)
    BY <1>1, <1>2, DueInOrder, Timing
  <2>2. DueAt(e) \in Nat
    BY DueIsNat, Timing
  <2> QED BY <1>1, <2>1, <2>2, Timing
<1>3. ASSUME NEW e \in Days, d < e PROVE now < DueAt(e)
  <2>1. DueAt(d) + Day <= DueAt(e)
    BY <1>1, <1>3, DueInOrder, Timing
  <2>2. DueAt(e) \in Nat
    BY DueIsNat, Timing
  <2> QED BY <1>1, <2>1, <2>2, Timing
<1>4. \A e \in Days : e < d => e <= fired[r]
  <2> SUFFICES ASSUME NEW e \in Days, e < d, fired[r] < e PROVE FALSE
    BY <1>1, Timing
  <2>1. now <= DueAt(e) + Late
    BY DEF Punctual
  <2>2. DueAt(e) \in Nat
    BY DueIsNat, Timing
  <2> QED BY <1>1, <1>2, <2>1, <2>2, Timing
<1>5. ASSUME phase[r] \in {"asking", "running"} PROVE FALSE
  <2>1. /\ occ[r] \in Days /\ DueAt(occ[r]) <= now /\ now <= DueAt(occ[r]) + Late + MaxRun
    <3>1. CASE phase[r] = "asking"
      <4>1. occ[r] \in Days /\ DueAt(occ[r]) <= now /\ now <= DueAt(occ[r]) + Late
        BY <3>1 DEF IInv, AsksOnTime
      <4>2. DueAt(occ[r]) \in Nat
        BY <4>1, DueIsNat, Timing
      <4> QED BY <1>1, <4>1, <4>2, Timing
    <3>2. CASE phase[r] = "running"
      <4>1. /\ occ[r] \in Days
            /\ DueAt(occ[r]) <= started[r] /\ started[r] <= DueAt(occ[r]) + Late
            /\ started[r] <= now /\ now <= started[r] + MaxRun
        BY <3>2 DEF IInv, RunsOnTime
      <4>2. DueAt(occ[r]) \in Nat /\ started[r] \in Nat
        BY <4>1, DueIsNat, Timing DEF IInv, TypeOK
      <4> QED BY <1>1, <4>1, <4>2, Timing
    <3> QED BY <1>5, <3>1, <3>2
  <2>2. DueAt(occ[r]) \in Nat /\ occ[r] \in Nat
    BY <2>1, DueIsNat, Timing
  <2>3. occ[r] <= fired[r]
    BY <1>5 DEF Punctual
  <2>4. occ[r] < d
    BY <1>1, <2>2, <2>3
  <2> QED BY <1>1, <1>2, <2>1, <2>2, <2>4, Timing
<1>6. phase[r] = "idle"
  BY <1>5 DEF Punctual, IInv, TypeOK
<1> QED BY <1>4, <1>6

LEMMA BlameFire ==
    ASSUME IInv, NEW F \in SUBSET Replicas, NEW U \in SUBSET Days, Blame(F, U),
           NEW r \in Replicas, NEW d \in Days, Fire(r, d)
    PROVE  Blame(F, U)'
<1>1. /\ UNCHANGED <<now, holder, runs, faults>>
      /\ fired[r] < d /\ DueAt(d) <= now /\ now <= DueAt(d) + Late
      /\ fired' = [fired EXCEPT ![r] = d]
      /\ IF phase[r] = "idle"
         THEN phase' = [phase EXCEPT ![r] = "asking"] /\ occ' = [occ EXCEPT ![r] = d]
         ELSE UNCHANGED <<phase, occ>>
  BY DEF Fire, lockVars
<1>2. ASSUME NEW s \in Replicas \ F, s # r PROVE Punctual(s)'
  BY <1>1, <1>2, StaysPunctual DEF Blame, IInv, TypeOK
<1>3. ASSUME r \notin F PROVE Punctual(r)'
  <2>1. Punctual(r)
    BY <1>3 DEF Blame
  <2>2. phase[r] = "idle" /\ \A e \in Days : e < d => e <= fired[r]
    BY <1>1, <2>1, ReadyToFire
  <2>3. phase'[r] = "asking" /\ occ'[r] = d /\ fired'[r] = d
    BY <1>1, <2>2 DEF IInv, TypeOK
  <2>4. d \in Nat /\ fired[r] \in Nat /\ Days \subseteq Nat
    BY Timing DEF IInv, TypeOK
  <2>5. ASSUME NEW e \in Days, e <= d PROVE holder[e] # Nobody \/ e = d
    <3>1. CASE e < d
      BY <2>1, <2>2, <3>1 DEF Punctual, Answered
    <3> QED BY <2>4, <2>5, <3>1
  <2>6. ASSUME NEW e \in Days, d < e PROVE now <= DueAt(e) + Late
    <3>1. fired[r] < e
      BY <1>1, <2>4, <2>6
    <3> QED BY <2>1, <3>1 DEF Punctual
  <2> QED BY <1>1, <2>3, <2>4, <2>5, <2>6 DEF Punctual, Answered, DueAt
<1> QED BY <1>1, <1>2, <1>3, BlameKept DEF Blame

\* Steps that withdraw a request which has been answered, or end a run.
LEMMA BlameStops ==
    ASSUME IInv, NEW F \in SUBSET Replicas, NEW U \in SUBSET Days, Blame(F, U),
           NEW r \in Replicas, phase' = [phase EXCEPT ![r] = "idle"],
           UNCHANGED <<now, holder, occ, fired, runs, faults>>,
           phase[r] = "asking" => holder[occ[r]] # Nobody
    PROVE  Blame(F, U)'
<1>1. ASSUME NEW s \in Replicas \ F, s # r PROVE Punctual(s)'
  BY <1>1, StaysPunctual DEF Blame, IInv, TypeOK
<1>2. ASSUME r \notin F PROVE Punctual(r)'
  <2>1. Punctual(r) /\ phase'[r] = "idle"
    BY <1>2 DEF Blame, IInv, TypeOK
  <2> QED BY <2>1 DEF Punctual, Answered, DueAt
<1> QED BY <1>1, <1>2, BlameKept DEF Blame

LEMMA BlameClaim ==
    ASSUME IInv, NEW F \in SUBSET Replicas, NEW U \in SUBSET Days, Blame(F, U),
           NEW r \in Replicas, Claim(r), UNCHANGED <<now, occ, fired>>,
           \E p \in {"running", "idle"} : phase' = [phase EXCEPT ![r] = p]
    PROVE  /\ \A s \in Replicas \ F : Punctual(s)'
           /\ \A d \in Days : holder'[d] # Nobody => holder[d] # Nobody \/ d = occ[r]
<1>1. /\ \A d \in Days : holder[d] # Nobody => holder'[d] # Nobody
      /\ holder'[occ[r]] # Nobody
  BY KeysAfterClaim, Timing DEF IInv, TypeOK
<1>2. ASSUME NEW s \in Replicas \ F, s # r PROVE Punctual(s)'
  BY <1>1, <1>2, StaysPunctual DEF Blame, IInv, TypeOK
<1>3. ASSUME r \notin F PROVE Punctual(r)'
  <2>1. Punctual(r) /\ phase'[r] \in {"running", "idle"} /\ phase[r] = "asking"
    BY <1>3 DEF Blame, IInv, TypeOK, Claim
  <2> QED BY <1>1, <2>1 DEF Punctual, Answered, DueAt
<1>4. \A d \in Days : holder'[d] # Nobody => holder[d] # Nobody \/ d = occ[r]
  BY DEF Claim, IInv, TypeOK
<1> QED BY <1>2, <1>3, <1>4

LEMMA BlameStep ==
    ASSUME LockConfigured
    PROVE  FInv /\ [Next]_vars => FInv'
<1> SUFFICES ASSUME FInv, [Next]_vars PROVE FInv'
  OBVIOUS
<1>1. IInv /\ IInv' /\ faults \in Nat
  BY Inductive DEF FInv, IInv, TypeOK
<1>2. faults' <= MaxFaults
  BY <1>1, Timing
  DEF FInv, Next, Tick, Fire, Misfire, RunUnlocked, Win, WinUnnoticed, Lose, Finish, Crash, Restart,
      Spend, vars
<1>3. PICK F \in SUBSET Replicas, U \in SUBSET Days : Blame(F, U)
  BY DEF FInv
<1> SUFFICES \E G \in SUBSET Replicas, V \in SUBSET Days : Blame(G, V)'
  BY <1>1, <1>2 DEF FInv
<1>4. CASE Tick
  BY <1>1, <1>3, <1>4, BlameTick
<1>5. ASSUME NEW r \in Replicas, NEW d \in Days, Fire(r, d) PROVE Blame(F, U)'
  BY <1>1, <1>3, <1>5, BlameFire
<1>6. ASSUME NEW r \in Replicas, NEW d \in Days, Misfire(r, d) PROVE Blame(F \cup {r}, U)'
  <2>1. /\ UNCHANGED <<now, holder, runs, phase, occ>> /\ faults' = faults + 1
        /\ \A s \in Replicas : s # r => fired'[s] = fired[s]
    BY <1>1, <1>6 DEF Misfire, Spend, lockVars, IInv, TypeOK
  <2> QED BY <1>1, <1>3, <2>1, BlameAdded
<1>7. ASSUME NEW r \in Replicas, Win(r) PROVE Blame(F, U)'
  <2>1. Claim(r) /\ UNCHANGED <<now, occ, fired, faults>>
        /\ phase' = [phase EXCEPT ![r] = "running"] /\ runs' = [runs EXCEPT ![occ[r]] = @ + 1]
    BY <1>7 DEF Win, BeginRun
  <2>2. occ[r] \in Days /\ runs[occ[r]] = 0
    BY <1>1, <2>1, ClaimedIsFresh
  <2>3. runs'[occ[r]] > 0 /\ \A d \in Days : d # occ[r] => runs'[d] = runs[d]
    BY <1>1, <2>1, <2>2 DEF IInv, TypeOK
  <2>4. /\ \A s \in Replicas \ F : Punctual(s)'
        /\ \A d \in Days : holder'[d] # Nobody => holder[d] # Nobody \/ d = occ[r]
    BY <1>1, <1>3, <2>1, BlameClaim
  <2>5. \A d \in Days : holder'[d] # Nobody => runs'[d] > 0 \/ d \in U
    BY <1>3, <2>3, <2>4 DEF Blame
  <2> QED BY <1>3, <2>1, <2>4, <2>5, BlameKept
<1>8. ASSUME NEW r \in Replicas, WinUnnoticed(r)
      PROVE  \E d \in Days : Blame(F, U \cup {d})'
  <2>1. Claim(r) /\ UNCHANGED <<now, occ, fired, runs>> /\ faults' = faults + 1
        /\ phase' = [phase EXCEPT ![r] = "idle"]
    BY <1>8 DEF WinUnnoticed, Spend
  <2>2. PICK claimed \in Days : claimed = occ[r]
    BY <1>1, <2>1, ClaimedIsFresh
  <2>3. /\ \A s \in Replicas \ F : Punctual(s)'
        /\ \A d \in Days : holder'[d] # Nobody => holder[d] # Nobody \/ d = claimed
    BY <1>1, <1>3, <2>1, <2>2, BlameClaim
  <2>4. /\ IsFiniteSet(F) /\ IsFiniteSet(U)
        /\ Cardinality(F) \in Nat /\ Cardinality(U) \in Nat
        /\ Cardinality(U) + Cardinality(F) <= faults
    BY <1>3, FS_CardinalityType DEF Blame
  <2>5. /\ IsFiniteSet(U \cup {claimed})
        /\ Cardinality(U \cup {claimed}) + Cardinality(F) <= faults + 1
    BY <1>1, <2>4, BlameReplica
  <2>6. Cardinality(U \cup {claimed}) \in Nat
    BY <2>5, FS_CardinalityType
  <2>7. Cardinality(F) + Cardinality(U \cup {claimed}) <= faults'
    BY <2>1, <2>4, <2>5, <2>6
  <2>8. \A d \in Days : holder'[d] # Nobody => runs'[d] > 0 \/ d \in U \cup {claimed}
    BY <1>3, <2>1, <2>3 DEF Blame
  <2> QED BY <2>2, <2>3, <2>4, <2>5, <2>7, <2>8 DEF Blame
<1>9. ASSUME NEW r \in Replicas, Lose(r)
      PROVE  Blame(F, U)' \/ Blame(F \cup {r}, U)'
  <2>1. /\ UNCHANGED <<now, holder, runs, occ, fired>> /\ phase' = [phase EXCEPT ![r] = "idle"]
        /\ phase[r] = "asking" /\ ((~Free(occ[r]) /\ faults' = faults) \/ faults' = faults + 1)
    BY <1>9 DEF Lose, Spend, lockVars
  <2>2. CASE ~Free(occ[r]) /\ faults' = faults
    BY <1>1, <1>3, <2>1, <2>2, BlameStops DEF Free
  <2>3. CASE faults' = faults + 1
    <3>1. \A s \in Replicas : s # r => phase'[s] = phase[s]
      BY <2>1
    <3> QED BY <1>1, <1>3, <2>1, <2>3, <3>1, BlameAdded
  <2> QED BY <2>1, <2>2, <2>3
<1>10. ASSUME NEW r \in Replicas, Finish(r) PROVE Blame(F, U)'
  BY <1>1, <1>3, <1>10, BlameStops DEF Finish, lockVars
<1>11. ASSUME NEW r \in Replicas, Crash(r) PROVE Blame(F \cup {r}, U)'
  <2>1. /\ UNCHANGED <<now, holder, runs, occ, fired>> /\ faults' = faults + 1
        /\ \A s \in Replicas : s # r => phase'[s] = phase[s]
    BY <1>11 DEF Crash, Spend, lockVars
  <2> QED BY <1>1, <1>3, <2>1, BlameAdded
<1>12. ASSUME NEW r \in Replicas, NEW skew \in 0 .. Late, Restart(r, skew) PROVE Blame(F, U)'
  <2>1. /\ UNCHANGED <<now, holder, runs, occ, faults>> /\ r \in F
        /\ \A s \in Replicas : s # r => phase'[s] = phase[s] /\ fired'[s] = fired[s]
    BY <1>1, <1>3, <1>12 DEF Restart, lockVars, Blame, Punctual, IInv, TypeOK
  <2>2. \A s \in Replicas \ F : Punctual(s)'
    BY <1>3, <2>1, StaysPunctual DEF Blame
  <2> QED BY <1>3, <2>1, <2>2, BlameKept DEF Blame
<1>13. CASE UNCHANGED vars
  <2>1. UNCHANGED <<now, holder, phase, occ, fired, runs, faults>>
    BY <1>13 DEF vars
  <2>2. \A s \in Replicas \ F : Punctual(s)'
    BY <1>3, <2>1, StaysPunctual DEF Blame
  <2> QED BY <1>3, <2>1, <2>2, BlameKept DEF Blame
<1>14. ~ \E r \in Replicas : RunUnlocked(r)
  BY DEF RunUnlocked
<1>15. CASE \E r \in Replicas : WinUnnoticed(r)
  <2>1. PICK r \in Replicas : WinUnnoticed(r)
    BY <1>15
  <2>2. PICK d \in Days : Blame(F, U \cup {d})'
    BY <1>8, <2>1
  <2>3. U \cup {d} \in SUBSET Days
    OBVIOUS
  <2> QED BY <2>2, <2>3
<1>16. CASE \E r \in Replicas : Lose(r) \/ Crash(r)
  <2>1. PICK r \in Replicas : Lose(r) \/ Crash(r)
    BY <1>16
  <2>2. Blame(F, U)' \/ Blame(F \cup {r}, U)'
    BY <1>9, <1>11, <2>1
  <2>3. F \cup {r} \in SUBSET Replicas
    OBVIOUS
  <2> QED BY <2>2, <2>3
<1>17. CASE \E r \in Replicas, d \in Days : Fire(r, d) \/ Misfire(r, d)
  <2>1. PICK r \in Replicas, d \in Days : Fire(r, d) \/ Misfire(r, d)
    BY <1>17
  <2>2. Blame(F, U)' \/ Blame(F \cup {r}, U)'
    BY <1>5, <1>6, <2>1
  <2>3. F \cup {r} \in SUBSET Replicas
    OBVIOUS
  <2> QED BY <2>2, <2>3
<1> QED
  BY <1>4, <1>7, <1>10, <1>12, <1>13, <1>14, <1>15, <1>16, <1>17 DEF Next

LEMMA BlameInit == Init => FInv
<1> SUFFICES ASSUME Init PROVE FInv
  OBVIOUS
<1>1. IInv /\ 0 <= MaxFaults
  BY InitHolds, Timing
<1>2. IsFiniteSet({}) /\ Cardinality({}) = 0
  BY FS_EmptySet
<1>3. ASSUME NEW r \in Replicas PROVE Punctual(r)
  <2>1. \A d \in Days : d \in Nat /\ ~(d <= 0) /\ DueAt(d) \in Nat
    BY DueIsNat, Timing DEF Days
  <2>2. \A d \in Days : 0 <= DueAt(d) + Late
    BY <2>1, Timing
  <2> QED BY <2>1, <2>2 DEF Init, Punctual
<1>4. Blame({}, {})
  BY <1>2, <1>3 DEF Init, Blame
<1> QED BY <1>1, <1>4 DEF Init, FInv

\* With fewer faults than replicas one replica is punctual, and has asked for every
\* occurrence that is over: what has not run is in U.
LEMMA MissedAreBlamed ==
    ASSUME IsFiniteSet(Replicas)
    PROVE  FInv => FaultCostsOneNight
<1> SUFFICES ASSUME FInv, MaxFaults < Cardinality(Deployed)
             PROVE  Cardinality(Missed) <= faults
  BY DEF FaultCostsOneNight
<1>1. PICK F \in SUBSET Replicas, U \in SUBSET Days : Blame(F, U)
  BY DEF FInv
<1>2. Deployed = Replicas
  BY DEF Deployed, FInv, IInv, TypeOK
<1>3. /\ Cardinality(F) \in Nat /\ Cardinality(U) \in Nat /\ Cardinality(Replicas) \in Nat
      /\ Cardinality(F) + Cardinality(U) <= faults /\ faults \in Nat /\ faults <= MaxFaults
  BY <1>1, FS_CardinalityType DEF Blame, FInv, IInv, TypeOK
<1>4. F # Replicas
  BY <1>2, <1>3, Timing
<1>5. PICK r \in Replicas \ F : Punctual(r)
  BY <1>1, <1>4 DEF Blame
<1>6. ASSUME NEW d \in Missed PROVE d \in U
  <2>1. d \in Days /\ now > DueAt(d) + Late /\ runs[d] = 0
    BY DEF Missed
  <2>2. d \in Nat /\ fired[r] \in Nat /\ now \in Nat /\ DueAt(d) \in Nat
    BY <2>1, DueIsNat, Timing DEF FInv, IInv, TypeOK
  <2>3. ~(now <= DueAt(d) + Late)
    BY <2>1, <2>2, Timing
  <2>4. d <= fired[r]
    BY <1>5, <2>1, <2>2, <2>3 DEF Punctual
  <2>5. ~(phase[r] = "asking" /\ occ[r] = d)
    BY <2>3 DEF FInv, IInv, AsksOnTime
  <2>6. holder[d] # Nobody
    BY <1>5, <2>1, <2>4, <2>5 DEF Punctual, Answered
  <2> QED BY <1>1, <2>1, <2>6 DEF Blame
<1>7. Missed \subseteq U /\ IsFiniteSet(U)
  BY <1>1, <1>6 DEF Blame
<1>8. Cardinality(Missed) <= Cardinality(U) /\ Cardinality(Missed) \in Nat
  BY <1>7, FS_Subset, FS_CardinalityType
<1> QED BY <1>3, <1>8

\* With fewer faults than replicas, crashes, misfires, lost replies and unreachable
\* Redis included, a night is missed only for a fault of its own.
THEOREM OneNightPerFault ==
    ASSUME LockConfigured, IsFiniteSet(Replicas)
    PROVE  Spec => []FaultCostsOneNight
<1> QED BY BlameInit, BlameStep, MissedAreBlamed, PTL DEF Spec
=============================================================================
