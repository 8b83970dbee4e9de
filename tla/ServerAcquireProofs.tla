------------------------ MODULE ServerAcquireProofs ------------------------
(***************************************************************************)
(* Theorems about Deployer.Run up to the scripts, for every configuration, *)
(* snapshot, batch size, number of rounds and of attempts: the transfers   *)
(* to the vaults, the machines acquired and their Name tags, and what the  *)
(* scripts are told.                                                       *)
(***************************************************************************)
EXTENDS ServerAcquire, BatchRunnerProofs, SequenceLemmas

----------------------------------------------------------------------------
(* ChainPlan: the positions of a service and their groups. *)

LEMMA Division ==
    ASSUME NEW G \in Nat \ {0}, NEW i \in Nat
    PROVE  /\ i \div G \in Nat /\ i % G \in 0..(G - 1)
           /\ i = (i \div G) * G + (i % G)
<1>1. G \in Nat /\ G > 0
  OBVIOUS
<1>2. i \div G \in Int /\ i \div G >= 0
  BY <1>1
<1>3. i % G \in Int /\ 0 <= i % G /\ i % G < G
  BY <1>1
<1>4. i = (i \div G) * G + (i % G)
  BY <1>1, <1>2, <1>3, SMTT(60)
<1>5. i \div G \in Nat
  BY <1>2
<1>6. i % G \in 0..(G - 1)
  BY <1>3
<1> QED
  BY <1>4, <1>5, <1>6

\* The division is determined by its quotient and remainder.
LEMMA DivisionOf ==
    ASSUME NEW G \in Nat \ {0}, NEW q \in Nat, NEW r \in 0..(G - 1)
    PROVE  (q * G + r) \div G = q /\ (q * G + r) % G = r
<1>1. PICK i \in Nat : i = G * q + r
  OBVIOUS
<1>2. i \div G = q /\ i % G = r
  BY <1>1
<1>3. q * G + r = i
  BY <1>1
<1> QED
  BY <1>2, <1>3

\* A number below a multiple of G has its whole group below it.
LEMMA GroupBelow ==
    ASSUME NEW G \in Nat \ {0}, NEW n \in Nat, n % G = 0, NEW i \in 0..(n - 1)
    PROVE  (i \div G) * G + G <= n
<1>0. i \in Nat
  OBVIOUS
<1>1. PICK p \in Nat : p = i \div G /\ \E r \in 0..(G - 1) : i = p * G + r
  <2>1. i \div G \in Nat /\ i % G \in 0..(G - 1)
    BY <1>0, Division
  <2>2. i = (i \div G) * G + (i % G)
    BY <1>0, Division
  <2> QED
    BY <2>1, <2>2
<1>2. PICK q \in Nat : n = q * G
  <2>1. n \div G \in Nat
    BY Division
  <2>2. n = (n \div G) * G + (n % G)
    BY Division
  <2>3. (n \div G) * G \in Nat
    BY <2>1
  <2>4. n = (n \div G) * G
    BY <2>2, <2>3
  <2> QED
    BY <2>1, <2>4
<1>3. p < q
  <2>1. p * G < q * G
    BY <1>1, <1>2
  <2>2. q <= p => q * G <= p * G
    BY <1>1, <1>2
  <2> QED
    BY <1>1, <1>2, <2>1, <2>2
<1>4. p * G + G <= q * G
  BY <1>1, <1>2, <1>3
<1> QED
  BY <1>1, <1>2, <1>4

LEMMA ServiceType ==
    ASSUME NEW s \in DOMAIN Services
    PROVE  /\ Services[s] \in Service /\ Services[s].count \in Nat /\ Services[s].type \in Types
           /\ Target(s) \in Nat
           /\ Services[s].type = "xjst" => Target(s) % GroupSize = 0
<1>1. Services[s] \in Service
  BY ServicesAssumption
<1> QED
  BY <1>1, ServicesAssumption DEF Service, Target

\* The vaults.
Vaults == Types \X Nat

LEMMA VaultType ==
    ASSUME NEW s \in DOMAIN Services, NEW i \in Positions(s)
    PROVE  VaultKey(Services[s].type, VaultIndex(Services[s].type, i)) \in Vaults
<1>0. i \in Nat
  BY ServiceType DEF Positions
<1>1. i \in Nat /\ i \div GroupSize \in Nat
  BY <1>0, ServicesAssumption, Division
<1> QED
  BY <1>1, ServiceType
  DEF VaultKey, VaultIndex, GroupId, L2ChainID, FirstChainID, Vaults

LEMMA PaymentsType ==
    ASSUME NEW s \in DOMAIN Services
    PROVE  Payments(s) \subseteq Vaults /\ IsFiniteSet(Payments(s))
<1>1. IsFiniteSet(PaidPositions(s))
  <2>1. IsFiniteSet(Positions(s))
    <3>1. 0 \in Int /\ Services[s].count - 1 \in Int
      BY ServiceType
    <3> QED
      BY <3>1, FS_Interval DEF Positions
  <2> QED
    BY <2>1, FS_Subset DEF PaidPositions
<1> DEFINE key == [i \in PaidPositions(s) |->
                       VaultKey(Services[s].type, VaultIndex(Services[s].type, i))]
<1>2. IsFiniteSet(Range(key))
  BY <1>1, FiniteRange
<1>3. Range(key) = {VaultKey(Services[s].type, VaultIndex(Services[s].type, i)) :
                      i \in PaidPositions(s)}
  BY DEF Range
<1> QED
  BY <1>2, <1>3, FS_EmptySet, VaultType DEF Payments, PaidPositions

\* The vault of each position of a funded service is one of those paid: a group is paid
\* for at its first position.
LEMMA EveryPositionPaid ==
    ASSUME NEW s \in DOMAIN Services, Services[s].funded, NEW i \in Positions(s)
    PROVE  VaultKey(Services[s].type, VaultIndex(Services[s].type, i)) \in Payments(s)
<1> DEFINE type == Services[s].type
           n == Services[s].count
<1>0. i \in Nat /\ i < n /\ n \in Nat /\ GroupSize \in Nat \ {0}
  BY ServiceType, ServicesAssumption DEF Positions
<1>1. CASE type # "xjst"
  BY <1>1 DEF Payments, PaidPositions
<1>2. CASE type = "xjst"
  <2>1. PICK g \in Nat : g = i \div GroupSize /\ g * GroupSize <= i
    <3>1. i \div GroupSize \in Nat /\ i % GroupSize \in 0..(GroupSize - 1)
      BY <1>0, Division
    <3>2. i = (i \div GroupSize) * GroupSize + (i % GroupSize)
      BY <1>0, Division
    <3>3. (i \div GroupSize) * GroupSize \in Nat
      BY <1>0, <3>1
    <3>4. (i \div GroupSize) * GroupSize <= i
      BY <1>0, <3>1, <3>2, <3>3
    <3> QED
      BY <3>1, <3>4
  <2>2. PICK first \in Nat : first = g * GroupSize
    BY <1>0, <2>1
  <2>3. first \div GroupSize = g /\ first % GroupSize = 0
    <3>1. 0 \in 0..(GroupSize - 1)
      BY <1>0
    <3>2. (g * GroupSize + 0) \div GroupSize = g /\ (g * GroupSize + 0) % GroupSize = 0
      BY <1>0, <3>1, DivisionOf
    <3>3. g * GroupSize + 0 = first
      BY <2>2
    <3> QED
      BY <3>2, <3>3
  <2>4. first \in PaidPositions(s)
    <3>1. first \in Positions(s)
      BY <1>0, <2>1, <2>2 DEF Positions
    <3> QED
      BY <2>3, <3>1 DEF PaidPositions
  <2>5. VaultIndex(type, first) = VaultIndex(type, i)
    BY <1>2, <2>1, <2>3 DEF VaultIndex, GroupId
  <2> QED
    BY <2>4, <2>5 DEF Payments
<1> QED
  BY <1>1, <1>2

LEMMA TargetsType ==
    /\ Targets \in Seq(Vaults) /\ Len(Targets) \in Nat /\ DOMAIN Targets = 1..Len(Targets)
    /\ \A s \in DOMAIN Services : Payments(s) \subseteq Range(Targets)
<1> DEFINE ss == [s \in DOMAIN Services |-> SetToSeq(Payments(s))]
<1>1. Len(Services) \in Nat /\ DOMAIN Services = 1..Len(Services)
  BY ServicesAssumption
<1>2. \A s \in DOMAIN Services :
         SetToSeq(Payments(s)) \in Seq(Vaults) /\ Range(SetToSeq(Payments(s))) = Payments(s)
  <2> SUFFICES ASSUME NEW s \in DOMAIN Services
               PROVE  SetToSeq(Payments(s)) \in Seq(Vaults)
                      /\ Range(SetToSeq(Payments(s))) = Payments(s)
    OBVIOUS
  <2>1. Payments(s) \subseteq Vaults /\ IsFiniteSet(Payments(s))
    BY PaymentsType
  <2>2. SetToSeq(Payments(s)) \in Seq(Payments(s))
        /\ Range(SetToSeq(Payments(s))) = Payments(s)
    BY <2>1, SetAsSequence
  <2> QED
    BY <2>1, <2>2, SeqMonotonic
<1>3. ss \in Seq(Seq(Vaults)) /\ DOMAIN ss = DOMAIN Services
  BY <1>1, <1>2, SeqDef
<1>4. \A s \in DOMAIN Services : Range(ss[s]) = Payments(s)
  BY <1>2
<1>5. Targets = FlattenSeq(ss)
  BY DEF Targets
<1> HIDE DEF ss
<1>6. Targets \in Seq(Vaults) /\ Range(Targets) = UNION {Range(ss[s]) : s \in DOMAIN ss}
  BY <1>3, <1>5, FlattenType, FlattenRange
<1>7. \A s \in DOMAIN Services : Payments(s) \subseteq Range(Targets)
  BY <1>3, <1>4, <1>6
<1> QED
  BY <1>6, <1>7
----------------------------------------------------------------------------
(* VaultFunding: every transfer before the one at work has been sent. *)

Behind(i) == Targets[i] \in mined \cup Range(pool)

\* Transfer i was mined, or will be before the receipt awaited can be there.
Ahead(i) == Targets[i] \in mined \/ \E k \in 1..hash : Targets[i] = pool[k]

FundingInv ==
    /\ FundingTypeOK
    /\ funding = "send" => target <= Len(Targets) /\ hash = 0
    /\ \A i \in DOMAIN Targets : i < target => Behind(i)
    /\ funding = "receipt" => target = Len(Targets) /\ \A i \in DOMAIN Targets : Ahead(i)
    /\ funding = "done" => Range(Targets) \subseteq mined

LEMMA FundingStart == FundingInit => FundingInv
<1> SUFFICES ASSUME FundingInit PROVE FundingInv
  OBVIOUS
<1>1. Len(Targets) \in Nat /\ DOMAIN Targets = 1..Len(Targets) /\ pool = <<>>
      /\ (Targets = <<>> <=> Len(Targets) = 0) /\ SendAttempts \in Nat \ {0}
  BY TargetsType, EmptySeq, SendAssumption DEF FundingInit
<1>2. FundingTypeOK
  BY <1>1 DEF FundingInit, FundingTypeOK
<1>3. funding = "done" => Range(Targets) \subseteq mined
  BY <1>1 DEF FundingInit, Range
<1> QED
  BY <1>1, <1>2, <1>3 DEF FundingInit, FundingInv

\* What stays when a transfer is sent or an attempt is over.
LEMMA RetryType ==
    ASSUME FundingTypeOK, Retry
    PROVE  funding' \in {"send", "failed"} /\ sent' \in 0..(SendAttempts - 1)
BY SendAssumption DEF FundingTypeOK, Retry

LEMMA PoolGrows ==
    ASSUME FundingTypeOK, NEW v \in Range(Targets)
    PROVE  /\ Append(pool, v) \in Seq(Range(Targets)) /\ Len(Append(pool, v)) = Len(pool) + 1
           /\ Range(Append(pool, v)) = Range(pool) \cup {v}
           /\ \A k \in 1..Len(pool) : Append(pool, v)[k] = pool[k]
           /\ Append(pool, v)[Len(pool) + 1] = v
<1>1. pool \in Seq(Range(Targets))
  BY DEF FundingTypeOK
<1>2. /\ Append(pool, v) \in Seq(Range(Targets)) /\ Len(Append(pool, v)) = Len(pool) + 1
      /\ \A k \in 1..Len(pool) : Append(pool, v)[k] = pool[k]
      /\ Append(pool, v)[Len(pool) + 1] = v
  BY <1>1, AppendProperties
<1>3. Len(pool) \in Nat /\ DOMAIN pool = 1..Len(pool)
      /\ DOMAIN Append(pool, v) = 1..(Len(pool) + 1)
  BY <1>1, <1>2
<1>4. Range(Append(pool, v)) = Range(pool) \cup {v}
  BY <1>2, <1>3 DEF Range
<1> QED
  BY <1>2, <1>4

LEMMA TransferSends ==
    ASSUME FundingInv, Transfer
    PROVE  FundingInv'
<1>0. /\ Len(Targets) \in Nat /\ DOMAIN Targets = 1..Len(Targets)
      /\ target \in DOMAIN Targets /\ hash = 0 /\ Targets[target] \in Range(Targets)
      /\ pool \in Seq(Range(Targets)) /\ Len(pool) \in Nat
  BY TargetsType DEF FundingInv, FundingTypeOK, Transfer, Range
<1>1. /\ pool' \in Seq(Range(Targets)) /\ Len(pool') = Len(pool) + 1
      /\ Range(pool') = Range(pool) \cup {Targets[target]}
      /\ \A k \in 1..Len(pool) : pool'[k] = pool[k]
      /\ pool'[Len(pool) + 1] = Targets[target]
  BY <1>0, PoolGrows DEF FundingInv, Transfer
<1>2. \A i \in DOMAIN Targets : i <= target => Behind(i)'
  BY <1>0, <1>1 DEF FundingInv, Behind, Transfer
<1>3. CASE ~AwaitsReceipt(target) /\ Settled(target) /\ UNCHANGED hash
  <2>1. target' = target + 1 /\ funding' = "send" /\ sent' = 0 /\ mined' = mined
        /\ target' <= Len(Targets) /\ hash' = 0
    BY <1>0, <1>3 DEF AwaitsReceipt, Settled, Transfer
  <2>2. FundingTypeOK'
    BY <1>0, <1>1, <2>1, SendAssumption DEF FundingInv, FundingTypeOK
  <2>3. \A i \in DOMAIN Targets : i < target' => Behind(i)'
    BY <1>0, <1>2, <2>1
  <2> QED
    BY <2>1, <2>2, <2>3 DEF FundingInv
<1>4. CASE AwaitsReceipt(target) /\ funding' = "receipt" /\ hash' = Len(pool) + 1
           /\ UNCHANGED <<target, sent>>
  <2>1. FundingTypeOK'
    BY <1>0, <1>1, <1>4 DEF FundingInv, FundingTypeOK, Transfer
  <2>2. target' = Len(Targets) /\ target' = target
    BY <1>4 DEF AwaitsReceipt
  <2>3. ASSUME NEW i \in DOMAIN Targets PROVE Ahead(i)'
    <3>1. CASE i = target
      BY <1>0, <1>1, <1>4, <3>1 DEF Ahead
    <3>2. CASE i # target
      <4>1. Targets[i] \in mined \cup Range(pool)
        BY <1>0, <2>2, <3>2 DEF FundingInv, Behind
      <4>2. CASE Targets[i] \in mined
        BY <4>2 DEF Ahead, Transfer
      <4>3. CASE Targets[i] \in Range(pool)
        <5>1. PICK k \in 1..Len(pool) : Targets[i] = pool[k]
          BY <1>0, <4>3 DEF Range
        <5>2. k \in 1..hash' /\ Targets[i] = pool'[k]
          BY <1>0, <1>1, <1>4, <5>1
        <5> QED
          BY <5>2 DEF Ahead
      <4> QED
        BY <4>1, <4>2, <4>3
    <3> QED
      BY <3>1, <3>2
  <2>4. \A i \in DOMAIN Targets : i < target' => Behind(i)'
    BY <1>0, <1>2, <2>2
  <2> QED
    BY <1>4, <2>1, <2>2, <2>3, <2>4 DEF FundingInv
<1> QED
  BY <1>3, <1>4 DEF Transfer

LEMMA FailedTransferKeeps ==
    ASSUME FundingInv, TransferFails
    PROVE  FundingInv'
<1>0. /\ Len(Targets) \in Nat /\ DOMAIN Targets = 1..Len(Targets)
      /\ target \in DOMAIN Targets /\ hash = 0 /\ Targets[target] \in Range(Targets)
      /\ pool \in Seq(Range(Targets)) /\ Len(pool) \in Nat
  BY TargetsType DEF FundingInv, FundingTypeOK, TransferFails, Range
<1>1. pool' \in Seq(Range(Targets)) /\ Range(pool) \subseteq Range(pool') /\ Len(pool') \in Nat
  <2>1. CASE pool' = pool
    BY <1>0, <2>1
  <2>2. CASE pool' = Append(pool, Targets[target])
    BY <1>0, <2>2, PoolGrows DEF FundingInv
  <2> QED
    BY <2>1, <2>2 DEF TransferFails
<1>2. funding' \in {"send", "failed"} /\ sent' \in 0..(SendAttempts - 1)
  BY RetryType DEF FundingInv, TransferFails
<1>3. FundingTypeOK'
  BY <1>0, <1>1, <1>2 DEF FundingInv, FundingTypeOK, TransferFails
<1>4. \A i \in DOMAIN Targets : i < target' => Behind(i)'
  BY <1>1 DEF FundingInv, Behind, TransferFails
<1> QED
  BY <1>0, <1>2, <1>3, <1>4 DEF FundingInv, TransferFails

LEMMA MineKeeps ==
    ASSUME FundingInv, Mine
    PROVE  FundingInv'
<1>0. pool \in Seq(Range(Targets)) /\ pool # <<>> /\ mined \subseteq Range(Targets)
      /\ hash \in 0..Len(pool)
  BY DEF FundingInv, FundingTypeOK, Mine
<1>1. /\ Len(pool) \in Nat \ {0} /\ DOMAIN pool = 1..Len(pool) /\ Head(pool) = pool[1]
      /\ Head(pool) \in Range(Targets)
      /\ pool' \in Seq(Range(Targets)) /\ Len(pool') = Len(pool) - 1
      /\ \A k \in 1..Len(pool') : pool'[k] = pool[k + 1]
  BY <1>0, EmptySeq, HeadTailProperties DEF Mine
<1>2. mined' = mined \cup {pool[1]} /\ hash' = IF hash > 0 THEN hash - 1 ELSE 0
  BY <1>1 DEF Mine
<1>3. ASSUME NEW k \in 1..Len(pool), k # 1 PROVE k - 1 \in 1..Len(pool') /\ pool'[k - 1] = pool[k]
  <2>1. k - 1 \in 1..Len(pool') /\ k - 1 + 1 = k
    BY <1>1, <1>3
  <2> QED
    BY <1>1, <2>1
<1>4. FundingTypeOK'
  BY <1>0, <1>1, <1>2 DEF FundingInv, FundingTypeOK, Mine
<1>5. ASSUME NEW i \in DOMAIN Targets, Behind(i) PROVE Behind(i)'
  <2>1. CASE Targets[i] \in mined
    BY <1>2, <2>1 DEF Behind
  <2>2. CASE Targets[i] \in Range(pool)
    <3>1. PICK k \in 1..Len(pool) : Targets[i] = pool[k]
      BY <1>1, <2>2 DEF Range
    <3>2. CASE k = 1
      BY <1>2, <3>1, <3>2 DEF Behind
    <3>3. CASE k # 1
      <4>1. DOMAIN pool' = 1..Len(pool')
        BY <1>1
      <4>2. Targets[i] \in Range(pool')
        BY <1>3, <3>1, <3>3, <4>1 DEF Range
      <4> QED
        BY <4>2 DEF Behind
    <3> QED
      BY <3>2, <3>3
  <2> QED
    BY <1>5, <2>1, <2>2 DEF Behind
<1>6. ASSUME NEW i \in DOMAIN Targets, Ahead(i) PROVE Ahead(i)'
  <2>1. CASE Targets[i] \in mined
    BY <1>2, <2>1 DEF Ahead
  <2>2. ASSUME NEW k \in 1..hash, Targets[i] = pool[k] PROVE Ahead(i)'
    <3>1. k \in 1..Len(pool) /\ hash > 0
      BY <1>0, <1>1
    <3>2. CASE k = 1
      BY <1>2, <2>2, <3>2 DEF Ahead
    <3>3. CASE k # 1
      <4>1. k - 1 \in 1..hash' /\ Targets[i] = pool'[k - 1]
        BY <1>0, <1>2, <1>3, <2>2, <3>1, <3>3
      <4> QED
        BY <4>1 DEF Ahead
    <3> QED
      BY <3>2, <3>3
  <2> QED
    BY <1>6, <2>1, <2>2 DEF Ahead
<1>7. \A i \in DOMAIN Targets : i < target' => Behind(i)'
  BY <1>5 DEF FundingInv, Mine
<1>8. funding' = "receipt" => target' = Len(Targets) /\ \A i \in DOMAIN Targets : Ahead(i)'
  BY <1>6 DEF FundingInv, Mine
<1>9. funding' = "send" => target' <= Len(Targets) /\ hash' = 0
  BY <1>2 DEF FundingInv, Mine
<1> QED
  BY <1>4, <1>7, <1>8, <1>9 DEF FundingInv, Mine

\* The receipt awaited is that of the last transfer, and those before it are mined.
LEMMA ReceiptSettles ==
    ASSUME FundingInv, Receipt
    PROVE  FundingInv'
<1>0. Len(Targets) \in Nat /\ DOMAIN Targets = 1..Len(Targets) /\ hash = 0
      /\ target = Len(Targets)
  BY TargetsType DEF FundingInv, Receipt
<1>1. Range(Targets) \subseteq mined
  BY <1>0 DEF FundingInv, Receipt, Ahead, Range
<1>2. target' = Len(Targets) + 1 /\ sent' = 0 /\ funding' = "done"
      /\ UNCHANGED <<pool, mined, hash>>
  BY <1>0 DEF Receipt, Settled
<1>3. FundingTypeOK'
  BY <1>0, <1>2, SendAssumption DEF FundingInv, FundingTypeOK
<1>4. \A i \in DOMAIN Targets : Behind(i)'
  BY <1>1, <1>2 DEF Behind, Range
<1> QED
  BY <1>1, <1>2, <1>3, <1>4 DEF FundingInv

LEMMA FailedReceiptKeeps ==
    ASSUME FundingInv, ReceiptFails
    PROVE  FundingInv'
<1>1. funding' \in {"send", "failed"} /\ sent' \in 0..(SendAttempts - 1)
  BY RetryType DEF FundingInv, ReceiptFails
<1>2. target' = Len(Targets) /\ Len(Targets) \in Nat /\ hash' = 0 /\ Len(pool) \in Nat
      /\ UNCHANGED <<target, pool, mined>>
  BY TargetsType DEF FundingInv, FundingTypeOK, ReceiptFails
<1>3. FundingTypeOK'
  BY <1>1, <1>2 DEF FundingInv, FundingTypeOK
<1>4. \A i \in DOMAIN Targets : i < target' => Behind(i)'
  BY <1>2 DEF FundingInv, Behind
<1> QED
  BY <1>1, <1>2, <1>3, <1>4 DEF FundingInv

LEMMA FundingKeeps == FundingInv /\ [Funding]_fundingVars => FundingInv'
<1> SUFFICES ASSUME FundingInv, [Funding]_fundingVars PROVE FundingInv'
  OBVIOUS
<1>1. CASE UNCHANGED fundingVars
  BY <1>1 DEF fundingVars, FundingInv, FundingTypeOK, Behind, Ahead
<1> QED
  BY <1>1, TransferSends, FailedTransferKeeps, MineKeeps, ReceiptSettles, FailedReceiptKeeps
  DEF Funding
----------------------------------------------------------------------------
(* ServerAcquire: the inductive invariant. *)

Working == {"round", "launch", "tag", "wait", "record", "probe"}
Launches == {"launch", "tag", "wait"}

StageInv ==
    /\ stage = "fund" => svc = 1 /\ fleet = <<>> /\ plans = {}
    /\ stage \notin {"fund", "failed"} => funding = "done"
    /\ stage \in Working => svc \in DOMAIN Services
    /\ stage = "done" => svc = Len(Services) + 1
    /\ stage = "launch" => asked < InstanceTypes
    /\ Reuse => fleet = <<>> /\ stage \notin Launches \cup {"record"}

\* The machines that may be given to service s.
OwnMachines(s) ==
    IF Reuse THEN Range(Pool(Services[s].type)) ELSE {m \in DOMAIN fleet : fleet[m].svc = s}

\* Those taken so far for the service at work.
Taken ==
    IF Reuse THEN {Pool(Services[svc].type)[k] : k \in 1..(ordinal - 1)} ELSE OwnMachines(svc)

ReadyInv ==
    stage \in Working =>
        /\ IsInjective(ready) /\ Range(ready) \subseteq answered \cap Taken
        /\ Reuse => ordinal - 1 <= Len(Pool(Services[svc].type))

LaunchInv ==
    stage \in Launches =>
        /\ IsInjective(ids) /\ Range(ids) \subseteq Taken \ Range(ready)
        /\ stage = "launch" => Len(ids) < Need
        /\ stage = "tag" =>
             /\ batch # <<>> /\ IsInjective(batch) /\ Len(ids) + Len(batch) <= Need
             /\ Range(batch) \subseteq Taken \ (Range(ready) \cup Range(ids))

ProbeInv ==
    /\ BatchInv
    /\ stage # "probe" => task = <<>>
    /\ stage \in {"record", "probe"} =>
         IsInjective(ips) /\ Range(ips) \subseteq Taken \ Range(ready)
    /\ stage = "probe" =>
         /\ Len(task) = Len(ips) /\ Len(result) = Len(ips)
         /\ \A i \in DOMAIN result : result[i] = "ok" => ips[i] \in answered

\* The tags given are behind the next one, and no later service has machines.
TagInv ==
    stage # "failed" =>
        \A m \in DOMAIN fleet :
            /\ fleet[m].svc <= svc
            /\ fleet[m].svc = svc =>
                 /\ stage \in Working
                 /\ fleet[m].tag < ordinal + (IF stage \in {"launch", "tag"} THEN Len(ids) ELSE 0)

GotInv ==
    \A s \in DOMAIN Services :
        /\ IsInjective(got[s]) /\ Range(got[s]) \subseteq answered \cap OwnMachines(s)
        /\ Len(got[s]) = IF s < svc THEN Target(s) ELSE 0

PlanInv ==
    \A p \in plans :
        /\ p.svc \in DOMAIN Services /\ p.svc < svc
        /\ \E i \in Positions(p.svc) : p = RemoteCommand(p.svc, got[p.svc], i)

\* What TypeOK says of the variables of ServerAcquire.
AcquireTypes ==
    /\ snapshot \in Snapshots
    /\ stage \in Working \cup {"fund", "next", "done", "failed"}
    /\ svc \in 1..(Len(Services) + 1) /\ round \in 0..MaxRound /\ ordinal \in Nat \ {0}
    /\ fleet \in Seq(Machine) /\ asked \in 0..InstanceTypes
    /\ batch \in Seq(DOMAIN fleet) /\ ids \in Seq(DOMAIN fleet)
    /\ ips \in Seq(Nat) /\ ready \in Seq(Nat) /\ result \in Seq({"none", "ok", "fail"})
    /\ created \subseteq DOMAIN fleet /\ answered \subseteq Nat
    /\ got \in [DOMAIN Services -> Seq(Nat)]

AcquireInv ==
    /\ FundingInv /\ AcquireTypes /\ StageInv /\ ReadyInv /\ LaunchInv /\ ProbeInv
    /\ TagInv /\ TagsUnique /\ GotInv /\ PlanInv

LEMMA InvTypes == AcquireInv => TypeOK
BY DEF AcquireInv, AcquireTypes, FundingInv, ProbeInv, BatchInv, PlanInv, TypeOK, Working

\* The lengths and domains that TypeOK gives.
LEMMA Shapes ==
    ASSUME AcquireTypes
    PROVE  /\ Len(Services) \in Nat /\ DOMAIN Services = 1..Len(Services)
           /\ Len(fleet) \in Nat /\ DOMAIN fleet = 1..Len(fleet)
           /\ Len(ids) \in Nat /\ Len(batch) \in Nat /\ Len(ready) \in Nat
           /\ Len(ips) \in Nat /\ DOMAIN ips = 1..Len(ips)
           /\ DOMAIN result = 1..Len(result) /\ Len(result) \in Nat
           /\ svc \in Nat /\ ordinal \in Nat
BY ServicesAssumption DEF AcquireTypes

LEMMA NeedType ==
    ASSUME AcquireTypes, svc \in DOMAIN Services
    PROVE  Need \in Int /\ Target(svc) \in Nat /\ Need = Target(svc) - Len(ready)
BY Shapes, ServiceType DEF Need

LEMMA MachineType ==
    ASSUME AcquireTypes, NEW m \in DOMAIN fleet
    PROVE  /\ fleet[m] \in Machine /\ m \in Nat
           /\ fleet[m].svc \in Nat /\ fleet[m].svc \in DOMAIN Services /\ fleet[m].tag \in Nat
<1>1. fleet[m] \in Machine /\ m \in Nat
  BY DEF AcquireTypes
<1> QED
  BY <1>1, Shapes DEF Machine

\* The snapshot's machines of a type, once each.
LEMMA PoolType ==
    ASSUME AcquireTypes, NEW type
    PROVE  /\ Pool(type) \in Seq(Nat) /\ IsInjective(Pool(type))
           /\ Range(Pool(type)) = {c.ip : c \in {d \in Range(snapshot) : d.type = type}}
<1> DEFINE D == {d \in Range(snapshot) : d.type = type}
           f == [c \in D |-> c.ip]
<1>1. snapshot \in Seq([type : Types, ip : Nat])
  BY AcquireAssumption DEF AcquireTypes
<1>2. Range(snapshot) \subseteq [type : Types, ip : Nat]
  BY <1>1, RangeOfSeq
<1>3. IsFiniteSet(D)
  <2>1. Len(snapshot) \in Nat /\ DOMAIN snapshot = 1..Len(snapshot)
    BY <1>1
  <2>2. IsFiniteSet(DOMAIN snapshot)
    BY <2>1, FS_Interval
  <2>3. IsFiniteSet(Range(snapshot))
    BY <1>1, <2>2, FiniteRange
  <2> QED
    BY <2>3, FS_Subset
<1>4. IsFiniteSet(Range(f)) /\ Range(f) = {c.ip : c \in D}
  <2>1. Range(f) = {c.ip : c \in D}
    BY DEF Range
  <2>2. IsFiniteSet(Range(f))
    BY <1>3, FiniteRange
  <2> QED
    BY <2>1, <2>2
<1>5. {c.ip : c \in D} \subseteq Nat
  BY <1>2
<1>6. Pool(type) = SetToSeq({c.ip : c \in D})
  BY DEF Pool
<1> HIDE DEF D, f
<1>7. Pool(type) \in Seq({c.ip : c \in D}) /\ IsInjective(Pool(type))
      /\ Range(Pool(type)) = {c.ip : c \in D}
  BY <1>4, <1>6, SetAsSequence
<1>8. Pool(type) \in Seq(Nat)
  BY <1>5, <1>7, SeqMonotonic
<1> QED
  BY <1>7, <1>8 DEF D
----------------------------------------------------------------------------
(* What a step leaves alone. *)

\* Machines are added and none is given to another service.
Grows ==
    /\ snapshot' = snapshot
    /\ DOMAIN fleet \subseteq DOMAIN fleet' /\ \A m \in DOMAIN fleet : fleet'[m].svc = fleet[m].svc

LEMMA OwnGrows ==
    ASSUME Grows
    PROVE  \A s \in DOMAIN Services : OwnMachines(s) \subseteq OwnMachines(s)'
BY DEF Grows, OwnMachines, Reuse, Pool

LEMMA GotStays ==
    ASSUME GotInv, PlanInv, Grows, answered \subseteq answered', UNCHANGED <<svc, got, plans>>
    PROVE  GotInv' /\ PlanInv'
<1>1. GotInv'
  <2> SUFFICES ASSUME NEW s \in DOMAIN Services
               PROVE  /\ IsInjective(got'[s])
                      /\ Range(got'[s]) \subseteq answered' \cap OwnMachines(s)'
                      /\ Len(got'[s]) = IF s < svc' THEN Target(s) ELSE 0
    BY DEF GotInv
  <2>1. OwnMachines(s) \subseteq OwnMachines(s)'
    BY OwnGrows
  <2> QED
    BY <2>1 DEF GotInv
<1>2. PlanInv'
  BY DEF PlanInv
<1> QED
  BY <1>1, <1>2

LEMMA TakenStays ==
    ASSUME UNCHANGED <<snapshot, svc, ordinal, fleet>>
    PROVE  Taken' = Taken /\ Reuse' = Reuse
BY DEF Taken, OwnMachines, Reuse, Pool

\* A step to an error.
LEMMA FailKeeps ==
    ASSUME AcquireInv, Fail, AcquireTypes', FundingInv', BatchInv', task' = <<>>, TagsUnique',
           Grows, UNCHANGED <<svc, got, plans, answered>>, Reuse => fleet' = fleet
    PROVE  AcquireInv'
<1>1. GotInv' /\ PlanInv'
  BY GotStays DEF AcquireInv
<1>2. Reuse' => fleet' = <<>>
  BY DEF AcquireInv, StageInv, Reuse, Grows
<1>3. StageInv'
  BY <1>2 DEF StageInv, Fail, Working, Launches
<1>4. ReadyInv' /\ LaunchInv' /\ ProbeInv' /\ TagInv'
  BY DEF ReadyInv, LaunchInv, ProbeInv, TagInv, Fail, Working, Launches
<1> QED
  BY <1>1, <1>3, <1>4 DEF AcquireInv

LEMMA SameRunner == UNCHANGED runner => (BatchInv' <=> BatchInv)
BY DEF runner, BatchInv, RunnerTypeOK, EarlierDone, LaterTodo, Width

LEMMA SameFunding == UNCHANGED fundingVars => (FundingInv' <=> FundingInv)
BY DEF fundingVars, FundingInv, FundingTypeOK, Behind, Ahead

\* A step to an error that changes nothing else than the attempts made.
LEMMA PlainFailKeeps ==
    ASSUME AcquireInv, Fail, stage # "probe", AcquireTypes',
           UNCHANGED <<fundingVars, runner, snapshot, svc, fleet, got, plans, answered>>
    PROVE  AcquireInv'
<1>1. FundingInv' /\ BatchInv' /\ task' = <<>>
  BY SameRunner, SameFunding DEF AcquireInv, ProbeInv, runner
<1>2. Grows /\ TagsUnique'
  BY DEF Grows, AcquireInv, TagsUnique
<1> QED
  BY <1>1, <1>2, FailKeeps

LEMMA AcquireStart == Init => AcquireInv
<1> SUFFICES ASSUME Init PROVE AcquireInv
  OBVIOUS
<1>1. FundingInv /\ BatchInv /\ task = <<>>
  BY FundingStart, RunnerStart DEF Init, RunnerInit
<1>2. Len(Services) \in Nat /\ DOMAIN Services = 1..Len(Services)
  BY ServicesAssumption
<1>3. AcquireTypes
  BY <1>2, AcquireAssumption DEF Init, AcquireTypes
<1>4. GotInv
  BY <1>2 DEF Init, GotInv, IsInjective, Range
<1> QED
  BY <1>1, <1>3, <1>4
  DEF Init, AcquireInv, StageInv, ReadyInv, LaunchInv, ProbeInv, TagInv, TagsUnique, PlanInv,
      Working, Launches
----------------------------------------------------------------------------
(* The steps of Run between the services. *)

LEMMA FundingStepKeeps ==
    ASSUME AcquireInv, FundingStep
    PROVE  AcquireInv'
<1>1. FundingInv'
  BY FundingKeeps DEF AcquireInv, FundingStep
<1>2. /\ stage = "fund" /\ UNCHANGED runner
      /\ UNCHANGED <<snapshot, stage, svc, round, ordinal, fleet, asked, batch, ids, ips, result,
                     ready, answered, created, got, plans>>
  BY DEF FundingStep, acquiring
<1>3. AcquireTypes'
  BY <1>2 DEF AcquireInv, AcquireTypes
<1>4. GotInv' /\ PlanInv'
  BY <1>2, GotStays DEF AcquireInv, Grows
<1>5. StageInv' /\ TagInv' /\ TagsUnique'
  BY <1>2 DEF AcquireInv, StageInv, TagInv, TagsUnique, Reuse
<1>6. ReadyInv' /\ LaunchInv' /\ ProbeInv'
  BY <1>2, SameRunner DEF AcquireInv, ReadyInv, LaunchInv, ProbeInv, Working, Launches, runner
<1> QED
  BY <1>1, <1>3, <1>4, <1>5, <1>6 DEF AcquireInv

LEMMA FundedKeeps ==
    ASSUME AcquireInv, Funded
    PROVE  AcquireInv'
<1>1. AcquireTypes'
  BY DEF AcquireInv, AcquireTypes, Funded, Working
<1>2. CASE funding = "done"
  <2>1. stage = "fund" /\ stage' = "next" /\ fleet' = <<>> /\ UNCHANGED <<fundingVars, runner>>
    BY <1>2 DEF Funded, AcquireInv, StageInv
  <2>2. GotInv' /\ PlanInv'
    BY GotStays DEF AcquireInv, Funded, Grows
  <2>3. StageInv'
    BY <1>2, <2>1 DEF StageInv, Working, Launches, fundingVars
  <2>4. TagInv' /\ TagsUnique'
    BY <2>1 DEF TagInv, TagsUnique
  <2>5. ReadyInv' /\ LaunchInv' /\ ProbeInv'
    BY <2>1, SameRunner DEF AcquireInv, ReadyInv, LaunchInv, ProbeInv, Working, Launches, runner
  <2>6. FundingInv'
    BY <2>1, SameFunding DEF AcquireInv
  <2> QED
    BY <1>1, <2>2, <2>3, <2>4, <2>5, <2>6 DEF AcquireInv
<1>3. CASE funding # "done"
  BY <1>1, <1>3, PlainFailKeeps DEF Funded, Fail
<1> QED
  BY <1>2, <1>3

LEMMA NextServiceKeeps ==
    ASSUME AcquireInv, NextService
    PROVE  AcquireInv'
<1>0. /\ stage = "next" /\ svc \in 1..(Len(Services) + 1) /\ svc \in Nat
      /\ Len(Services) \in Nat /\ DOMAIN Services = 1..Len(Services)
      /\ funding = "done" /\ task = <<>>
      /\ \A m \in DOMAIN fleet : fleet[m].svc < svc /\ fleet[m].svc \in Nat
  <2>1. stage = "next" /\ AcquireTypes
    BY DEF NextService, AcquireInv
  <2>2. \A m \in DOMAIN fleet : fleet[m].svc \in Nat
    BY <2>1, MachineType
  <2>3. \A m \in DOMAIN fleet : fleet[m].svc <= svc /\ fleet[m].svc # svc
    BY <2>1 DEF AcquireInv, TagInv, Working
  <2> QED
    BY <2>1, <2>2, <2>3, Shapes DEF AcquireTypes, AcquireInv, StageInv, ProbeInv
<1>1. /\ UNCHANGED <<fundingVars, runner, snapshot, fleet, asked, batch, ids, ips, result, created,
                     got, plans, answered>>
      /\ FundingInv' /\ BatchInv' /\ task' = <<>> /\ TagsUnique' /\ funding' = "done"
      /\ Grows /\ Reuse' = Reuse
  BY <1>0, SameRunner, SameFunding
  DEF NextService, AcquireInv, ProbeInv, TagsUnique, Grows, runner, fundingVars, Reuse
<1>2. CASE svc > Len(Services) /\ stage' = "done" /\ UNCHANGED <<svc, round, ordinal, ready>>
  <2>1. AcquireTypes'
    BY <1>1, <1>2 DEF AcquireInv, AcquireTypes
  <2>2. GotInv' /\ PlanInv'
    BY <1>1, <1>2, GotStays DEF AcquireInv
  <2>3. StageInv'
    BY <1>0, <1>1, <1>2 DEF AcquireInv, StageInv, Working, Launches
  <2>4. ReadyInv' /\ LaunchInv' /\ ProbeInv'
    BY <1>1, <1>2 DEF ReadyInv, LaunchInv, ProbeInv, Working, Launches
  <2>5. TagInv'
    BY <1>0, <1>1, <1>2 DEF TagInv
  <2> QED
    BY <1>1, <2>1, <2>2, <2>3, <2>4, <2>5 DEF AcquireInv
<1>3. CASE svc <= Len(Services) /\ Target(svc) = 0 /\ svc' = svc + 1
           /\ UNCHANGED <<stage, round, ordinal, ready>>
  <2>1. AcquireTypes'
    BY <1>0, <1>1, <1>3 DEF AcquireInv, AcquireTypes
  <2>2. GotInv'
    <3> SUFFICES ASSUME NEW s \in DOMAIN Services
                 PROVE  /\ IsInjective(got'[s])
                        /\ Range(got'[s]) \subseteq answered' \cap OwnMachines(s)'
                        /\ Len(got'[s]) = IF s < svc' THEN Target(s) ELSE 0
      BY DEF GotInv
    <3>1. OwnMachines(s) \subseteq OwnMachines(s)'
      BY <1>1, OwnGrows
    <3>2. s < svc' <=> s < svc \/ s = svc
      BY <1>0, <1>3
    <3> QED
      BY <1>0, <1>1, <1>3, <3>1, <3>2 DEF AcquireInv, GotInv
  <2>3. PlanInv'
    <3>1. \A p \in plans : p.svc \in DOMAIN Services /\ p.svc < svc => p.svc < svc'
      BY <1>0, <1>3
    <3> QED
      BY <1>1, <3>1 DEF AcquireInv, PlanInv
  <2>4. StageInv'
    BY <1>0, <1>1, <1>3 DEF AcquireInv, StageInv, Working, Launches
  <2>5. ReadyInv' /\ LaunchInv' /\ ProbeInv'
    BY <1>0, <1>1, <1>3 DEF ReadyInv, LaunchInv, ProbeInv, Working, Launches
  <2>6. TagInv'
    <3>1. \A m \in DOMAIN fleet : fleet[m].svc <= svc' /\ fleet[m].svc # svc'
      BY <1>0, <1>3
    <3> QED
      BY <1>1, <3>1 DEF TagInv
  <2> QED
    BY <1>1, <2>1, <2>2, <2>3, <2>4, <2>5, <2>6 DEF AcquireInv
<1>4. CASE svc <= Len(Services) /\ stage' = "round" /\ round' = 0 /\ ordinal' = 1
           /\ ready' = <<>> /\ UNCHANGED svc
  <2>1. AcquireTypes'
    BY <1>0, <1>1, <1>4, AcquireAssumption DEF AcquireInv, AcquireTypes, Working
  <2>2. GotInv' /\ PlanInv'
    BY <1>1, <1>4, GotStays DEF AcquireInv
  <2>3. StageInv'
    BY <1>0, <1>1, <1>4 DEF AcquireInv, StageInv, Working, Launches
  <2>4. ReadyInv'
    <3>1. Len(Pool(Services[svc].type)) \in Nat
      BY PoolType DEF AcquireInv
    <3>2. Pool(Services[svc].type)' = Pool(Services[svc].type)
      BY <1>1, <1>4 DEF Pool
    <3> QED
      BY <1>4, <3>1, <3>2 DEF ReadyInv, IsInjective, Range
  <2>5. LaunchInv' /\ ProbeInv'
    BY <1>1, <1>4 DEF LaunchInv, ProbeInv, Launches
  <2>6. TagInv'
    BY <1>0, <1>1, <1>4 DEF TagInv
  <2> QED
    BY <1>1, <2>1, <2>2, <2>3, <2>4, <2>5, <2>6 DEF AcquireInv
<1>5. CASE stage' = "failed" /\ round' = 0 /\ ordinal' = 1 /\ ready' = <<>> /\ UNCHANGED svc
  <2>1. AcquireTypes'
    BY <1>1, <1>5, AcquireAssumption DEF AcquireInv, AcquireTypes
  <2> QED
    BY <1>1, <1>5, <2>1, FailKeeps DEF Fail
<1> QED
  BY <1>2, <1>3, <1>4, <1>5 DEF NextService

\* The machines given are the first of those ready, once each.
LEMMA GivenType ==
    ASSUME AcquireInv, stage = "round", Need <= 0
    PROVE  /\ svc \in DOMAIN Services /\ Given \in Seq(Nat) /\ Len(Given) = Target(svc)
           /\ IsInjective(Given) /\ Range(Given) \subseteq answered \cap OwnMachines(svc)
<1>1. svc \in DOMAIN Services /\ AcquireTypes /\ ready \in Seq(Nat) /\ IsInjective(ready)
      /\ Range(ready) \subseteq answered \cap Taken
      /\ (Reuse => ordinal - 1 <= Len(Pool(Services[svc].type)))
  BY DEF AcquireInv, StageInv, ReadyInv, Working, AcquireTypes
<1>2. Target(svc) \in Nat /\ Target(svc) <= Len(ready) /\ Len(ready) \in Nat
  BY <1>1, NeedType, Shapes
<1>3. /\ Given \in Seq(Nat) /\ Len(Given) = Target(svc) /\ IsInjective(Given)
      /\ Range(Given) = {ready[i] : i \in 1..Target(svc)}
  <2>1. 1 \in Nat \ {0} /\ (1 <= Target(svc) <=> Target(svc) # 0)
        /\ Target(svc) - 1 + 1 = Target(svc)
    BY <1>2
  <2>2. /\ SubSeq(ready, 1, Target(svc)) \in Seq(Nat)
        /\ Len(SubSeq(ready, 1, Target(svc)))
             = IF 1 <= Target(svc) THEN Target(svc) - 1 + 1 ELSE 0
        /\ IsInjective(SubSeq(ready, 1, Target(svc)))
        /\ Range(SubSeq(ready, 1, Target(svc))) = {ready[i] : i \in 1..Target(svc)}
    BY <1>1, <1>2, <2>1, SubSeqDistinct
  <2> QED
    BY <1>2, <2>1, <2>2 DEF Given
<1>4. Range(Given) \subseteq Range(ready)
  <2>1. \A i \in 1..Target(svc) : i \in DOMAIN ready
    BY <1>1, <1>2
  <2> QED
    BY <1>3, <2>1 DEF Range
<1>5. Taken \subseteq OwnMachines(svc)
  <2>1. CASE ~Reuse
    BY <2>1 DEF Taken
  <2>2. CASE Reuse
    <3>1. Pool(Services[svc].type) \in Seq(Nat) /\ ordinal \in Nat
      BY <1>1, PoolType, Shapes
    <3>2. \A k \in 1..(ordinal - 1) : k \in DOMAIN Pool(Services[svc].type)
      BY <1>1, <2>2, <3>1
    <3> QED
      BY <2>2, <3>2 DEF Taken, OwnMachines, Range
  <2> QED
    BY <2>1, <2>2
<1> QED
  BY <1>1, <1>3, <1>4, <1>5

LEMMA EndRoundsKeeps ==
    ASSUME AcquireInv, EndRounds
    PROVE  AcquireInv'
<1>1. CASE Fail /\ UNCHANGED <<svc, got, plans>>
  <2>1. AcquireTypes'
    BY <1>1 DEF AcquireInv, AcquireTypes, EndRounds, Fail
  <2> QED
    BY <1>1, <2>1, PlainFailKeeps DEF EndRounds
<1>2. CASE Need <= 0 /\ got' = [got EXCEPT ![svc] = Given] /\ svc' = svc + 1 /\ PreRegister
  <2>0. /\ stage' \in {"next", "failed"}
        /\ \A p \in plans' : p \in plans \/ \E i \in Positions(svc) : p = RemoteCommand(svc, Given, i)
    BY <1>2 DEF PreRegister
  <2>1. /\ svc \in DOMAIN Services /\ Given \in Seq(Nat) /\ Len(Given) = Target(svc)
        /\ IsInjective(Given) /\ Range(Given) \subseteq answered \cap OwnMachines(svc)
    BY <1>2, GivenType DEF EndRounds
  <2>2. /\ UNCHANGED <<fundingVars, runner, snapshot, round, ordinal, fleet, asked, batch, ids,
                       ips, result, ready, created, answered>>
        /\ stage = "round" /\ AcquireTypes /\ svc \in Nat
        /\ Len(Services) \in Nat /\ DOMAIN Services = 1..Len(Services)
    BY Shapes DEF EndRounds, AcquireInv
  <2>3. FundingInv' /\ BatchInv' /\ task' = <<>> /\ TagsUnique' /\ Grows /\ Reuse' = Reuse
        /\ funding' = "done"
    BY <2>2, SameRunner, SameFunding
    DEF AcquireInv, ProbeInv, TagsUnique, Grows, runner, Reuse, fundingVars, StageInv
  <2>4. got' \in [DOMAIN Services -> Seq(Nat)] /\ got'[svc] = Given
        /\ \A s \in DOMAIN Services : s # svc => got'[s] = got[s]
    BY <1>2, <2>1, <2>2 DEF AcquireTypes
  <2>5. AcquireTypes'
    BY <1>2, <2>0, <2>1, <2>2, <2>4 DEF AcquireTypes
  <2>6. GotInv'
    <3> SUFFICES ASSUME NEW s \in DOMAIN Services
                 PROVE  /\ IsInjective(got'[s])
                        /\ Range(got'[s]) \subseteq answered' \cap OwnMachines(s)'
                        /\ Len(got'[s]) = IF s < svc' THEN Target(s) ELSE 0
      BY DEF GotInv
    <3>1. OwnMachines(s) \subseteq OwnMachines(s)'
      BY <2>3, OwnGrows
    <3>2. s < svc' <=> s < svc \/ s = svc
      BY <1>2, <2>2
    <3>3. CASE s = svc
      <4>1. OwnMachines(svc) = OwnMachines(s) /\ Target(s) = Len(Given)
        BY <2>1, <3>3
      <4> QED
        BY <2>1, <2>2, <2>4, <3>1, <3>2, <3>3, <4>1
    <3>4. CASE s # svc
      BY <2>2, <2>4, <3>1, <3>2, <3>4 DEF AcquireInv, GotInv
    <3> QED
      BY <3>3, <3>4
  <2>7. PlanInv'
    <3> SUFFICES ASSUME NEW p \in plans'
                 PROVE  /\ p.svc \in DOMAIN Services /\ p.svc < svc'
                        /\ \E i \in Positions(p.svc) : p = RemoteCommand(p.svc, got'[p.svc], i)
      BY DEF PlanInv
    <3>1. CASE p \in plans
      <4>1. /\ p.svc \in DOMAIN Services /\ p.svc < svc
            /\ \E i \in Positions(p.svc) : p = RemoteCommand(p.svc, got[p.svc], i)
        BY <3>1 DEF AcquireInv, PlanInv
      <4>2. p.svc # svc /\ p.svc < svc'
        BY <1>2, <2>2, <4>1
      <4> QED
        BY <2>4, <4>1, <4>2
    <3>2. CASE p \notin plans
      <4>1. PICK i \in Positions(svc) : p = RemoteCommand(svc, Given, i)
        BY <2>0, <3>2
      <4>2. p.svc = svc
        BY <4>1 DEF RemoteCommand
      <4> QED
        BY <1>2, <2>1, <2>2, <2>4, <4>1, <4>2
    <3> QED
      BY <3>1, <3>2
  <2>8. StageInv'
    BY <1>2, <2>0, <2>2, <2>3 DEF AcquireInv, StageInv, Working, Launches
  <2>9. ReadyInv' /\ LaunchInv' /\ ProbeInv'
    BY <1>2, <2>0, <2>3 DEF ReadyInv, LaunchInv, ProbeInv, Working, Launches
  <2>10. TagInv'
    <3>1. \A m \in DOMAIN fleet : fleet[m].svc <= svc /\ fleet[m].svc \in Nat
      BY <2>2, MachineType DEF AcquireInv, TagInv
    <3>2. \A m \in DOMAIN fleet : fleet[m].svc <= svc' /\ fleet[m].svc # svc'
      BY <1>2, <2>2, <3>1
    <3> QED
      BY <2>2, <3>2 DEF TagInv
  <2> QED
    BY <2>3, <2>5, <2>6, <2>7, <2>8, <2>9, <2>10 DEF AcquireInv
<1> QED
  BY <1>1, <1>2 DEF EndRounds

LEMMA StartRoundKeeps ==
    ASSUME AcquireInv, StartRound
    PROVE  AcquireInv'
<1> DEFINE machines == Pool(Services[svc].type)
<1>0. /\ stage = "round" /\ svc \in DOMAIN Services /\ AcquireTypes /\ task = <<>>
      /\ Need \in Nat \ {0} /\ round' \in 0..MaxRound /\ ordinal \in Nat \ {0}
      /\ machines \in Seq(Nat) /\ Len(machines) \in Nat /\ IsInjective(machines)
  <2>1. stage = "round" /\ svc \in DOMAIN Services /\ AcquireTypes /\ task = <<>>
    BY DEF StartRound, AcquireInv, StageInv, ProbeInv, Working
  <2>2. Need \in Nat \ {0} /\ round' \in 0..MaxRound
    <3>1. Need \in Int /\ Need > 0
      BY <2>1, NeedType DEF StartRound
    <3>2. round \in 0..MaxRound /\ round < MaxRound /\ round' = round + 1 /\ MaxRound \in Nat
      BY <2>1, AcquireAssumption DEF StartRound, AcquireTypes
    <3> QED
      BY <3>1, <3>2
  <2>3. machines \in Seq(Nat) /\ IsInjective(machines)
    BY <2>1, PoolType
  <2> QED
    BY <2>1, <2>2, <2>3 DEF AcquireTypes
<1>1. /\ UNCHANGED <<fundingVars, snapshot, svc, fleet, batch, ready, created, got, plans, answered>>
      /\ FundingInv' /\ TagsUnique' /\ Grows /\ Reuse' = Reuse /\ Need' = Need
      /\ Pool(Services[svc].type)' = machines /\ funding' = "done"
      /\ GotInv' /\ PlanInv'
  <2>1. UNCHANGED <<fundingVars, snapshot, svc, fleet, batch, ready, created, got, plans, answered>>
    BY DEF StartRound
  <2>2. FundingInv' /\ TagsUnique' /\ Grows /\ Reuse' = Reuse /\ Need' = Need
        /\ Pool(Services[svc].type)' = machines /\ funding' = "done"
    BY <1>0, <2>1, SameFunding
    DEF AcquireInv, StageInv, TagsUnique, Grows, Reuse, Need, Pool, fundingVars
  <2> QED
    BY <2>1, <2>2, GotStays DEF AcquireInv
<1>2. CASE ~Reuse /\ stage' = "launch" /\ ids' = <<>> /\ asked' = 0
           /\ UNCHANGED <<ordinal, ips, result, runner>>
  <2>1. AcquireTypes'
    BY <1>0, <1>1, <1>2, AcquireAssumption DEF AcquireTypes, Working
  <2>2. BatchInv' /\ task' = <<>> /\ Taken' = Taken
    BY <1>0, <1>1, <1>2, SameRunner, TakenStays DEF AcquireInv, ProbeInv, runner
  <2>3. StageInv'
    BY <1>0, <1>1, <1>2, AcquireAssumption DEF StageInv, Working, Launches
  <2>4. ReadyInv'
    BY <1>0, <1>1, <1>2, <2>2 DEF AcquireInv, ReadyInv, Working
  <2>5. LaunchInv'
    BY <1>0, <1>1, <1>2 DEF LaunchInv, IsInjective, Range
  <2>6. ProbeInv'
    BY <1>2, <2>2 DEF ProbeInv
  <2>7. TagInv'
    <3>1. \A m \in DOMAIN fleet : fleet[m].tag \in Nat
      BY <1>0, MachineType
    <3> QED
      BY <1>0, <1>1, <1>2, <3>1 DEF AcquireInv, TagInv, Working
  <2> QED
    BY <1>1, <2>1, <2>2, <2>3, <2>4, <2>5, <2>6, <2>7 DEF AcquireInv
<1>3. CASE Fail /\ UNCHANGED <<ordinal, ids, asked, ips, result, runner>>
  <2>1. AcquireTypes'
    BY <1>0, <1>1, <1>3 DEF AcquireTypes, Fail
  <2> QED
    BY <1>0, <1>1, <1>3, <2>1, PlainFailKeeps
<1>4. CASE /\ Reuse /\ ordinal - 1 + Need <= Len(machines)
           /\ Probe(SubSeq(machines, ordinal, ordinal + Need - 1))
           /\ ordinal' = AfterTaking
           /\ UNCHANGED <<ids, asked>>
  <2> DEFINE next == SubSeq(machines, ordinal, ordinal + Need - 1)
  <2>1. /\ next \in Seq(Nat) /\ IsInjective(next) /\ Len(next) = Need
        /\ Range(next) = {machines[k] : k \in ordinal..(ordinal + Need - 1)}
    <3>1. PICK last \in Nat : last = ordinal + Need - 1
      BY <1>0
    <3>2. last <= Len(machines) /\ ordinal <= last /\ last - ordinal + 1 = Need
      BY <1>0, <1>4, <3>1
    <3>3. /\ SubSeq(machines, ordinal, last) \in Seq(Nat)
          /\ Len(SubSeq(machines, ordinal, last))
               = IF ordinal <= last THEN last - ordinal + 1 ELSE 0
          /\ IsInjective(SubSeq(machines, ordinal, last))
          /\ Range(SubSeq(machines, ordinal, last)) = {machines[k] : k \in ordinal..last}
      <4>1. machines \in Seq(Nat) /\ IsInjective(machines) /\ ordinal \in Nat \ {0}
            /\ last \in Nat /\ last <= Len(machines)
        BY <1>0, <3>2
      <4> HIDE DEF machines
      <4> QED
        BY <4>1, SubSeqDistinct
    <3> QED
      BY <3>1, <3>2, <3>3
  <2>2. /\ ips' = next /\ stage' = "probe" /\ ordinal' = ordinal + Need
        /\ result' = [i \in DOMAIN next |-> "none"] /\ Begin(Len(next))
    BY <1>4 DEF Probe, AfterTaking
  <2> HIDE DEF next, machines
  <2>3. BatchInv' /\ Len(task') = Len(next) /\ Len(result') = Len(next)
        /\ result' \in Seq({"none", "ok", "fail"})
        /\ \A i \in DOMAIN result' : result'[i] = "none"
    <3>1. Len(next) \in Nat /\ DOMAIN next = 1..Len(next)
      BY <2>1
    <3>2. BatchInv'
      BY <2>2, <3>1, BeginKeeps
    <3>3. task' \in Seq({"todo"}) /\ Len(task') = Len(next)
      BY <2>2, <3>1, SeqDef DEF Begin
    <3>4. result' \in Seq({"none", "ok", "fail"}) /\ Len(result') = Len(next)
      BY <2>2, <3>1, SeqDef
    <3> QED
      BY <2>2, <3>2, <3>3, <3>4
  <2>4. AcquireTypes'
    <3>1. ordinal' \in Nat \ {0}
      BY <1>0, <2>2
    <3> QED
      BY <1>0, <1>1, <1>4, <2>1, <2>2, <2>3, <3>1 DEF AcquireTypes, Working
  <2>5. StageInv'
    BY <1>0, <1>1, <1>4, <2>2 DEF AcquireInv, StageInv, Working, Launches
  <2>6. /\ Taken = {machines[k] : k \in 1..(ordinal - 1)}
        /\ Taken' = {machines[k] : k \in 1..(ordinal + Need - 1)}
    <3>1. Taken = {machines[k] : k \in 1..(ordinal - 1)}
      BY <1>4 DEF Taken, machines
    <3>2. Taken' = {machines[k] : k \in 1..(ordinal' - 1)}
      BY <1>1, <1>4 DEF Taken, machines
    <3>3. ordinal' - 1 = ordinal + Need - 1
      BY <1>0, <2>2
    <3> QED
      BY <3>1, <3>2, <3>3
  <2>7. Taken \subseteq Taken' /\ Range(next) \subseteq Taken'
    <3>1. 1..(ordinal - 1) \subseteq 1..(ordinal + Need - 1)
          /\ ordinal..(ordinal + Need - 1) \subseteq 1..(ordinal + Need - 1)
      BY <1>0
    <3> QED
      BY <2>1, <2>6, <3>1
  <2>8. Range(next) \cap Taken = {}
    <3> SUFFICES ASSUME NEW j \in ordinal..(ordinal + Need - 1), NEW k \in 1..(ordinal - 1),
                        machines[j] = machines[k]
                 PROVE  FALSE
      BY <2>1, <2>6
    <3>1. j \in DOMAIN machines /\ k \in DOMAIN machines /\ j # k
      BY <1>0, <1>4
    <3> QED
      BY <1>0, <3>1 DEF IsInjective
  <2>9. ReadyInv'
    <3>1. IsInjective(ready) /\ Range(ready) \subseteq answered \cap Taken
      BY <1>0 DEF AcquireInv, ReadyInv, Working
    <3>2. ordinal' - 1 <= Len(machines)
      BY <1>0, <1>4, <2>2
    <3> QED
      BY <1>1, <2>7, <3>1, <3>2 DEF ReadyInv, machines
  <2>10. ProbeInv'
    <3>1. Range(ready) \subseteq Taken
      BY <1>0 DEF AcquireInv, ReadyInv, Working
    <3> QED
      BY <1>1, <2>1, <2>2, <2>3, <2>7, <2>8, <3>1 DEF ProbeInv
  <2>11. LaunchInv' /\ TagInv'
    <3>1. fleet' = <<>>
      BY <1>1, <1>4 DEF AcquireInv, StageInv
    <3> QED
      BY <2>2, <3>1 DEF LaunchInv, TagInv, Launches
  <2> QED
    BY <1>1, <2>3, <2>4, <2>5, <2>9, <2>10, <2>11 DEF AcquireInv
<1> QED
  BY <1>2, <1>3, <1>4 DEF StartRound
----------------------------------------------------------------------------
(* The steps of a launch. *)

\* Instances that run get the next numbers, belong to the service at work and have no tag.
LEMMA LaunchedMachines ==
    ASSUME AcquireTypes, svc \in DOMAIN Services, NEW n \in Nat, Launched(n)
    PROVE  /\ fleet' \in Seq(Machine) /\ Len(fleet') = Len(fleet) + n
           /\ \A m \in DOMAIN fleet : m \in DOMAIN fleet' /\ fleet'[m] = fleet[m]
           /\ \A m \in DOMAIN fleet' \ DOMAIN fleet : fleet'[m].svc = svc /\ fleet'[m].tag = 0
           /\ batch' \in Seq(DOMAIN fleet') /\ Len(batch') = n /\ IsInjective(batch')
           /\ Range(batch') \subseteq DOMAIN fleet' \ DOMAIN fleet
<1>0. fleet \in Seq(Machine) /\ Len(fleet) \in Nat /\ DOMAIN fleet = 1..Len(fleet)
  BY DEF AcquireTypes
<1>1. PICK public \in [1..n -> BOOLEAN] :
        /\ fleet' = fleet \o [i \in 1..n |-> [svc |-> svc, tag |-> 0, public |-> public[i]]]
        /\ batch' = [i \in 1..n |-> Len(fleet) + i]
  BY DEF Launched
<1> DEFINE new == [i \in 1..n |-> [svc |-> svc, tag |-> 0, public |-> public[i]]]
<1>2. new \in Seq(Machine) /\ Len(new) = n
  <2>1. \A i \in 1..n : [svc |-> svc, tag |-> 0, public |-> public[i]] \in Machine
    BY DEF Machine
  <2> QED
    BY <2>1, SeqDef
<1>3. \A i \in 1..n : new[i].svc = svc /\ new[i].tag = 0
  OBVIOUS
<1>4. fleet' = fleet \o new
  BY <1>1
<1> HIDE DEF new
<1>5. /\ fleet' \in Seq(Machine) /\ Len(fleet') = Len(fleet) + n
      /\ \A i \in 1..(Len(fleet) + n) :
            fleet'[i] = IF i <= Len(fleet) THEN fleet[i] ELSE new[i - Len(fleet)]
  BY <1>0, <1>2, <1>4, ConcatProperties
<1>6. DOMAIN fleet' = 1..(Len(fleet) + n)
  BY <1>0, <1>5
<1>7. \A m \in DOMAIN fleet : m \in DOMAIN fleet' /\ fleet'[m] = fleet[m]
  BY <1>0, <1>5, <1>6
<1>8. ASSUME NEW m \in DOMAIN fleet' \ DOMAIN fleet
      PROVE  fleet'[m].svc = svc /\ fleet'[m].tag = 0
  <2>1. m - Len(fleet) \in 1..n /\ fleet'[m] = new[m - Len(fleet)]
    BY <1>0, <1>5, <1>6
  <2> QED
    BY <1>3, <2>1
<1>9. \A i \in 1..n : Len(fleet) + i \in DOMAIN fleet' \ DOMAIN fleet
  BY <1>0, <1>6
<1>10. batch' \in Seq(DOMAIN fleet') /\ Len(batch') = n /\ DOMAIN batch' = 1..n
  BY <1>1, <1>9, SeqDef
<1>11. IsInjective(batch')
  BY <1>0, <1>1 DEF IsInjective
<1>12. Range(batch') \subseteq DOMAIN fleet' \ DOMAIN fleet
  BY <1>1, <1>9 DEF Range
<1> QED
  BY <1>5, <1>7, <1>8, <1>10, <1>11, <1>12

\* New instances leave the tags as they are.
LEMMA LaunchKeepsTags ==
    ASSUME AcquireInv, svc \in DOMAIN Services, NEW n \in Nat, Launched(n)
    PROVE  TagsUnique'
<1>1. /\ \A m \in DOMAIN fleet : m \in DOMAIN fleet' /\ fleet'[m] = fleet[m]
      /\ \A m \in DOMAIN fleet' \ DOMAIN fleet : fleet'[m].tag = 0
  BY LaunchedMachines DEF AcquireInv
<1> QED
  BY <1>1 DEF AcquireInv, TagsUnique

\* The types that the steps of a launch keep when machines are added.
LEMMA LaunchTypes ==
    ASSUME AcquireTypes, svc \in DOMAIN Services, NEW n \in Nat, Launched(n),
           stage' \in {"tag", "failed"},
           UNCHANGED <<snapshot, svc, round, ordinal, asked, ids, ips, result, ready, created,
                       got, answered>>
    PROVE  AcquireTypes'
<1>1. /\ fleet' \in Seq(Machine) /\ batch' \in Seq(DOMAIN fleet')
      /\ DOMAIN fleet \subseteq DOMAIN fleet'
  BY LaunchedMachines
<1>2. ids \in Seq(DOMAIN fleet')
  BY <1>1, SeqMonotonic DEF AcquireTypes
<1> QED
  BY <1>1, <1>2 DEF AcquireTypes, Working

LEMMA BatchType ==
    ASSUME AcquireInv, stage = "launch"
    PROVE  /\ svc \in DOMAIN Services /\ ~Reuse /\ BatchCount \in Nat \ {0}
           /\ Len(ids) + BatchCount <= Need
<1>1. svc \in DOMAIN Services /\ ~Reuse /\ Len(ids) < Need /\ AcquireTypes
  BY DEF AcquireInv, StageInv, LaunchInv, Working, Launches
<1>2. Need \in Int /\ Len(ids) \in Nat /\ BatchSize \in Nat \ {0}
  BY <1>1, NeedType, Shapes, AcquireAssumption
<1> QED
  BY <1>1, <1>2 DEF BatchCount

LEMMA RunInstancesKeeps ==
    ASSUME AcquireInv, RunInstances
    PROVE  AcquireInv'
<1>0. /\ stage = "launch" /\ stage' = "tag" /\ AcquireTypes /\ svc \in DOMAIN Services /\ ~Reuse
      /\ BatchCount \in Nat \ {0} /\ Len(ids) + BatchCount <= Need /\ task = <<>>
  BY BatchType DEF RunInstances, AcquireInv, ProbeInv
<1>1. UNCHANGED <<fundingVars, runner, snapshot, svc, round, ordinal, asked, ids, ips, result,
                  ready, created, got, plans, answered>>
  BY DEF RunInstances
<1>2. /\ fleet' \in Seq(Machine)
      /\ \A m \in DOMAIN fleet : m \in DOMAIN fleet' /\ fleet'[m] = fleet[m]
      /\ \A m \in DOMAIN fleet' \ DOMAIN fleet : fleet'[m].svc = svc /\ fleet'[m].tag = 0
      /\ batch' \in Seq(DOMAIN fleet') /\ Len(batch') = BatchCount /\ IsInjective(batch')
      /\ Range(batch') \subseteq DOMAIN fleet' \ DOMAIN fleet
  BY <1>0, LaunchedMachines DEF RunInstances
<1>3. AcquireTypes' /\ TagsUnique'
  BY <1>0, <1>1, LaunchTypes, LaunchKeepsTags DEF RunInstances
<1>4. Grows /\ Reuse' = Reuse /\ Need' = Need /\ FundingInv' /\ BatchInv' /\ task' = <<>>
      /\ funding' = "done"
  BY <1>0, <1>1, <1>2, SameFunding, SameRunner
  DEF Grows, Reuse, Need, AcquireInv, ProbeInv, StageInv, runner, fundingVars
<1>5. GotInv' /\ PlanInv'
  BY <1>1, <1>4, GotStays DEF AcquireInv
<1>6. /\ Taken = {m \in DOMAIN fleet : fleet[m].svc = svc}
      /\ Taken' = {m \in DOMAIN fleet' : fleet'[m].svc = svc}
  BY <1>0, <1>1, <1>4 DEF Taken, OwnMachines
<1>7. Taken \subseteq Taken' /\ Range(batch') \subseteq Taken' /\ Range(batch') \cap Taken = {}
  BY <1>2, <1>6
<1>8. StageInv'
  BY <1>0, <1>1, <1>4 DEF AcquireInv, StageInv, Working, Launches
<1>9. IsInjective(ready) /\ Range(ready) \subseteq answered \cap Taken
      /\ IsInjective(ids) /\ Range(ids) \subseteq Taken \ Range(ready)
  BY <1>0 DEF AcquireInv, ReadyInv, LaunchInv, Working, Launches
<1>10. ReadyInv'
  BY <1>0, <1>1, <1>4, <1>7, <1>9 DEF ReadyInv
<1>11. LaunchInv'
  <2>1. batch' # <<>> /\ Len(ids') + Len(batch') <= Need'
    BY <1>0, <1>1, <1>2, <1>4
  <2> QED
    BY <1>0, <1>1, <1>2, <1>7, <1>9, <2>1 DEF LaunchInv
<1>12. ProbeInv'
  BY <1>0, <1>4 DEF ProbeInv
<1>13. TagInv'
  <2> SUFFICES ASSUME NEW m \in DOMAIN fleet'
               PROVE  /\ fleet'[m].svc <= svc
                      /\ fleet'[m].svc = svc => fleet'[m].tag < ordinal + Len(ids)
    BY <1>0, <1>1 DEF TagInv, Working
  <2>1. CASE m \in DOMAIN fleet
    BY <1>0, <1>2, <2>1 DEF AcquireInv, TagInv
  <2>2. CASE m \notin DOMAIN fleet
    <3>1. ordinal \in Nat \ {0} /\ Len(ids) \in Nat /\ svc \in Nat
      BY <1>0, Shapes DEF AcquireTypes
    <3>2. fleet'[m].svc = svc /\ fleet'[m].tag = 0
      BY <1>2, <2>2
    <3> QED
      BY <3>1, <3>2
  <2> QED
    BY <2>1, <2>2
<1> QED
  BY <1>3, <1>4, <1>5, <1>8, <1>10, <1>11, <1>12, <1>13 DEF AcquireInv

LEMMA NoCapacityKeeps ==
    ASSUME AcquireInv, NoCapacity
    PROVE  AcquireInv'
<1>0. stage = "launch" /\ AcquireTypes /\ asked < InstanceTypes /\ asked' = asked + 1
      /\ asked' \in 0..InstanceTypes
      /\ UNCHANGED <<fundingVars, runner, snapshot, svc, round, ordinal, fleet, batch, ids, ips,
                     result, ready, created, got, plans, answered>>
  <2>1. stage = "launch" /\ asked < InstanceTypes /\ asked \in 0..InstanceTypes
        /\ InstanceTypes \in Nat
    BY AcquireAssumption DEF NoCapacity, AcquireInv, StageInv, AcquireTypes
  <2> QED
    BY <2>1 DEF NoCapacity, AcquireInv
<1>1. CASE Fail
  <2>1. AcquireTypes'
    BY <1>0, <1>1 DEF AcquireTypes, Fail
  <2> QED
    BY <1>0, <1>1, <2>1, PlainFailKeeps
<1>2. CASE asked' # InstanceTypes /\ stage' = stage
  <2>1. AcquireTypes'
    BY <1>0, <1>2 DEF AcquireTypes
  <2>2. Taken' = Taken /\ Reuse' = Reuse /\ Need' = Need /\ Grows
    BY <1>0, TakenStays DEF Need, Grows
  <2>3. FundingInv' /\ BatchInv' /\ task' = <<>> /\ funding' = "done"
    BY <1>0, SameFunding, SameRunner DEF AcquireInv, ProbeInv, StageInv, runner, fundingVars
  <2>4. StageInv'
    <3>1. asked' < InstanceTypes
      BY <1>0, <1>2, AcquireAssumption
    <3> QED
      BY <1>0, <1>2, <2>2, <2>3, <3>1 DEF AcquireInv, StageInv, Launches, Working
  <2>5. ReadyInv' /\ LaunchInv' /\ ProbeInv'
    <3>1. ReadyInv'
      BY <1>0, <1>2, <2>2 DEF AcquireInv, ReadyInv, Working, Pool
    <3>2. LaunchInv'
      BY <1>0, <1>2, <2>2 DEF AcquireInv, LaunchInv, Launches
    <3>3. ProbeInv'
      BY <1>0, <1>2, <2>3 DEF ProbeInv
    <3> QED
      BY <3>1, <3>2, <3>3
  <2>6. TagInv' /\ TagsUnique'
    BY <1>0, <1>2 DEF AcquireInv, TagInv, TagsUnique
  <2>7. GotInv' /\ PlanInv'
    BY <1>0, <2>2, GotStays DEF AcquireInv
  <2> QED
    BY <2>1, <2>3, <2>4, <2>5, <2>6, <2>7 DEF AcquireInv
<1> QED
  BY <1>1, <1>2 DEF NoCapacity

LEMMA RunInstancesFailsKeeps ==
    ASSUME AcquireInv, RunInstancesFails
    PROVE  AcquireInv'
<1>0. stage = "launch" /\ Fail /\ AcquireTypes /\ svc \in DOMAIN Services /\ ~Reuse
      /\ UNCHANGED <<fundingVars, runner, snapshot, svc, round, ordinal, asked, ids, ips, result,
                     ready, created, got, plans, answered>>
  BY BatchType DEF RunInstancesFails, AcquireInv
<1>1. PICK n \in {0, 1} : Launched(n)
  BY DEF RunInstancesFails
<1>2. n \in Nat
  OBVIOUS
<1>3. AcquireTypes' /\ TagsUnique'
  BY <1>0, <1>1, <1>2, LaunchTypes, LaunchKeepsTags DEF Fail
<1>4. Grows
  BY <1>0, <1>1, <1>2, LaunchedMachines DEF Grows
<1>5. FundingInv' /\ BatchInv' /\ task' = <<>>
  BY <1>0, SameFunding, SameRunner DEF AcquireInv, ProbeInv, runner
<1> QED
  BY <1>0, <1>3, <1>4, <1>5, FailKeeps

\* The first instance of the batch gets the next tag.
LEMMA TagGiven ==
    ASSUME AcquireInv, stage = "tag"
    PROVE  /\ AcquireTypes /\ svc \in DOMAIN Services /\ ~Reuse
           /\ Head(batch) \in DOMAIN fleet /\ fleet[Head(batch)].svc = svc
           /\ NextTag \in Nat /\ NextTag = ordinal + Len(ids)
           /\ \A m \in DOMAIN fleet : fleet[m].svc = svc => fleet[m].tag < NextTag
<1>1. AcquireTypes /\ svc \in DOMAIN Services /\ ~Reuse /\ batch # <<>>
      /\ Range(batch) \subseteq Taken /\ batch \in Seq(DOMAIN fleet) /\ IsInjective(batch)
      /\ \A m \in DOMAIN fleet : fleet[m].svc = svc => fleet[m].tag < ordinal + Len(ids)
  BY DEF AcquireInv, AcquireTypes, StageInv, LaunchInv, TagInv, Working, Launches
<1>2. Head(batch) \in Taken
  BY <1>1, TailDistinct
<1>3. ordinal + Len(ids) \in Nat
  BY <1>1, Shapes
<1> QED
  BY <1>1, <1>2, <1>3 DEF Taken, OwnMachines, NextTag

\* The tag is new among those of the service.
LEMMA TagIsNew ==
    ASSUME AcquireInv, stage = "tag", fleet' = [fleet EXCEPT ![Head(batch)].tag = NextTag]
    PROVE  /\ fleet' \in Seq(Machine) /\ DOMAIN fleet' = DOMAIN fleet
           /\ \A m \in DOMAIN fleet : fleet'[m].svc = fleet[m].svc
           /\ \A m \in DOMAIN fleet :
                 fleet'[m].tag = IF m = Head(batch) THEN NextTag ELSE fleet[m].tag
           /\ TagsUnique'
<1> DEFINE h == Head(batch)
<1>1. /\ AcquireTypes /\ h \in DOMAIN fleet /\ fleet[h].svc = svc /\ NextTag \in Nat
      /\ \A m \in DOMAIN fleet : fleet[m].svc = svc => fleet[m].tag < NextTag
  BY TagGiven
<1>2. fleet \in Seq(Machine) /\ fleet[h] \in Machine
  BY <1>1 DEF AcquireTypes
<1>3. PICK new : new = [fleet[h] EXCEPT !.tag = NextTag] /\ fleet' = [fleet EXCEPT ![h] = new]
  OBVIOUS
<1>4. new \in Machine /\ new.svc = fleet[h].svc /\ new.tag = NextTag
  BY <1>1, <1>2, <1>3 DEF Machine
<1> HIDE DEF h
<1>5. /\ fleet' \in Seq(Machine) /\ DOMAIN fleet' = DOMAIN fleet
      /\ \A m \in DOMAIN fleet : fleet'[m].svc = fleet[m].svc
      /\ \A m \in DOMAIN fleet : fleet'[m].tag = IF m = h THEN NextTag ELSE fleet[m].tag
  <2>1. fleet' \in Seq(Machine) /\ DOMAIN fleet' = DOMAIN fleet
    <3>1. h \in 1..Len(fleet)
      BY <1>1, <1>2
    <3>2. [fleet EXCEPT ![h] = new] \in Seq(Machine)
      BY <1>2, <1>4, <3>1, ExceptSeq
    <3> QED
      BY <1>3, <3>2
  <2>2. \A m \in DOMAIN fleet : fleet'[m] = IF m = h THEN new ELSE fleet[m]
    BY <1>3
  <2>3. ASSUME NEW m \in DOMAIN fleet
        PROVE  /\ fleet'[m].svc = fleet[m].svc
               /\ fleet'[m].tag = IF m = h THEN NextTag ELSE fleet[m].tag
    <3>1. CASE m = h
      BY <1>4, <2>2, <3>1
    <3>2. CASE m # h
      <4>1. fleet'[m] = fleet[m]
        BY <2>2, <3>2
      <4> QED
        BY <3>2, <4>1
    <3> QED
      BY <3>1, <3>2
  <2> QED
    BY <2>1, <2>3
<1>6. \A m \in DOMAIN fleet : fleet[m].tag \in Nat
  BY <1>1, MachineType
<1>7. TagsUnique'
  <2> SUFFICES ASSUME NEW m \in DOMAIN fleet, NEW n \in DOMAIN fleet, fleet'[m].tag # 0,
                      fleet'[m].tag = fleet'[n].tag, fleet'[m].svc = fleet'[n].svc
               PROVE  m = n
    BY <1>5 DEF TagsUnique
  <2>1. CASE m # h /\ n # h
    BY <1>5, <2>1 DEF AcquireInv, TagsUnique
  <2>2. CASE m = h /\ n # h
    <3>1. fleet[n].svc = svc /\ fleet[n].tag = NextTag
      BY <1>1, <1>5, <2>2
    <3> QED
      BY <1>1, <1>6, <3>1
  <2>3. CASE n = h /\ m # h
    <3>1. fleet[m].svc = svc /\ fleet[m].tag = NextTag
      BY <1>1, <1>5, <2>3
    <3> QED
      BY <1>1, <1>6, <3>1
  <2> QED
    BY <2>1, <2>2, <2>3
<1> QED
  BY <1>5, <1>7 DEF h

LEMMA TagInstanceKeeps ==
    ASSUME AcquireInv, TagInstance
    PROVE  AcquireInv'
<1> DEFINE h == Head(batch)
<1>0. /\ stage = "tag" /\ AcquireTypes /\ svc \in DOMAIN Services /\ ~Reuse
      /\ h \in DOMAIN fleet /\ NextTag \in Nat /\ NextTag = ordinal + Len(ids) /\ task = <<>>
      /\ \A m \in DOMAIN fleet : fleet[m].svc = svc => fleet[m].tag < NextTag
  BY TagGiven DEF TagInstance, AcquireInv, ProbeInv
<1>1. /\ UNCHANGED <<fundingVars, runner, snapshot, svc, round, ips, result, ready, created, got,
                     plans, answered>>
      /\ ids' = Append(ids, h) /\ batch' = Tail(batch)
  BY DEF TagInstance
<1>2. /\ fleet' \in Seq(Machine) /\ DOMAIN fleet' = DOMAIN fleet
      /\ \A m \in DOMAIN fleet : fleet'[m].svc = fleet[m].svc
      /\ \A m \in DOMAIN fleet : fleet'[m].tag = IF m = h THEN NextTag ELSE fleet[m].tag
      /\ TagsUnique'
  BY <1>0, TagIsNew DEF TagInstance
<1>3. /\ batch \in Seq(DOMAIN fleet) /\ batch # <<>> /\ IsInjective(batch)
      /\ ids \in Seq(DOMAIN fleet) /\ IsInjective(ids) /\ Len(ids) + Len(batch) <= Need
      /\ Range(batch) \subseteq Taken \ (Range(ready) \cup Range(ids))
      /\ Range(ids) \subseteq Taken \ Range(ready)
      /\ IsInjective(ready) /\ Range(ready) \subseteq answered \cap Taken
  BY <1>0 DEF AcquireInv, AcquireTypes, LaunchInv, ReadyInv, Working, Launches
<1>4. /\ batch' \in Seq(DOMAIN fleet) /\ IsInjective(batch') /\ Len(batch') = Len(batch) - 1
      /\ Range(batch') = Range(batch) \ {h} /\ h \in Range(batch)
  BY <1>1, <1>3, TailDistinct, HeadTailProperties
<1>5. /\ ids' \in Seq(DOMAIN fleet) /\ IsInjective(ids') /\ Len(ids') = Len(ids) + 1
      /\ Range(ids') = Range(ids) \cup {h}
  <2>1. h \notin Range(ids)
    BY <1>3, <1>4
  <2> QED
    BY <1>0, <1>1, <1>3, <2>1, AppendDistinct, AppendProperties
<1>6. Len(ids) \in Nat /\ Len(batch) \in Nat /\ Need \in Int /\ ordinal \in Nat \ {0}
      /\ Len(Services) \in Nat
  BY <1>0, Shapes, NeedType DEF AcquireTypes
<1>7. Grows /\ Reuse' = Reuse /\ Need' = Need /\ FundingInv' /\ BatchInv' /\ task' = <<>>
      /\ funding' = "done"
  BY <1>0, <1>1, <1>2, SameFunding, SameRunner
  DEF Grows, Reuse, Need, AcquireInv, ProbeInv, StageInv, runner, fundingVars
<1>8. GotInv' /\ PlanInv'
  BY <1>1, <1>7, GotStays DEF AcquireInv
<1>9. Taken' = Taken
  BY <1>0, <1>1, <1>2, <1>7 DEF Taken, OwnMachines
<1> HIDE DEF h
<1>10. \A m \in DOMAIN fleet :
          fleet'[m].svc <= svc /\ (fleet'[m].svc = svc => fleet'[m].tag < ordinal + Len(ids'))
  <2> SUFFICES ASSUME NEW m \in DOMAIN fleet
               PROVE  /\ fleet'[m].svc <= svc
                      /\ fleet'[m].svc = svc => fleet'[m].tag < ordinal + Len(ids')
    OBVIOUS
  <2>1. fleet[m].svc <= svc /\ fleet[m].tag \in Nat
    BY <1>0, MachineType DEF AcquireInv, TagInv
  <2>2. NextTag < ordinal + Len(ids')
    BY <1>0, <1>5, <1>6
  <2>3. fleet[m].svc = svc => fleet[m].tag < ordinal + Len(ids')
    BY <1>0, <1>5, <1>6, <2>1, <2>2
  <2> QED
    BY <1>2, <2>1, <2>2, <2>3
<1>11. CASE batch' # <<>> /\ UNCHANGED <<stage, ordinal, asked>>
  <2>1. AcquireTypes'
    BY <1>0, <1>1, <1>2, <1>4, <1>5, <1>11 DEF AcquireTypes
  <2>2. StageInv'
    BY <1>0, <1>1, <1>7, <1>11 DEF AcquireInv, StageInv, Working, Launches
  <2>3. ReadyInv'
    BY <1>0, <1>1, <1>3, <1>7, <1>9 DEF ReadyInv
  <2>4. LaunchInv'
    <3>1. Len(ids') + Len(batch') <= Need'
      BY <1>3, <1>4, <1>5, <1>6, <1>7
    <3>2. Range(ids') \subseteq Taken' \ Range(ready')
          /\ Range(batch') \subseteq Taken' \ (Range(ready') \cup Range(ids'))
      BY <1>1, <1>3, <1>4, <1>5, <1>9
    <3> QED
      BY <1>0, <1>4, <1>5, <1>11, <3>1, <3>2 DEF LaunchInv
  <2>5. ProbeInv'
    BY <1>0, <1>7, <1>11 DEF ProbeInv
  <2>6. TagInv'
    <3> SUFFICES ASSUME NEW m \in DOMAIN fleet
                 PROVE  /\ fleet'[m].svc <= svc
                        /\ fleet'[m].svc = svc => fleet'[m].tag < ordinal + Len(ids')
      BY <1>0, <1>1, <1>2, <1>11 DEF TagInv, Working
    <3> QED
      BY <1>10
  <2> QED
    BY <1>2, <1>7, <1>8, <2>1, <2>2, <2>3, <2>4, <2>5, <2>6 DEF AcquireInv
<1>12. CASE batch' = <<>> /\ Len(ids') < Need /\ stage' = "launch" /\ asked' = 0
            /\ UNCHANGED ordinal
  <2>1. AcquireTypes'
    <3>1. asked' \in 0..InstanceTypes
      BY <1>12, AcquireAssumption
    <3> QED
      BY <1>0, <1>1, <1>2, <1>4, <1>5, <1>12, <3>1 DEF AcquireTypes, Working
  <2>2. StageInv'
    BY <1>0, <1>1, <1>7, <1>12, AcquireAssumption DEF AcquireInv, StageInv, Working, Launches
  <2>3. ReadyInv'
    BY <1>0, <1>1, <1>3, <1>7, <1>9 DEF ReadyInv
  <2>4. LaunchInv'
    <3>1. Range(ids') \subseteq Taken' \ Range(ready')
      BY <1>1, <1>3, <1>4, <1>5, <1>9
    <3> QED
      BY <1>5, <1>7, <1>12, <3>1 DEF LaunchInv
  <2>5. ProbeInv'
    BY <1>7, <1>12 DEF ProbeInv
  <2>6. TagInv'
    <3> SUFFICES ASSUME NEW m \in DOMAIN fleet
                 PROVE  /\ fleet'[m].svc <= svc
                        /\ fleet'[m].svc = svc => fleet'[m].tag < ordinal + Len(ids')
      BY <1>0, <1>1, <1>2, <1>12 DEF TagInv, Working
    <3> QED
      BY <1>10
  <2> QED
    BY <1>2, <1>7, <1>8, <2>1, <2>2, <2>3, <2>4, <2>5, <2>6 DEF AcquireInv
<1>13. CASE batch' = <<>> /\ stage' = "wait" /\ ordinal' = ordinal + Len(ids') /\ UNCHANGED asked
  <2>1. AcquireTypes'
    <3>1. ordinal' \in Nat \ {0}
      BY <1>5, <1>6, <1>13
    <3> QED
      BY <1>0, <1>1, <1>2, <1>4, <1>5, <1>13, <3>1 DEF AcquireTypes, Working
  <2>2. StageInv'
    BY <1>0, <1>1, <1>7, <1>13 DEF AcquireInv, StageInv, Working, Launches
  <2>3. ReadyInv'
    BY <1>0, <1>1, <1>3, <1>7, <1>9 DEF ReadyInv
  <2>4. LaunchInv'
    <3>1. Range(ids') \subseteq Taken' \ Range(ready')
      BY <1>1, <1>3, <1>4, <1>5, <1>9
    <3> QED
      BY <1>5, <1>7, <1>13, <3>1 DEF LaunchInv
  <2>5. ProbeInv'
    BY <1>7, <1>13 DEF ProbeInv
  <2>6. TagInv'
    <3> SUFFICES ASSUME NEW m \in DOMAIN fleet
                 PROVE  /\ fleet'[m].svc <= svc
                        /\ fleet'[m].svc = svc => fleet'[m].tag < ordinal' + 0
      BY <1>0, <1>1, <1>2, <1>13 DEF TagInv, Working
    <3>1. ordinal' + 0 = ordinal + Len(ids')
      BY <1>5, <1>6, <1>13
    <3> QED
      BY <1>10, <3>1
  <2> QED
    BY <1>2, <1>7, <1>8, <2>1, <2>2, <2>3, <2>4, <2>5, <2>6 DEF AcquireInv
<1> QED
  BY <1>11, <1>12, <1>13 DEF TagInstance

LEMMA TagFailsKeeps ==
    ASSUME AcquireInv, TagFails
    PROVE  AcquireInv'
<1>0. stage = "tag" /\ Fail /\ AcquireTypes /\ ~Reuse
      /\ UNCHANGED <<fundingVars, runner, snapshot, svc, round, ordinal, asked, batch, ids, ips,
                     result, ready, answered, created, got, plans>>
  BY TagGiven DEF TagFails
<1>1. fleet' \in Seq(Machine) /\ DOMAIN fleet' = DOMAIN fleet /\ TagsUnique'
      /\ \A m \in DOMAIN fleet : fleet'[m].svc = fleet[m].svc
  <2>1. CASE fleet' = fleet
    BY <1>0, <2>1 DEF AcquireInv, AcquireTypes, TagsUnique
  <2>2. CASE fleet' = [fleet EXCEPT ![Head(batch)].tag = NextTag]
    BY <1>0, <2>2, TagIsNew
  <2> QED
    BY <2>1, <2>2 DEF TagFails
<1>2. AcquireTypes' /\ Grows
  BY <1>0, <1>1 DEF AcquireTypes, Grows, Fail
<1>3. FundingInv' /\ BatchInv' /\ task' = <<>>
  BY <1>0, SameFunding, SameRunner DEF AcquireInv, ProbeInv, runner
<1> QED
  BY <1>0, <1>1, <1>2, <1>3, FailKeeps

LEMMA WaitFailsKeeps ==
    ASSUME AcquireInv, WaitFails
    PROVE  AcquireInv'
<1>1. AcquireTypes'
  BY DEF WaitFails, AcquireInv, AcquireTypes, Fail
<1> QED
  BY <1>1, PlainFailKeeps DEF WaitFails

LEMMA RecordFailsKeeps ==
    ASSUME AcquireInv, RecordFails
    PROVE  AcquireInv'
<1>1. AcquireTypes'
  BY DEF RecordFails, AcquireInv, AcquireTypes, Fail
<1> QED
  BY <1>1, PlainFailKeeps DEF RecordFails

LEMMA PublicIPsKeeps ==
    ASSUME AcquireInv, PublicIPs
    PROVE  AcquireInv'
<1> DEFINE public == {m \in Range(ids) : fleet[m].public}
<1>0. /\ stage = "wait" /\ stage' = "record" /\ AcquireTypes /\ svc \in DOMAIN Services /\ ~Reuse
      /\ ips' \in SetToSeqs(public) /\ task = <<>> /\ ids \in Seq(DOMAIN fleet)
      /\ Range(ids) \subseteq Taken \ Range(ready)
      /\ UNCHANGED <<fundingVars, runner, snapshot, svc, round, ordinal, fleet, asked, batch, ids,
                     result, ready, created, got, plans, answered>>
  BY DEF PublicIPs, AcquireInv, StageInv, LaunchInv, ProbeInv, AcquireTypes, Working, Launches
<1>1. IsFiniteSet(public)
  <2>1. Len(ids) \in Nat /\ DOMAIN ids = 1..Len(ids)
    BY <1>0
  <2>2. IsFiniteSet(Range(ids))
    <3>1. IsFiniteSet(DOMAIN ids)
      BY <2>1, FS_Interval
    <3> QED
      BY <1>0, <3>1, FiniteRange
  <2> QED
    BY <2>2, FS_Subset
<1>2. ips' \in Seq(public) /\ Range(ips') = public /\ IsInjective(ips')
  BY <1>0, <1>1, SetAsSequences
<1>3. public \subseteq Nat /\ public \subseteq Taken \ Range(ready)
  <2>1. Range(ids) \subseteq DOMAIN fleet /\ DOMAIN fleet \subseteq Nat
    BY <1>0, RangeOfSeq, Shapes
  <2> QED
    BY <1>0, <2>1
<1> HIDE DEF public
<1>4. ips' \in Seq(Nat)
  BY <1>2, <1>3, SeqMonotonic
<1>5. AcquireTypes'
  BY <1>0, <1>4 DEF AcquireTypes, Working
<1>6. Taken' = Taken /\ Reuse' = Reuse /\ Grows /\ TagsUnique'
      /\ FundingInv' /\ BatchInv' /\ task' = <<>> /\ funding' = "done"
  BY <1>0, TakenStays, SameFunding, SameRunner
  DEF Grows, TagsUnique, AcquireInv, ProbeInv, StageInv, runner, fundingVars
<1>7. GotInv' /\ PlanInv'
  BY <1>0, <1>6, GotStays DEF AcquireInv
<1>8. StageInv'
  BY <1>0, <1>6 DEF AcquireInv, StageInv, Working, Launches
<1>9. ReadyInv' /\ LaunchInv'
  BY <1>0, <1>6 DEF AcquireInv, ReadyInv, LaunchInv, Working, Launches
<1>10. ProbeInv'
  BY <1>0, <1>2, <1>3, <1>6 DEF ProbeInv
<1>11. TagInv'
  BY <1>0 DEF AcquireInv, TagInv, Working
<1> QED
  BY <1>5, <1>6, <1>7, <1>8, <1>9, <1>10, <1>11 DEF AcquireInv
----------------------------------------------------------------------------
(* The probes. *)

LEMMA RecordCreatedKeeps ==
    ASSUME AcquireInv, RecordCreated
    PROVE  AcquireInv'
<1>0. /\ stage = "record" /\ stage' = "probe" /\ AcquireTypes /\ svc \in DOMAIN Services
      /\ ~Reuse /\ ips' = ips /\ result' = [i \in DOMAIN ips |-> "none"] /\ Begin(Len(ips))
      /\ UNCHANGED <<fundingVars, snapshot, svc, round, ordinal, fleet, asked, batch, ids, ready,
                     got, plans, answered>>
      /\ IsInjective(ips) /\ Range(ips) \subseteq Taken \ Range(ready)
  BY DEF RecordCreated, Probe, AcquireInv, StageInv, ProbeInv, Working
<1>1. Len(ips) \in Nat /\ DOMAIN ips = 1..Len(ips)
  BY <1>0, Shapes
<1>2. BatchInv'
  BY <1>0, <1>1, BeginKeeps
<1>3. task' \in Seq({"todo"}) /\ Len(task') = Len(ips)
  BY <1>0, <1>1, SeqDef DEF Begin
<1>4. /\ result' \in Seq({"none", "ok", "fail"}) /\ Len(result') = Len(ips)
      /\ \A i \in DOMAIN result' : result'[i] = "none"
  BY <1>0, <1>1, SeqDef
<1>5. created' \subseteq DOMAIN fleet
  <2>1. Range(ips) \subseteq DOMAIN fleet
    BY <1>0 DEF Taken, OwnMachines
  <2> QED
    BY <1>0, <2>1 DEF RecordCreated, AcquireTypes
<1>6. AcquireTypes'
  BY <1>0, <1>4, <1>5 DEF AcquireTypes, Working
<1>7. Taken' = Taken /\ Reuse' = Reuse /\ Grows /\ TagsUnique' /\ FundingInv' /\ funding' = "done"
  BY <1>0, TakenStays, SameFunding DEF Grows, TagsUnique, AcquireInv, StageInv, fundingVars
<1>8. GotInv' /\ PlanInv'
  BY <1>0, <1>7, GotStays DEF AcquireInv
<1>9. StageInv'
  BY <1>0, <1>7 DEF AcquireInv, StageInv, Working, Launches
<1>10. ReadyInv' /\ LaunchInv'
  BY <1>0, <1>7 DEF AcquireInv, ReadyInv, LaunchInv, Working, Launches
<1>11. ProbeInv'
  BY <1>0, <1>2, <1>3, <1>4, <1>7 DEF ProbeInv
<1>12. TagInv'
  BY <1>0 DEF AcquireInv, TagInv, Working
<1> QED
  BY <1>6, <1>7, <1>8, <1>9, <1>10, <1>11, <1>12 DEF AcquireInv

\* A step of the probes changes only the runner, a result and what has answered.
LEMMA ProbeStepKeeps ==
    ASSUME AcquireInv, stage = "probe", BatchInv', Len(task') = Len(task),
           UNCHANGED <<fundingVars, snapshot, stage, svc, round, ordinal, fleet, asked, batch, ids,
                       ips, ready, created, got, plans>>,
           answered \subseteq answered', answered' \subseteq Nat,
           result' \in Seq({"none", "ok", "fail"}), Len(result') = Len(result),
           \A i \in DOMAIN result' : result'[i] = "ok" => ips[i] \in answered'
    PROVE  AcquireInv'
<1>1. Taken' = Taken /\ Reuse' = Reuse /\ Grows /\ TagsUnique' /\ FundingInv' /\ funding' = funding
  BY TakenStays, SameFunding DEF Grows, TagsUnique, AcquireInv, fundingVars
<1>2. AcquireTypes'
  BY DEF AcquireInv, AcquireTypes
<1>3. GotInv' /\ PlanInv'
  BY <1>1, GotStays DEF AcquireInv
<1>4. StageInv' /\ TagInv'
  BY <1>1 DEF AcquireInv, StageInv, TagInv
<1>5. ReadyInv' /\ LaunchInv'
  BY <1>1 DEF AcquireInv, ReadyInv, LaunchInv, Working, Launches, Pool
<1>6. ProbeInv'
  BY <1>1 DEF AcquireInv, ProbeInv
<1> QED
  BY <1>1, <1>2, <1>3, <1>4, <1>5, <1>6 DEF AcquireInv

\* The steps of the probes are steps of the runner.
LEMMA ProbeTasks ==
    ASSUME BatchInv, NEW i \in DOMAIN task, StartTask(i) \/ EndTask(i)
    PROVE  BatchInv' /\ Len(task') = Len(task)
<1>1. [RunnerNext]_runner
  BY DEF RunnerNext
<1>2. Len(task') = Len(task)
  BY DEF StartTask, EndTask, BatchInv, RunnerTypeOK
<1> QED
  BY <1>1, <1>2, RunnerStep

LEMMA StartProbeKeeps ==
    ASSUME AcquireInv, NEW i \in DOMAIN task, StartProbe(i)
    PROVE  AcquireInv'
<1>1. stage = "probe" /\ StartTask(i) /\ UNCHANGED <<fundingVars, acquiring>>
  BY DEF StartProbe
<1>2. BatchInv' /\ Len(task') = Len(task)
  BY <1>1, ProbeTasks DEF AcquireInv, ProbeInv
<1>3. \A j \in DOMAIN result : result[j] = "ok" => ips[j] \in answered
  BY <1>1 DEF AcquireInv, ProbeInv
<1> QED
  BY <1>1, <1>2, <1>3, ProbeStepKeeps DEF acquiring, AcquireInv, AcquireTypes

LEMMA EndProbeKeeps ==
    ASSUME AcquireInv, NEW i \in DOMAIN task, EndProbe(i)
    PROVE  AcquireInv'
<1>1. /\ stage = "probe" /\ EndTask(i) /\ AcquireTypes
      /\ UNCHANGED <<fundingVars, snapshot, stage, svc, round, ordinal, fleet, asked, batch, ids,
                     ips, ready, created, got, plans>>
  BY DEF EndProbe, AcquireInv
<1>2. BatchInv' /\ Len(task') = Len(task)
  BY <1>1, ProbeTasks DEF AcquireInv, ProbeInv
<1>3. /\ \A j \in DOMAIN result : result[j] = "ok" => ips[j] \in answered
      /\ i \in DOMAIN result /\ i \in DOMAIN ips /\ ips[i] \in Nat
      /\ result \in Seq({"none", "ok", "fail"}) /\ answered \subseteq Nat
  <2>1. Len(task) = Len(ips) /\ Len(result) = Len(ips) /\ DOMAIN task = 1..Len(task)
    BY <1>1 DEF AcquireInv, ProbeInv, BatchInv, RunnerTypeOK
  <2>2. i \in DOMAIN result /\ i \in DOMAIN ips
    BY <1>1, <2>1, Shapes
  <2> QED
    BY <1>1, <2>2 DEF AcquireInv, ProbeInv, AcquireTypes
<1>4. PICK r \in {"ok", "fail"} :
        /\ result' = [result EXCEPT ![i] = r]
        /\ answered' = IF r = "ok" THEN answered \cup {ips[i]} ELSE answered
  BY DEF EndProbe
<1>5. result' \in Seq({"none", "ok", "fail"}) /\ Len(result') = Len(result)
  BY <1>3, <1>4
<1>6. answered \subseteq answered' /\ answered' \subseteq Nat
  BY <1>3, <1>4
<1>7. \A j \in DOMAIN result' : result'[j] = "ok" => ips[j] \in answered'
  <2> SUFFICES ASSUME NEW j \in DOMAIN result, result'[j] = "ok" PROVE ips[j] \in answered'
    BY <1>4
  <2>1. CASE j = i
    BY <1>3, <1>4, <2>1
  <2>2. CASE j # i
    BY <1>3, <1>4, <1>6, <2>2
  <2> QED
    BY <2>1, <2>2
<1> QED
  BY <1>1, <1>2, <1>5, <1>6, <1>7, ProbeStepKeeps

LEMMA NextProbesKeeps ==
    ASSUME AcquireInv, NextProbes
    PROVE  AcquireInv'
<1>1. stage = "probe" /\ NextBatch /\ UNCHANGED <<fundingVars, acquiring>>
  BY DEF NextProbes
<1>2. BatchInv' /\ Len(task') = Len(task)
  <2>1. [RunnerNext]_runner
    BY <1>1 DEF RunnerNext
  <2> QED
    BY <1>1, <2>1, RunnerStep DEF AcquireInv, ProbeInv, NextBatch
<1>3. \A j \in DOMAIN result : result[j] = "ok" => ips[j] \in answered
  BY <1>1 DEF AcquireInv, ProbeInv
<1> QED
  BY <1>1, <1>2, <1>3, ProbeStepKeeps DEF acquiring, AcquireInv, AcquireTypes

\* The machines that answered, in the order of the probes, once each.
LEMMA AnsweredOnce ==
    ASSUME NEW s \in Seq(Nat), IsInjective(s), NEW A \in SUBSET (DOMAIN s), NEW found,
           found = FlattenSeq([i \in DOMAIN s |-> IF i \in A THEN <<s[i]>> ELSE <<>>])
    PROVE  found \in Seq(Nat) /\ IsInjective(found) /\ Range(found) = {s[i] : i \in A}
<1> DEFINE part(i) == IF i \in A THEN <<s[i]>> ELSE <<>>
           ss == [i \in DOMAIN s |-> part(i)]
<1>1. Len(s) \in Nat /\ DOMAIN s = 1..Len(s)
  OBVIOUS
<1>2. ASSUME NEW i \in DOMAIN s
      PROVE  /\ part(i) \in Seq(Nat) /\ IsInjective(part(i))
             /\ Range(part(i)) = IF i \in A THEN {s[i]} ELSE {}
  <2>1. CASE i \in A
    <3>1. <<s[i]>> \in Seq(Nat) /\ IsInjective(<<s[i]>>) /\ Range(<<s[i]>>) = {s[i]}
      BY DEF IsInjective, Range
    <3> QED
      BY <2>1, <3>1
  <2>2. CASE i \notin A
    BY <2>2 DEF IsInjective, Range
  <2> QED
    BY <2>1, <2>2
<1>3. ss \in Seq(Seq(Nat)) /\ DOMAIN ss = DOMAIN s /\ \A i \in DOMAIN s : ss[i] = part(i)
  BY <1>1, <1>2, SeqDef
<1>4. found = FlattenSeq(ss)
  OBVIOUS
<1> HIDE DEF ss
<1>5. \A i \in DOMAIN s : IsInjective(ss[i]) /\ Range(ss[i]) = IF i \in A THEN {s[i]} ELSE {}
  BY <1>2, <1>3
<1> HIDE DEF part
<1>6. \A i, j \in DOMAIN ss : i # j => Range(ss[i]) \cap Range(ss[j]) = {}
  <2>1. \A i \in DOMAIN s : Range(ss[i]) \subseteq {s[i]}
    BY <1>5
  <2>2. \A i, j \in DOMAIN s : i # j => s[i] # s[j]
    BY DEF IsInjective
  <2> QED
    BY <1>3, <2>1, <2>2
<1>7. found \in Seq(Nat) /\ IsInjective(found)
  BY <1>3, <1>4, <1>5, <1>6, FlattenType, FlattenInjective
<1>8. Range(found) = UNION {Range(ss[i]) : i \in DOMAIN ss}
  BY <1>3, <1>4, FlattenRange
<1>9. Range(found) \subseteq {s[i] : i \in A}
  <2> SUFFICES ASSUME NEW x \in Range(found) PROVE x \in {s[i] : i \in A}
    OBVIOUS
  <2>1. PICK i \in DOMAIN s : x \in Range(ss[i])
    BY <1>3, <1>8
  <2> QED
    BY <1>5, <2>1
<1>10. {s[i] : i \in A} \subseteq Range(found)
  <2> SUFFICES ASSUME NEW i \in A PROVE s[i] \in Range(found)
    OBVIOUS
  <2>1. i \in DOMAIN ss /\ s[i] \in Range(ss[i])
    BY <1>3, <1>5
  <2> QED
    BY <1>8, <2>1
<1> QED
  BY <1>7, <1>9, <1>10

LEMMA ProbesDoneKeeps ==
    ASSUME AcquireInv, ProbesDone
    PROVE  AcquireInv'
<1>0. /\ stage = "probe" /\ svc \in DOMAIN Services /\ AcquireTypes /\ Begin(0)
      /\ ips' = <<>> /\ result' = <<>>
      /\ UNCHANGED <<fundingVars, snapshot, svc, round, ordinal, fleet, asked, batch, ids, created,
                     got, plans, answered>>
  BY DEF ProbesDone, AcquireInv, StageInv, Working
<1>1. BatchInv' /\ task' = <<>>
  <2>1. 0 \in Nat
    OBVIOUS
  <2>2. task' = <<>>
    BY <1>0 DEF Begin
  <2> QED
    BY <1>0, <2>1, <2>2, BeginKeeps
<1>2. Taken' = Taken /\ Reuse' = Reuse /\ Grows /\ TagsUnique' /\ FundingInv' /\ funding' = "done"
  BY <1>0, TakenStays, SameFunding DEF Grows, TagsUnique, AcquireInv, StageInv, fundingVars
<1>3. CASE Fail /\ UNCHANGED ready
  <2>1. AcquireTypes'
    BY <1>0, <1>3 DEF AcquireTypes, Fail
  <2> QED
    BY <1>0, <1>1, <1>2, <1>3, <2>1, FailKeeps
<1>4. CASE /\ stage' = "round"
           /\ ready' = ready \o FlattenSeq([i \in DOMAIN ips |->
                                  IF result[i] = "ok" THEN <<ips[i]>> ELSE <<>>])
  <2>1. /\ ips \in Seq(Nat) /\ IsInjective(ips) /\ Range(ips) \subseteq Taken \ Range(ready)
        /\ DOMAIN result = DOMAIN ips
        /\ \A i \in DOMAIN ips : result[i] = "ok" => ips[i] \in answered
        /\ ready \in Seq(Nat) /\ IsInjective(ready) /\ Range(ready) \subseteq answered \cap Taken
    BY <1>0, Shapes DEF AcquireInv, AcquireTypes, ProbeInv, ReadyInv, Working
  <2> DEFINE A == {i \in DOMAIN ips : result[i] = "ok"}
             found == FlattenSeq([i \in DOMAIN ips |->
                                   IF result[i] = "ok" THEN <<ips[i]>> ELSE <<>>])
  <2>2. /\ found \in Seq(Nat) /\ IsInjective(found)
        /\ Range(found) = {ips[i] : i \in {j \in DOMAIN ips : result[j] = "ok"}}
    <3>1. A \in SUBSET (DOMAIN ips)
      OBVIOUS
    <3>2. found = FlattenSeq([i \in DOMAIN ips |-> IF i \in A THEN <<ips[i]>> ELSE <<>>])
      <4>1. [i \in DOMAIN ips |-> IF i \in A THEN <<ips[i]>> ELSE <<>>]
            = [i \in DOMAIN ips |-> IF result[i] = "ok" THEN <<ips[i]>> ELSE <<>>]
        OBVIOUS
      <4> QED
        BY <4>1
    <3>3. ips \in Seq(Nat) /\ IsInjective(ips)
      BY <2>1
    <3> HIDE DEF A, found
    <3>4. found \in Seq(Nat) /\ IsInjective(found) /\ Range(found) = {ips[i] : i \in A}
      BY <3>1, <3>2, <3>3, AnsweredOnce
    <3> QED
      BY <3>4 DEF A
  <2>3. Range(found) \subseteq answered \cap (Taken \ Range(ready))
    BY <2>1, <2>2 DEF Range
  <2>4. ready' = ready \o found
    BY <1>4
  <2> HIDE DEF found
  <2>5. ready' \in Seq(Nat) /\ IsInjective(ready') /\ Range(ready') = Range(ready) \cup Range(found)
    BY <2>1, <2>2, <2>3, <2>4, ConcatProperties, ConcatInjective, RangeConcatenation
  <2>6. AcquireTypes'
    BY <1>0, <1>4, <2>5 DEF AcquireTypes, Working
  <2>7. ReadyInv'
    <3>1. Range(ready') \subseteq answered' \cap Taken'
      BY <1>0, <1>2, <2>1, <2>3, <2>5
    <3> QED
      BY <1>0, <1>2, <2>5, <3>1 DEF AcquireInv, ReadyInv, Working, Pool
  <2>8. LaunchInv' /\ ProbeInv'
    BY <1>1, <1>4 DEF LaunchInv, ProbeInv, Launches
  <2>9. StageInv'
    BY <1>0, <1>2, <1>4 DEF AcquireInv, StageInv, Working, Launches
  <2>10. TagInv'
    BY <1>0, <1>4 DEF AcquireInv, TagInv, Working
  <2>11. GotInv' /\ PlanInv'
    BY <1>0, <1>2, GotStays DEF AcquireInv
  <2> QED
    BY <1>2, <2>6, <2>7, <2>8, <2>9, <2>10, <2>11 DEF AcquireInv
<1> QED
  BY <1>3, <1>4 DEF ProbesDone
----------------------------------------------------------------------------
(* The whole of Run. *)

LEMMA AcquireStep == AcquireInv /\ [Next]_vars => AcquireInv'
<1> SUFFICES ASSUME AcquireInv, [Next]_vars PROVE AcquireInv'
  OBVIOUS
<1>1. CASE FundingStep \/ Funded \/ NextService \/ StartRound \/ EndRounds
  BY <1>1, FundingStepKeeps, FundedKeeps, NextServiceKeeps, StartRoundKeeps, EndRoundsKeeps
<1>2. CASE Launching
  BY <1>2, RunInstancesKeeps, NoCapacityKeeps, RunInstancesFailsKeeps, TagInstanceKeeps,
     TagFailsKeeps, WaitFailsKeeps, PublicIPsKeeps, RecordCreatedKeeps, RecordFailsKeeps
  DEF Launching
<1>3. CASE Probing
  BY <1>3, NextProbesKeeps, ProbesDoneKeeps, StartProbeKeeps, EndProbeKeeps DEF Probing
<1>4. CASE UNCHANGED vars
  <2>1. /\ UNCHANGED <<fundingVars, runner>> /\ task' = task
        /\ UNCHANGED <<snapshot, stage, svc, round, ordinal, fleet, asked, batch, ids, ips, result,
                       ready, answered, created, got, plans>>
    BY <1>4 DEF vars, acquiring, runner
  <2>2. FundingInv' /\ BatchInv' /\ funding' = funding
    BY <2>1, SameRunner, SameFunding DEF AcquireInv, ProbeInv, fundingVars
  <2>3. AcquireTypes'
    BY <2>1 DEF AcquireInv, AcquireTypes
  <2>4. Taken' = Taken /\ Reuse' = Reuse /\ Grows
    BY <2>1, TakenStays DEF Grows
  <2>5. GotInv' /\ PlanInv'
    BY <2>1, <2>4, GotStays DEF AcquireInv
  <2>6. StageInv' /\ TagInv' /\ TagsUnique'
    BY <2>1, <2>2, <2>4 DEF AcquireInv, StageInv, TagInv, TagsUnique
  <2>7. ReadyInv' /\ LaunchInv' /\ ProbeInv'
    BY <2>1, <2>2, <2>4
    DEF AcquireInv, ReadyInv, LaunchInv, ProbeInv, Need, Target, Pool
  <2> QED
    BY <2>2, <2>3, <2>5, <2>6, <2>7 DEF AcquireInv
<1> QED
  BY <1>1, <1>2, <1>3, <1>4 DEF Next, Step, Returned

LEMMA AlwaysAcquireInv == Spec => []AcquireInv
<1>1. Init => AcquireInv
  BY AcquireStart
<1>2. AcquireInv /\ [Next]_vars => AcquireInv'
  BY AcquireStep
<1> QED
  BY <1>1, <1>2, PTL DEF Spec

\* Every variable keeps its type: in particular svc, round, asked and the attempts at a
\* transfer keep their bounds.
THEOREM AcquireTypeOK == Spec => []TypeOK
BY AlwaysAcquireInv, InvTypes, PTL

LEMMA InvFunded == AcquireInv => VaultsFunded
<1> SUFFICES ASSUME AcquireInv, stage \notin {"fund", "failed"}
             PROVE  /\ Range(Targets) \subseteq mined
                    /\ \A p \in plans :
                          Services[p.svc].funded /\ ~Services[p.svc].custom => p.vault \in mined
  BY DEF VaultsFunded
<1>1. Range(Targets) \subseteq mined
  BY DEF AcquireInv, StageInv, FundingInv
<1>2. ASSUME NEW p \in plans, Services[p.svc].funded, ~Services[p.svc].custom
      PROVE  p.vault \in mined
  <2>1. p.svc \in DOMAIN Services
    BY DEF AcquireInv, PlanInv
  <2>2. PICK i \in Positions(p.svc) : p = RemoteCommand(p.svc, got[p.svc], i)
    BY DEF AcquireInv, PlanInv
  <2>3. p.vault = VaultKey(Services[p.svc].type, VaultIndex(Services[p.svc].type, i))
    BY <1>2, <2>2 DEF RemoteCommand, VaultIndex
  <2>4. p.vault \in Payments(p.svc)
    BY <1>2, <2>1, <2>3, EveryPositionPaid
  <2> QED
    BY <1>1, <2>1, <2>4, TargetsType
<1> QED
  BY <1>1, <1>2

\* Whatever the services are and however often transfers are sent again: when the first
\* machine is taken every transfer has been mined, although fundAllL1Vaults awaits only
\* the receipt of the last, and the vault that a script of a funded service is told (which
\* a remoteCmd is not) is one paid.
THEOREM VaultsAlwaysFunded == Spec => []VaultsFunded
BY AlwaysAcquireInv, InvFunded, PTL

\* Through all batches, rounds and errors, no two instances of a service get the same
\* Name tag.
THEOREM TagsAlwaysUnique == Spec => []TagsUnique
<1>1. AcquireInv => TagsUnique
  BY DEF AcquireInv
<1> QED
  BY <1>1, AlwaysAcquireInv, PTL

LEMMA InvEnough == AcquireInv => EnoughMachines
<1> SUFFICES ASSUME AcquireInv, stage = "done", NEW s \in DOMAIN Services
             PROVE  /\ Len(got[s]) = Target(s) /\ IsInjective(got[s])
                    /\ Range(got[s]) \subseteq answered
                    /\ \A t \in DOMAIN Services \ {s} :
                          Range(got[s]) \cap Range(got[t]) # {} =>
                              Reuse /\ (Services[s].type = Services[t].type \/
                                        \E c, d \in Range(snapshot) :
                                           c.ip = d.ip /\ c.type # d.type)
  BY DEF EnoughMachines
<1>1. s < svc /\ AcquireTypes
  BY ServicesAssumption DEF AcquireInv, StageInv
<1>2. Len(got[s]) = Target(s) /\ IsInjective(got[s]) /\ Range(got[s]) \subseteq answered
  BY <1>1 DEF AcquireInv, GotInv
<1>3. ASSUME NEW t \in DOMAIN Services, t # s, NEW ip \in Range(got[s]) \cap Range(got[t])
      PROVE  Reuse /\ (Services[s].type = Services[t].type \/
                       \E c, d \in Range(snapshot) : c.ip = d.ip /\ c.type # d.type)
  <2>1. ip \in OwnMachines(s) /\ ip \in OwnMachines(t)
    BY <1>3 DEF AcquireInv, GotInv
  <2>2. CASE ~Reuse
    BY <1>3, <2>1, <2>2 DEF OwnMachines
  <2>3. CASE Reuse
    <3>1. \A u \in DOMAIN Services :
             Range(Pool(Services[u].type))
               = {c.ip : c \in {d \in Range(snapshot) : d.type = Services[u].type}}
      BY <1>1, PoolType
    <3>2. PICK c \in Range(snapshot) : c.type = Services[s].type /\ c.ip = ip
      BY <2>1, <2>3, <3>1 DEF OwnMachines
    <3>3. PICK d \in Range(snapshot) : d.type = Services[t].type /\ d.ip = ip
      BY <2>1, <2>3, <3>1 DEF OwnMachines
    <3> QED
      BY <2>3, <3>2, <3>3
  <2> QED
    BY <2>2, <2>3
<1> QED
  BY <1>2, <1>3

\* When Run goes on to the scripts every service has its machines: as many as it wants,
\* once each, all of which have answered, and none that another service has.
THEOREM AlwaysEnoughMachines == Spec => []EnoughMachines
BY AlwaysAcquireInv, InvEnough, PTL

\* The peers of position i: a whole group of machines, with its own at its node number.
LEMMA GroupType ==
    ASSUME NEW g \in Seq(Nat), Len(g) % GroupSize = 0, NEW i \in 0..(Len(g) - 1)
    PROVE  /\ i \div GroupSize \in Nat /\ NodeId(i) \in 1..GroupSize
           /\ (i \div GroupSize) * GroupSize + NodeId(i) = i + 1
           /\ (i \div GroupSize) * GroupSize + 1 \in 1..Len(g)
           /\ Len(GroupIps(g, GroupId(i))) = GroupSize
           /\ \A k \in 1..GroupSize :
                 GroupIps(g, GroupId(i))[k] = g[(i \div GroupSize) * GroupSize + k]
<1>0. GroupSize \in Nat \ {0} /\ Len(g) \in Nat /\ i \in Nat
  BY ServicesAssumption
<1>1. /\ i \div GroupSize \in Nat /\ i % GroupSize \in 0..(GroupSize - 1)
      /\ i = (i \div GroupSize) * GroupSize + (i % GroupSize)
  BY <1>0, Division
<1>2. (i \div GroupSize) * GroupSize + GroupSize <= Len(g)
  BY <1>0, GroupBelow
<1>3. PICK a \in Nat : a = (i \div GroupSize) * GroupSize
  <2>1. (i \div GroupSize) * GroupSize \in Nat
    BY <1>0, <1>1
  <2> QED
    BY <2>1
<1>4. GroupIps(g, GroupId(i)) = SubSeq(g, a + 1, a + GroupSize)
  <2>1. GroupId(i) - 1 = i \div GroupSize
    BY <1>1 DEF GroupId
  <2> QED
    BY <1>3, <2>1 DEF GroupIps
<1>5. a + 1 \in 1..Len(g) /\ a + GroupSize \in 1..Len(g) /\ a + 1 <= a + GroupSize
      /\ (a + GroupSize) - (a + 1) + 1 = GroupSize
  BY <1>0, <1>2, <1>3
<1>6. /\ Len(SubSeq(g, a + 1, a + GroupSize)) = GroupSize
      /\ \A k \in 1..GroupSize : SubSeq(g, a + 1, a + GroupSize)[k] = g[a + k]
  <2>1. Len(SubSeq(g, a + 1, a + GroupSize)) = (a + GroupSize) - (a + 1) + 1
    BY <1>0, <1>5
  <2>2. ASSUME NEW k \in 1..GroupSize
        PROVE  SubSeq(g, a + 1, a + GroupSize)[k] = g[a + k]
    <3>1. k \in 1..((a + GroupSize) - (a + 1) + 1) /\ (a + 1) + k - 1 = a + k
      BY <1>0, <1>5
    <3>2. SubSeq(g, a + 1, a + GroupSize)[k] = g[(a + 1) + k - 1]
      BY <1>0, <1>5, <3>1
    <3> QED
      BY <3>1, <3>2
  <2> QED
    BY <1>5, <2>1, <2>2
<1>7. NodeId(i) \in 1..GroupSize /\ a + NodeId(i) = i + 1
  <2>1. PICK r \in 0..(GroupSize - 1) : r = i % GroupSize /\ i = a + r
    BY <1>1, <1>3
  <2>2. NodeId(i) = r + 1
    BY <2>1 DEF NodeId
  <2>3. i = a + r
    BY <2>1
  <2> QED
    BY <1>0, <2>2, <2>3
<1> QED
  BY <1>1, <1>3, <1>4, <1>5, <1>6, <1>7

\* The machines of a group are those of the same quotient.
LEMMA GroupsApart ==
    ASSUME NEW g \in Seq(Nat), IsInjective(g), Len(g) % GroupSize = 0,
           NEW i \in 0..(Len(g) - 1), NEW j \in 0..(Len(g) - 1)
    PROVE  GroupIps(g, GroupId(i)) = GroupIps(g, GroupId(j)) <=> GroupId(i) = GroupId(j)
<1>0. GroupSize \in Nat \ {0} /\ 1 \in 1..GroupSize /\ 0 \in 0..(GroupSize - 1)
  BY ServicesAssumption
<1>1. /\ i \div GroupSize \in Nat /\ (i \div GroupSize) * GroupSize + 1 \in DOMAIN g
      /\ GroupIps(g, GroupId(i))[1] = g[(i \div GroupSize) * GroupSize + 1]
  <2>1. /\ i \div GroupSize \in Nat
        /\ (i \div GroupSize) * GroupSize + 1 \in 1..Len(g)
        /\ \A k \in 1..GroupSize :
              GroupIps(g, GroupId(i))[k] = g[(i \div GroupSize) * GroupSize + k]
    BY GroupType
  <2>2. DOMAIN g = 1..Len(g)
    OBVIOUS
  <2>3. GroupIps(g, GroupId(i))[1] = g[(i \div GroupSize) * GroupSize + 1]
    BY <1>0, <2>1
  <2> QED
    BY <2>1, <2>2, <2>3
<1>2. /\ j \div GroupSize \in Nat /\ (j \div GroupSize) * GroupSize + 1 \in DOMAIN g
      /\ GroupIps(g, GroupId(j))[1] = g[(j \div GroupSize) * GroupSize + 1]
  <2>1. /\ j \div GroupSize \in Nat
        /\ (j \div GroupSize) * GroupSize + 1 \in 1..Len(g)
        /\ \A k \in 1..GroupSize :
              GroupIps(g, GroupId(j))[k] = g[(j \div GroupSize) * GroupSize + k]
    BY GroupType
  <2>2. DOMAIN g = 1..Len(g)
    OBVIOUS
  <2>3. GroupIps(g, GroupId(j))[1] = g[(j \div GroupSize) * GroupSize + 1]
    BY <1>0, <2>1
  <2> QED
    BY <2>1, <2>2, <2>3
<1>3. ASSUME GroupIps(g, GroupId(i)) = GroupIps(g, GroupId(j)) PROVE GroupId(i) = GroupId(j)
  <2>1. (i \div GroupSize) * GroupSize + 1 = (j \div GroupSize) * GroupSize + 1
    BY <1>1, <1>2, <1>3 DEF IsInjective
  <2>2. (i \div GroupSize) * GroupSize + 0 = (j \div GroupSize) * GroupSize + 0
    BY <1>0, <1>1, <1>2, <2>1
  <2>3. /\ ((i \div GroupSize) * GroupSize + 0) \div GroupSize = i \div GroupSize
        /\ ((j \div GroupSize) * GroupSize + 0) \div GroupSize = j \div GroupSize
    BY <1>0, <1>1, <1>2, DivisionOf
  <2>4. i \div GroupSize = j \div GroupSize
    BY <2>2, <2>3
  <2> QED
    BY <2>4 DEF GroupId
<1> QED
  BY <1>3

LEMMA InvPlansAgree == AcquireInv => PlansAgree
<1> SUFFICES ASSUME AcquireInv, NEW p \in plans, NEW q \in plans, p.svc = q.svc,
                    ~Services[p.svc].custom
             PROVE  /\ Services[p.svc].type = "xjst" =>
                         /\ Len(p.peers) = GroupSize /\ p.peers[p.node] = p.ip
                         /\ p.vault = q.vault <=> p.peers = q.peers
                         /\ p.vault = q.vault /\ p.node = q.node => p = q
                    /\ Services[p.svc].type \in {"op", "cdk"} /\ p.vault = q.vault => p = q
  BY DEF PlansAgree
<1> DEFINE s == p.svc
           g == got[s]
<1>1. s \in DOMAIN Services /\ s < svc
  BY DEF AcquireInv, PlanInv
<1>2. PICK i \in Positions(s) : p = RemoteCommand(s, g, i)
  BY DEF AcquireInv, PlanInv
<1>3. PICK j \in Positions(s) : q = RemoteCommand(s, g, j)
  BY DEF AcquireInv, PlanInv
<1>4. g \in Seq(Nat) /\ IsInjective(g) /\ Len(g) = Services[s].count
  BY <1>1 DEF AcquireInv, AcquireTypes, GotInv, Target
<1>5. i \in 0..(Len(g) - 1) /\ j \in 0..(Len(g) - 1) /\ i \in Nat /\ j \in Nat
  BY <1>4 DEF Positions
<1> HIDE DEF g
<1>6. CASE Services[s].type = "xjst"
  <2>1. /\ p.ip = g[i + 1] /\ p.node = NodeId(i) /\ p.peers = GroupIps(g, GroupId(i))
        /\ p.vault = <<"xjst", GroupId(i)>>
        /\ q.ip = g[j + 1] /\ q.node = NodeId(j) /\ q.peers = GroupIps(g, GroupId(j))
        /\ q.vault = <<"xjst", GroupId(j)>>
    BY <1>2, <1>3, <1>6 DEF RemoteCommand, VaultKey
  <2>2. Len(g) % GroupSize = 0
    BY <1>1, <1>4, <1>6, ServiceType DEF Target
  <2>3. /\ i \div GroupSize \in Nat /\ NodeId(i) \in 1..GroupSize
        /\ (i \div GroupSize) * GroupSize + NodeId(i) = i + 1
        /\ Len(GroupIps(g, GroupId(i))) = GroupSize
        /\ \A k \in 1..GroupSize :
              GroupIps(g, GroupId(i))[k] = g[(i \div GroupSize) * GroupSize + k]
    BY <1>4, <1>5, <2>2, GroupType
  <2>4. /\ j \div GroupSize \in Nat
        /\ (j \div GroupSize) * GroupSize + NodeId(j) = j + 1
    BY <1>4, <1>5, <2>2, GroupType
  <2>5. Len(p.peers) = GroupSize /\ p.peers[p.node] = p.ip
    BY <2>1, <2>3
  <2>6. p.vault = q.vault <=> GroupId(i) = GroupId(j)
    BY <2>1
  <2>7. p.vault = q.vault <=> p.peers = q.peers
    <3>1. GroupIps(g, GroupId(i)) = GroupIps(g, GroupId(j)) <=> GroupId(i) = GroupId(j)
      BY <1>4, <1>5, <2>2, GroupsApart
    <3> QED
      BY <2>1, <2>6, <3>1
  <2>8. ASSUME p.vault = q.vault, p.node = q.node PROVE p = q
    <3>1. i \div GroupSize = j \div GroupSize
      BY <2>3, <2>4, <2>6, <2>8 DEF GroupId
    <3>2. i + 1 = j + 1
      BY <2>1, <2>3, <2>4, <2>8, <3>1
    <3>3. i = j
      BY <1>5, <3>2
    <3> QED
      BY <1>2, <1>3, <3>3
  <2> QED
    BY <1>6, <2>5, <2>7, <2>8
<1>7. CASE Services[s].type # "xjst"
  <2> SUFFICES ASSUME Services[s].type \in {"op", "cdk"}, p.vault = q.vault PROVE p = q
    BY <1>7
  <2>1. PICK x \in Nat, y \in Nat :
           x = FirstChainID + i /\ y = FirstChainID + j /\ (x = y => i = j)
    BY <1>5 DEF FirstChainID
  <2>2. p.vault = <<Services[s].type, x>> /\ q.vault = <<Services[s].type, y>>
    BY <1>2, <1>3, <2>1 DEF RemoteCommand, VaultKey, L2ChainID
  <2>3. i = j
    <3>1. <<Services[s].type, x>> = <<Services[s].type, y>>
      BY <2>2
    <3>2. x = y
      BY <3>1
    <3> QED
      BY <2>1, <3>2
  <2> QED
    BY <1>2, <1>3, <2>3
<1> QED
  BY <1>6, <1>7

\* What the scripts of a service without a remoteCmd are told fits together, for every group
\* size and number of machines, and also when only some of them get planned: an XJST group
\* agrees on its peers and its vault and on who is who.
THEOREM PlansAlwaysAgree == Spec => []PlansAgree
BY AlwaysAcquireInv, InvPlansAgree, PTL

\* The steps of Run that probe machines are those of the batch runner; probes begin when
\* none is left of those before.
LEMMA ProbesStep == AcquireInv /\ [Next]_vars => [RunnerNext]_runner
<1> SUFFICES ASSUME AcquireInv, [Next]_vars PROVE [RunnerNext]_runner
  OBVIOUS
<1>0. AcquireTypes /\ (stage # "probe" => task = <<>>)
  BY DEF AcquireInv, ProbeInv
<1>1. ASSUME NEW n \in Nat, AllDone, Begin(n) PROVE [RunnerNext]_runner
  BY <1>1 DEF RunnerNext
<1>2. CASE FundingStep \/ Funded \/ NextService \/ EndRounds
  BY <1>2 DEF FundingStep, Funded, NextService, EndRounds
<1>3. CASE StartRound
  <2>1. CASE UNCHANGED runner
    BY <2>1
  <2>2. CASE ~UNCHANGED runner
    <3>1. /\ stage = "round" /\ Need > 0
          /\ Begin(Len(SubSeq(Pool(Services[svc].type), ordinal, ordinal + Need - 1)))
      BY <1>3, <2>2 DEF StartRound, Probe
    <3>2. ordinal \in Int /\ ordinal + Need - 1 \in Int /\ Need \in Int /\ Need > 0
          /\ (ordinal + Need - 1) - ordinal + 1 = Need
      <4>1. svc \in DOMAIN Services
        BY <3>1 DEF AcquireInv, StageInv, Working
      <4> QED
        BY <1>0, <3>1, <4>1, Shapes, NeedType
    <3>3. PICK s : s = SubSeq(Pool(Services[svc].type), ordinal, ordinal + Need - 1)
      OBVIOUS
    <3>4. Len(s) = Need /\ Need \in Nat
      <4>1. Len(s) = (ordinal + Need - 1) - ordinal + 1
        BY <3>2, <3>3
      <4> QED
        BY <3>2, <4>1
    <3>5. Begin(Need)
      <4>1. Begin(Len(s))
        BY <3>1, <3>3, Zenon
      <4> QED
        BY <3>4, <4>1 DEF Begin
    <3>6. AllDone
      BY <1>0, <3>1 DEF AllDone
    <3> QED
      BY <1>1, <3>4, <3>5, <3>6
  <2> QED
    BY <2>1, <2>2
<1>4. CASE RecordCreated
  <2>1. AllDone /\ Begin(Len(ips)) /\ Len(ips) \in Nat
    BY <1>0, <1>4, Shapes DEF RecordCreated, Probe, AllDone
  <2> QED
    BY <1>1, <2>1
<1>5. CASE RunInstances \/ NoCapacity \/ RunInstancesFails \/ TagInstance \/ TagFails
           \/ WaitFails \/ PublicIPs \/ RecordFails
  BY <1>5
  DEF RunInstances, NoCapacity, RunInstancesFails, TagInstance, TagFails, WaitFails, PublicIPs,
      RecordFails
<1>6. CASE Probing
  <2>1. CASE NextProbes
    BY <2>1 DEF NextProbes, RunnerNext
  <2>2. CASE ProbesDone
    <3>1. AllDone /\ Begin(0) /\ 0 \in Nat
      BY <2>2 DEF ProbesDone
    <3> QED
      BY <1>1, <3>1
  <2>3. ASSUME NEW i \in DOMAIN task, StartProbe(i) \/ EndProbe(i) PROVE [RunnerNext]_runner
    BY <2>3 DEF StartProbe, EndProbe, RunnerNext
  <2> QED
    BY <1>6, <2>1, <2>2, <2>3 DEF Probing
<1>7. CASE UNCHANGED vars
  BY <1>7 DEF vars
<1> QED
  BY <1>2, <1>3, <1>4, <1>5, <1>6, <1>7 DEF Next, Step, Launching, Returned

\* waitAllSSHReady is runWithBatchLimit, step by step, whatever Run does between the
\* batches.
THEOREM ProbesUseRunner == Spec => RunnerSpec
<1>1. Init => RunnerInit
  BY DEF Init
<1>2. AcquireInv /\ [Next]_vars => [RunnerNext]_runner
  BY ProbesStep
<1> QED
  BY <1>1, <1>2, AlwaysAcquireInv, PTL DEF Spec, RunnerSpec

\* Hence no more machines are probed at once than the limit allows.
THEOREM ProbesNeverMoreThanLimit == Spec => []AtMostLimit
BY ProbesUseRunner, NeverMoreThanLimit, PTL
=============================================================================
