---------------------------- MODULE VaultFunding ----------------------------
(***************************************************************************)
(* fundAllL1Vaults: transfers from the source vault to the vault of every  *)
(* chain, one after the other, each tried three times; only the receipt of *)
(* the last one is awaited.  L1 mines the transfers of one sender in the   *)
(* order of their nonces.  An answer may be lost after the transfer went   *)
(* out: it is sent again.                                                  *)
(***************************************************************************)
EXTENDS ChainPlan, SequencesExt

CONSTANT SendAttempts   \* of commonutils.Retry (3)

ASSUME SendAssumption == SendAttempts \in Nat \ {0}

VARIABLES
    funding,    \* "send", "receipt", "done" or "failed"
    target,     \* the index of the transfer at work
    sent,       \* attempts at it
    pool,       \* transfers sent and not mined
    mined,      \* vaults that a mined transfer has paid
    hash        \* the length of the pool's part up to the transfer awaited

fundingVars == <<funding, target, sent, pool, mined, hash>>

\* The vaults to pay, in some order (one payment for those of a generic service, which share
\* the vault with index 0).
Payments(s) ==
    IF Services[s].funded
    THEN {VaultKey(Services[s].type, VaultIndex(Services[s].type, i)) : i \in PaidPositions(s)}
    ELSE {}
Targets == FlattenSeq([s \in DOMAIN Services |-> SetToSeq(Payments(s))])

FundingTypeOK ==
    /\ funding \in {"send", "receipt", "done", "failed"}
    /\ target \in 1..(Len(Targets) + 1) /\ sent \in 0..(SendAttempts - 1)
    /\ pool \in Seq(Range(Targets)) /\ mined \subseteq Range(Targets)
    /\ hash \in 0..Len(pool)

FundingInit ==
    /\ funding = IF Targets = <<>> THEN "done" ELSE "send"
    /\ target = 1 /\ sent = 0 /\ pool = <<>> /\ mined = {} /\ hash = 0

\* Mutant of Retry: failed attempts are not counted.
RetryForever == funding' = "send" /\ UNCHANGED sent

\* Mutant of Retry: one attempt too many.
RetryOnceMore ==
    IF sent < SendAttempts
    THEN funding' = "send" /\ sent' = sent + 1
    ELSE funding' = "failed" /\ sent' = 0

\* An attempt fails; Retry gives up after the last.
Retry ==
    IF sent + 1 < SendAttempts
    THEN funding' = "send" /\ sent' = sent + 1
    ELSE funding' = "failed" /\ sent' = 0

\* Mutant of AwaitsReceipt: the receipt of the first transfer.
AwaitsReceiptFirst(i) == i = 1

AwaitsReceipt(i) == i = Len(Targets)

Settled(i) ==
    /\ target' = i + 1 /\ sent' = 0
    /\ funding' = IF i = Len(Targets) THEN "done" ELSE "send"

Transfer ==
    /\ funding = "send"
    /\ pool' = Append(pool, Targets[target])
    /\ \/ ~AwaitsReceipt(target) /\ Settled(target) /\ UNCHANGED hash
       \/ AwaitsReceipt(target) /\ funding' = "receipt" /\ hash' = Len(pool) + 1
          /\ UNCHANGED <<target, sent>>
    /\ UNCHANGED mined

\* Not sent, or sent and the answer lost.
TransferFails ==
    /\ funding = "send"
    /\ Retry
    /\ pool' \in {pool, Append(pool, Targets[target])}
    /\ UNCHANGED <<target, mined, hash>>

Mine ==
    /\ funding \in {"send", "receipt"} /\ pool # <<>>
    /\ mined' = mined \cup {Head(pool)} /\ pool' = Tail(pool)
    /\ hash' = IF hash > 0 THEN hash - 1 ELSE 0
    /\ UNCHANGED <<funding, target, sent>>

\* TransactionReceipt is not nil; a nil one is asked for again.
Receipt ==
    /\ funding = "receipt" /\ hash = 0
    /\ Settled(target)
    /\ UNCHANGED <<pool, mined, hash>>

ReceiptFails ==
    /\ funding = "receipt"
    /\ Retry
    /\ hash' = 0
    /\ UNCHANGED <<target, pool, mined>>

Funding == Transfer \/ TransferFails \/ Mine \/ Receipt \/ ReceiptFails
============================================================================
