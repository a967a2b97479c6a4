------------------------- MODULE WithdrawalProofs -------------------------
(* Proofs about the withdrawal pipeline, for every set of vaults, requests *)
(* and forced payouts, both payout modes, and any number of crashes.       *)
EXTENDS Withdrawal, FiniteSetTheorems, TLAPS

(* Types and control state: what Node's handlers, timers and the database   *)
(* hold is well formed after every step, a crash included.                  *)
LEMMA TypeStep == TypeOK /\ [Next]_vars => TypeOK'
  <1> SUFFICES ASSUME TypeOK, [Next]_vars PROVE TypeOK'
    OBVIOUS
  <1> USE ConstantsOK DEF TypeOK, VaultStatus, AuthStatus, TxState, HandlerPc, PayPc, Payers
  <1>1. ASSUME NEW r \in Requests, WithdrawReject(r) PROVE TypeOK'
    BY <1>1 DEF WithdrawReject, db, bitcoin, proc
  <1>2. ASSUME NEW r \in Requests, WithdrawStart(r) PROVE TypeOK'
    BY <1>2 DEF WithdrawStart, db, bitcoin, proc
  <1>3. ASSUME NEW r \in Requests, WithdrawRetry(r) PROVE TypeOK'
    BY <1>3
       DEF WithdrawRetry, AuthorizeAndPay, RecordAuthTx, StatusForPayout,
           StatusWhilePaying, MayPay, IsRetry, db, bitcoin, proc
  <1>4. ASSUME NEW r \in Requests, WithdrawRetryRefused(r) PROVE TypeOK'
    BY <1>4 DEF WithdrawRetryRefused, db, bitcoin, proc
  <1>5. ASSUME NEW r \in Requests, WithdrawSubmitTimeout(r) PROVE TypeOK'
    BY <1>5 DEF WithdrawSubmitTimeout, db, bitcoin, proc
  <1>6. ASSUME NEW r \in Requests, WithdrawPayoutTimeout(r) PROVE TypeOK'
    BY <1>6
       DEF WithdrawPayoutTimeout, Finish, FinishFirstAttempt, Racing, db,
           bitcoin, proc
  <1>7. ASSUME NEW r \in Requests, WithdrawAuthorize(r) PROVE TypeOK'
    BY <1>7
       DEF WithdrawAuthorize, AuthorizeAndPay, RecordAuthTx, StatusForPayout,
           StatusWhilePaying, MayPay, OnChain, db, bitcoin, proc
  <1>8. ASSUME NEW r \in Requests, WithdrawAlreadySettled(r) PROVE TypeOK'
    BY <1>8
       DEF WithdrawAlreadySettled, Finish, FinishFirstAttempt, OnChain, db,
           bitcoin, proc
  <1>9. ASSUME NEW r \in Requests, WithdrawAuthFails(r) PROVE TypeOK'
    BY <1>9
       DEF WithdrawAuthFails, Finish, FinishFirstAttempt, OnChain, db, bitcoin,
           proc
  <1>10. ASSUME NEW r \in Requests, WithdrawPaid(r) PROVE TypeOK'
    BY <1>10 DEF WithdrawPaid, Finish, FinishFirstAttempt, Racing, db, bitcoin, proc
  <1>11. ASSUME NEW r \in Requests, WithdrawPayFails(r) PROVE TypeOK'
    BY <1>11
       DEF WithdrawPayFails, Finish, FinishFirstAttempt, Racing,
           StatusAfterFailure, db, bitcoin, proc
  <1>12. ASSUME NEW r \in Requests, DetachedPaid(r) PROVE TypeOK'
    BY <1>12 DEF DetachedPaid, StatusAfterSuccess, db, bitcoin, proc
  <1>13. ASSUME NEW r \in Requests, DetachedPayFails(r) PROVE TypeOK'
    BY <1>13 DEF DetachedPayFails, StatusAfterFailure, db, bitcoin, proc
  <1>14. ASSUME NEW r \in Requests, WithdrawSubmitted(r) PROVE TypeOK'
    BY <1>14 DEF WithdrawSubmitted, db, bitcoin, proc
  <1>15. ASSUME NEW r \in Requests, WithdrawNotSent(r) PROVE TypeOK'
    BY <1>15 DEF WithdrawNotSent, db, bitcoin, proc
  <1>16. ASSUME NEW r \in Requests, TxSucceeds(r) PROVE TypeOK'
    BY <1>16 DEF TxSucceeds, db, bitcoin, proc
  <1>17. ASSUME NEW r \in Requests, TxReverts(r) PROVE TypeOK'
    BY <1>17 DEF TxReverts, db, bitcoin, proc
  <1>18. ASSUME NEW p \in Payers, PayFetch(p) PROVE TypeOK'
    <2>1. WalletOf(p) \in Wallets
      BY DEF WalletOf, Wallets
    <2>2. Cardinality(PaidFrom(WalletOf(p))) \in Nat
      BY FS_Subset, FS_CardinalityType DEF PaidFrom
    <2> QED
      BY <1>18, <2>1, <2>2 DEF PayFetch, WalletView, db, bitcoin, proc
  <1>19. ASSUME NEW p \in Payers, PayBroadcast(p) PROVE TypeOK'
    <2>1. PayVault(p) \in Vaults
      BY <1>19 DEF PayBroadcast, PayVault
    <2>2. [vault |-> PayVault(p), wallet |-> WalletOf(p), view |-> view[p]] \in Payment
      BY <2>1 DEF Payment, WalletOf, Wallets
    <2>3. IsFiniteSet(btc')
      BY <1>19, FS_AddElement DEF PayBroadcast
    <2> QED
      BY <1>19, <2>2, <2>3 DEF PayBroadcast, db, proc
  <1>20. ASSUME ProcPoll PROVE TypeOK'
    BY <1>20 DEF ProcPoll, db, bitcoin, proc
  <1>21. ASSUME NEW v \in Vaults, ProcStart(v) PROVE TypeOK'
    BY <1>21 DEF ProcStart, db, bitcoin, proc
  <1>22. ASSUME ProcNotFinal PROVE TypeOK'
    BY <1>22 DEF ProcNotFinal, ProcDone, db, bitcoin, proc
  <1>23. ASSUME ProcPay PROVE TypeOK'
    BY <1>23 DEF ProcPay, MayPay, StatusWhilePaying, db, bitcoin, proc
  <1>24. ASSUME ProcPayRefused PROVE TypeOK'
    BY <1>24 DEF ProcPayRefused, ProcDone, db, bitcoin, proc
  <1>25. ASSUME ProcPaid PROVE TypeOK'
    BY <1>25 DEF ProcPaid, ProcDone, db, bitcoin, proc
  <1>26. ASSUME ProcPayFails PROVE TypeOK'
    BY <1>26 DEF ProcPayFails, ProcDone, db, bitcoin, proc
  <1>27. ASSUME NEW f \in Forces, ForceStart(f) PROVE TypeOK'
    BY <1>27 DEF ForceStart, db, bitcoin, proc
  <1>28. ASSUME NEW f \in Forces, ForcePaid(f) PROVE TypeOK'
    BY <1>28 DEF ForcePaid, db, bitcoin, proc
  <1>29. ASSUME NEW f \in Forces, ForceFails(f) PROVE TypeOK'
    BY <1>29 DEF ForceFails, db, bitcoin, proc
  <1>30. ASSUME NEW v \in Vaults, AuditVerify(v) PROVE TypeOK'
    BY <1>30 DEF AuditVerify, db, bitcoin, proc
  <1>31. ASSUME NEW w \in Wallets, TopUp(w) PROVE TypeOK'
    BY <1>31 DEF TopUp, db, bitcoin, proc
  <1>32. ASSUME Crash PROVE TypeOK'
    BY <1>32 DEF Crash, LoseMemory, db, bitcoin, proc
  <1>33. ASSUME NEW r \in Requests, CrashAfterInsert(r) PROVE TypeOK'
    BY <1>33 DEF CrashAfterInsert, LoseMemory, OnChain, db, bitcoin, proc
  <1>34. ASSUME UNCHANGED vars PROVE TypeOK'
    BY <1>34 DEF vars
  <1> QED
    BY <1>1, <1>2, <1>3, <1>4, <1>5, <1>6, <1>7, <1>8, <1>9, <1>10, <1>11,
       <1>12, <1>13, <1>14, <1>15, <1>16, <1>17, <1>18, <1>19, <1>20, <1>21,
       <1>22, <1>23, <1>24, <1>25, <1>26, <1>27, <1>28, <1>29, <1>30, <1>31,
       <1>32, <1>33, <1>34 DEF Next, Arrive, Handler, HandlerTimer,
       Detached, Chain, Pay, Processor, ProcSettle, Forced, vars

(* A row names a transaction of its own vault, on first attempts, retries    *)
(* and crashes alike.                                                       *)
LEMMA AuthBackedStep == TypeOK /\ VaultRowBacked /\ OnlyAuthorizedPaid /\ AuthBacked /\ [Next]_vars => AuthBacked'
  <1> SUFFICES ASSUME TypeOK /\ VaultRowBacked /\ OnlyAuthorizedPaid /\ AuthBacked, [Next]_vars PROVE AuthBacked'
    OBVIOUS
  <1> USE ConstantsOK DEF TypeOK, AuthStatus, TxState, HandlerPc, PayPc, Payers, OnChain, AuthBacked, VaultRowBacked, OnlyAuthorizedPaid
  <1>1. ASSUME NEW r \in Requests, WithdrawReject(r) PROVE AuthBacked'
    BY <1>1 DEF WithdrawReject, db, bitcoin, proc
  <1>2. ASSUME NEW r \in Requests, WithdrawStart(r) PROVE AuthBacked'
    BY <1>2 DEF WithdrawStart, db, bitcoin, proc
  <1>3. ASSUME NEW r \in Requests, WithdrawRetry(r) PROVE AuthBacked'
    BY <1>3
       DEF WithdrawRetry, AuthorizeAndPay, RecordAuthTx, StatusForPayout,
           StatusWhilePaying, MayPay, IsRetry, db, bitcoin, proc
  <1>4. ASSUME NEW r \in Requests, WithdrawRetryRefused(r) PROVE AuthBacked'
    BY <1>4 DEF WithdrawRetryRefused, db, bitcoin, proc
  <1>5. ASSUME NEW r \in Requests, WithdrawSubmitTimeout(r) PROVE AuthBacked'
    BY <1>5 DEF WithdrawSubmitTimeout, db, bitcoin, proc
  <1>6. ASSUME NEW r \in Requests, WithdrawPayoutTimeout(r) PROVE AuthBacked'
    BY <1>6
       DEF WithdrawPayoutTimeout, Finish, FinishFirstAttempt, Racing, db,
           bitcoin, proc
  <1>7. ASSUME NEW r \in Requests, WithdrawAuthorize(r) PROVE AuthBacked'
    BY <1>7
       DEF WithdrawAuthorize, AuthorizeAndPay, RecordAuthTx, StatusForPayout,
           StatusWhilePaying, MayPay, OnChain, db, bitcoin, proc
  <1>8. ASSUME NEW r \in Requests, WithdrawAlreadySettled(r) PROVE AuthBacked'
    BY <1>8
       DEF WithdrawAlreadySettled, Finish, FinishFirstAttempt, OnChain, db,
           bitcoin, proc
  <1>9. ASSUME NEW r \in Requests, WithdrawAuthFails(r) PROVE AuthBacked'
    BY <1>9
       DEF WithdrawAuthFails, Finish, FinishFirstAttempt, OnChain, db, bitcoin,
           proc
  <1>10. ASSUME NEW r \in Requests, WithdrawPaid(r) PROVE AuthBacked'
    BY <1>10 DEF WithdrawPaid, Finish, FinishFirstAttempt, Racing, db, bitcoin, proc
  <1>11. ASSUME NEW r \in Requests, WithdrawPayFails(r) PROVE AuthBacked'
    BY <1>11
       DEF WithdrawPayFails, Finish, FinishFirstAttempt, Racing,
           StatusAfterFailure, db, bitcoin, proc
  <1>12. ASSUME NEW r \in Requests, DetachedPaid(r) PROVE AuthBacked'
    BY <1>12 DEF DetachedPaid, StatusAfterSuccess, db, bitcoin, proc
  <1>13. ASSUME NEW r \in Requests, DetachedPayFails(r) PROVE AuthBacked'
    BY <1>13 DEF DetachedPayFails, StatusAfterFailure, db, bitcoin, proc
  <1>14. ASSUME NEW r \in Requests, WithdrawSubmitted(r) PROVE AuthBacked'
    BY <1>14 DEF WithdrawSubmitted, db, bitcoin, proc
  <1>15. ASSUME NEW r \in Requests, WithdrawNotSent(r) PROVE AuthBacked'
    BY <1>15 DEF WithdrawNotSent, db, bitcoin, proc
  <1>16. ASSUME NEW r \in Requests, TxSucceeds(r) PROVE AuthBacked'
    BY <1>16 DEF TxSucceeds, db, bitcoin, proc
  <1>17. ASSUME NEW r \in Requests, TxReverts(r) PROVE AuthBacked'
    BY <1>17 DEF TxReverts, db, bitcoin, proc
  <1>18. ASSUME NEW p \in Payers, PayFetch(p) PROVE AuthBacked'
    BY <1>18 DEF PayFetch, db, bitcoin, proc
  <1>19. ASSUME NEW p \in Payers, PayBroadcast(p) PROVE AuthBacked'
    BY <1>19 DEF PayBroadcast, db, bitcoin, proc
  <1>20. ASSUME ProcPoll PROVE AuthBacked'
    BY <1>20 DEF ProcPoll, db, bitcoin, proc
  <1>21. ASSUME NEW v \in Vaults, ProcStart(v) PROVE AuthBacked'
    BY <1>21 DEF ProcStart, db, bitcoin, proc
  <1>22. ASSUME ProcNotFinal PROVE AuthBacked'
    BY <1>22 DEF ProcNotFinal, ProcDone, db, bitcoin, proc
  <1>23. ASSUME ProcPay PROVE AuthBacked'
    BY <1>23 DEF ProcPay, MayPay, StatusWhilePaying, db, bitcoin, proc
  <1>24. ASSUME ProcPayRefused PROVE AuthBacked'
    BY <1>24 DEF ProcPayRefused, ProcDone, db, bitcoin, proc
  <1>25. ASSUME ProcPaid PROVE AuthBacked'
    BY <1>25 DEF ProcPaid, ProcDone, db, bitcoin, proc
  <1>26. ASSUME ProcPayFails PROVE AuthBacked'
    BY <1>26 DEF ProcPayFails, ProcDone, db, bitcoin, proc
  <1>27. ASSUME NEW f \in Forces, ForceStart(f) PROVE AuthBacked'
    BY <1>27 DEF ForceStart, db, bitcoin, proc
  <1>28. ASSUME NEW f \in Forces, ForcePaid(f) PROVE AuthBacked'
    BY <1>28 DEF ForcePaid, db, bitcoin, proc
  <1>29. ASSUME NEW f \in Forces, ForceFails(f) PROVE AuthBacked'
    BY <1>29 DEF ForceFails, db, bitcoin, proc
  <1>30. ASSUME NEW v \in Vaults, AuditVerify(v) PROVE AuthBacked'
    BY <1>30 DEF AuditVerify, db, bitcoin, proc
  <1>31. ASSUME NEW w \in Wallets, TopUp(w) PROVE AuthBacked'
    BY <1>31 DEF TopUp, db, bitcoin, proc
  <1>32. ASSUME Crash PROVE AuthBacked'
    BY <1>32 DEF Crash, LoseMemory, db, bitcoin, proc
  <1>33. ASSUME NEW r \in Requests, CrashAfterInsert(r) PROVE AuthBacked'
    BY <1>33 DEF CrashAfterInsert, LoseMemory, OnChain, db, bitcoin, proc
  <1>34. ASSUME UNCHANGED vars PROVE AuthBacked'
    BY <1>34 DEF vars
  <1> QED
    BY <1>1, <1>2, <1>3, <1>4, <1>5, <1>6, <1>7, <1>8, <1>9, <1>10, <1>11,
       <1>12, <1>13, <1>14, <1>15, <1>16, <1>17, <1>18, <1>19, <1>20, <1>21,
       <1>22, <1>23, <1>24, <1>25, <1>26, <1>27, <1>28, <1>29, <1>30, <1>31,
       <1>32, <1>33, <1>34 DEF Next, Arrive, Handler, HandlerTimer,
       Detached, Chain, Pay, Processor, ProcSettle, Forced, vars

(* withdraw_tx_hash is always the hash of a submitted burn of the vault.    *)
LEMMA VaultRowBackedStep == TypeOK /\ VaultRowBacked /\ [Next]_vars => VaultRowBacked'
  <1> SUFFICES ASSUME TypeOK /\ VaultRowBacked, [Next]_vars PROVE VaultRowBacked'
    OBVIOUS
  <1> USE ConstantsOK DEF TypeOK, AuthStatus, TxState, HandlerPc, PayPc, Payers, OnChain, VaultRowBacked
  <1>1. ASSUME NEW r \in Requests, WithdrawReject(r) PROVE VaultRowBacked'
    BY <1>1 DEF WithdrawReject, db, bitcoin, proc
  <1>2. ASSUME NEW r \in Requests, WithdrawStart(r) PROVE VaultRowBacked'
    BY <1>2 DEF WithdrawStart, db, bitcoin, proc
  <1>3. ASSUME NEW r \in Requests, WithdrawRetry(r) PROVE VaultRowBacked'
    BY <1>3
       DEF WithdrawRetry, AuthorizeAndPay, RecordAuthTx, StatusForPayout,
           StatusWhilePaying, MayPay, IsRetry, db, bitcoin, proc
  <1>4. ASSUME NEW r \in Requests, WithdrawRetryRefused(r) PROVE VaultRowBacked'
    BY <1>4 DEF WithdrawRetryRefused, db, bitcoin, proc
  <1>5. ASSUME NEW r \in Requests, WithdrawSubmitTimeout(r) PROVE VaultRowBacked'
    BY <1>5 DEF WithdrawSubmitTimeout, db, bitcoin, proc
  <1>6. ASSUME NEW r \in Requests, WithdrawPayoutTimeout(r) PROVE VaultRowBacked'
    BY <1>6
       DEF WithdrawPayoutTimeout, Finish, FinishFirstAttempt, Racing, db,
           bitcoin, proc
  <1>7. ASSUME NEW r \in Requests, WithdrawAuthorize(r) PROVE VaultRowBacked'
    BY <1>7
       DEF WithdrawAuthorize, AuthorizeAndPay, RecordAuthTx, StatusForPayout,
           StatusWhilePaying, MayPay, OnChain, db, bitcoin, proc
  <1>8. ASSUME NEW r \in Requests, WithdrawAlreadySettled(r) PROVE VaultRowBacked'
    BY <1>8
       DEF WithdrawAlreadySettled, Finish, FinishFirstAttempt, OnChain, db,
           bitcoin, proc
  <1>9. ASSUME NEW r \in Requests, WithdrawAuthFails(r) PROVE VaultRowBacked'
    BY <1>9
       DEF WithdrawAuthFails, Finish, FinishFirstAttempt, OnChain, db, bitcoin,
           proc
  <1>10. ASSUME NEW r \in Requests, WithdrawPaid(r) PROVE VaultRowBacked'
    BY <1>10 DEF WithdrawPaid, Finish, FinishFirstAttempt, Racing, db, bitcoin, proc
  <1>11. ASSUME NEW r \in Requests, WithdrawPayFails(r) PROVE VaultRowBacked'
    BY <1>11
       DEF WithdrawPayFails, Finish, FinishFirstAttempt, Racing,
           StatusAfterFailure, db, bitcoin, proc
  <1>12. ASSUME NEW r \in Requests, DetachedPaid(r) PROVE VaultRowBacked'
    BY <1>12 DEF DetachedPaid, StatusAfterSuccess, db, bitcoin, proc
  <1>13. ASSUME NEW r \in Requests, DetachedPayFails(r) PROVE VaultRowBacked'
    BY <1>13 DEF DetachedPayFails, StatusAfterFailure, db, bitcoin, proc
  <1>14. ASSUME NEW r \in Requests, WithdrawSubmitted(r) PROVE VaultRowBacked'
    BY <1>14 DEF WithdrawSubmitted, db, bitcoin, proc
  <1>15. ASSUME NEW r \in Requests, WithdrawNotSent(r) PROVE VaultRowBacked'
    BY <1>15 DEF WithdrawNotSent, db, bitcoin, proc
  <1>16. ASSUME NEW r \in Requests, TxSucceeds(r) PROVE VaultRowBacked'
    BY <1>16 DEF TxSucceeds, db, bitcoin, proc
  <1>17. ASSUME NEW r \in Requests, TxReverts(r) PROVE VaultRowBacked'
    BY <1>17 DEF TxReverts, db, bitcoin, proc
  <1>18. ASSUME NEW p \in Payers, PayFetch(p) PROVE VaultRowBacked'
    BY <1>18 DEF PayFetch, db, bitcoin, proc
  <1>19. ASSUME NEW p \in Payers, PayBroadcast(p) PROVE VaultRowBacked'
    BY <1>19 DEF PayBroadcast, db, bitcoin, proc
  <1>20. ASSUME ProcPoll PROVE VaultRowBacked'
    BY <1>20 DEF ProcPoll, db, bitcoin, proc
  <1>21. ASSUME NEW v \in Vaults, ProcStart(v) PROVE VaultRowBacked'
    BY <1>21 DEF ProcStart, db, bitcoin, proc
  <1>22. ASSUME ProcNotFinal PROVE VaultRowBacked'
    BY <1>22 DEF ProcNotFinal, ProcDone, db, bitcoin, proc
  <1>23. ASSUME ProcPay PROVE VaultRowBacked'
    BY <1>23 DEF ProcPay, MayPay, StatusWhilePaying, db, bitcoin, proc
  <1>24. ASSUME ProcPayRefused PROVE VaultRowBacked'
    BY <1>24 DEF ProcPayRefused, ProcDone, db, bitcoin, proc
  <1>25. ASSUME ProcPaid PROVE VaultRowBacked'
    BY <1>25 DEF ProcPaid, ProcDone, db, bitcoin, proc
  <1>26. ASSUME ProcPayFails PROVE VaultRowBacked'
    BY <1>26 DEF ProcPayFails, ProcDone, db, bitcoin, proc
  <1>27. ASSUME NEW f \in Forces, ForceStart(f) PROVE VaultRowBacked'
    BY <1>27 DEF ForceStart, db, bitcoin, proc
  <1>28. ASSUME NEW f \in Forces, ForcePaid(f) PROVE VaultRowBacked'
    BY <1>28 DEF ForcePaid, db, bitcoin, proc
  <1>29. ASSUME NEW f \in Forces, ForceFails(f) PROVE VaultRowBacked'
    BY <1>29 DEF ForceFails, db, bitcoin, proc
  <1>30. ASSUME NEW v \in Vaults, AuditVerify(v) PROVE VaultRowBacked'
    BY <1>30 DEF AuditVerify, db, bitcoin, proc
  <1>31. ASSUME NEW w \in Wallets, TopUp(w) PROVE VaultRowBacked'
    BY <1>31 DEF TopUp, db, bitcoin, proc
  <1>32. ASSUME Crash PROVE VaultRowBacked'
    BY <1>32 DEF Crash, LoseMemory, db, bitcoin, proc
  <1>33. ASSUME NEW r \in Requests, CrashAfterInsert(r) PROVE VaultRowBacked'
    BY <1>33 DEF CrashAfterInsert, LoseMemory, OnChain, db, bitcoin, proc
  <1>34. ASSUME UNCHANGED vars PROVE VaultRowBacked'
    BY <1>34 DEF vars
  <1> QED
    BY <1>1, <1>2, <1>3, <1>4, <1>5, <1>6, <1>7, <1>8, <1>9, <1>10, <1>11,
       <1>12, <1>13, <1>14, <1>15, <1>16, <1>17, <1>18, <1>19, <1>20, <1>21,
       <1>22, <1>23, <1>24, <1>25, <1>26, <1>27, <1>28, <1>29, <1>30, <1>31,
       <1>32, <1>33, <1>34 DEF Next, Arrive, Handler, HandlerTimer,
       Detached, Chain, Pay, Processor, ProcSettle, Forced, vars

(* Nothing lists, works on or pays a vault without an authorization row.    *)
LEMMA OnlyAuthorizedStep == TypeOK /\ OnlyAuthorizedPaid /\ [Next]_vars => OnlyAuthorizedPaid'
  <1> SUFFICES ASSUME TypeOK /\ OnlyAuthorizedPaid, [Next]_vars PROVE OnlyAuthorizedPaid'
    OBVIOUS
  <1> USE ConstantsOK DEF TypeOK, AuthStatus, TxState, HandlerPc, PayPc, Payers, OnChain, OnlyAuthorizedPaid
  <1>1. ASSUME NEW r \in Requests, WithdrawReject(r) PROVE OnlyAuthorizedPaid'
    BY <1>1 DEF WithdrawReject, db, bitcoin, proc
  <1>2. ASSUME NEW r \in Requests, WithdrawStart(r) PROVE OnlyAuthorizedPaid'
    BY <1>2 DEF WithdrawStart, db, bitcoin, proc
  <1>3. ASSUME NEW r \in Requests, WithdrawRetry(r) PROVE OnlyAuthorizedPaid'
    BY <1>3
       DEF WithdrawRetry, AuthorizeAndPay, RecordAuthTx, StatusForPayout,
           StatusWhilePaying, MayPay, IsRetry, db, bitcoin, proc
  <1>4. ASSUME NEW r \in Requests, WithdrawRetryRefused(r) PROVE OnlyAuthorizedPaid'
    BY <1>4 DEF WithdrawRetryRefused, db, bitcoin, proc
  <1>5. ASSUME NEW r \in Requests, WithdrawSubmitTimeout(r) PROVE OnlyAuthorizedPaid'
    BY <1>5 DEF WithdrawSubmitTimeout, db, bitcoin, proc
  <1>6. ASSUME NEW r \in Requests, WithdrawPayoutTimeout(r) PROVE OnlyAuthorizedPaid'
    BY <1>6
       DEF WithdrawPayoutTimeout, Finish, FinishFirstAttempt, Racing, db,
           bitcoin, proc
  <1>7. ASSUME NEW r \in Requests, WithdrawAuthorize(r) PROVE OnlyAuthorizedPaid'
    BY <1>7
       DEF WithdrawAuthorize, AuthorizeAndPay, RecordAuthTx, StatusForPayout,
           StatusWhilePaying, MayPay, OnChain, db, bitcoin, proc
  <1>8. ASSUME NEW r \in Requests, WithdrawAlreadySettled(r) PROVE OnlyAuthorizedPaid'
    BY <1>8
       DEF WithdrawAlreadySettled, Finish, FinishFirstAttempt, OnChain, db,
           bitcoin, proc
  <1>9. ASSUME NEW r \in Requests, WithdrawAuthFails(r) PROVE OnlyAuthorizedPaid'
    BY <1>9
       DEF WithdrawAuthFails, Finish, FinishFirstAttempt, OnChain, db, bitcoin,
           proc
  <1>10. ASSUME NEW r \in Requests, WithdrawPaid(r) PROVE OnlyAuthorizedPaid'
    BY <1>10 DEF WithdrawPaid, Finish, FinishFirstAttempt, Racing, db, bitcoin, proc
  <1>11. ASSUME NEW r \in Requests, WithdrawPayFails(r) PROVE OnlyAuthorizedPaid'
    BY <1>11
       DEF WithdrawPayFails, Finish, FinishFirstAttempt, Racing,
           StatusAfterFailure, db, bitcoin, proc
  <1>12. ASSUME NEW r \in Requests, DetachedPaid(r) PROVE OnlyAuthorizedPaid'
    BY <1>12 DEF DetachedPaid, StatusAfterSuccess, db, bitcoin, proc
  <1>13. ASSUME NEW r \in Requests, DetachedPayFails(r) PROVE OnlyAuthorizedPaid'
    BY <1>13 DEF DetachedPayFails, StatusAfterFailure, db, bitcoin, proc
  <1>14. ASSUME NEW r \in Requests, WithdrawSubmitted(r) PROVE OnlyAuthorizedPaid'
    BY <1>14 DEF WithdrawSubmitted, db, bitcoin, proc
  <1>15. ASSUME NEW r \in Requests, WithdrawNotSent(r) PROVE OnlyAuthorizedPaid'
    BY <1>15 DEF WithdrawNotSent, db, bitcoin, proc
  <1>16. ASSUME NEW r \in Requests, TxSucceeds(r) PROVE OnlyAuthorizedPaid'
    BY <1>16 DEF TxSucceeds, db, bitcoin, proc
  <1>17. ASSUME NEW r \in Requests, TxReverts(r) PROVE OnlyAuthorizedPaid'
    BY <1>17 DEF TxReverts, db, bitcoin, proc
  <1>18. ASSUME NEW p \in Payers, PayFetch(p) PROVE OnlyAuthorizedPaid'
    BY <1>18 DEF PayFetch, db, bitcoin, proc
  <1>19. ASSUME NEW p \in Payers, PayBroadcast(p) PROVE OnlyAuthorizedPaid'
    <2>1. PayVault(p) \in Vaults /\ authStatus[PayVault(p)] # "none"
      BY <1>19 DEF PayBroadcast, PayVault
    <2>2. ASSUME NEW x \in btc' PROVE authStatus[x.vault] # "none"
      BY <1>19, <2>1, <2>2 DEF PayBroadcast
    <2> QED
      BY <1>19, <2>1, <2>2 DEF PayBroadcast, db, proc
  <1>20. ASSUME ProcPoll PROVE OnlyAuthorizedPaid'
    BY <1>20 DEF ProcPoll, db, bitcoin, proc
  <1>21. ASSUME NEW v \in Vaults, ProcStart(v) PROVE OnlyAuthorizedPaid'
    BY <1>21 DEF ProcStart, db, bitcoin, proc
  <1>22. ASSUME ProcNotFinal PROVE OnlyAuthorizedPaid'
    BY <1>22 DEF ProcNotFinal, ProcDone, db, bitcoin, proc
  <1>23. ASSUME ProcPay PROVE OnlyAuthorizedPaid'
    BY <1>23 DEF ProcPay, MayPay, StatusWhilePaying, db, bitcoin, proc
  <1>24. ASSUME ProcPayRefused PROVE OnlyAuthorizedPaid'
    BY <1>24 DEF ProcPayRefused, ProcDone, db, bitcoin, proc
  <1>25. ASSUME ProcPaid PROVE OnlyAuthorizedPaid'
    BY <1>25 DEF ProcPaid, ProcDone, db, bitcoin, proc
  <1>26. ASSUME ProcPayFails PROVE OnlyAuthorizedPaid'
    BY <1>26 DEF ProcPayFails, ProcDone, db, bitcoin, proc
  <1>27. ASSUME NEW f \in Forces, ForceStart(f) PROVE OnlyAuthorizedPaid'
    BY <1>27 DEF ForceStart, db, bitcoin, proc
  <1>28. ASSUME NEW f \in Forces, ForcePaid(f) PROVE OnlyAuthorizedPaid'
    BY <1>28 DEF ForcePaid, db, bitcoin, proc
  <1>29. ASSUME NEW f \in Forces, ForceFails(f) PROVE OnlyAuthorizedPaid'
    BY <1>29 DEF ForceFails, db, bitcoin, proc
  <1>30. ASSUME NEW v \in Vaults, AuditVerify(v) PROVE OnlyAuthorizedPaid'
    BY <1>30 DEF AuditVerify, db, bitcoin, proc
  <1>31. ASSUME NEW w \in Wallets, TopUp(w) PROVE OnlyAuthorizedPaid'
    BY <1>31 DEF TopUp, db, bitcoin, proc
  <1>32. ASSUME Crash PROVE OnlyAuthorizedPaid'
    BY <1>32 DEF Crash, LoseMemory, db, bitcoin, proc
  <1>33. ASSUME NEW r \in Requests, CrashAfterInsert(r) PROVE OnlyAuthorizedPaid'
    BY <1>33 DEF CrashAfterInsert, LoseMemory, OnChain, db, bitcoin, proc
  <1>34. ASSUME UNCHANGED vars PROVE OnlyAuthorizedPaid'
    BY <1>34 DEF vars
  <1> QED
    BY <1>1, <1>2, <1>3, <1>4, <1>5, <1>6, <1>7, <1>8, <1>9, <1>10, <1>11,
       <1>12, <1>13, <1>14, <1>15, <1>16, <1>17, <1>18, <1>19, <1>20, <1>21,
       <1>22, <1>23, <1>24, <1>25, <1>26, <1>27, <1>28, <1>29, <1>30, <1>31,
       <1>32, <1>33, <1>34 DEF Next, Arrive, Handler, HandlerTimer,
       Detached, Chain, Pay, Processor, ProcSettle, Forced, vars

(* An attempt that waits for the answer to an accepted broadcast pays the    *)
(* vault it was started for, the processor's included.                      *)
LEMMA AcceptedIsPaidStep == TypeOK /\ AcceptedIsPaid /\ [Next]_vars => AcceptedIsPaid'
  <1> SUFFICES ASSUME TypeOK /\ AcceptedIsPaid, [Next]_vars PROVE AcceptedIsPaid'
    OBVIOUS
  <1> USE ConstantsOK DEF TypeOK, AuthStatus, TxState, HandlerPc, PayPc, Payers, OnChain, AcceptedIsPaid, PayVault
  <1>1. ASSUME NEW r \in Requests, WithdrawReject(r) PROVE AcceptedIsPaid'
    BY <1>1 DEF WithdrawReject, db, bitcoin, proc
  <1>2. ASSUME NEW r \in Requests, WithdrawStart(r) PROVE AcceptedIsPaid'
    BY <1>2 DEF WithdrawStart, db, bitcoin, proc
  <1>3. ASSUME NEW r \in Requests, WithdrawRetry(r) PROVE AcceptedIsPaid'
    BY <1>3
       DEF WithdrawRetry, AuthorizeAndPay, RecordAuthTx, StatusForPayout,
           StatusWhilePaying, MayPay, IsRetry, db, bitcoin, proc
  <1>4. ASSUME NEW r \in Requests, WithdrawRetryRefused(r) PROVE AcceptedIsPaid'
    BY <1>4 DEF WithdrawRetryRefused, db, bitcoin, proc
  <1>5. ASSUME NEW r \in Requests, WithdrawSubmitTimeout(r) PROVE AcceptedIsPaid'
    BY <1>5 DEF WithdrawSubmitTimeout, db, bitcoin, proc
  <1>6. ASSUME NEW r \in Requests, WithdrawPayoutTimeout(r) PROVE AcceptedIsPaid'
    BY <1>6
       DEF WithdrawPayoutTimeout, Finish, FinishFirstAttempt, Racing, db,
           bitcoin, proc
  <1>7. ASSUME NEW r \in Requests, WithdrawAuthorize(r) PROVE AcceptedIsPaid'
    BY <1>7
       DEF WithdrawAuthorize, AuthorizeAndPay, RecordAuthTx, StatusForPayout,
           StatusWhilePaying, MayPay, OnChain, db, bitcoin, proc
  <1>8. ASSUME NEW r \in Requests, WithdrawAlreadySettled(r) PROVE AcceptedIsPaid'
    BY <1>8
       DEF WithdrawAlreadySettled, Finish, FinishFirstAttempt, OnChain, db,
           bitcoin, proc
  <1>9. ASSUME NEW r \in Requests, WithdrawAuthFails(r) PROVE AcceptedIsPaid'
    BY <1>9
       DEF WithdrawAuthFails, Finish, FinishFirstAttempt, OnChain, db, bitcoin,
           proc
  <1>10. ASSUME NEW r \in Requests, WithdrawPaid(r) PROVE AcceptedIsPaid'
    BY <1>10 DEF WithdrawPaid, Finish, FinishFirstAttempt, Racing, db, bitcoin, proc
  <1>11. ASSUME NEW r \in Requests, WithdrawPayFails(r) PROVE AcceptedIsPaid'
    BY <1>11
       DEF WithdrawPayFails, Finish, FinishFirstAttempt, Racing,
           StatusAfterFailure, db, bitcoin, proc
  <1>12. ASSUME NEW r \in Requests, DetachedPaid(r) PROVE AcceptedIsPaid'
    BY <1>12 DEF DetachedPaid, StatusAfterSuccess, db, bitcoin, proc
  <1>13. ASSUME NEW r \in Requests, DetachedPayFails(r) PROVE AcceptedIsPaid'
    BY <1>13 DEF DetachedPayFails, StatusAfterFailure, db, bitcoin, proc
  <1>14. ASSUME NEW r \in Requests, WithdrawSubmitted(r) PROVE AcceptedIsPaid'
    BY <1>14 DEF WithdrawSubmitted, db, bitcoin, proc
  <1>15. ASSUME NEW r \in Requests, WithdrawNotSent(r) PROVE AcceptedIsPaid'
    BY <1>15 DEF WithdrawNotSent, db, bitcoin, proc
  <1>16. ASSUME NEW r \in Requests, TxSucceeds(r) PROVE AcceptedIsPaid'
    BY <1>16 DEF TxSucceeds, db, bitcoin, proc
  <1>17. ASSUME NEW r \in Requests, TxReverts(r) PROVE AcceptedIsPaid'
    BY <1>17 DEF TxReverts, db, bitcoin, proc
  <1>18. ASSUME NEW p \in Payers, PayFetch(p) PROVE AcceptedIsPaid'
    BY <1>18 DEF PayFetch, db, bitcoin, proc
  <1>19. ASSUME NEW p \in Payers, PayBroadcast(p) PROVE AcceptedIsPaid'
    BY <1>19 DEF PayBroadcast, db, bitcoin, proc
  <1>20. ASSUME ProcPoll PROVE AcceptedIsPaid'
    BY <1>20 DEF ProcPoll, db, bitcoin, proc
  <1>21. ASSUME NEW v \in Vaults, ProcStart(v) PROVE AcceptedIsPaid'
    BY <1>21 DEF ProcStart, db, bitcoin, proc
  <1>22. ASSUME ProcNotFinal PROVE AcceptedIsPaid'
    BY <1>22 DEF ProcNotFinal, ProcDone, db, bitcoin, proc
  <1>23. ASSUME ProcPay PROVE AcceptedIsPaid'
    BY <1>23 DEF ProcPay, MayPay, StatusWhilePaying, db, bitcoin, proc
  <1>24. ASSUME ProcPayRefused PROVE AcceptedIsPaid'
    BY <1>24 DEF ProcPayRefused, ProcDone, db, bitcoin, proc
  <1>25. ASSUME ProcPaid PROVE AcceptedIsPaid'
    BY <1>25 DEF ProcPaid, ProcDone, db, bitcoin, proc
  <1>26. ASSUME ProcPayFails PROVE AcceptedIsPaid'
    BY <1>26 DEF ProcPayFails, ProcDone, db, bitcoin, proc
  <1>27. ASSUME NEW f \in Forces, ForceStart(f) PROVE AcceptedIsPaid'
    BY <1>27 DEF ForceStart, db, bitcoin, proc
  <1>28. ASSUME NEW f \in Forces, ForcePaid(f) PROVE AcceptedIsPaid'
    BY <1>28 DEF ForcePaid, db, bitcoin, proc
  <1>29. ASSUME NEW f \in Forces, ForceFails(f) PROVE AcceptedIsPaid'
    BY <1>29 DEF ForceFails, db, bitcoin, proc
  <1>30. ASSUME NEW v \in Vaults, AuditVerify(v) PROVE AcceptedIsPaid'
    BY <1>30 DEF AuditVerify, db, bitcoin, proc
  <1>31. ASSUME NEW w \in Wallets, TopUp(w) PROVE AcceptedIsPaid'
    BY <1>31 DEF TopUp, db, bitcoin, proc
  <1>32. ASSUME Crash PROVE AcceptedIsPaid'
    BY <1>32 DEF Crash, LoseMemory, db, bitcoin, proc
  <1>33. ASSUME NEW r \in Requests, CrashAfterInsert(r) PROVE AcceptedIsPaid'
    BY <1>33 DEF CrashAfterInsert, LoseMemory, OnChain, db, bitcoin, proc
  <1>34. ASSUME UNCHANGED vars PROVE AcceptedIsPaid'
    BY <1>34 DEF vars
  <1> QED
    BY <1>1, <1>2, <1>3, <1>4, <1>5, <1>6, <1>7, <1>8, <1>9, <1>10, <1>11,
       <1>12, <1>13, <1>14, <1>15, <1>16, <1>17, <1>18, <1>19, <1>20, <1>21,
       <1>22, <1>23, <1>24, <1>25, <1>26, <1>27, <1>28, <1>29, <1>30, <1>31,
       <1>32, <1>33, <1>34 DEF Next, Arrive, Handler, HandlerTimer,
       Detached, Chain, Pay, Processor, ProcSettle, Forced, vars

(* completed is written only after a payment of the same vault.             *)
LEMMA CompletedIsPaidStep == TypeOK /\ AcceptedIsPaid /\ CompletedIsPaid /\ [Next]_vars => CompletedIsPaid'
  <1> SUFFICES ASSUME TypeOK /\ AcceptedIsPaid /\ CompletedIsPaid, [Next]_vars PROVE CompletedIsPaid'
    OBVIOUS
  <1> USE ConstantsOK DEF TypeOK, AuthStatus, TxState, HandlerPc, PayPc, Payers, OnChain, AcceptedIsPaid, CompletedIsPaid, PaymentsOf, PayVault
  <1>1. ASSUME NEW r \in Requests, WithdrawReject(r) PROVE CompletedIsPaid'
    BY <1>1 DEF WithdrawReject, db, bitcoin, proc
  <1>2. ASSUME NEW r \in Requests, WithdrawStart(r) PROVE CompletedIsPaid'
    BY <1>2 DEF WithdrawStart, db, bitcoin, proc
  <1>3. ASSUME NEW r \in Requests, WithdrawRetry(r) PROVE CompletedIsPaid'
    BY <1>3
       DEF WithdrawRetry, AuthorizeAndPay, RecordAuthTx, StatusForPayout,
           StatusWhilePaying, MayPay, IsRetry, db, bitcoin, proc
  <1>4. ASSUME NEW r \in Requests, WithdrawRetryRefused(r) PROVE CompletedIsPaid'
    BY <1>4 DEF WithdrawRetryRefused, db, bitcoin, proc
  <1>5. ASSUME NEW r \in Requests, WithdrawSubmitTimeout(r) PROVE CompletedIsPaid'
    BY <1>5 DEF WithdrawSubmitTimeout, db, bitcoin, proc
  <1>6. ASSUME NEW r \in Requests, WithdrawPayoutTimeout(r) PROVE CompletedIsPaid'
    BY <1>6
       DEF WithdrawPayoutTimeout, Finish, FinishFirstAttempt, Racing, db,
           bitcoin, proc
  <1>7. ASSUME NEW r \in Requests, WithdrawAuthorize(r) PROVE CompletedIsPaid'
    BY <1>7
       DEF WithdrawAuthorize, AuthorizeAndPay, RecordAuthTx, StatusForPayout,
           StatusWhilePaying, MayPay, OnChain, db, bitcoin, proc
  <1>8. ASSUME NEW r \in Requests, WithdrawAlreadySettled(r) PROVE CompletedIsPaid'
    BY <1>8
       DEF WithdrawAlreadySettled, Finish, FinishFirstAttempt, OnChain, db,
           bitcoin, proc
  <1>9. ASSUME NEW r \in Requests, WithdrawAuthFails(r) PROVE CompletedIsPaid'
    BY <1>9
       DEF WithdrawAuthFails, Finish, FinishFirstAttempt, OnChain, db, bitcoin,
           proc
  <1>10. ASSUME NEW r \in Requests, WithdrawPaid(r) PROVE CompletedIsPaid'
    BY <1>10 DEF WithdrawPaid, Finish, FinishFirstAttempt, Racing, db, bitcoin, proc
  <1>11. ASSUME NEW r \in Requests, WithdrawPayFails(r) PROVE CompletedIsPaid'
    BY <1>11
       DEF WithdrawPayFails, Finish, FinishFirstAttempt, Racing,
           StatusAfterFailure, db, bitcoin, proc
  <1>12. ASSUME NEW r \in Requests, DetachedPaid(r) PROVE CompletedIsPaid'
    BY <1>12 DEF DetachedPaid, StatusAfterSuccess, db, bitcoin, proc
  <1>13. ASSUME NEW r \in Requests, DetachedPayFails(r) PROVE CompletedIsPaid'
    BY <1>13 DEF DetachedPayFails, StatusAfterFailure, db, bitcoin, proc
  <1>14. ASSUME NEW r \in Requests, WithdrawSubmitted(r) PROVE CompletedIsPaid'
    BY <1>14 DEF WithdrawSubmitted, db, bitcoin, proc
  <1>15. ASSUME NEW r \in Requests, WithdrawNotSent(r) PROVE CompletedIsPaid'
    BY <1>15 DEF WithdrawNotSent, db, bitcoin, proc
  <1>16. ASSUME NEW r \in Requests, TxSucceeds(r) PROVE CompletedIsPaid'
    BY <1>16 DEF TxSucceeds, db, bitcoin, proc
  <1>17. ASSUME NEW r \in Requests, TxReverts(r) PROVE CompletedIsPaid'
    BY <1>17 DEF TxReverts, db, bitcoin, proc
  <1>18. ASSUME NEW p \in Payers, PayFetch(p) PROVE CompletedIsPaid'
    BY <1>18 DEF PayFetch, db, bitcoin, proc
  <1>19. ASSUME NEW p \in Payers, PayBroadcast(p) PROVE CompletedIsPaid'
    BY <1>19 DEF PayBroadcast, db, bitcoin, proc
  <1>20. ASSUME ProcPoll PROVE CompletedIsPaid'
    BY <1>20 DEF ProcPoll, db, bitcoin, proc
  <1>21. ASSUME NEW v \in Vaults, ProcStart(v) PROVE CompletedIsPaid'
    BY <1>21 DEF ProcStart, db, bitcoin, proc
  <1>22. ASSUME ProcNotFinal PROVE CompletedIsPaid'
    BY <1>22 DEF ProcNotFinal, ProcDone, db, bitcoin, proc
  <1>23. ASSUME ProcPay PROVE CompletedIsPaid'
    BY <1>23 DEF ProcPay, MayPay, StatusWhilePaying, db, bitcoin, proc
  <1>24. ASSUME ProcPayRefused PROVE CompletedIsPaid'
    BY <1>24 DEF ProcPayRefused, ProcDone, db, bitcoin, proc
  <1>25. ASSUME ProcPaid PROVE CompletedIsPaid'
    BY <1>25 DEF ProcPaid, ProcDone, db, bitcoin, proc
  <1>26. ASSUME ProcPayFails PROVE CompletedIsPaid'
    BY <1>26 DEF ProcPayFails, ProcDone, db, bitcoin, proc
  <1>27. ASSUME NEW f \in Forces, ForceStart(f) PROVE CompletedIsPaid'
    BY <1>27 DEF ForceStart, db, bitcoin, proc
  <1>28. ASSUME NEW f \in Forces, ForcePaid(f) PROVE CompletedIsPaid'
    BY <1>28 DEF ForcePaid, db, bitcoin, proc
  <1>29. ASSUME NEW f \in Forces, ForceFails(f) PROVE CompletedIsPaid'
    BY <1>29 DEF ForceFails, db, bitcoin, proc
  <1>30. ASSUME NEW v \in Vaults, AuditVerify(v) PROVE CompletedIsPaid'
    BY <1>30 DEF AuditVerify, db, bitcoin, proc
  <1>31. ASSUME NEW w \in Wallets, TopUp(w) PROVE CompletedIsPaid'
    BY <1>31 DEF TopUp, db, bitcoin, proc
  <1>32. ASSUME Crash PROVE CompletedIsPaid'
    BY <1>32 DEF Crash, LoseMemory, db, bitcoin, proc
  <1>33. ASSUME NEW r \in Requests, CrashAfterInsert(r) PROVE CompletedIsPaid'
    BY <1>33 DEF CrashAfterInsert, LoseMemory, OnChain, db, bitcoin, proc
  <1>34. ASSUME UNCHANGED vars PROVE CompletedIsPaid'
    BY <1>34 DEF vars
  <1> QED
    BY <1>1, <1>2, <1>3, <1>4, <1>5, <1>6, <1>7, <1>8, <1>9, <1>10, <1>11,
       <1>12, <1>13, <1>14, <1>15, <1>16, <1>17, <1>18, <1>19, <1>20, <1>21,
       <1>22, <1>23, <1>24, <1>25, <1>26, <1>27, <1>28, <1>29, <1>30, <1>31,
       <1>32, <1>33, <1>34 DEF Next, Arrive, Handler, HandlerTimer,
       Detached, Chain, Pay, Processor, ProcSettle, Forced, vars

(* A vault asked for once keeps its single payment attempt.                 *)
LEMMA OneAttemptStep == TypeOK /\ OnlyAuthorizedPaid /\ OneAttempt /\ [Next]_vars => OneAttempt'
  <1> SUFFICES ASSUME TypeOK /\ OnlyAuthorizedPaid /\ OneAttempt, [Next]_vars PROVE OneAttempt'
    OBVIOUS
  <1> USE ConstantsOK DEF TypeOK, AuthStatus, TxState, HandlerPc, PayPc, Payers, OnChain, OnlyAuthorizedPaid, OneAttempt, AskedOnce, PaymentsOf
  <1>1. ASSUME NEW r \in Requests, WithdrawReject(r) PROVE OneAttempt'
    BY <1>1 DEF WithdrawReject, db, bitcoin, proc
  <1>2. ASSUME NEW r \in Requests, WithdrawStart(r) PROVE OneAttempt'
    BY <1>2 DEF WithdrawStart, db, bitcoin, proc
  <1>3. ASSUME NEW r \in Requests, WithdrawRetry(r) PROVE OneAttempt'
    BY <1>3
       DEF WithdrawRetry, AuthorizeAndPay, RecordAuthTx, StatusForPayout,
           StatusWhilePaying, MayPay, IsRetry, db, bitcoin, proc
  <1>4. ASSUME NEW r \in Requests, WithdrawRetryRefused(r) PROVE OneAttempt'
    BY <1>4 DEF WithdrawRetryRefused, db, bitcoin, proc
  <1>5. ASSUME NEW r \in Requests, WithdrawSubmitTimeout(r) PROVE OneAttempt'
    BY <1>5 DEF WithdrawSubmitTimeout, db, bitcoin, proc
  <1>6. ASSUME NEW r \in Requests, WithdrawPayoutTimeout(r) PROVE OneAttempt'
    BY <1>6
       DEF WithdrawPayoutTimeout, Finish, FinishFirstAttempt, Racing, db,
           bitcoin, proc
  <1>7. ASSUME NEW r \in Requests, WithdrawAuthorize(r) PROVE OneAttempt'
    BY <1>7
       DEF WithdrawAuthorize, AuthorizeAndPay, RecordAuthTx, StatusForPayout,
           StatusWhilePaying, MayPay, OnChain, db, bitcoin, proc
  <1>8. ASSUME NEW r \in Requests, WithdrawAlreadySettled(r) PROVE OneAttempt'
    BY <1>8
       DEF WithdrawAlreadySettled, Finish, FinishFirstAttempt, OnChain, db,
           bitcoin, proc
  <1>9. ASSUME NEW r \in Requests, WithdrawAuthFails(r) PROVE OneAttempt'
    BY <1>9
       DEF WithdrawAuthFails, Finish, FinishFirstAttempt, OnChain, db, bitcoin,
           proc
  <1>10. ASSUME NEW r \in Requests, WithdrawPaid(r) PROVE OneAttempt'
    BY <1>10 DEF WithdrawPaid, Finish, FinishFirstAttempt, Racing, db, bitcoin, proc
  <1>11. ASSUME NEW r \in Requests, WithdrawPayFails(r) PROVE OneAttempt'
    BY <1>11
       DEF WithdrawPayFails, Finish, FinishFirstAttempt, Racing,
           StatusAfterFailure, db, bitcoin, proc
  <1>12. ASSUME NEW r \in Requests, DetachedPaid(r) PROVE OneAttempt'
    BY <1>12 DEF DetachedPaid, StatusAfterSuccess, db, bitcoin, proc
  <1>13. ASSUME NEW r \in Requests, DetachedPayFails(r) PROVE OneAttempt'
    BY <1>13 DEF DetachedPayFails, StatusAfterFailure, db, bitcoin, proc
  <1>14. ASSUME NEW r \in Requests, WithdrawSubmitted(r) PROVE OneAttempt'
    BY <1>14 DEF WithdrawSubmitted, db, bitcoin, proc
  <1>15. ASSUME NEW r \in Requests, WithdrawNotSent(r) PROVE OneAttempt'
    BY <1>15 DEF WithdrawNotSent, db, bitcoin, proc
  <1>16. ASSUME NEW r \in Requests, TxSucceeds(r) PROVE OneAttempt'
    BY <1>16 DEF TxSucceeds, db, bitcoin, proc
  <1>17. ASSUME NEW r \in Requests, TxReverts(r) PROVE OneAttempt'
    BY <1>17 DEF TxReverts, db, bitcoin, proc
  <1>18. ASSUME NEW p \in Payers, PayFetch(p) PROVE OneAttempt'
    BY <1>18 DEF PayFetch, db, bitcoin, proc
  <1>19. ASSUME NEW p \in Payers, PayBroadcast(p) PROVE OneAttempt'
    <2> SUFFICES ASSUME ~UseCovenants, crashes = 0,
                        NEW v \in Vaults, AskedOnce(v)
                 PROVE  /\ \A r \in Requests : VaultOf[r] = v =>
                              (ppc'[r] \in {"fetching", "built"} => PaymentsOf(v)' = {})
                        /\ \A x, y \in PaymentsOf(v)' : x = y
      BY <1>19 DEF PayBroadcast, db, proc
    <2> DEFINE new == [vault |-> PayVault(p), wallet |-> WalletOf(p), view |-> view[p]]
    <2>1. PayVault(p) # v => PaymentsOf(v)' = PaymentsOf(v)
      BY <1>19 DEF PayBroadcast
    <2>2. CASE PayVault(p) # v
      BY <1>19, <2>1, <2>2 DEF PayBroadcast, PayVault
    <2>3. CASE PayVault(p) = v
      <3>1. p \in Requests /\ VaultOf[p] = v
        BY <2>3 DEF PayVault
      <3>2. PaymentsOf(v) = {}
        BY <1>19, <3>1 DEF PayBroadcast
      <3>3. PaymentsOf(v)' = {new}
        BY <1>19, <2>3, <3>2 DEF PayBroadcast
      <3>4. \A r \in Requests : VaultOf[r] = v => ppc'[r] = "accepted"
        BY <1>19, <3>1 DEF PayBroadcast
      <3> QED
        BY <3>3, <3>4
    <2> QED
      BY <2>2, <2>3
  <1>20. ASSUME ProcPoll PROVE OneAttempt'
    BY <1>20 DEF ProcPoll, db, bitcoin, proc
  <1>21. ASSUME NEW v \in Vaults, ProcStart(v) PROVE OneAttempt'
    BY <1>21 DEF ProcStart, db, bitcoin, proc
  <1>22. ASSUME ProcNotFinal PROVE OneAttempt'
    BY <1>22 DEF ProcNotFinal, ProcDone, db, bitcoin, proc
  <1>23. ASSUME ProcPay PROVE OneAttempt'
    BY <1>23 DEF ProcPay, MayPay, StatusWhilePaying, db, bitcoin, proc
  <1>24. ASSUME ProcPayRefused PROVE OneAttempt'
    BY <1>24 DEF ProcPayRefused, ProcDone, db, bitcoin, proc
  <1>25. ASSUME ProcPaid PROVE OneAttempt'
    BY <1>25 DEF ProcPaid, ProcDone, db, bitcoin, proc
  <1>26. ASSUME ProcPayFails PROVE OneAttempt'
    BY <1>26 DEF ProcPayFails, ProcDone, db, bitcoin, proc
  <1>27. ASSUME NEW f \in Forces, ForceStart(f) PROVE OneAttempt'
    BY <1>27 DEF ForceStart, db, bitcoin, proc
  <1>28. ASSUME NEW f \in Forces, ForcePaid(f) PROVE OneAttempt'
    BY <1>28 DEF ForcePaid, db, bitcoin, proc
  <1>29. ASSUME NEW f \in Forces, ForceFails(f) PROVE OneAttempt'
    BY <1>29 DEF ForceFails, db, bitcoin, proc
  <1>30. ASSUME NEW v \in Vaults, AuditVerify(v) PROVE OneAttempt'
    BY <1>30 DEF AuditVerify, db, bitcoin, proc
  <1>31. ASSUME NEW w \in Wallets, TopUp(w) PROVE OneAttempt'
    BY <1>31 DEF TopUp, db, bitcoin, proc
  <1>32. ASSUME Crash PROVE OneAttempt'
    BY <1>32 DEF Crash, LoseMemory, db, bitcoin, proc
  <1>33. ASSUME NEW r \in Requests, CrashAfterInsert(r) PROVE OneAttempt'
    BY <1>33 DEF CrashAfterInsert, LoseMemory, OnChain, db, bitcoin, proc
  <1>34. ASSUME UNCHANGED vars PROVE OneAttempt'
    BY <1>34 DEF vars
  <1> QED
    BY <1>1, <1>2, <1>3, <1>4, <1>5, <1>6, <1>7, <1>8, <1>9, <1>10, <1>11,
       <1>12, <1>13, <1>14, <1>15, <1>16, <1>17, <1>18, <1>19, <1>20, <1>21,
       <1>22, <1>23, <1>24, <1>25, <1>26, <1>27, <1>28, <1>29, <1>30, <1>31,
       <1>32, <1>33, <1>34 DEF Next, Arrive, Handler, HandlerTimer,
       Detached, Chain, Pay, Processor, ProcSettle, Forced, vars

-----------------------------------------------------------------------------

(* The inductive invariant holds in every reachable state.                  *)
THEOREM Invariance == Spec => []IInv
  <1>1. Init => IInv
    <2> SUFFICES ASSUME Init PROVE IInv
      OBVIOUS
    <2>1. TypeOK
      BY ConstantsOK, FS_EmptySet
         DEF Init, TypeOK, VaultStatus, AuthStatus, TxState, HandlerPc, PayPc,
             Payers, Payment, Wallets
    <2>2. AuthBacked /\ VaultRowBacked /\ OnlyAuthorizedPaid /\ AcceptedIsPaid
      BY ConstantsOK DEF Init, AuthBacked, VaultRowBacked, OnlyAuthorizedPaid,
         AcceptedIsPaid, Payers
    <2>3. CompletedIsPaid /\ OneAttempt
      BY ConstantsOK DEF Init, CompletedIsPaid, OneAttempt, PaymentsOf, Payers
    <2> QED
      BY <2>1, <2>2, <2>3 DEF IInv
  <1>2. IInv /\ [Next]_vars => IInv'
    BY TypeStep, AuthBackedStep, VaultRowBackedStep, OnlyAuthorizedStep,
       AcceptedIsPaidStep, CompletedIsPaidStep, OneAttemptStep DEF IInv
  <1> QED
    BY <1>1, <1>2, PTL DEF Spec

(* Tables, chains and control state stay well typed.                        *)
THEOREM TypeCorrect == Spec => []TypeOK
  <1>1. IInv => TypeOK
    BY DEF IInv
  <1> QED
    BY <1>1, Invariance, PTL

(* No payment without an authorization that names a submitted burn of the   *)
(* same vault, in both modes and across crashes (vault.ts, the processor    *)
(* and the forced payout).                                                  *)
THEOREM PaidAfterBurn == Spec => []PaidAfterBurnSubmitted
  <1>1. IInv => PaidAfterBurnSubmitted
    BY DEF IInv, TypeOK, Payment, AuthBacked, OnlyAuthorizedPaid,
       PaidAfterBurnSubmitted
  <1> QED
    BY <1>1, Invariance, PTL

(* An authorization that says completed has a payment on the network.       *)
THEOREM CompletedHasPayment == Spec => []CompletedIsPaid
  <1>1. IInv => CompletedIsPaid
    BY DEF IInv
  <1> QED
    BY <1>1, Invariance, PTL

(* Legacy path, no crash, one request: at most one payment, whatever the    *)
(* other vaults, the timers, the processor and the auditor do.              *)
THEOREM AskedOncePaidOnce == Spec => []SingleRequestPaidOnce
  <1>1. IInv => SingleRequestPaidOnce
    BY DEF IInv, OneAttempt, SingleRequestPaidOnce
  <1> QED
    BY <1>1, Invariance, PTL

-----------------------------------------------------------------------------
(* The pipeline implements BurnToPay.                                       *)

PromiseStep == [Promise!AbstractNext]_(Promise!abstractVars)

(* updateStatus on an existing row completes or reopens the withdrawal.     *)
LEMMA StatusWrite ==
    ASSUME IInv, NEW w \in Vaults, NEW s \in AuthStatus \ {"none"},
           authStatus[w] # "none",
           s = "completed" => PaymentsOf(w) # {},
           authStatus' = [authStatus EXCEPT ![w] = s],
           UNCHANGED <<txState, btc>>
    PROVE  PromiseStep
  <1> USE DEF IInv, TypeOK
  <1>1. UNCHANGED <<SubmittedVaults, AuthorizedVaults, btc>>
    BY DEF SubmittedVaults, AuthorizedVaults
  <1>2. CASE s = "completed"
    <2>1. w \in Promise!PaidVaults
      BY <1>2 DEF PaymentsOf, Promise!PaidVaults
    <2>2. CompletedVaults' = CompletedVaults \cup {w}
      BY <1>2 DEF CompletedVaults
    <2> QED
      BY <1>1, <2>1, <2>2 DEF PromiseStep, Promise!AbstractNext, Promise!Complete
  <1>3. CASE s # "completed"
    <2>1. CompletedVaults' = CompletedVaults \ {w}
      BY <1>3 DEF CompletedVaults
    <2> QED
      BY <1>1, <2>1 DEF PromiseStep, Promise!AbstractNext, Promise!Reopen
  <1> QED
    BY <1>2, <1>3

(* createAuthorization is the abstract Authorize.                           *)
LEMMA RowCreated ==
    ASSUME IInv, NEW w \in Vaults, NEW s \in {"pending", "processing"},
           authStatus[w] = "none",
           w \in SubmittedVaults,
           authStatus' = [authStatus EXCEPT ![w] = s],
           UNCHANGED <<txState, btc>>
    PROVE  PromiseStep
  <1> USE DEF IInv, TypeOK
  <1>1. UNCHANGED <<SubmittedVaults, btc, CompletedVaults>>
    BY DEF SubmittedVaults, CompletedVaults
  <1>2. AuthorizedVaults' = AuthorizedVaults \cup {w}
    BY DEF AuthorizedVaults
  <1> QED
    BY <1>1, <1>2 DEF PromiseStep, Promise!AbstractNext, Promise!Authorize

(* A step that touches neither table row nor chain is a stutter.            *)
LEMMA Unseen ==
    ASSUME UNCHANGED <<authStatus, txState, btc>>
    PROVE  PromiseStep
  BY DEF PromiseStep, Promise!abstractVars, SubmittedVaults, AuthorizedVaults,
     CompletedVaults

(* A transaction that moves among the on-chain states, or that never gets   *)
(* there, changes nothing the promise sees.                                 *)
LEMMA TxMoves ==
    ASSUME IInv, NEW r \in Requests, NEW s \in TxState,
           txState[r] \in OnChain <=> s \in OnChain,
           txState' = [txState EXCEPT ![r] = s],
           UNCHANGED <<authStatus, btc>>
    PROVE  PromiseStep
  <1>1. SubmittedVaults' = SubmittedVaults
    BY DEF SubmittedVaults, IInv, TypeOK
  <1> QED
    BY <1>1 DEF PromiseStep, Promise!abstractVars, AuthorizedVaults, CompletedVaults

(* Every step of the pipeline is a step of BurnToPay or a stutter.          *)
LEMMA StepKeepsPromise == IInv /\ [Next]_vars => PromiseStep
  <1> SUFFICES ASSUME IInv, [Next]_vars PROVE PromiseStep
    OBVIOUS
  <1>1. ASSUME NEW r \in Requests, WithdrawReject(r) PROVE PromiseStep
    BY <1>1, Unseen DEF WithdrawReject, bitcoin, db, proc
  <1>2. ASSUME NEW r \in Requests, WithdrawStart(r) PROVE PromiseStep
    BY <1>2, TxMoves
       DEF WithdrawStart, IInv, TypeOK, VaultRowBacked, TxState, OnChain,
           bitcoin, db
  <1>3. ASSUME NEW r \in Requests, WithdrawRetry(r) PROVE PromiseStep
    <2> DEFINE w == VaultOf[r]
               s == StatusWhilePaying(StatusForPayout(w))
    <2>1. w \in Vaults /\ w \in SubmittedVaults
      BY <1>3, ConstantsOK
         DEF WithdrawRetry, SubmittedVaults, IsRetry, IInv, TypeOK,
             VaultRowBacked
    <2>2. authStatus' = [authStatus EXCEPT ![w] = s] /\ UNCHANGED <<txState, btc>>
      BY <1>3 DEF WithdrawRetry, AuthorizeAndPay, bitcoin
    <2>3. CASE authStatus[w] = "none"
      <3>1. s \in {"pending", "processing"}
        BY <2>3 DEF StatusWhilePaying, StatusForPayout
      <3> QED
        BY <2>1, <2>2, <2>3, <3>1, RowCreated
    <2>4. CASE authStatus[w] # "none"
      <3>1. s \in AuthStatus \ {"none"}
        BY <2>1, <2>4
           DEF StatusWhilePaying, StatusForPayout, AuthStatus, IInv, TypeOK
      <3>2. s = "completed" => authStatus[w] = "completed"
        BY DEF StatusWhilePaying, StatusForPayout
      <3>3. s = "completed" => PaymentsOf(w) # {}
        BY <2>1, <3>2 DEF IInv, CompletedIsPaid
      <3> QED
        BY <2>1, <2>2, <2>4, <3>1, <3>3, StatusWrite
    <2> QED
      BY <2>3, <2>4
  <1>4. ASSUME NEW r \in Requests, WithdrawRetryRefused(r) PROVE PromiseStep
    BY <1>4, Unseen DEF WithdrawRetryRefused, bitcoin, db, proc
  <1>5. ASSUME NEW r \in Requests, WithdrawSubmitTimeout(r) PROVE PromiseStep
    BY <1>5, Unseen DEF WithdrawSubmitTimeout, bitcoin, db, proc
  <1>6. ASSUME NEW r \in Requests, WithdrawPayoutTimeout(r) PROVE PromiseStep
    BY <1>6, Unseen DEF WithdrawPayoutTimeout, bitcoin, db, proc
  <1>7. ASSUME NEW r \in Requests, WithdrawAuthorize(r) PROVE PromiseStep
    <2> DEFINE w == VaultOf[r]
               s == StatusWhilePaying(StatusForPayout(w))
    <2>1. w \in Vaults /\ w \in SubmittedVaults
      BY <1>7, ConstantsOK DEF WithdrawAuthorize, SubmittedVaults, OnChain
    <2>2. authStatus' = [authStatus EXCEPT ![w] = s] /\ UNCHANGED <<txState, btc>>
      BY <1>7 DEF WithdrawAuthorize, AuthorizeAndPay, bitcoin
    <2>3. CASE authStatus[w] = "none"
      <3>1. s \in {"pending", "processing"}
        BY <2>3 DEF StatusWhilePaying, StatusForPayout
      <3> QED
        BY <2>1, <2>2, <2>3, <3>1, RowCreated
    <2>4. CASE authStatus[w] # "none"
      <3>1. s \in AuthStatus \ {"none"}
        BY <2>1, <2>4
           DEF StatusWhilePaying, StatusForPayout, AuthStatus, IInv, TypeOK
      <3>2. s = "completed" => authStatus[w] = "completed"
        BY DEF StatusWhilePaying, StatusForPayout
      <3>3. s = "completed" => PaymentsOf(w) # {}
        BY <2>1, <3>2 DEF IInv, CompletedIsPaid
      <3> QED
        BY <2>1, <2>2, <2>4, <3>1, <3>3, StatusWrite
    <2> QED
      BY <2>3, <2>4
  <1>8. ASSUME NEW r \in Requests, WithdrawAlreadySettled(r) PROVE PromiseStep
    BY <1>8, Unseen DEF WithdrawAlreadySettled, bitcoin, db, proc
  <1>9. ASSUME NEW r \in Requests, WithdrawAuthFails(r) PROVE PromiseStep
    BY <1>9, Unseen DEF WithdrawAuthFails, bitcoin, db, proc
  <1>10. ASSUME NEW r \in Requests, WithdrawPaid(r) PROVE PromiseStep
    BY <1>10, StatusWrite, ConstantsOK
       DEF WithdrawPaid, Racing, IInv, TypeOK, OnlyAuthorizedPaid, AcceptedIsPaid,
           PaymentsOf, AuthStatus, Payers, PayVault, bitcoin, db, proc
  <1>11. ASSUME NEW r \in Requests, WithdrawPayFails(r) PROVE PromiseStep
    <2> DEFINE w == VaultOf[r]
               s == StatusAfterFailure(authStatus[w])
    <2>1. w \in Vaults /\ authStatus[w] \in AuthStatus \ {"none"}
      BY <1>11, ConstantsOK DEF WithdrawPayFails, IInv, TypeOK, OnlyAuthorizedPaid
    <2>2. authStatus' = [authStatus EXCEPT ![w] = s] /\ UNCHANGED <<txState, btc>>
      BY <1>11 DEF WithdrawPayFails, bitcoin
    <2>3. s \in AuthStatus \ {"none"}
      BY <2>1 DEF StatusAfterFailure, AuthStatus
    <2>4. s = "completed" => PaymentsOf(w) # {}
      BY <2>1 DEF StatusAfterFailure, IInv, CompletedIsPaid
    <2> QED
      BY <2>1, <2>2, <2>3, <2>4, StatusWrite
  <1>12. ASSUME NEW r \in Requests, DetachedPaid(r) PROVE PromiseStep
    BY <1>12, StatusWrite, ConstantsOK
       DEF DetachedPaid, StatusAfterSuccess, CompletedIsPaid, IInv, TypeOK,
           OnlyAuthorizedPaid, AcceptedIsPaid,
           PaymentsOf, AuthStatus, Payers, PayVault, bitcoin, db, proc
  <1>13. ASSUME NEW r \in Requests, DetachedPayFails(r) PROVE PromiseStep
    <2> DEFINE w == VaultOf[r]
               s == StatusAfterFailure(authStatus[w])
    <2>1. w \in Vaults /\ authStatus[w] \in AuthStatus \ {"none"}
      BY <1>13, ConstantsOK DEF DetachedPayFails, IInv, TypeOK, OnlyAuthorizedPaid
    <2>2. authStatus' = [authStatus EXCEPT ![w] = s] /\ UNCHANGED <<txState, btc>>
      BY <1>13 DEF DetachedPayFails, bitcoin
    <2>3. s \in AuthStatus \ {"none"}
      BY <2>1 DEF StatusAfterFailure, AuthStatus
    <2>4. s = "completed" => PaymentsOf(w) # {}
      BY <2>1 DEF StatusAfterFailure, IInv, CompletedIsPaid
    <2> QED
      BY <2>1, <2>2, <2>3, <2>4, StatusWrite
  <1>14. ASSUME NEW r \in Requests, WithdrawSubmitted(r) PROVE PromiseStep
    <2>1. SubmittedVaults' = SubmittedVaults \cup {VaultOf[r]}
      BY <1>14, ConstantsOK
         DEF WithdrawSubmitted, SubmittedVaults, IInv, TypeOK, OnChain
    <2>2. UNCHANGED <<AuthorizedVaults, btc, CompletedVaults>>
      BY <1>14 DEF WithdrawSubmitted, AuthorizedVaults, CompletedVaults, bitcoin, db
    <2> QED
      BY <2>1, <2>2, ConstantsOK
         DEF PromiseStep, Promise!AbstractNext, Promise!SubmitBurn
  <1>15. ASSUME NEW r \in Requests, WithdrawNotSent(r) PROVE PromiseStep
    BY <1>15, TxMoves
       DEF WithdrawNotSent, IInv, TypeOK, VaultRowBacked, TxState, OnChain,
           bitcoin, db
  <1>16. ASSUME NEW r \in Requests, TxSucceeds(r) PROVE PromiseStep
    BY <1>16, TxMoves
       DEF TxSucceeds, IInv, TypeOK, VaultRowBacked, TxState, OnChain, bitcoin,
           db
  <1>17. ASSUME NEW r \in Requests, TxReverts(r) PROVE PromiseStep
    BY <1>17, TxMoves
       DEF TxReverts, IInv, TypeOK, VaultRowBacked, TxState, OnChain, bitcoin,
           db
  <1>18. ASSUME NEW p \in Payers, PayFetch(p) PROVE PromiseStep
    BY <1>18, Unseen DEF PayFetch, bitcoin, db, proc
  <1>19. ASSUME NEW p \in Payers, PayBroadcast(p) PROVE PromiseStep
    <2>1. PayVault(p) \in AuthorizedVaults
      BY <1>19, ConstantsOK
         DEF PayBroadcast, PayVault, AuthorizedVaults, IInv, TypeOK,
         OnlyAuthorizedPaid, Payers
    <2>2. UNCHANGED <<SubmittedVaults, AuthorizedVaults, CompletedVaults>>
      BY <1>19
         DEF PayBroadcast, SubmittedVaults, AuthorizedVaults, CompletedVaults,
             db
    <2>3. btc \subseteq btc' /\ \A x \in btc' \ btc : x.vault = PayVault(p)
      BY <1>19 DEF PayBroadcast
    <2>4. PayVault(p) \in Vaults
      BY <2>1 DEF AuthorizedVaults
    <2> QED
      BY <2>1, <2>2, <2>3, <2>4
         DEF PromiseStep, Promise!AbstractNext, Promise!PayOut
  <1>20. ASSUME ProcPoll PROVE PromiseStep
    BY <1>20, Unseen DEF ProcPoll, bitcoin, db, proc
  <1>21. ASSUME NEW v \in Vaults, ProcStart(v) PROVE PromiseStep
    BY <1>21, StatusWrite, ConstantsOK
       DEF ProcStart, IInv, TypeOK, OnlyAuthorizedPaid, AcceptedIsPaid,
           PaymentsOf, AuthStatus, Payers, PayVault, bitcoin, db, proc
  <1>22. ASSUME ProcNotFinal PROVE PromiseStep
    BY <1>22, StatusWrite, ConstantsOK
       DEF ProcNotFinal, IInv, TypeOK, OnlyAuthorizedPaid, AcceptedIsPaid,
           PaymentsOf, AuthStatus, Payers, PayVault, bitcoin, db, proc
  <1>23. ASSUME ProcPay PROVE PromiseStep
    BY <1>23, StatusWrite, ConstantsOK
       DEF ProcPay, StatusWhilePaying, CompletedIsPaid, IInv, TypeOK,
           OnlyAuthorizedPaid, AcceptedIsPaid,
           PaymentsOf, AuthStatus, Payers, PayVault, bitcoin, db, proc
  <1>24. ASSUME ProcPayRefused PROVE PromiseStep
    BY <1>24, StatusWrite, ConstantsOK
       DEF ProcPayRefused, IInv, TypeOK, OnlyAuthorizedPaid, AcceptedIsPaid,
           PaymentsOf, AuthStatus, Payers, PayVault, bitcoin, db, proc
  <1>25. ASSUME ProcPaid PROVE PromiseStep
    BY <1>25, StatusWrite, ConstantsOK
       DEF ProcPaid, IInv, TypeOK, OnlyAuthorizedPaid, AcceptedIsPaid,
           PaymentsOf, AuthStatus, Payers, PayVault, bitcoin, db, proc
  <1>26. ASSUME ProcPayFails PROVE PromiseStep
    BY <1>26, StatusWrite, ConstantsOK
       DEF ProcPayFails, IInv, TypeOK, OnlyAuthorizedPaid, AcceptedIsPaid,
           PaymentsOf, AuthStatus, Payers, PayVault, bitcoin, db, proc
  <1>27. ASSUME NEW f \in Forces, ForceStart(f) PROVE PromiseStep
    BY <1>27, StatusWrite, ConstantsOK
       DEF ForceStart, IInv, TypeOK, OnlyAuthorizedPaid, AcceptedIsPaid,
           PaymentsOf, AuthStatus, Payers, PayVault, bitcoin, db, proc
  <1>28. ASSUME NEW f \in Forces, ForcePaid(f) PROVE PromiseStep
    BY <1>28, StatusWrite, ConstantsOK
       DEF ForcePaid, IInv, TypeOK, OnlyAuthorizedPaid, AcceptedIsPaid,
           PaymentsOf, AuthStatus, Payers, PayVault, bitcoin, db, proc
  <1>29. ASSUME NEW f \in Forces, ForceFails(f) PROVE PromiseStep
    BY <1>29, StatusWrite, ConstantsOK
       DEF ForceFails, IInv, TypeOK, OnlyAuthorizedPaid, AcceptedIsPaid,
           PaymentsOf, AuthStatus, Payers, PayVault, bitcoin, db, proc
  <1>30. ASSUME NEW v \in Vaults, AuditVerify(v) PROVE PromiseStep
    BY <1>30, Unseen DEF AuditVerify, bitcoin, db, proc
  <1>31. ASSUME NEW w \in Wallets, TopUp(w) PROVE PromiseStep
    BY <1>31, Unseen DEF TopUp, bitcoin, db, proc
  <1>32. ASSUME Crash PROVE PromiseStep
    BY <1>32, Unseen DEF Crash, bitcoin, db, proc
  <1>33. ASSUME NEW r \in Requests, CrashAfterInsert(r) PROVE PromiseStep
    <2>1. VaultOf[r] \in Vaults /\ VaultOf[r] \in SubmittedVaults
      BY <1>33, ConstantsOK DEF CrashAfterInsert, SubmittedVaults
    <2> QED
      BY <1>33, <2>1, RowCreated DEF CrashAfterInsert, bitcoin
  <1>34. ASSUME UNCHANGED vars PROVE PromiseStep
    BY <1>34, Unseen DEF vars
  <1> QED
    BY <1>1, <1>2, <1>3, <1>4, <1>5, <1>6, <1>7, <1>8, <1>9, <1>10, <1>11,
       <1>12, <1>13, <1>14, <1>15, <1>16, <1>17, <1>18, <1>19, <1>20, <1>21,
       <1>22, <1>23, <1>24, <1>25, <1>26, <1>27, <1>28, <1>29, <1>30, <1>31,
       <1>32, <1>33, <1>34 DEF Next, Arrive, Handler, HandlerTimer,
       Detached, Chain, Pay, Processor, ProcSettle, Forced, vars

(* The withdrawal pipeline implements the abstract promise.                 *)
THEOREM PromiseKept == Spec => KeepsPromise
  <1>1. Init => Promise!AbstractInit
    BY DEF Init, Promise!AbstractInit, SubmittedVaults, AuthorizedVaults,
       CompletedVaults, OnChain
  <1>2. IInv /\ [Next]_vars => [Promise!AbstractNext]_(Promise!abstractVars)
    BY StepKeepsPromise DEF PromiseStep
  <1> QED
    BY <1>1, <1>2, Invariance, PTL DEF Spec, KeepsPromise, Promise!AbstractSpec

(* What a step may do to withdrawal_authorizations: rows stay, and the       *)
(* transaction a row names is never replaced.                               *)
RowsKept ==
    \A v \in Vaults : authStatus[v] # "none" =>
        authStatus'[v] # "none" /\ authTx'[v] = authTx[v]

(* Every write of a status leaves the row in place, and the only writes of   *)
(* authTx (createAuthorization, WithdrawalAuthorizationService.ts:93-111)    *)
(* are for vaults that had no row.                                          *)
LEMMA RowStep == TypeOK /\ [Next]_vars => RowsKept
  <1> SUFFICES ASSUME TypeOK, [Next]_vars PROVE RowsKept
    OBVIOUS
  <1> USE ConstantsOK DEF TypeOK, AuthStatus, RowsKept
  <1>1. ASSUME NEW r \in Requests, WithdrawReject(r) PROVE RowsKept
    BY <1>1 DEF WithdrawReject, db
  <1>2. ASSUME NEW r \in Requests, WithdrawStart(r) PROVE RowsKept
    BY <1>2 DEF WithdrawStart, db
  <1>3. ASSUME NEW r \in Requests, WithdrawRetry(r) PROVE RowsKept
    BY <1>3
       DEF WithdrawRetry, AuthorizeAndPay, RecordAuthTx, StatusForPayout,
           StatusWhilePaying, MayPay, IsRetry, db
  <1>4. ASSUME NEW r \in Requests, WithdrawRetryRefused(r) PROVE RowsKept
    BY <1>4 DEF WithdrawRetryRefused, db
  <1>5. ASSUME NEW r \in Requests, WithdrawSubmitTimeout(r) PROVE RowsKept
    BY <1>5 DEF WithdrawSubmitTimeout, db
  <1>6. ASSUME NEW r \in Requests, WithdrawPayoutTimeout(r) PROVE RowsKept
    BY <1>6
       DEF WithdrawPayoutTimeout, Finish, FinishFirstAttempt, Racing, db
  <1>7. ASSUME NEW r \in Requests, WithdrawAuthorize(r) PROVE RowsKept
    BY <1>7
       DEF WithdrawAuthorize, AuthorizeAndPay, RecordAuthTx, StatusForPayout,
           StatusWhilePaying, MayPay, OnChain, db
  <1>8. ASSUME NEW r \in Requests, WithdrawAlreadySettled(r) PROVE RowsKept
    BY <1>8
       DEF WithdrawAlreadySettled, Finish, FinishFirstAttempt, OnChain, db
  <1>9. ASSUME NEW r \in Requests, WithdrawAuthFails(r) PROVE RowsKept
    BY <1>9
       DEF WithdrawAuthFails, Finish, FinishFirstAttempt, OnChain, db
  <1>10. ASSUME NEW r \in Requests, WithdrawPaid(r) PROVE RowsKept
    BY <1>10 DEF WithdrawPaid, Finish, FinishFirstAttempt, Racing, db
  <1>11. ASSUME NEW r \in Requests, WithdrawPayFails(r) PROVE RowsKept
    BY <1>11
       DEF WithdrawPayFails, Finish, FinishFirstAttempt, Racing,
           StatusAfterFailure, db
  <1>12. ASSUME NEW r \in Requests, DetachedPaid(r) PROVE RowsKept
    BY <1>12 DEF DetachedPaid, StatusAfterSuccess, db
  <1>13. ASSUME NEW r \in Requests, DetachedPayFails(r) PROVE RowsKept
    BY <1>13 DEF DetachedPayFails, StatusAfterFailure, db
  <1>14. ASSUME NEW r \in Requests, WithdrawSubmitted(r) PROVE RowsKept
    BY <1>14 DEF WithdrawSubmitted, db
  <1>15. ASSUME NEW r \in Requests, WithdrawNotSent(r) PROVE RowsKept
    BY <1>15 DEF WithdrawNotSent, db
  <1>16. ASSUME NEW r \in Requests, TxSucceeds(r) PROVE RowsKept
    BY <1>16 DEF TxSucceeds, db
  <1>17. ASSUME NEW r \in Requests, TxReverts(r) PROVE RowsKept
    BY <1>17 DEF TxReverts, db
  <1>18. ASSUME NEW p \in Payers, PayFetch(p) PROVE RowsKept
    BY <1>18 DEF PayFetch, db
  <1>19. ASSUME NEW p \in Payers, PayBroadcast(p) PROVE RowsKept
    BY <1>19 DEF PayBroadcast, db
  <1>20. ASSUME ProcPoll PROVE RowsKept
    BY <1>20 DEF ProcPoll, db
  <1>21. ASSUME NEW v \in Vaults, ProcStart(v) PROVE RowsKept
    BY <1>21 DEF ProcStart, db
  <1>22. ASSUME ProcNotFinal PROVE RowsKept
    BY <1>22 DEF ProcNotFinal, ProcDone, db
  <1>23. ASSUME ProcPay PROVE RowsKept
    BY <1>23 DEF ProcPay, MayPay, StatusWhilePaying, db
  <1>24. ASSUME ProcPayRefused PROVE RowsKept
    BY <1>24 DEF ProcPayRefused, ProcDone, db
  <1>25. ASSUME ProcPaid PROVE RowsKept
    BY <1>25 DEF ProcPaid, ProcDone, db
  <1>26. ASSUME ProcPayFails PROVE RowsKept
    BY <1>26 DEF ProcPayFails, ProcDone, db
  <1>27. ASSUME NEW f \in Forces, ForceStart(f) PROVE RowsKept
    BY <1>27 DEF ForceStart, db
  <1>28. ASSUME NEW f \in Forces, ForcePaid(f) PROVE RowsKept
    BY <1>28 DEF ForcePaid, db
  <1>29. ASSUME NEW f \in Forces, ForceFails(f) PROVE RowsKept
    BY <1>29 DEF ForceFails, db
  <1>30. ASSUME NEW v \in Vaults, AuditVerify(v) PROVE RowsKept
    BY <1>30 DEF AuditVerify, db
  <1>31. ASSUME NEW w \in Wallets, TopUp(w) PROVE RowsKept
    BY <1>31 DEF TopUp, db
  <1>32. ASSUME Crash PROVE RowsKept
    BY <1>32 DEF Crash, LoseMemory, db
  <1>33. ASSUME NEW r \in Requests, CrashAfterInsert(r) PROVE RowsKept
    BY <1>33 DEF CrashAfterInsert, LoseMemory, OnChain, db
  <1>34. ASSUME UNCHANGED vars PROVE RowsKept
    BY <1>34 DEF vars
  <1> QED
    BY <1>1, <1>2, <1>3, <1>4, <1>5, <1>6, <1>7, <1>8, <1>9, <1>10, <1>11,
       <1>12, <1>13, <1>14, <1>15, <1>16, <1>17, <1>18, <1>19, <1>20, <1>21,
       <1>22, <1>23, <1>24, <1>25, <1>26, <1>27, <1>28, <1>29, <1>30, <1>31,
       <1>32, <1>33, <1>34 DEF Next, Arrive, Handler, HandlerTimer,
       Detached, Chain, Pay, Processor, ProcSettle, Forced, vars

(* Retries, second requests, forced payouts, late answers and restarts       *)
(* reuse the row createAuthorization made, with the burn it names.          *)
THEOREM RowsArePermanent == Spec => AuthRowPermanent
  <1>1. IInv /\ [Next]_vars => RowsKept
    BY RowStep DEF IInv
  <1> QED
    BY <1>1, Invariance, PTL DEF Spec, AuthRowPermanent, RowsKept
=============================================================================
