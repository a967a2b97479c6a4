------------------------- MODULE HeaderRelayProofs -------------------------
(* Proofs about the header relay, for any number of overlapping cycles, any *)
(* batch size, chain length and number of crashes.                          *)
EXTENDS HeaderRelay, TLAPS

(* Heights stay within the chain as it grows.                               *)
LEMMA RelayTypeStep == RelayTypeOK /\ CyclesBounded /\ [Next]_vars => RelayTypeOK'
  <1> SUFFICES ASSUME RelayTypeOK /\ CyclesBounded, [Next]_vars PROVE RelayTypeOK'
    OBVIOUS
  <1> USE RelayConstants DEF NoCursor, Goto, cycleVars, chainVars, CyclePc, RelayTypeOK, CyclesBounded, InLoop
  <1>1. ASSUME NEW c \in Cycles, StartCycle(c) PROVE RelayTypeOK'
    BY <1>1 DEF StartCycle
  <1>2. ASSUME NEW c \in Cycles, TipFetched(c) PROVE RelayTypeOK'
    BY <1>2 DEF TipFetched, StartHeight, EndHeight, UpToDate
  <1>3. ASSUME NEW c \in Cycles, HeaderFetched(c) PROVE RelayTypeOK'
    BY <1>3 DEF HeaderFetched
  <1>4. ASSUME NEW c \in Cycles, Submit(c) PROVE RelayTypeOK'
    <2>1. sent' \subseteq 0..tip' /\ stored' \subseteq sent'
      BY <1>4 DEF Submit
    <2>2. inflight' \in sent' \cup {NoCursor}
      BY <1>4 DEF Submit
    <2>3. UNCHANGED <<tip, cursor, next, last, crashes>> /\ pc' \in [Cycles -> CyclePc]
      BY <1>4 DEF Submit
    <2> QED
      BY <2>1, <2>2, <2>3
  <1>5. ASSUME NEW c \in Cycles, Answer(c) PROVE RelayTypeOK'
    BY <1>5 DEF Answer
  <1>6. ASSUME NEW c \in Cycles, AnswerLost(c) PROVE RelayTypeOK'
    BY <1>6 DEF AnswerLost
  <1>7. ASSUME NEW c \in Cycles, GapOver(c) PROVE RelayTypeOK'
    BY <1>7 DEF GapOver
  <1>8. ASSUME NEW c \in Cycles, GiveUp(c) PROVE RelayTypeOK'
    BY <1>8 DEF GiveUp
  <1>9. ASSUME NewBlock PROVE RelayTypeOK'
    BY <1>9 DEF NewBlock
  <1>10. ASSUME StoreHeader PROVE RelayTypeOK'
    BY <1>10 DEF StoreHeader
  <1>11. ASSUME StoreReverts PROVE RelayTypeOK'
    BY <1>11 DEF StoreReverts
  <1>12. ASSUME Crash PROVE RelayTypeOK'
    BY <1>12 DEF Crash
  <1>13. ASSUME UNCHANGED vars PROVE RelayTypeOK'
    BY <1>13 DEF vars
  <1> QED
    BY <1>1, <1>2, <1>3, <1>4, <1>5, <1>6, <1>7,
       <1>8, <1>9, <1>10, <1>11, <1>12, <1>13
       DEF Next, Cycle

(* A loop ends at its end height.                                           *)
LEMMA BoundedStep == RelayTypeOK /\ CyclesBounded /\ [Next]_vars => CyclesBounded'
  <1> SUFFICES ASSUME RelayTypeOK /\ CyclesBounded, [Next]_vars PROVE CyclesBounded'
    OBVIOUS
  <1> USE RelayConstants DEF NoCursor, Goto, cycleVars, chainVars, CyclePc, RelayTypeOK, CyclesBounded, InLoop
  <1>1. ASSUME NEW c \in Cycles, StartCycle(c) PROVE CyclesBounded'
    BY <1>1 DEF StartCycle
  <1>2. ASSUME NEW c \in Cycles, TipFetched(c) PROVE CyclesBounded'
    BY <1>2 DEF TipFetched, StartHeight, EndHeight, UpToDate
  <1>3. ASSUME NEW c \in Cycles, HeaderFetched(c) PROVE CyclesBounded'
    BY <1>3 DEF HeaderFetched
  <1>4. ASSUME NEW c \in Cycles, Submit(c) PROVE CyclesBounded'
    BY <1>4 DEF Submit
  <1>5. ASSUME NEW c \in Cycles, Answer(c) PROVE CyclesBounded'
    BY <1>5 DEF Answer
  <1>6. ASSUME NEW c \in Cycles, AnswerLost(c) PROVE CyclesBounded'
    BY <1>6 DEF AnswerLost
  <1>7. ASSUME NEW c \in Cycles, GapOver(c) PROVE CyclesBounded'
    BY <1>7 DEF GapOver
  <1>8. ASSUME NEW c \in Cycles, GiveUp(c) PROVE CyclesBounded'
    BY <1>8 DEF GiveUp
  <1>9. ASSUME NewBlock PROVE CyclesBounded'
    BY <1>9 DEF NewBlock
  <1>10. ASSUME StoreHeader PROVE CyclesBounded'
    BY <1>10 DEF StoreHeader
  <1>11. ASSUME StoreReverts PROVE CyclesBounded'
    BY <1>11 DEF StoreReverts
  <1>12. ASSUME Crash PROVE CyclesBounded'
    BY <1>12 DEF Crash
  <1>13. ASSUME UNCHANGED vars PROVE CyclesBounded'
    BY <1>13 DEF vars
  <1> QED
    BY <1>1, <1>2, <1>3, <1>4, <1>5, <1>6, <1>7,
       <1>8, <1>9, <1>10, <1>11, <1>12, <1>13
       DEF Next, Cycle

(* The cursor moves, forward or back, only over posted heights.             *)
LEMMA PostedStep == RelayTypeOK /\ PostedUpToCursor /\ CyclesPost /\ [Next]_vars => PostedUpToCursor'
  <1> SUFFICES ASSUME RelayTypeOK /\ PostedUpToCursor /\ CyclesPost, [Next]_vars PROVE PostedUpToCursor'
    OBVIOUS
  <1> USE RelayConstants DEF NoCursor, Goto, cycleVars, chainVars, CyclePc, RelayTypeOK, PostedUpToCursor, CyclesPost, InLoop
  <1>1. ASSUME NEW c \in Cycles, StartCycle(c) PROVE PostedUpToCursor'
    BY <1>1 DEF StartCycle
  <1>2. ASSUME NEW c \in Cycles, TipFetched(c) PROVE PostedUpToCursor'
    BY <1>2 DEF TipFetched, StartHeight, EndHeight, UpToDate
  <1>3. ASSUME NEW c \in Cycles, HeaderFetched(c) PROVE PostedUpToCursor'
    BY <1>3 DEF HeaderFetched
  <1>4. ASSUME NEW c \in Cycles, Submit(c) PROVE PostedUpToCursor'
    BY <1>4 DEF Submit
  <1>5. ASSUME NEW c \in Cycles, Answer(c) PROVE PostedUpToCursor'
    BY <1>5 DEF Answer
  <1>6. ASSUME NEW c \in Cycles, AnswerLost(c) PROVE PostedUpToCursor'
    BY <1>6 DEF AnswerLost
  <1>7. ASSUME NEW c \in Cycles, GapOver(c) PROVE PostedUpToCursor'
    BY <1>7 DEF GapOver
  <1>8. ASSUME NEW c \in Cycles, GiveUp(c) PROVE PostedUpToCursor'
    BY <1>8 DEF GiveUp
  <1>9. ASSUME NewBlock PROVE PostedUpToCursor'
    BY <1>9 DEF NewBlock
  <1>10. ASSUME StoreHeader PROVE PostedUpToCursor'
    BY <1>10 DEF StoreHeader
  <1>11. ASSUME StoreReverts PROVE PostedUpToCursor'
    BY <1>11 DEF StoreReverts
  <1>12. ASSUME Crash PROVE PostedUpToCursor'
    BY <1>12 DEF Crash
  <1>13. ASSUME UNCHANGED vars PROVE PostedUpToCursor'
    BY <1>13 DEF vars
  <1> QED
    BY <1>1, <1>2, <1>3, <1>4, <1>5, <1>6, <1>7,
       <1>8, <1>9, <1>10, <1>11, <1>12, <1>13
       DEF Next, Cycle

(* A cycle starts above posted heights and leaves none out.                  *)
LEMMA CyclesPostStep == RelayTypeOK /\ PostedUpToCursor /\ CyclesPost /\ [Next]_vars => CyclesPost'
  <1> SUFFICES ASSUME RelayTypeOK /\ PostedUpToCursor /\ CyclesPost, [Next]_vars PROVE CyclesPost'
    OBVIOUS
  <1> USE RelayConstants DEF NoCursor, Goto, cycleVars, chainVars, CyclePc, RelayTypeOK, PostedUpToCursor, CyclesPost, InLoop
  <1>1. ASSUME NEW c \in Cycles, StartCycle(c) PROVE CyclesPost'
    BY <1>1 DEF StartCycle
  <1>2. ASSUME NEW c \in Cycles, TipFetched(c) PROVE CyclesPost'
    BY <1>2 DEF TipFetched, StartHeight, EndHeight, UpToDate
  <1>3. ASSUME NEW c \in Cycles, HeaderFetched(c) PROVE CyclesPost'
    BY <1>3 DEF HeaderFetched
  <1>4. ASSUME NEW c \in Cycles, Submit(c) PROVE CyclesPost'
    BY <1>4 DEF Submit
  <1>5. ASSUME NEW c \in Cycles, Answer(c) PROVE CyclesPost'
    BY <1>5 DEF Answer
  <1>6. ASSUME NEW c \in Cycles, AnswerLost(c) PROVE CyclesPost'
    BY <1>6 DEF AnswerLost
  <1>7. ASSUME NEW c \in Cycles, GapOver(c) PROVE CyclesPost'
    BY <1>7 DEF GapOver
  <1>8. ASSUME NEW c \in Cycles, GiveUp(c) PROVE CyclesPost'
    BY <1>8 DEF GiveUp
  <1>9. ASSUME NewBlock PROVE CyclesPost'
    BY <1>9 DEF NewBlock
  <1>10. ASSUME StoreHeader PROVE CyclesPost'
    BY <1>10 DEF StoreHeader
  <1>11. ASSUME StoreReverts PROVE CyclesPost'
    BY <1>11 DEF StoreReverts
  <1>12. ASSUME Crash PROVE CyclesPost'
    BY <1>12 DEF Crash
  <1>13. ASSUME UNCHANGED vars PROVE CyclesPost'
    BY <1>13 DEF vars
  <1> QED
    BY <1>1, <1>2, <1>3, <1>4, <1>5, <1>6, <1>7,
       <1>8, <1>9, <1>10, <1>11, <1>12, <1>13
       DEF Next, Cycle

(* The inductive invariant of the relay holds in every reachable state.     *)
THEOREM RelayInvariance == Spec => []RelayInv
  <1>1. Init => RelayInv
    BY RelayConstants DEF Init, RelayInv, RelayTypeOK, CyclesBounded, InLoop,
       PostedUpToCursor, CyclesPost, CyclePc, NoCursor
  <1>2. RelayInv /\ [Next]_vars => RelayInv'
    BY RelayTypeStep, BoundedStep, PostedStep, CyclesPostStep DEF RelayInv
  <1> QED
    BY <1>1, <1>2, PTL DEF Spec

(* No overlap of cycles, failure or restart makes relayCycle skip a header: *)
(* all heights from the first cursor to the present one have been posted.   *)
THEOREM NoHeaderSkipped == Spec => []PostedUpToCursor
  <1>1. RelayInv => PostedUpToCursor
    BY DEF RelayInv
  <1> QED
    BY <1>1, RelayInvariance, PTL

(* The cursor, the loops and the posted heights stay on the Bitcoin chain.  *)
THEOREM RelayTypeCorrect == Spec => []RelayTypeOK
  <1>1. RelayInv => RelayTypeOK
    BY DEF RelayInv
  <1> QED
    BY <1>1, RelayInvariance, PTL
=============================================================================
