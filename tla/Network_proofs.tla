--------------------------- MODULE Network_proofs ---------------------------
(***************************************************************************)
(* Proofs about Network, for any set of configurations.                    *)
(***************************************************************************)
EXTENDS Network, TLAPS

\* DonateStrategy's timer runs while it is idle or active, and then only
TimerInv == timer <=> state \in {"IDLE", "ACTIVE"}

IInv ==
  /\ TypeOK
  /\ TimerInv
  /\ StateChanges
  /\ UserJobIsMined
  /\ DonatesOnlyWhileActive
  /\ MinesForSomeone
  /\ DonationGoesOn

LEMMA InitIInv == Init => IInv
<1> SUFFICES ASSUME Init PROVE IInv
  OBVIOUS
<1>1. TypeOK
  BY DEF Init, TypeOK
<1>2. TimerInv
  BY DEF Init, TimerInv
<1>3. StateChanges /\ UserJobIsMined /\ DonatesOnlyWhileActive /\ MinesForSomeone /\ DonationGoesOn
  BY DEF Init, StateChanges, UserJobIsMined, DonatesOnlyWhileActive, MinesForSomeone, DonationGoesOn
<1> QED BY <1>1, <1>2, <1>3 DEF IInv

\* Steps of the user's strategy, which leave the donation's alone
LEMMA UserKeeps ==
  ASSUME IInv, UserJob \/ UserLost \/ ConfigChanged
  PROVE  IInv'
<1>1. UNCHANGED donateVars
  BY DEF UserJob, UserLost, ConfigChanged
<1>2. \/ user' = TRUE /\ OnUserJob
      \/ user' = FALSE /\ Pauses
      \/ UNCHANGED <<user, minerVars>>
      \/ user' = FALSE /\ orphaned' = TRUE /\ UNCHANGED <<job, active>>
  BY DEF UserJob, UserLost, ConfigChanged
<1>3. mode' \in Modes
  BY DEF IInv, TypeOK, UserJob, UserLost, ConfigChanged
<1>4. /\ user' \in BOOLEAN /\ orphaned' \in BOOLEAN /\ active' \in BOOLEAN
      /\ job' \in {"none", "newest", "old", "donate"}
  BY <1>2 DEF IInv, TypeOK, OnUserJob, Missed, Mines, Pauses, minerVars
<1>5. TypeOK'
  BY <1>1, <1>3, <1>4 DEF IInv, TypeOK, donateVars
<1>6. TimerInv' /\ StateChanges' /\ DonationGoesOn'
  BY <1>1 DEF IInv, TimerInv, StateChanges, DonationGoesOn, donateVars
<1>7. IsActive' = IsActive
  BY <1>1 DEF IsActive, donateVars
<1>8. UserJobIsMined'
  BY <1>2, <1>7 DEF IInv, UserJobIsMined, OnUserJob, Mines, Pauses, minerVars
<1>9. DonatesOnlyWhileActive'
  BY <1>2, <1>7 DEF IInv, DonatesOnlyWhileActive, OnUserJob, Missed, Mines, Pauses, minerVars
<1>10. MinesForSomeone'
  BY <1>2, <1>7 DEF IInv, MinesForSomeone, OnUserJob, Missed, Mines, Pauses, minerVars
<1> QED BY <1>5, <1>6, <1>8, <1>9, <1>10 DEF IInv

LEMMA NextIInv == IInv /\ [Next]_vars => IInv'
<1> SUFFICES ASSUME IInv, [Next]_vars PROVE IInv'
  OBVIOUS
<1> USE DEF IInv, TypeOK, TimerInv, StateChanges, UserJobIsMined, DonatesOnlyWhileActive,
            MinesForSomeone, DonationGoesOn, IsActive, donateVars, minerVars, Mines, Pauses
<1>1. CASE UserJob
  BY <1>1, UserKeeps
<1>2. CASE UserLost
  BY <1>2, UserKeeps
<1>3. CASE ConfigChanged
  BY <1>3, UserKeeps
<1>4. CASE PoolsLogin
  <2> USE <1>4 DEF PoolsLogin, DonateLogin, LoginAwaitJob, Activated, SetState
  <2>1. TypeOK'
    OBVIOUS
  <2>2. TimerInv'
    OBVIOUS
  <2>3. StateChanges' /\ UserJobIsMined' /\ DonatesOnlyWhileActive' /\ MinesForSomeone'
    OBVIOUS
  <2>4. DonationGoesOn'
    OBVIOUS
  <2> QED BY <2>1, <2>2, <2>3, <2>4
<1>5. CASE PoolsJob
  BY <1>5 DEF PoolsJob, DonateJob
<1>6. CASE PoolsLost
  BY <1>6 DEF PoolsLost
<1>7. CASE ProxyLogin
  <2> USE <1>7 DEF ProxyLogin, DonateLogin, Activated, SetState
  <2>1. TypeOK'
    OBVIOUS
  <2>2. TimerInv'
    OBVIOUS
  <2>3. StateChanges' /\ UserJobIsMined' /\ DonatesOnlyWhileActive' /\ MinesForSomeone'
    OBVIOUS
  <2>4. DonationGoesOn'
    OBVIOUS
  <2> QED BY <2>1, <2>2, <2>3, <2>4
<1>8. CASE ProxyJob
  BY <1>8 DEF ProxyJob, DonateJob
<1>9. CASE ProxyLost
  BY <1>9 DEF ProxyLost, FallsBack, PoolsConnect
<1>10. CASE OnTimer
  <2>1. CASE IsActive
    BY <1>10, <2>1 DEF OnTimer, SetState, UserResumed
  <2>2. CASE ~IsActive
    BY <1>10, <2>2 DEF OnTimer, SetState, DonateConnect, PoolsConnect
  <2> QED BY <2>1, <2>2
<1>11. CASE Tick
  BY <1>11 DEF Tick, SetState
<1>12. CASE UNCHANGED vars
  BY <1>12 DEF vars
<1> QED
  BY <1>1, <1>2, <1>3, <1>4, <1>5, <1>6, <1>7, <1>8, <1>9, <1>10, <1>11, <1>12 DEF Next

LEMMA Invariance == Spec => []IInv
BY InitIInv, NextIInv, PTL DEF Spec

\* Every variable keeps its type.
THEOREM TypeCorrect == Spec => []TypeOK
BY Invariance, PTL DEF IInv

\* The assertion of DonateStrategy::setState never fails.
THEOREM StateAlwaysChanges == Spec => []StateChanges
BY Invariance, PTL DEF IInv

\* While a pool of the user is active and the donation is not, the miner mines the
\* newest job of that pool.
THEOREM MinesUserJob == Spec => []UserJobIsMined
BY Invariance, PTL DEF IInv

\* The miner mines for the donation only while it is active.
THEOREM DonatesOnlyThen == Spec => []DonatesOnlyWhileActive
BY Invariance, PTL DEF IInv

\* Nothing is mined for nobody, but the job of a single pool that was taken away.
THEOREM AlwaysForSomeone == Spec => []MinesForSomeone
BY Invariance, PTL DEF IInv

\* In every state of DonateStrategy something goes on that takes it to the next.
THEOREM DonationNeverStuck == Spec => []DonationGoesOn
BY Invariance, PTL DEF IInv
=============================================================================
