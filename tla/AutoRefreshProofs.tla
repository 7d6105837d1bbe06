-------------------------- MODULE AutoRefreshProofs --------------------------
(* The countdown of auto-refresh is safe for any intervals, any number of   *)
(* failures allowed and any idle limit.                                     *)
EXTENDS AutoRefresh, TLAPS

USE RefreshAssumption DEF RefreshAssumption

(* What the steps that start the countdown again have in common: after them *)
(* it runs if it is wanted.                                                 *)
Restarted ==
    /\ CountdownRuns' /\ CountdownIsWanted' /\ CountdownIsShort'
    /\ armed' \in BOOLEAN /\ left' \in Nat

(* restart sets the timer exactly when the interval is on and the page      *)
(* visible; otherwise it leaves the timer as it was, which must be unset.   *)
LEMMA RestartRuns ==
    ASSUME TypeOK,
           interval' \in Intervals \cup {0}, hidden' \in BOOLEAN,
           NEW wasArmed \in BOOLEAN,
           wasArmed => interval' > 0 /\ ~hidden',
           interval' > 0 => ~hidden' \/ left <= interval',
           restartWhen(~hidden', wasArmed)
    PROVE  Restarted
<1>1. CASE interval' > 0 /\ ~hidden'
  BY <1>1 DEF Restarted, CountdownRuns, CountdownIsWanted, CountdownIsShort,
              restartWhen, arm, TypeOK, Counts, Flags
<1>2. CASE ~(interval' > 0 /\ ~hidden')
  BY <1>2 DEF Restarted, CountdownRuns, CountdownIsWanted, CountdownIsShort,
              restartWhen, TypeOK, Counts, Flags
<1> QED
  BY <1>1, <1>2

(* chooseInterval, from the menu or from stop.                              *)
LEMMA ChooseRuns ==
    ASSUME CountdownInv, hidden' \in BOOLEAN, hidden' => ~armed,
           NEW i \in Intervals \cup {0}, i > 0 => ~hidden', chooseInterval(i)
    PROVE  /\ Restarted
           /\ interval' \in Intervals \cup {0}
           /\ failures' \in 0..(MaxFailures - 1)
           /\ idle' \in 0..(IdleLimit + 1)
<1>1. /\ interval' \in Intervals \cup {0} /\ interval' \in Nat
      /\ failures' \in 0..(MaxFailures - 1)
      /\ idle' \in 0..(IdleLimit + 1)
  BY DEF chooseInterval
<1>2. CASE i > 0
  <2>1. restartWhen(~hidden', armed)
    BY <1>2 DEF chooseInterval
  <2>2. interval' > 0 /\ ~hidden'
    BY <1>2 DEF chooseInterval
  <2> QED
    BY <1>1, <2>1, <2>2, RestartRuns DEF CountdownInv, TypeOK, Counts, Flags
<1>3. CASE ~(i > 0)
  <2>1. interval' = 0 /\ ~(interval' > 0) /\ left' = left
    BY <1>1, <1>3 DEF chooseInterval, disarm
  <2>2. ~armed' /\ armed' \in BOOLEAN
    BY <1>3 DEF chooseInterval, disarm
  <2>3. left \in Nat
    BY DEF CountdownInv, TypeOK, Counts
  <2>4. Restarted
    BY <2>1, <2>2, <2>3 DEF Restarted, CountdownRuns, CountdownIsWanted,
                      CountdownIsShort
  <2> QED
    BY <1>1, <2>4
<1> QED
  BY <1>1, <1>2, <1>3

(* The end of a request: the last one starts the countdown, any other       *)
(* leaves it to the last.                                                   *)
LEMMA EndRuns ==
    ASSUME CountdownInv, UNCHANGED <<interval, hidden>>,
           setFetching(latest' # "none" \/ superseded' > 0)
    PROVE  Restarted
<1>1. CASE latest' # "none" \/ superseded' > 0
  BY <1>1 DEF Restarted, CountdownRuns, CountdownIsWanted, CountdownIsShort,
              CountdownInv, TypeOK, Counts, Flags, fetching, setFetching
<1>2. CASE ~(latest' # "none" \/ superseded' > 0)
  <2>1. restartWhen(~hidden', armed)
    BY <1>2 DEF setFetching
  <2>2. interval' \in Intervals \cup {0} /\ hidden' \in BOOLEAN /\ armed \in BOOLEAN
        /\ (armed => interval' > 0 /\ ~hidden')
        /\ (interval' > 0 => left <= interval')
    BY DEF CountdownInv, CountdownIsWanted, CountdownIsShort, TypeOK, Counts,
           Flags
  <2> QED
    BY <2>1, <2>2, RestartRuns DEF CountdownInv
<1> QED
  BY <1>1, <1>2

(* A tick, of the timer or of a page shown again after its deadline.        *)
LEMMA TickRuns ==
    ASSUME CountdownInv, hidden' = FALSE, inView' = inView, tick
    PROVE  CountdownInv'
<1>1. CASE isIdle
  <2>1. chooseInterval(0) /\ UNCHANGED requests
    BY <1>1 DEF tick
  <2> QED
    BY <2>1, ChooseRuns DEF CountdownInv, TypeOK, Counts, Flags, Restarted,
                            requests
<1>2. CASE ~isIdle /\ fetching
  BY <1>2 DEF tick, CountdownInv, TypeOK, Counts, Flags, CountdownRuns,
              CountdownIsWanted, CountdownIsShort, fetching, requests
<1>3. CASE ~isIdle /\ ~fetching /\ inView
  <2>1. /\ UNCHANGED <<interval, failures, idle, left>>
        /\ armed' = FALSE /\ latest' = "tick" /\ superseded' = superseded
    BY <1>3 DEF tick, loadData, supersedeLoads, fetching
  <2> QED
    BY <2>1 DEF CountdownInv, TypeOK, Counts, Flags, CountdownRuns,
                CountdownIsWanted, CountdownIsShort, fetching
<1>4. CASE ~isIdle /\ ~fetching /\ ~inView
  <2>1. restartWhen(~hidden', FALSE) /\ UNCHANGED <<interval, failures, idle, latest, superseded>>
    BY <1>4 DEF tick, requests
  <2>2. Restarted
    BY <2>1, RestartRuns DEF CountdownInv, TypeOK, Counts, Flags
  <2> QED
    BY <2>1, <2>2 DEF CountdownInv, TypeOK, Counts, Flags, Restarted
<1> QED
  BY <1>1, <1>2, <1>3, <1>4

LEMMA CountdownStarts == Init => CountdownInv
<1> SUFFICES ASSUME Init PROVE CountdownInv
  OBVIOUS
<1>1. Counts
  BY DEF Init, Counts
<1>2. Flags
  BY DEF Init, Flags
<1>3. CountdownRuns /\ CountdownIsWanted /\ CountdownIsShort
  BY DEF Init, CountdownRuns, CountdownIsWanted, CountdownIsShort
<1> QED
  BY <1>1, <1>2, <1>3 DEF CountdownInv, TypeOK

LEMMA CountdownStays == CountdownInv /\ [Next]_vars => CountdownInv'
<1> SUFFICES ASSUME CountdownInv, [Next]_vars PROVE CountdownInv'
  OBVIOUS
<1>1. CASE Fire
  <2>1. hidden' = FALSE
    BY <1>1 DEF Fire, CountdownInv, CountdownIsWanted, TypeOK, Counts, Flags
  <2> QED
    BY <1>1, <2>1, TickRuns DEF Fire
<1>2. CASE Pass
  BY <1>2 DEF Pass, CountdownInv, TypeOK, Counts, Flags, CountdownRuns,
              CountdownIsWanted, CountdownIsShort, fetching, isIdle, requests
<1>3. CASE EndSuperseded
  <2>1. Restarted
    BY <1>3, EndRuns DEF EndSuperseded
  <2> QED
    BY <1>3, <2>1 DEF EndSuperseded, CountdownInv, TypeOK, Counts, Flags,
                      Restarted
<1>4. CASE Succeed
  <2>1. Restarted
    BY <1>4, EndRuns DEF Succeed, EndLatest
  <2> QED
    BY <1>4, <2>1 DEF Succeed, EndLatest, CountdownInv, TypeOK, Counts, Flags,
                      Restarted
<1>5. CASE Fail
  <2> USE <1>5 DEF Fail, EndLatest
  <2>1. CASE latest = "tick" /\ ~(failures + 1 < MaxFailures)
    <3>1. chooseInterval(0) /\ UNCHANGED <<superseded, hidden, inView>> /\ latest' = "none"
      BY <2>1 DEF noteTickFailed
    <3>2. hidden' \in BOOLEAN /\ (hidden' => ~armed)
      BY <3>1 DEF CountdownInv, TypeOK, Counts, Flags, CountdownIsWanted,
                  CountdownIsShort
    <3> QED
      BY <3>1, <3>2, ChooseRuns DEF CountdownInv, TypeOK, Counts, Flags, Restarted
  <2>2. CASE ~(latest = "tick" /\ ~(failures + 1 < MaxFailures))
    <3>1. /\ UNCHANGED <<interval, idle, superseded, hidden, inView>> /\ latest' = "none"
          /\ setFetching(latest' # "none" \/ superseded' > 0)
          /\ failures' \in 0..(MaxFailures - 1)
      BY <2>2 DEF noteTickFailed, CountdownInv, TypeOK, Counts, Flags
    <3>2. Restarted
      BY <3>1, EndRuns
    <3> QED
      BY <3>1, <3>2 DEF CountdownInv, TypeOK, Counts, Flags, Restarted
  <2> QED
    BY <2>1, <2>2
<1>6. CASE noteInput
  BY <1>6 DEF noteInput, CountdownInv, TypeOK, Counts, Flags, CountdownRuns,
              CountdownIsWanted, CountdownIsShort, fetching, requests
<1>7. CASE UserLoad
  <2>1. /\ UNCHANGED <<interval, armed, left, idle, failures, hidden>>
        /\ latest' = "user"
    BY <1>7 DEF UserLoad, loadData
  <2>2. superseded' \in 0..MaxSuperseded
    BY <1>7 DEF UserLoad, loadData, supersedeLoads, CountdownInv, TypeOK, Counts
  <2>3. inView' \in BOOLEAN
    BY <1>7 DEF UserLoad, CountdownInv, TypeOK, Flags
  <2> QED
    BY <2>1, <2>2, <2>3 DEF CountdownInv, TypeOK, Counts, Flags, CountdownRuns,
                            CountdownIsWanted, CountdownIsShort, fetching
<1>8. CASE LeaveView
  <2>1. /\ UNCHANGED <<interval, armed, left, idle, failures, hidden>>
        /\ latest' = "none" /\ inView' = FALSE
    BY <1>8 DEF LeaveView
  <2>2. superseded' \in 0..MaxSuperseded /\ (fetching => fetching')
    BY <1>8 DEF LeaveView, supersedeLoads, fetching, CountdownInv, TypeOK, Counts
  <2> QED
    BY <2>1, <2>2 DEF CountdownInv, TypeOK, Counts, Flags, CountdownRuns,
                      CountdownIsWanted, CountdownIsShort
<1>9. CASE \E i \in Intervals \cup {0} : Choose(i)
  <2> PICK i \in Intervals \cup {0} : Choose(i)
    BY <1>9
  <2>1. hidden' \in BOOLEAN /\ (hidden' => ~armed)
    BY DEF Choose, CountdownInv, TypeOK, Counts, Flags, CountdownIsWanted,
           CountdownIsShort
  <2> QED
    BY <2>1, ChooseRuns DEF Choose, CountdownInv, TypeOK, Counts, Flags,
                            Restarted, requests
<1>10. CASE Hide
  <2>1. Counts'
    BY <1>10 DEF Hide, disarm, requests, CountdownInv, TypeOK, Counts
  <2>2. Flags'
    BY <1>10 DEF Hide, disarm, requests, CountdownInv, TypeOK, Flags
  <2>3. CountdownRuns'
    BY <1>10 DEF Hide, disarm, requests, CountdownInv, TypeOK, Counts, Flags,
                 CountdownRuns, CountdownIsWanted, CountdownIsShort, fetching
  <2>4. CountdownIsWanted' /\ CountdownIsShort'
    BY <1>10 DEF Hide, disarm, requests, CountdownInv, TypeOK, Counts, Flags,
                 CountdownIsWanted, CountdownIsShort
  <2> QED
    BY <2>1, <2>2, <2>3, <2>4 DEF CountdownInv, TypeOK
<1>11. CASE Show
  <2> USE <1>11 DEF Show
  <2>1. CASE interval = 0
    <3>1. Counts'
      BY <2>1 DEF Show, requests, CountdownInv, TypeOK, Counts
    <3>2. Flags'
      BY <2>1 DEF Show, requests, CountdownInv, TypeOK, Flags
    <3>3. CountdownRuns'
      BY <2>1 DEF Show, requests, CountdownInv, TypeOK, Counts, Flags,
                  CountdownRuns, CountdownIsWanted, CountdownIsShort, fetching
    <3>4. CountdownIsWanted' /\ CountdownIsShort'
      BY <2>1 DEF Show, requests, CountdownInv, TypeOK, Counts, Flags,
                  CountdownIsWanted, CountdownIsShort
    <3> QED
      BY <3>1, <3>2, <3>3, <3>4 DEF CountdownInv, TypeOK
  <2>2. CASE interval # 0 /\ (isIdle \/ left = 0)
    BY <2>2, TickRuns
  <2>3. CASE interval # 0 /\ ~(isIdle \/ left = 0)
    <3>1. Counts'
      BY <2>3 DEF Show, arm, requests, CountdownInv, TypeOK, Counts
    <3>2. Flags'
      BY <2>3 DEF Show, arm, requests, CountdownInv, TypeOK, Flags
    <3>3. CountdownRuns'
      BY <2>3 DEF Show, arm, requests, CountdownInv, TypeOK, Counts, Flags,
                  CountdownRuns, CountdownIsWanted, CountdownIsShort, fetching
    <3>4. CountdownIsWanted' /\ CountdownIsShort'
      BY <2>3 DEF Show, arm, requests, CountdownInv, TypeOK, Counts, Flags,
                  CountdownIsWanted, CountdownIsShort
    <3> QED
      BY <3>1, <3>2, <3>3, <3>4 DEF CountdownInv, TypeOK
  <2> QED
    BY <2>1, <2>2, <2>3
<1>12. CASE UNCHANGED vars
  BY <1>12 DEF vars, requests, CountdownInv, TypeOK, Counts, Flags,
               CountdownRuns, CountdownIsWanted, CountdownIsShort, fetching
<1> QED
  BY <1>1, <1>2, <1>3, <1>4, <1>5, <1>6, <1>7, <1>8, <1>9, <1>10, <1>11, <1>12
     DEF Next, Settle, Acts

(* While auto-refresh is on and the page visible, the timer is set or a     *)
(* fetch will set it when it ends; and it is set at no other time (arm,     *)
(* restart, disarm and setFetching of auto-refresh.ts).                     *)
THEOREM CountdownSafe == Spec => []CountdownInv
<1> QED
  BY CountdownStarts, CountdownStays, PTL DEF Spec

(* A tick asks for rows only while it is on, the page is visible, somebody  *)
(* has been there and nothing else is being fetched.                        *)
THEOREM TicksWanted == Spec => TicksAreWanted
<1>1. CountdownInv /\ [Next]_vars =>
        [latest' = "tick" /\ latest # "tick" =>
            interval > 0 /\ ~hidden' /\ ~isIdle /\ ~fetching /\ inView]_vars
  <2> SUFFICES ASSUME CountdownInv, Next, latest' = "tick", latest # "tick"
               PROVE  interval > 0 /\ ~hidden' /\ ~isIdle /\ ~fetching /\ inView
    BY DEF vars, requests
  <2>1. CASE Fire
    BY <2>1 DEF Fire, tick, chooseInterval, requests, CountdownInv,
                CountdownIsWanted, TypeOK, Counts, Flags
  <2>2. CASE Show
    <3>1. interval # 0 /\ tick
      BY <2>2 DEF Show, requests
    <3>2. ~isIdle /\ ~fetching /\ inView
      BY <3>1 DEF tick, requests
    <3> QED
      BY <2>2, <3>1, <3>2 DEF Show, CountdownInv, TypeOK, Counts, Flags
  <2>3. CASE Next /\ ~Fire /\ ~Show
    BY <2>3 DEF Next, Settle, Acts, Pass, EndSuperseded, Succeed, Fail,
                EndLatest, noteInput, Choose,
           UserLoad, loadData, LeaveView, Hide, requests
  <2> QED
    BY <2>1, <2>2, <2>3
<1> QED
  BY <1>1, CountdownSafe, PTL DEF Spec, TicksAreWanted
=============================================================================
