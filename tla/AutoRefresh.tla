----------------------------- MODULE AutoRefresh -----------------------------
(***************************************************************************)
(* Auto-refresh (features/auto-refresh.ts): a countdown that reloads the   *)
(* view in place while it is on, the page is visible and somebody is       *)
(* there.  It is off on every page load, is switched off by the user, by   *)
(* half an hour without input and by failures in a row, and is suspended   *)
(* while the page is hidden.                                               *)
(*                                                                         *)
(* Time passes in units; a timer whose time has come may run late, as a    *)
(* browser's does.  Of the loads of controller.ts it matters who started   *)
(* the latest and how many older ones are still on their way, superseded;  *)
(* banners and the notice are left out.                                    *)
(***************************************************************************)
EXTENDS Naturals

CONSTANTS
    Intervals,      \* the intervals on offer (STEPS without "Off")
    MaxFailures,    \* MAX_FAILURES
    IdleLimit,      \* IDLE_MS
    MaxSuperseded   \* bound on the superseded requests still on their way

ASSUME RefreshAssumption ==
    /\ Intervals \subseteq Nat \ {0}
    /\ MaxFailures \in Nat \ {0}
    /\ IdleLimit \in Nat
    /\ MaxSuperseded \in Nat

VARIABLES
    interval,   \* intervalMs, 0 when off
    armed,      \* whether the timer is set
    left,       \* deadline - now, 0 once it has passed
    idle,       \* now - lastInput, as far as isIdle can tell
    failures,
    latest,     \* whose the load with the current token is, while its request is
                \* on its way
    superseded, \* how many other requests are (inFlightFetches counts them all)
    hidden,     \* document.hidden
    inView      \* state.view is set

vars == <<interval, armed, left, idle, failures, latest, superseded, hidden, inView>>

requests == <<latest, superseded>>

fetching == latest # "none" \/ superseded > 0
isIdle == idle > IdleLimit

-----------------------------------------------------------------------------
arm(time) == armed' = TRUE /\ left' = time

disarm == armed' = FALSE /\ UNCHANGED left

(* restart, with the interval and visibility it finds.  When it does       *)
(* nothing the timer that called it has already run.                       *)
restartWhen(visible, wasArmed) ==
    IF interval' > 0 /\ visible THEN arm(interval') ELSE armed' = wasArmed /\ UNCHANGED left

(* chooseInterval, of the menu or of stop.                                 *)
chooseInterval(i) ==
    /\ interval' = i
    /\ failures' = 0
    /\ idle' = 0
    /\ IF i > 0 THEN restartWhen(~hidden', armed) ELSE disarm

(* A new token leaves the load that had it superseded.                     *)
supersedeLoads == superseded' = IF latest = "none" THEN superseded ELSE superseded + 1

loadData(who) == supersedeLoads /\ latest' = who

(* mutants: a tick does not look at the idle time, or at a fetch on its way *)
tickUnattended ==
    /\ UNCHANGED <<interval, failures, idle>>
    /\ CASE fetching -> armed' = FALSE /\ UNCHANGED <<left, requests>>
         [] ~fetching /\ inView -> armed' = FALSE /\ UNCHANGED left /\ loadData("tick")
         [] OTHER -> restartWhen(~hidden', FALSE) /\ UNCHANGED requests

tickAnyway ==
    IF isIdle
    THEN chooseInterval(0) /\ UNCHANGED requests
    ELSE /\ UNCHANGED <<interval, failures, idle>>
         /\ IF inView
            THEN armed' = FALSE /\ UNCHANGED left /\ loadData("tick")
            ELSE restartWhen(~hidden', FALSE) /\ UNCHANGED requests

(* The timer has run out, or has while the page was hidden.  A tick that   *)
(* finds a fetch on its way leaves it to the end of that fetch to restart  *)
(* the countdown; one that finds nothing in view keeps counting.           *)
tick ==
    IF isIdle
    THEN chooseInterval(0) /\ UNCHANGED requests
    ELSE /\ UNCHANGED <<interval, failures, idle>>
         /\ CASE fetching -> armed' = FALSE /\ UNCHANGED <<left, requests>>
              [] ~fetching /\ inView -> armed' = FALSE /\ UNCHANGED left /\ loadData("tick")
              [] OTHER -> restartWhen(~hidden', FALSE) /\ UNCHANGED requests

-----------------------------------------------------------------------------
Init ==
    /\ interval = 0
    /\ armed = FALSE
    /\ left = 0
    /\ idle = 0
    /\ failures = 0
    /\ latest = "none"
    /\ superseded = 0
    /\ hidden = FALSE
    /\ inView = FALSE

Fire ==
    /\ armed /\ left = 0
    /\ UNCHANGED <<hidden, inView>>
    /\ tick

Pass ==
    /\ left' = IF left = 0 THEN 0 ELSE left - 1
    /\ idle' = IF isIdle THEN idle ELSE idle + 1
    /\ UNCHANGED <<interval, armed, failures, requests, hidden, inView>>

(* fetchViewData's finally: the end of the last request on its way starts  *)
(* the countdown again (mutant: it only notes it).                         *)
setFetchingOnly(on) == UNCHANGED <<armed, left>>

setFetching(on) ==
    IF ~on THEN restartWhen(~hidden', armed) ELSE UNCHANGED <<armed, left>>

(* Then runLoad goes on: a superseded load does nothing more, ...          *)
EndSuperseded ==
    /\ superseded > 0
    /\ superseded' = superseded - 1
    /\ UNCHANGED <<interval, failures, idle, latest, hidden, inView>>
    /\ setFetching(latest' # "none" \/ superseded' > 0)

EndLatest ==
    /\ latest # "none"
    /\ latest' = "none"
    /\ UNCHANGED <<superseded, hidden>>

(* ... one that has its rows shows them, whoever asked (noteLoadOk, unless *)
(* superseded in the frame the rows wait for), ...                         *)
Succeed ==
    /\ EndLatest
    /\ failures' \in {0, failures}
    /\ inView' = TRUE
    /\ UNCHANGED <<interval, idle>>
    /\ setFetching(superseded' > 0)

(* ... a tick that failed counts, and the last one allowed switches off.   *)
noteTickFailed ==
    IF failures + 1 < MaxFailures
    THEN /\ failures' = failures + 1
         /\ UNCHANGED <<interval, idle>>
         /\ setFetching(superseded' > 0)
    ELSE chooseInterval(0)

Fail ==
    /\ EndLatest
    /\ UNCHANGED inView
    /\ IF latest = "tick" THEN noteTickFailed
       ELSE UNCHANGED <<interval, failures, idle>> /\ setFetching(superseded' > 0)

-----------------------------------------------------------------------------
(* Input is only listened to while the interval is on.                     *)
noteInput ==
    /\ ~hidden /\ interval > 0
    /\ idle' = 0
    /\ UNCHANGED <<interval, armed, left, failures, requests, hidden, inView>>

Choose(i) ==
    /\ ~hidden
    /\ UNCHANGED <<requests, hidden, inView>>
    /\ chooseInterval(i)

(* A load the user started, or one that follows the table list they asked  *)
(* for, which may arrive on a hidden page and names its first table.       *)
UserLoad ==
    /\ superseded < MaxSuperseded
    /\ loadData("user")
    /\ inView' \in {inView, TRUE}
    /\ UNCHANGED <<interval, armed, left, idle, failures, hidden>>

(* A switch of schema or source: nothing is in view until then.            *)
LeaveView ==
    /\ superseded < MaxSuperseded
    /\ supersedeLoads
    /\ latest' = "none"
    /\ inView' = FALSE
    /\ UNCHANGED <<interval, armed, left, idle, failures, hidden>>

(* mutant: the countdown goes on *)
HideOnly ==
    /\ ~hidden
    /\ hidden' = TRUE
    /\ UNCHANGED <<interval, armed, left, idle, failures, requests, inView>>

Hide ==
    /\ ~hidden
    /\ hidden' = TRUE
    /\ UNCHANGED <<interval, idle, failures, requests, inView>>
    /\ IF interval = 0 THEN UNCHANGED <<armed, left>> ELSE disarm

Show ==
    /\ hidden
    /\ hidden' = FALSE
    /\ UNCHANGED inView
    /\ IF interval = 0
       THEN UNCHANGED <<interval, armed, left, idle, failures, requests>>
       ELSE IF isIdle \/ left = 0 THEN tick
       ELSE arm(left) /\ UNCHANGED <<interval, idle, failures, requests>>

-----------------------------------------------------------------------------
Settle == EndSuperseded \/ Succeed \/ Fail

Acts == UserLoad \/ LeaveView \/ \E i \in Intervals \cup {0} : Choose(i)

Next == Fire \/ Pass \/ Settle \/ noteInput \/ Acts \/ Hide \/ Show

Spec == Init /\ [][Next]_vars

-----------------------------------------------------------------------------
Counts ==
    /\ interval \in Intervals \cup {0}
    /\ left \in Nat
    /\ idle \in 0..(IdleLimit + 1)
    /\ failures \in 0..(MaxFailures - 1)
    /\ superseded \in 0..MaxSuperseded

Flags ==
    /\ armed \in BOOLEAN /\ hidden \in BOOLEAN /\ inView \in BOOLEAN
    /\ latest \in {"none", "user", "tick"}

TypeOK == Counts /\ Flags

(* The countdown never stops for good: while auto-refresh is on and the    *)
(* page visible, the timer is set or a fetch will set it when it ends      *)
(* ("only ever skipped for a fetch").                                      *)
CountdownRuns == interval > 0 /\ ~hidden => armed \/ fetching

(* ... nor does it run when nobody would see it, and it is never longer    *)
(* than the interval chosen, suspended or not.                             *)
CountdownIsWanted == armed => interval > 0 /\ ~hidden

CountdownIsShort == interval > 0 => left <= interval

CountdownInv == TypeOK /\ CountdownRuns /\ CountdownIsWanted /\ CountdownIsShort

(* A tick asks for rows only while it is on, the page is visible, somebody *)
(* has been there in the last half hour and nothing else is being fetched: *)
(* it never supersedes a load of the user's.                               *)
TicksAreWanted ==
    [][latest' = "tick" /\ latest # "tick" =>
          interval > 0 /\ ~hidden' /\ ~isIdle /\ ~fetching /\ inView]_vars

(* A due timer runs, time passes, and every request is answered or fails.  *)
Fairness ==
    WF_vars(Fire) /\ WF_vars(Pass) /\ WF_vars(EndSuperseded) /\ WF_vars(Succeed \/ Fail)

FairSpec == Spec /\ Fairness

(* While it stays on, visible and with a table in view, it ticks for ever. *)
TicksForEver == <>[](interval > 0 /\ ~hidden /\ inView) => []<>(latest = "tick")

(* Left alone on a visible page, it switches itself off.                   *)
IdleSwitchesOff == interval > 0 /\ isIdle ~> interval = 0 \/ hidden \/ ~isIdle
=============================================================================
