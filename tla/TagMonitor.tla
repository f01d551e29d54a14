----------------------------- MODULE TagMonitor -----------------------------
(***************************************************************************)
(* client.TagMonitor (unnamed/part_002): AddTag starts one polling        *)
(* goroutine per subscription, TagSubscription.Stop and Close stop them,  *)
(* and every poll sends a TagEvent on the buffered events channel that    *)
(* Close closes once the WaitGroup has drained.                           *)
(*                                                                         *)
(* Actors: the subscription goroutines, application goroutines (Ctls)     *)
(* calling AddTag, Stop and Close, and the goroutine that ranges over     *)
(* Wait(): a dedicated one, or one of the Ctls (Reader).  The read of the *)
(* tag (TagReader.ReadTag), the refresh and the handler are one step of   *)
(* the subscription goroutine; what they return does not steer the        *)
(* monitor.                                                                *)
(***************************************************************************)
EXTENDS Naturals, Sequences, FiniteSets

CONSTANTS
    Ctls,       \* application goroutines calling AddTag / Stop / Close
    Reader,     \* the Ctl that also ranges over Wait(), or NoCtl
    NoCtl,      \* a goroutine of its own ranges over Wait()
    MaxSubs,    \* AddTag calls that succeed (ids 1..MaxSubs)
    Cap,        \* eventBuffer, the capacity of the events channel
    MaxPolls    \* ticks a subscription polls on (the ticker is unbounded)

ASSUME /\ Reader \in Ctls \cup {NoCtl} /\ NoCtl \notin Ctls
       /\ MaxSubs \in Nat /\ Cap \in Nat \ {0} /\ MaxPolls \in Nat \ {0}

Ids == 1..MaxSubs
NoId == 0

VARIABLES
    subs,         \* m.subs: ids registered in the map
    closed,       \* m.closed
    nextID,       \* m.nextID
    mStop,        \* m.stopCh has been closed
    evBuf,        \* the events channel's buffer (subscription ids)
    evClosed,     \* m.events has been closed
    wg,           \* m.wg's counter
    spc,          \* where each subscription goroutine is
    sStop,        \* sub.stopCh has been closed
    polls,        \* polls a subscription has made
    handles,      \* subscriptions whose *TagSubscription AddTag returned
    hStop,        \* TagSubscription.Stop has been called on the handle
    stopped,      \* subscriptions whose Stop has returned
    cpc,          \* where each application goroutine is
    carg,         \* the subscription it is working on
    clist,        \* the subscriptions Close still has to stop
    closeCalled,  \* closeMx.Do has run
    panicked      \* a send on the closed events channel happened

vars == <<subs, closed, nextID, mStop, evBuf, evClosed, wg, spc, sStop, polls,
          handles, hStop, stopped, cpc, carg, clist, closeCalled, panicked>>

ctlVars == <<cpc, carg, clist>>

(* NewTagMonitor (part_002:73-101).                                       *)
Init ==
    /\ subs = {} /\ closed = FALSE /\ nextID = 0 /\ mStop = FALSE
    /\ evBuf = <<>> /\ evClosed = FALSE /\ wg = 0
    /\ spc = [s \in Ids |-> "none"]
    /\ sStop = [s \in Ids |-> FALSE]
    /\ polls = [s \in Ids |-> 0]
    /\ handles = {} /\ hStop = [s \in Ids |-> FALSE] /\ stopped = {}
    /\ cpc = [g \in Ctls |-> "idle"] /\ carg = [g \in Ctls |-> NoId]
    /\ clist = [g \in Ctls |-> {}]
    /\ closeCalled = FALSE /\ panicked = FALSE

-----------------------------------------------------------------------------
(* Subscription goroutines.                                               *)

(* tagSubscription.poll: ReadTag, refresh and handler, then emit's first  *)
(* select, which drops the event once m.stopCh is closed                  *)
(* (part_002:308-353, 184-189).                                            *)
PollStep(s) ==
    /\ polls' = [polls EXCEPT ![s] = @ + 1]
    /\ spc' = [spc EXCEPT ![s] = IF mStop THEN "loop" ELSE "emit"]

(* run: the immediate poll of the default configuration (part_002:279-284,*)
(* 365-370).                                                               *)
Run(s) ==
    /\ spc[s] = "go"
    /\ PollStep(s)
    /\ UNCHANGED <<sStop, wg, evBuf, panicked>>

(* emit's second select: m.stopCh closed, or the send.  A send on a       *)
(* closed channel is always ready and panics (part_002:191-194).           *)
Emit(s) ==
    /\ spc[s] = "emit"
    /\ \/ /\ mStop
          /\ spc' = [spc EXCEPT ![s] = "loop"]
          /\ UNCHANGED <<evBuf, panicked>>
       \/ /\ evClosed \/ Len(evBuf) < Cap
          /\ spc' = [spc EXCEPT ![s] = "loop"]
          /\ evBuf' = IF evClosed THEN evBuf ELSE Append(evBuf, s)
          /\ panicked' = evClosed
    /\ UNCHANGED <<sStop, polls, wg>>

(* Leaving run closes doneCh, then the goroutine calls m.wg.Done          *)
(* (part_002:163-166, 280).                                                *)
Exit(s) ==
    /\ spc' = [spc EXCEPT ![s] = "done"]
    /\ wg' = wg - 1
    /\ UNCHANGED <<polls, evBuf, panicked>>

(* run's select: a tick polls, a closed stop channel returns; Go picks    *)
(* any ready case (part_002:289-298).                                      *)
LoopIgnoresSubStop(s) ==
    /\ spc[s] = "loop"
    /\ \/ polls[s] < MaxPolls /\ PollStep(s)
          /\ UNCHANGED <<wg, evBuf, panicked>>
       \/ mStop /\ Exit(s)
    /\ UNCHANGED sStop

Loop(s) ==
    /\ spc[s] = "loop"
    /\ \/ polls[s] < MaxPolls /\ PollStep(s)
          /\ UNCHANGED <<wg, evBuf, panicked>>
       \/ sStop[s] /\ Exit(s)
       \/ mStop /\ Exit(s)
    /\ UNCHANGED sStop

Sub(s) ==
    /\ Run(s) \/ Emit(s) \/ Loop(s)
    /\ UNCHANGED <<subs, closed, nextID, mStop, evClosed, handles, hStop,
                   stopped, ctlVars, closeCalled>>

-----------------------------------------------------------------------------
(* Application goroutines.                                                *)

(* AddTag's locked part: ErrMonitorClosed once closed, else the next id   *)
(* is registered (part_002:151-160).                                       *)
AddTag(g) ==
    /\ cpc[g] = "idle" /\ nextID < MaxSubs
    /\ IF closed
       THEN UNCHANGED <<nextID, subs, spc, cpc, carg>>
       ELSE /\ nextID' = nextID + 1
            /\ subs' = subs \cup {nextID + 1}
            /\ spc' = [spc EXCEPT ![nextID + 1] = "created"]
            /\ cpc' = [cpc EXCEPT ![g] = "add"]
            /\ carg' = [carg EXCEPT ![g] = nextID + 1]
    /\ UNCHANGED <<closed, mStop, evBuf, evClosed, wg, sStop, polls, handles,
                   hStop, stopped, clist, closeCalled, panicked>>

(* After unlocking: m.wg.Add(1), go run, return the handle                *)
(* (part_002:162-168).                                                     *)
AddGoNoWgAdd(g) ==
    /\ cpc[g] = "add"
    /\ spc' = [spc EXCEPT ![carg[g]] = "go"]
    /\ handles' = handles \cup {carg[g]}
    /\ cpc' = [cpc EXCEPT ![g] = "idle"]
    /\ UNCHANGED <<wg, subs, closed, nextID, mStop, evBuf, evClosed, sStop,
                   polls, hStop, stopped, carg, clist, closeCalled, panicked>>

AddGo(g) ==
    /\ cpc[g] = "add"
    /\ wg' = wg + 1
    /\ spc' = [spc EXCEPT ![carg[g]] = "go"]
    /\ handles' = handles \cup {carg[g]}
    /\ cpc' = [cpc EXCEPT ![g] = "idle"]
    /\ UNCHANGED <<subs, closed, nextID, mStop, evBuf, evClosed, sStop, polls,
                   hStop, stopped, carg, clist, closeCalled, panicked>>

(* TagSubscription.Stop through once.Do: removeSubscription deletes the   *)
(* id under the lock and, if it was there, sub.stop closes its stopCh     *)
(* (part_002:171-182, 211-219, 301-306).  A second Stop of the same       *)
(* handle only waits for the first and is not modelled.                   *)
Stop(g, s) ==
    /\ cpc[g] = "idle" /\ s \in handles /\ ~hStop[s]
    /\ hStop' = [hStop EXCEPT ![s] = TRUE]
    /\ IF s \in subs
       THEN /\ subs' = subs \ {s}
            /\ sStop' = [sStop EXCEPT ![s] = TRUE]
            /\ cpc' = [cpc EXCEPT ![g] = "stopWait"]
            /\ carg' = [carg EXCEPT ![g] = s]
            /\ UNCHANGED stopped
       ELSE /\ stopped' = stopped \cup {s}
            /\ UNCHANGED <<subs, sStop, cpc, carg>>
    /\ UNCHANGED <<closed, nextID, mStop, evBuf, evClosed, wg, spc, polls,
                   handles, clist, closeCalled, panicked>>

StopWait(g) ==
    /\ cpc[g] \in {"stopWait", "closeSubWait"}
    /\ spc[carg[g]] = "done"
    /\ cpc' = [cpc EXCEPT ![g] = IF @ = "stopWait" THEN "idle" ELSE "closeSubs"]
    /\ stopped' = IF cpc[g] = "stopWait" THEN stopped \cup {carg[g]}
                                         ELSE stopped
    /\ UNCHANGED <<subs, closed, nextID, mStop, evBuf, evClosed, wg, spc,
                   sStop, polls, handles, hStop, carg, clist, closeCalled,
                   panicked>>

(* Close: closeMx.Do closes m.stopCh (part_002:116-117).  A second Close  *)
(* only waits for the first and is not modelled.                          *)
Close(g) ==
    /\ cpc[g] = "idle" /\ ~closeCalled
    /\ closeCalled' = TRUE /\ mStop' = TRUE
    /\ cpc' = [cpc EXCEPT ![g] = "closeLock"]
    /\ UNCHANGED <<subs, closed, nextID, evBuf, evClosed, wg, spc, sStop,
                   polls, handles, hStop, stopped, carg, clist, panicked>>

(* Close's locked part: take the registered subscriptions, mark closed,   *)
(* empty the map (part_002:119-126).                                       *)
CloseLock(g) ==
    /\ cpc[g] = "closeLock"
    /\ clist' = [clist EXCEPT ![g] = subs]
    /\ closed' = TRUE /\ subs' = {}
    /\ cpc' = [cpc EXCEPT ![g] = "closeSubs"]
    /\ UNCHANGED <<nextID, mStop, evBuf, evClosed, wg, spc, sStop, polls,
                   handles, hStop, stopped, carg, closeCalled, panicked>>

(* Close stops each taken subscription in turn, in map order               *)
(* (part_002:128-130).                                                     *)
CloseSub(g) ==
    /\ cpc[g] = "closeSubs" /\ clist[g] # {}
    /\ \E s \in clist[g] :
          /\ sStop' = [sStop EXCEPT ![s] = TRUE]
          /\ carg' = [carg EXCEPT ![g] = s]
          /\ clist' = [clist EXCEPT ![g] = @ \ {s}]
    /\ cpc' = [cpc EXCEPT ![g] = "closeSubWait"]
    /\ UNCHANGED <<subs, closed, nextID, mStop, evBuf, evClosed, wg, spc,
                   polls, handles, hStop, stopped, closeCalled, panicked>>

(* m.wg.Wait(), then close(m.events) (part_002:132-133).                  *)
CloseNoWait(g) ==
    /\ cpc[g] = "closeSubs" /\ clist[g] = {}
    /\ evClosed' = TRUE
    /\ cpc' = [cpc EXCEPT ![g] = "idle"]
    /\ UNCHANGED <<subs, closed, nextID, mStop, evBuf, wg, spc, sStop, polls,
                   handles, hStop, stopped, carg, clist, closeCalled,
                   panicked>>

CloseWait(g) ==
    /\ cpc[g] = "closeSubs" /\ clist[g] = {} /\ wg = 0
    /\ evClosed' = TRUE
    /\ cpc' = [cpc EXCEPT ![g] = "idle"]
    /\ UNCHANGED <<subs, closed, nextID, mStop, evBuf, wg, spc, sStop, polls,
                   handles, hStop, stopped, carg, clist, closeCalled,
                   panicked>>

(* The goroutine ranging over Wait() receives an event; if it is one of   *)
(* the Ctls, only between its calls.                                      *)
Consume ==
    /\ evBuf # <<>>
    /\ Reader \in Ctls => cpc[Reader] = "idle"
    /\ evBuf' = Tail(evBuf)
    /\ UNCHANGED <<subs, closed, nextID, mStop, evClosed, wg, spc, sStop,
                   polls, handles, hStop, stopped, cpc, carg, clist,
                   closeCalled, panicked>>

(* Steps that finish a call the goroutine has begun.                      *)
Ctl(g) ==
    AddGo(g) \/ StopWait(g) \/ CloseLock(g) \/ CloseSub(g) \/ CloseWait(g)

Next ==
    \/ \E s \in Ids : Sub(s)
    \/ \E g \in Ctls : \/ AddTag(g) \/ Close(g) \/ Ctl(g)
                       \/ \E s \in Ids : Stop(g, s)
    \/ Consume

(* Runnable goroutines run; the events are read.                           *)
Fairness ==
    /\ \A s \in Ids : WF_vars(Sub(s))
    /\ \A g \in Ctls : WF_vars(Ctl(g))
    /\ WF_vars(Consume)

Spec == Init /\ [][Next]_vars /\ Fairness

-----------------------------------------------------------------------------
TypeOK ==
    /\ subs \subseteq Ids /\ closed \in BOOLEAN /\ nextID \in 0..MaxSubs
    /\ mStop \in BOOLEAN /\ evBuf \in Seq(Ids) /\ Len(evBuf) <= Cap
    /\ evClosed \in BOOLEAN /\ wg \in 0..MaxSubs
    /\ spc \in [Ids -> {"none", "created", "go", "emit", "loop", "done"}]
    /\ sStop \in [Ids -> BOOLEAN] /\ polls \in [Ids -> 0..MaxPolls]
    /\ handles \subseteq Ids /\ hStop \in [Ids -> BOOLEAN]
    /\ stopped \subseteq Ids
    /\ cpc \in [Ctls -> {"idle", "add", "stopWait", "closeLock", "closeSubs",
                         "closeSubWait"}]
    /\ carg \in [Ctls -> Ids \cup {NoId}] /\ clist \in [Ctls -> SUBSET Ids]
    /\ closeCalled \in BOOLEAN /\ panicked \in BOOLEAN

(* No goroutine sends on the closed events channel (a panic).  Close      *)
(* closes it only after m.wg.Wait(), and a subscription whose Stop runs   *)
(* on another goroutine is no longer in the map Close walks, so only the  *)
(* WaitGroup keeps Close from closing the channel under it                *)
(* (part_002:132-133, 162, 171-182).                                       *)
NoSendOnClosedChannel == ~panicked

(* Once TagSubscription.Stop has returned, the subscription sends no more *)
(* events: sub.stop waits for doneCh (part_002:301-306;                    *)
(* TestTagMonitorStopSubscription).                                        *)
SentBy(s) ==
    /\ spc[s] = "emit" /\ spc'[s] = "loop"
    /\ Len(evBuf') > Len(evBuf) \/ panicked'

NoEventAfterStop == [][\A s \in Ids : SentBy(s) => s \notin stopped]_vars

(* Every AddTag, Stop and Close returns.                                  *)
ControlCallsReturn == \A g \in Ctls : cpc[g] # "idle" ~> cpc[g] = "idle"
=============================================================================
