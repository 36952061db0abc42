---------------------------- MODULE PermitContract ----------------------------
(***************************************************************************)
(* What a Chrome tool promises with its channel of permits (cm.semaphore,  *)
(* cu.concurrencySem): a task takes a permit when one is left, and gives   *)
(* back the one it has, which never has to wait.  ChromeManager,           *)
(* ChromeUtil and LegacyScreenshot implement it.                           *)
(***************************************************************************)
EXTENDS Naturals

CONSTANTS Tasks,
          MaxConcurrent    \* the capacity of the channel

VARIABLES permits,         \* how many values are in the channel
          holders          \* the tasks that have sent one and not received one

vars == <<permits, holders>>

Init == permits = 0 /\ holders = {}

\* A send on the channel, by a task that has no permit yet.
TakePermit(t) ==
    /\ t \notin holders /\ permits < MaxConcurrent
    /\ permits' = permits + 1
    /\ holders' = holders \cup {t}

\* A receive, by a task that has one; it would wait on an empty channel.
Release(t) ==
    /\ t \in holders /\ permits > 0
    /\ permits' = permits - 1
    /\ holders' = holders \ {t}

Next == \E t \in Tasks : TakePermit(t) \/ Release(t)

Spec == Init /\ [][Next]_vars
===============================================================================
