---------------------------- MODULE HealthChecker ----------------------------
(***************************************************************************)
(* The health checker (services/health_checker.go) and the request that    *)
(* reads its results (handlers/health.go).                                 *)
(*                                                                         *)
(* Start checks once itself, before it returns and so before the server    *)
(* listens; the container starts a second check at once, in a goroutine,   *)
(* and Start a loop for one every few days (one by default, but the        *)
(* container sets three, services/container.go:56).  A check stores what   *)
(* it learns of the WHOIS providers first, and a map of all services at    *)
(* its end.  GetHealthStatus hands out that map, which nobody writes       *)
(* again; as long as there is none, lastCheckResults itself, which the     *)
(* handler turns into JSON without the lock: a map that is read and        *)
(* written at a time ends the process.                                     *)
(***************************************************************************)

VARIABLES check,         \* how far each check is; of "periodic", the loop
          services,      \* lastCheckResults has the map of all services
          status         \* what a health request is sending

healthVars == <<check, services, status>>

Checks == {"first", "refresh", "periodic"}
Testing == {"whois", "others"}

HealthTypeOK ==
    /\ check \in [Checks -> Testing \cup {"none", "waiting", "over"}]
    /\ services \in BOOLEAN
    /\ status \in {"none", "services", "results"}

\* NewHealthChecker, and Start has begun its check.
HealthInit ==
    /\ check = [c \in Checks |-> IF c = "first" THEN "whois" ELSE "none"]
    /\ services = FALSE
    /\ status = "none"

\* The providers are tested and their results stored, under the mutex.
StoreWhois(c) ==
    /\ check[c] = "whois"
    /\ check' = [check EXCEPT ![c] = "others"]
    /\ UNCHANGED <<services, status>>

\* DNS, screenshots and ITDog are tested too, and everything is published.
PublishServices(c) ==
    /\ check[c] = "others"
    /\ check' = [check EXCEPT ![c] = IF c = "periodic" THEN "waiting" ELSE "over"]
    /\ services' = TRUE
    /\ UNCHANGED status

\* Faulty: Start runs its first check in a goroutine too.
StartLoopAtOnce ==
    /\ check["refresh"] = "none"
    /\ check' = [check EXCEPT !["refresh"] = "whois", !["periodic"] = "waiting"]
    /\ UNCHANGED <<services, status>>

\* Start goes on to its loop and returns, and ForceRefresh begins.
StartLoop ==
    /\ check["first"] = "over" /\ check["refresh"] = "none"
    /\ check' = [check EXCEPT !["refresh"] = "whois", !["periodic"] = "waiting"]
    /\ UNCHANGED <<services, status>>

Ticker ==
    /\ check["periodic"] = "waiting"
    /\ check' = [check EXCEPT !["periodic"] = "whois"]
    /\ UNCHANGED <<services, status>>

\* The loop finds stopChan closed; a check that is running goes on.
StopLoop ==
    /\ check["periodic"] = "waiting"
    /\ check' = [check EXCEPT !["periodic"] = "over"]
    /\ UNCHANGED <<services, status>>

GetHealthStatus ==
    /\ status = "none"
    /\ status' = IF services THEN "services" ELSE "results"
    /\ UNCHANGED <<check, services>>

\* c.JSON has written the answer.
SendStatus ==
    /\ status # "none"
    /\ status' = "none"
    /\ UNCHANGED <<check, services>>

RunHealthCheck == \E c \in Checks : StoreWhois(c) \/ PublishServices(c)

\* No health request ever reads the map that a check is about to write into.
StatusNotWritten == status = "results" => \A c \in Checks : check[c] \notin Testing
==============================================================================
