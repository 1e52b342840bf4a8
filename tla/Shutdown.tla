------------------------------ MODULE Shutdown ------------------------------
(***************************************************************************)
(* The end of the server: the goroutine of main() that waits for a signal,    *)
(* App.Stop, the event bus (eventbus.go), the queue of webhook jobs and its    *)
(* workers (app.go).                                                         *)
(*                                                                           *)
(* Everybody looks whether the server is stopping before sending on a         *)
(* channel, and sends afterwards; Stop closes both channels.  A send on a      *)
(* closed channel panics: the bus recovers, net/http recovers for a request,   *)
(* any other goroutine ends the process.  Stop takes the bus's mutex and so    *)
(* waits for the delivery that is going on.                                   *)
(*                                                                           *)
(* main() does not wait for its goroutine: it returns, and the process ends,   *)
(* at any time after the listener was closed.                                 *)
(*                                                                           *)
(* Left out: what messages say, connectors (they get a goroutine each, which   *)
(* recovers), the pollers' loops, and the files (StoreFile).                  *)
(***************************************************************************)
EXTENDS Naturals

CONSTANTS Requests,    \* goroutines of net/http
          Others,      \* other goroutines: alarms, the poller, fireWebhooks
          Workers,     \* of the webhook queue (32 in the code)
          BusRoom,     \* messages the bus's channel holds (512 in the code)
          JobRoom      \* jobs the workers' channel holds (256 in the code)

ShutdownAssumption == /\ Requests \cap Others = {}
                      /\ Workers # {}
                      /\ BusRoom \in Nat \ {0} /\ JobRoom \in Nat \ {0}

VARIABLES process,    \* "up", "exited" or "crashed"
          stopper,    \* the goroutine of main(), and App.Stop
          stopping,   \* stopCh is closed
          bus,        \* messages in the bus's channel
          busOpen,    \* that channel is open, and the bus not stopped
          jobs,       \* jobs in the workers' channel
          jobsOpen,   \* that channel is open
          deliverer,  \* the goroutine of EventBus.Run
          sender,     \* which channel a goroutine is about to send on
          serving,    \* requests in flight
          worker,     \* what each worker is doing
          timedOut    \* history: requests were given up after 30 seconds

channels == <<bus, busOpen, jobs, jobsOpen>>
senders == <<deliverer, sender, serving>>
vars == <<process, stopper, stopping, channels, senders, worker, timedOut>>

Init == /\ process = "up" /\ stopper = "waiting" /\ stopping = FALSE
        /\ bus = 0 /\ busOpen = TRUE /\ jobs = 0 /\ jobsOpen = TRUE
        /\ deliverer = "idle"
        /\ sender = [s \in Requests \cup Others |-> "idle"]
        /\ serving = {}
        /\ worker = [w \in Workers |-> "idle"]
        /\ timedOut = FALSE

Up == process = "up"

(***************************************************************************)
(* Requests and other goroutines that publish events and call webhooks.      *)
(***************************************************************************)
RequestBegins(r) ==
    /\ Up /\ stopper = "waiting" /\ r \notin serving
    /\ serving' = serving \cup {r}
    /\ UNCHANGED <<process, stopper, stopping, channels, deliverer, sender, worker, timedOut>>

RequestEnds(r) ==
    /\ Up /\ r \in serving /\ sender[r] = "idle"
    /\ serving' = serving \ {r}
    /\ UNCHANGED <<process, stopper, stopping, channels, deliverer, sender, worker, timedOut>>

\* Publish reads stopped under the bus's mutex and lets go of it; enqueueWebhook
\* looks whether stopCh is closed.
Looks(s) ==
    /\ Up /\ s \in serving \cup Others /\ sender[s] = "idle"
    /\ \/ busOpen /\ sender' = [sender EXCEPT ![s] = "publishes"]
       \/ ~stopping /\ sender' = [sender EXCEPT ![s] = "enqueues"]
    /\ UNCHANGED <<process, stopper, stopping, channels, deliverer, serving, worker, timedOut>>

\* A send on a closed channel: the end of the request, or of the process.
Panics(s) ==
    IF s \in Requests THEN serving' = serving \ {s} /\ UNCHANGED process
                      ELSE process' = "crashed" /\ UNCHANGED serving

\* A full channel drops the message.
PublishSends(s) ==
    /\ Up /\ sender[s] = "publishes"
    /\ sender' = [sender EXCEPT ![s] = "idle"]
    /\ IF busOpen THEN /\ bus' = IF bus < BusRoom THEN bus + 1 ELSE bus
                       /\ UNCHANGED <<process, serving>>
                  ELSE Panics(s) /\ UNCHANGED bus
    /\ UNCHANGED <<stopper, stopping, busOpen, jobs, jobsOpen, deliverer, worker, timedOut>>

\* The channel takes a job if it has room.
Accepts == /\ jobsOpen /\ jobs < JobRoom /\ jobs' = jobs + 1

\* It is full, or stopCh was closed after the look.
Drops == (stopping \/ jobs = JobRoom) /\ UNCHANGED jobs

EnqueueSends(s) ==
    /\ Up /\ sender[s] = "enqueues"
    /\ sender' = [sender EXCEPT ![s] = "idle"]
    /\ \/ (Accepts \/ Drops) /\ UNCHANGED <<process, serving>>
       \/ ~jobsOpen /\ Panics(s) /\ UNCHANGED jobs
    /\ UNCHANGED <<stopper, stopping, bus, busOpen, jobsOpen, deliverer, worker, timedOut>>

(***************************************************************************)
(* The bus.  A closed channel is read to its end.                            *)
(***************************************************************************)
Receive ==
    /\ Up /\ deliverer = "idle" /\ bus > 0
    /\ bus' = bus - 1 /\ deliverer' = "received"
    /\ UNCHANGED <<process, stopper, stopping, busOpen, jobs, jobsOpen, sender, serving,
                   worker, timedOut>>

\* The delivery of one message, under the bus's mutex: fireWebhooks enqueues a
\* job for each user with a webhook, and looks before each.
Deliver ==
    /\ Up
    /\ \/ deliverer = "received" /\ deliverer' = "delivering"
       \/ deliverer = "delivering" /\ ~stopping /\ deliverer' = "sending"
       \/ deliverer = "delivering" /\ deliverer' = "idle"
    /\ UNCHANGED <<process, stopper, stopping, channels, sender, serving,
                   worker, timedOut>>

DeliverSends ==
    /\ Up /\ deliverer = "sending" /\ deliverer' = "delivering"
    /\ Accepts \/ Drops \/ (~jobsOpen /\ UNCHANGED jobs)
    /\ UNCHANGED <<process, stopper, stopping, bus, busOpen, jobsOpen, sender, serving,
                   worker, timedOut>>

(***************************************************************************)
(* The workers.                                                              *)
(***************************************************************************)
TakeJob(w) ==
    /\ Up /\ worker[w] = "idle" /\ jobs > 0
    /\ jobs' = jobs - 1 /\ worker' = [worker EXCEPT ![w] = "calling"]
    /\ UNCHANGED <<process, stopper, stopping, bus, busOpen, jobsOpen, senders, timedOut>>

Called(w) ==
    /\ Up /\ worker[w] = "calling"
    /\ worker' = [worker EXCEPT ![w] = "idle"]
    /\ UNCHANGED <<process, stopper, stopping, channels, senders, timedOut>>

\* Mutant: a worker leaves when stopCh is closed.
LeaveAtOnce(w) ==
    /\ Up /\ worker[w] = "idle" /\ stopping
    /\ worker' = [worker EXCEPT ![w] = "gone"]
    /\ UNCHANGED <<process, stopper, stopping, channels, senders, timedOut>>

\* The channel is closed and empty.
Leave(w) ==
    /\ Up /\ worker[w] = "idle" /\ ~jobsOpen /\ jobs = 0
    /\ worker' = [worker EXCEPT ![w] = "gone"]
    /\ UNCHANGED <<process, stopper, stopping, channels, senders, timedOut>>

(***************************************************************************)
(* The signal, srv.Shutdown and App.Stop.                                    *)
(***************************************************************************)
Goes(from, to) == Up /\ stopper = from /\ stopper' = to

\* The listener is closed; keep-alive connections in use are waited for.
Signal ==
    /\ Goes("waiting", "requests")
    /\ UNCHANGED <<process, stopping, channels, senders, worker, timedOut>>

\* Shutdown returns when no request is in flight, or after 30 seconds.
ShutdownReturns ==
    /\ Goes("requests", "signals")
    /\ timedOut' = (serving # {})
    /\ UNCHANGED <<process, stopping, channels, senders, worker>>

CloseStopCh ==
    /\ Goes("signals", "bus") /\ stopping' = TRUE
    /\ UNCHANGED <<process, channels, senders, worker, timedOut>>

\* Mutant: the bus is stopped without its mutex.
StopBusUnlocked ==
    /\ Goes("bus", "jobs") /\ busOpen' = FALSE
    /\ UNCHANGED <<process, stopping, bus, jobs, jobsOpen, senders, worker, timedOut>>

\* EventBus.Stop, with the mutex.
StopBus ==
    /\ Goes("bus", "jobs") /\ busOpen' = FALSE
    /\ deliverer \notin {"delivering", "sending"}
    /\ UNCHANGED <<process, stopping, bus, jobs, jobsOpen, senders, worker, timedOut>>

CloseJobs ==
    /\ Goes("jobs", "workers") /\ jobsOpen' = FALSE
    /\ UNCHANGED <<process, stopping, bus, busOpen, jobs, senders, worker, timedOut>>

\* webhookWG.Wait.
WorkersGone ==
    /\ Goes("workers", "flush") /\ \A w \in Workers : worker[w] = "gone"
    /\ UNCHANGED <<process, stopping, channels, senders, worker, timedOut>>

Flush ==
    /\ Goes("flush", "done")
    /\ UNCHANGED <<process, stopping, channels, senders, worker, timedOut>>

\* ListenAndServe returns ErrServerClosed as soon as Shutdown is called, and main
\* after it.
MainReturns ==
    /\ Up /\ stopper # "waiting" /\ process' = "exited"
    /\ UNCHANGED <<stopper, stopping, channels, senders, worker, timedOut>>

Next == \/ \E r \in Requests : RequestBegins(r) \/ RequestEnds(r)
        \/ \E s \in Requests \cup Others : Looks(s) \/ PublishSends(s) \/ EnqueueSends(s)
        \/ Receive \/ Deliver \/ DeliverSends
        \/ \E w \in Workers : TakeJob(w) \/ Called(w) \/ Leave(w)
        \/ Signal \/ ShutdownReturns \/ CloseStopCh \/ StopBus \/ CloseJobs \/ WorkersGone
        \/ Flush \/ MainReturns

Spec == Init /\ [][Next]_vars

(***************************************************************************)
(* Properties.                                                               *)
(***************************************************************************)
\* No channel holds more than it can, and everyone is at a known place.
TypeOK == /\ process \in {"up", "exited", "crashed"}
          /\ stopper \in {"waiting", "requests", "signals", "bus", "jobs", "workers", "flush",
                         "done"}
          /\ stopping \in BOOLEAN /\ busOpen \in BOOLEAN /\ jobsOpen \in BOOLEAN
          /\ timedOut \in BOOLEAN
          /\ bus \in 0..BusRoom /\ jobs \in 0..JobRoom
          /\ deliverer \in {"idle", "received", "delivering", "sending"}
          /\ sender \in [Requests \cup Others -> {"idle", "publishes", "enqueues"}]
          /\ serving \subseteq Requests
          /\ worker \in [Workers -> {"idle", "calling", "gone"}]

\* The bus never sends on the closed channel of the workers, although it goes on
\* delivering what is left in its own channel after it was stopped: a delivery
\* that looked before stopCh was closed holds the mutex that Stop needs before it
\* closes the channel (EventBus.Stop, EventBus.Run, enqueueWebhook).
BusIsSafe == deliverer = "sending" => jobsOpen

\* "Waits for in-flight webhook deliveries to complete" (App.Stop): when the store
\* is flushed, every job the queue took was tried, and it takes none after that.
QueuedAreTried == stopper \in {"flush", "done"} =>
                      jobs = 0 /\ \A w \in Workers : worker[w] # "calling"

\* "Graceful shutdown: listen for SIGINT/SIGTERM and drain in-flight requests"
\* (main): the process ends only when no request is in flight, or those that are
\* have had their 30 seconds.
RequestsAreDrained == process = "exited" => serving = {} \/ timedOut
=============================================================================
