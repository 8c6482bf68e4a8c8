--------------------------- MODULE ServerLifecycle ---------------------------
(***************************************************************************)
(* The life of the process: main() and what it calls to build, start, stop *)
(* and destroy the Server, with SIGINT and SIGTERM arriving between any    *)
(* two steps and every system call on the way able to fail.                *)
(*                                                                         *)
(* A round of the main loop is one step here: it may accept or disconnect  *)
(* a client.  PollLoop has its details.  The handler runs to its end       *)
(* before main() goes on (one thread), so it is one step as well; _running *)
(* is a plain bool that the compiler must read again after every poll().   *)
(***************************************************************************)
EXTENDS FiniteSets

CONSTANTS
    Fd,       \* descriptors accept() may return
    Listen    \* the descriptor socket() returns

ASSUME LifecycleAssumption == Listen \notin Fd

VARIABLES
    pc,         \* where main() is
    handlers,   \* signals with signalHandler as their handler
    built,      \* the Server object of main() exists
    g_server,   \* the global of that name is not NULL
    isRunning,  \* Server::_running
    listening,  \* the descriptor in _serverSocket: a set of at most one
    clients,    \* the keys of _clients
    open,       \* the descriptors the process has open
    asked       \* a signal has been handled since the start

vars == <<pc, handlers, built, g_server, isRunning, listening, clients, open, asked>>

Signals == {"SIGINT", "SIGTERM"}

\* From `_running = true` to the end of run().
InRun == pc \in {"check", "enter", "poll", "round"}
Ended == pc \in {"exited", "killed"}

Goto(l) == pc' = l

-----------------------------------------------------------------------------
(* main() up to the main loop.                                             *)

validateArguments ==
    /\ pc = "arguments"
    /\ Goto("handlers") \/ Goto("exited")
    /\ UNCHANGED <<handlers, built, g_server, isRunning, listening, clients, open, asked>>

\* One sigaction() for each signal, SIGINT first; exit(1) if one fails.
setupSignalHandlers ==
    /\ pc = "handlers"
    /\ \/ /\ handlers # Signals
          /\ handlers' = IF handlers = {} THEN {"SIGINT"} ELSE Signals
          /\ UNCHANGED pc
       \/ handlers # Signals /\ Goto("exited") /\ UNCHANGED handlers
       \/ handlers = Signals /\ Goto("construct") /\ UNCHANGED handlers
    /\ UNCHANGED <<built, g_server, isRunning, listening, clients, open, asked>>

construct ==
    /\ pc = "construct"
    /\ built' = TRUE
    /\ isRunning' = FALSE
    /\ Goto("publish")
    /\ UNCHANGED <<handlers, g_server, listening, clients, open, asked>>

publish ==
    /\ pc = "publish"
    /\ g_server' = TRUE
    /\ Goto("socket")
    /\ UNCHANGED <<handlers, built, isRunning, listening, clients, open, asked>>

\* socket(), then setsockopt(), fcntl(), bind() and listen(): when one of these
\* fails the socket is closed and _serverSocket keeps its number.
init ==
    /\ \/ /\ pc = "socket"
          /\ listening' = {Listen}
          /\ open' = open \cup {Listen}
          /\ Goto("configure")
       \/ pc = "socket" /\ Goto("unpublish") /\ UNCHANGED <<listening, open>>
       \/ pc = "configure" /\ Goto("start") /\ UNCHANGED <<listening, open>>
       \/ /\ pc = "configure"
          /\ open' = open \ listening
          /\ Goto("unpublish")
          /\ UNCHANGED listening
    /\ UNCHANGED <<handlers, built, g_server, isRunning, clients, asked>>

-----------------------------------------------------------------------------
(* run().                                                                  *)

\* The first statement of run(): it forgets a stop() that came before.
start ==
    /\ pc = "start"
    /\ isRunning' = TRUE
    /\ Goto("check")
    /\ UNCHANGED <<handlers, built, g_server, listening, clients, open, asked>>

check ==
    /\ pc = "check"
    /\ Goto(IF isRunning THEN "enter" ELSE "unpublish")
    /\ UNCHANGED <<handlers, built, g_server, isRunning, listening, clients, open, asked>>

\* A poll() that waits until something is ready.
poll_NoTimeout ==
    /\ \/ pc = "enter" /\ Goto("poll")
       \/ pc = "poll" /\ clients # {} /\ (Goto("round") \/ Goto("unpublish"))
    /\ UNCHANGED <<handlers, built, g_server, isRunning, listening, clients, open, asked>>

\* poll() is entered; it returns with something to do, or with nothing after a
\* second, or fails.  signalHandler has the case in which it is interrupted.
poll ==
    /\ \/ pc = "enter" /\ Goto("poll")
       \/ pc = "poll" /\ (Goto("round") \/ Goto("check") \/ Goto("unpublish"))
    /\ UNCHANGED <<handlers, built, g_server, isRunning, listening, clients, open, asked>>

\* A descriptor that cannot be made non-blocking is left open.
round_LeaksClient ==
    /\ pc = "round"
    /\ \/ \E f \in Fd \ open : /\ open' = open \cup {f}
                               /\ clients' \in {clients, clients \cup {f}}
       \/ \E f \in clients : clients' = clients \ {f} /\ open' = open \ {f}
       \/ UNCHANGED <<clients, open>>
    /\ Goto("check")
    /\ UNCHANGED <<handlers, built, g_server, isRunning, listening, asked>>

\* acceptNewClient (a client that cannot be made non-blocking is closed again,
\* as if it had not come), disconnectClient, or neither.
round ==
    /\ pc = "round"
    /\ \/ \E f \in Fd \ open : clients' = clients \cup {f} /\ open' = open \cup {f}
       \/ \E f \in clients : clients' = clients \ {f} /\ open' = open \ {f}
       \/ UNCHANGED <<clients, open>>
    /\ Goto("check")
    /\ UNCHANGED <<handlers, built, g_server, isRunning, listening, asked>>

-----------------------------------------------------------------------------
(* The end of main().                                                      *)

\* A main() that returns without `g_server = NULL`.
unpublish_Forgotten ==
    /\ pc = "unpublish"
    /\ Goto("destroy")
    /\ UNCHANGED <<handlers, built, g_server, isRunning, listening, clients, open, asked>>

unpublish ==
    /\ pc = "unpublish"
    /\ g_server' = FALSE
    /\ Goto("destroy")
    /\ UNCHANGED <<handlers, built, isRunning, listening, clients, open, asked>>

\* ~Server closes _serverSocket, a second time if init() failed after socket().
destroy ==
    /\ pc = "destroy"
    /\ built' = FALSE
    /\ clients' = {}
    /\ open' = open \ (clients \cup listening)
    /\ Goto("exited")
    /\ UNCHANGED <<handlers, g_server, isRunning, listening, asked>>

main ==
    \/ validateArguments
    \/ setupSignalHandlers
    \/ construct
    \/ publish
    \/ init
    \/ start
    \/ check
    \/ poll
    \/ round
    \/ unpublish
    \/ destroy

-----------------------------------------------------------------------------
(* Signals.                                                                *)

\* stop(), if there is a server to stop.  A poll() in progress fails with
\* EINTR, and the loop looks at _running again.
signalHandler(s) ==
    /\ ~Ended
    /\ s \in handlers
    /\ asked' = TRUE
    /\ isRunning' = (isRunning /\ ~g_server)
    /\ pc' = IF pc = "poll" THEN "check" ELSE pc
    /\ UNCHANGED <<handlers, built, g_server, listening, clients, open>>

\* The default action of a signal that has no handler yet.
Kill(s) ==
    /\ ~Ended
    /\ s \notin handlers
    /\ Goto("killed")
    /\ clients' = {} /\ open' = {}
    /\ UNCHANGED <<handlers, built, g_server, isRunning, listening, asked>>

Init ==
    /\ pc = "arguments"
    /\ handlers = {} /\ built = FALSE /\ g_server = FALSE /\ isRunning = FALSE
    /\ listening = {} /\ clients = {} /\ open = {}
    /\ asked = FALSE

Next ==
    \/ main
    \/ \E s \in Signals : signalHandler(s) \/ Kill(s)

Spec == Init /\ [][Next]_vars

\* The process is scheduled, and poll() keeps to its timeout.
FairSpec == Spec /\ WF_vars(main)

-----------------------------------------------------------------------------
(* Properties.                                                             *)

TypeOK ==
    /\ pc \in {"arguments", "handlers", "construct", "publish", "socket", "configure",
               "start", "check", "enter", "poll", "round", "unpublish", "destroy",
               "exited", "killed"}
    /\ handlers \subseteq Signals
    /\ {built, g_server, isRunning, asked} \subseteq BOOLEAN
    /\ listening \subseteq {Listen}
    /\ clients \subseteq Fd
    /\ open \subseteq Fd \cup {Listen}

\* A signal, whenever it comes, finds in g_server a server that exists: the
\* handler calls stop() on no object that main() has destroyed or not built.
HandlerFindsServer == g_server => built

\* Every descriptor that is open is in _clients or in _serverSocket, where the
\* destructor finds it, at every step and on every failing path of init(); and
\* none is open when main() has returned.
NoDescriptorLeaks ==
    /\ open \subseteq clients \cup listening
    /\ pc = "exited" => open = {}

\* A stop() that comes while run() is in its loop ends the process, with
\* whatever clients are connected and wherever the loop is, between the test
\* of _running and poll() too: there no system call is interrupted, and only
\* poll()'s timeout makes the loop look again.
StopEndsRun == (InRun /\ ~isRunning) ~> pc = "exited"

\* "Proper signal handling (SIGINT, SIGTERM) ensures graceful server shutdown
\* with cleanup of all resources" (README.md:218): a signal that the handler
\* got ends the process.
SignalStopsServer == asked ~> Ended

=============================================================================
