----------------------------- MODULE SyncServer -----------------------------
(***************************************************************************)
(* The long-running operations of the HTTP server and what its users see   *)
(* of them (internal/server/handlers.go, registry_push_handlers.go,        *)
(* internal/engine/sync.go, internal/engine/progress.go).                  *)
(*                                                                         *)
(* Sync, retry, scan, validate and registry push share one guard, syncMu   *)
(* with syncRunning and syncCancel.  The accepted operation runs in a      *)
(* goroutine, in passes (one per enabled provider for a sync of all, one   *)
(* for the others), and each pass installs a fresh progress tracker, which *)
(* stays installed after the pass.  A client of the event stream first     *)
(* polls for a tracker worth showing, then sends a snapshot at each update *)
(* or heartbeat until the snapshot is terminal.                            *)
(***************************************************************************)
EXTENDS Naturals, Sequences, FiniteSets

CONSTANTS
    Ops,          \* the operations users ask for
    Clients,      \* the connections to GET /api/sync/progress
    MaxPasses,    \* bound: enabled providers in a sync of all
    MaxPolls,     \* how often a client polls for a tracker (20 in the code)
    None          \* no cancel function

ASSUME BoundsAssumption == MaxPasses \in Nat \ {0} /\ MaxPolls \in Nat \ {0}
ASSUME NoneAssumption == None \notin Ops

VARIABLES
    syncRunning,  \* Server.syncRunning
    syncCancel,   \* Server.syncCancel: the operation it cancels, or None
    op,           \* op[o]: where the goroutine of operation o is
    passes,       \* passes[o]: passes operation o has left
    mine,         \* mine[o]: the tracker of the current pass of o, its local variable
    pending,      \* cancel functions a cancel request has read and not yet called
    ctxDone,      \* operations in progress whose context is cancelled
    trackers,     \* every tracker installed, in order; the last one is active
    client        \* client[c]: the handler of one event stream

guardVars == <<syncRunning, syncCancel>>
opVars == <<op, passes, mine>>
cancelVars == <<pending, ctxDone>>
vars == <<guardVars, opVars, cancelVars, trackers, client>>

InProgress == {"started", "working", "announcing", "passed", "erred"}
Over == {"refused", "ended"}
ClientPC == {"out", "poll", "inspect", "ask", "sleep", "load", "arm", "blocked", "closed"}

Active == Len(trackers)
Terminal(t) == t \in DOMAIN trackers /\ trackers[t].terminal

TypeOK ==
    /\ syncRunning \in BOOLEAN
    /\ syncCancel \in Ops \cup {None}
    /\ op \in [Ops -> {"idle"} \cup InProgress \cup Over]
    /\ passes \in [Ops -> 0..MaxPasses]
    /\ mine \in [Ops -> Nat]
    /\ pending \subseteq Ops /\ ctxDone \subseteq Ops
    /\ trackers \in Seq([op : Ops, terminal : BOOLEAN])
    /\ client \in [Clients -> [pc : ClientPC, polls : 0..MaxPolls, tracker : Nat,
                               woken : BOOLEAN, for : Ops \cup {None}]]

Client(pc, for) == [pc |-> pc, polls |-> 0, tracker |-> 0, woken |-> FALSE, for |-> for]

Init ==
    /\ syncRunning = FALSE /\ syncCancel = None
    /\ op = [o \in Ops |-> "idle"]
    /\ passes = [o \in Ops |-> 0]
    /\ mine = [o \in Ops |-> 0]
    /\ pending = {} /\ ctxDone = {}
    /\ trackers = <<>>
    /\ client = [c \in Clients |-> Client("out", None)]

------------------------------------------------------------------------------
(* Starting and ending an operation *)

\* Mutant: the handler does not look at syncRunning.
StartUnguarded(o) ==
    /\ op[o] = "idle"
    /\ syncRunning' = TRUE /\ syncCancel' = o
    /\ passes' = [passes EXCEPT ![o] = 1] /\ op' = [op EXCEPT ![o] = "started"]
    /\ UNCHANGED <<mine, cancelVars, trackers, client>>

\* A handler under syncMu: the guard is free and the request is accepted, with
\* one pass, or as many as there are enabled providers for a sync of all.
Start(o) ==
    /\ op[o] = "idle"
    /\ ~syncRunning
    /\ syncRunning' = TRUE /\ syncCancel' = o
    /\ \E n \in 0..MaxPasses :
          /\ passes' = [passes EXCEPT ![o] = n]
          /\ op' = [op EXCEPT ![o] = IF n = 0 THEN "passed" ELSE "started"]
    /\ UNCHANGED <<mine, cancelVars, trackers, client>>

\* 409 when the guard is taken; also an unknown provider, or nothing to retry.
Refuse(o) ==
    /\ op[o] = "idle"
    /\ op' = [op EXCEPT ![o] = "refused"]
    /\ UNCHANGED <<guardVars, passes, mine, cancelVars, trackers, client>>

\* Mutant: the clean-up is skipped when the operation was cancelled.
ReleaseUnlessCancelled(o) ==
    /\ op[o] \in {"passed", "erred"} /\ passes[o] = 0 /\ o \notin ctxDone
    /\ syncRunning' = FALSE /\ syncCancel' = None
    /\ op' = [op EXCEPT ![o] = "ended"] /\ mine' = [mine EXCEPT ![o] = 0]
    /\ UNCHANGED <<passes, cancelVars, trackers, client>>

\* The operation returns: after its last pass, or because SyncAll looked at
\* the context after a pass that returned no error.  The deferred function of
\* the goroutine then frees the guard; the locals go with the goroutine.
Release(o) ==
    /\ op[o] \in {"passed", "erred"}
    /\ passes[o] = 0 \/ (op[o] = "passed" /\ o \in ctxDone)
    /\ syncRunning' = FALSE /\ syncCancel' = None
    /\ op' = [op EXCEPT ![o] = "ended"]
    /\ passes' = [passes EXCEPT ![o] = 0] /\ mine' = [mine EXCEPT ![o] = 0]
    /\ ctxDone' = ctxDone \ {o}
    /\ UNCHANGED <<pending, trackers, client>>

\* Mutant: one provider too many.
NextPassPastTheLast(o) ==
    /\ op[o] \in {"passed", "erred"}
    /\ op' = [op EXCEPT ![o] = "started"]
    /\ UNCHANGED <<guardVars, passes, mine, cancelVars, trackers, client>>

\* SyncAll goes on to the next enabled provider; a provider that returned an
\* error is passed over without a look at the context.
NextPass(o) ==
    /\ op[o] = "erred" \/ (op[o] = "passed" /\ o \notin ctxDone)
    /\ passes[o] > 0
    /\ op' = [op EXCEPT ![o] = "started"]
    /\ UNCHANGED <<guardVars, passes, mine, cancelVars, trackers, client>>

------------------------------------------------------------------------------
(* One pass of an operation and its tracker *)

InstallTracker(o) ==
    /\ op[o] = "started"
    /\ trackers' = Append(trackers, [op |-> o, terminal |-> FALSE])
    /\ mine' = [mine EXCEPT ![o] = Active + 1]
    /\ op' = [op EXCEPT ![o] = "working"]
    /\ UNCHANGED <<guardVars, passes, cancelVars, client>>

\* signal(): close the channel that the waiters hold, put a new one in place.
Signal(t) ==
    client' = [c \in Clients |->
        IF client[c].pc = "blocked" /\ client[c].tracker = t
        THEN [client[c] EXCEPT !.woken = TRUE] ELSE client[c]]

\* SetTotals, SetMessage, UpdateFileProgress, FileCompleted, FileFailed ...
Update(o) ==
    /\ op[o] = "working"
    /\ Signal(mine[o])
    /\ UNCHANGED <<guardVars, opVars, cancelVars, trackers>>

\* SetPhase(PhaseComplete) or SetPhase(PhaseFailed); the SetMessage after it
\* is a critical section of its own.
SetTerminal(o) ==
    /\ op[o] = "working"
    /\ trackers' = [trackers EXCEPT ![mine[o]].terminal = TRUE]
    /\ Signal(mine[o])
    /\ op' = [op EXCEPT ![o] = "announcing"]
    /\ UNCHANGED <<guardVars, passes, mine, cancelVars>>

\* The closing SetMessage; the pass then returns a report or an error.
Announce(o) ==
    /\ op[o] = "announcing"
    /\ Signal(mine[o])
    /\ \E end \in {"passed", "erred"} : op' = [op EXCEPT ![o] = end]
    /\ passes' = [passes EXCEPT ![o] = @ - 1]
    /\ UNCHANGED <<guardVars, mine, cancelVars, trackers>>

\* SyncProvider and ScanLocal return an error before any terminal phase:
\* provider not found, CreateSyncRun failed, unsafe path, file records not listed.
ReturnEarly(o) ==
    /\ op[o] = "working"
    /\ op' = [op EXCEPT ![o] = "erred"]
    /\ passes' = [passes EXCEPT ![o] = @ - 1]
    /\ UNCHANGED <<guardVars, mine, cancelVars, trackers, client>>

EndPass(o) == SetTerminal(o) \/ Announce(o) \/ ReturnEarly(o)
Proceed(o) == InstallTracker(o) \/ NextPass(o) \/ Release(o)

------------------------------------------------------------------------------
(* POST /api/sync/cancel: read the cancel function under the lock, call it after *)

\* Mutant: the cancel request frees the guard itself.
ReadCancelAndFree ==
    /\ syncCancel # None
    /\ pending' = pending \cup {syncCancel}
    /\ syncRunning' = FALSE /\ syncCancel' = None
    /\ UNCHANGED <<opVars, ctxDone, trackers, client>>

ReadCancel ==
    /\ syncCancel # None
    /\ pending' = pending \cup {syncCancel}
    /\ UNCHANGED <<guardVars, opVars, ctxDone, trackers, client>>

\* The operation may have ended meanwhile, and another be in progress.
CallCancel(o) ==
    /\ o \in pending
    /\ ctxDone' = IF op[o] \in InProgress THEN ctxDone \cup {o} ELSE ctxDone
    /\ pending' = pending \ {o}
    /\ UNCHANGED <<guardVars, opVars, trackers, client>>

------------------------------------------------------------------------------
(* GET /api/sync/progress *)

\* A step of one client: it is at from, and its record becomes next.
ClientMove(c, from, next) ==
    /\ client[c].pc = from
    /\ client' = [client EXCEPT ![c] = next]
    /\ UNCHANGED <<guardVars, opVars, cancelVars, trackers>>

At(c, to) == [client[c] EXCEPT !.pc = to]
Closed == Client("closed", None)
Showing(c) == Client("load", client[c].for)   \* in the loop that sends snapshots

\* The page opens the stream; for remembers the operation that was running.
Connect(c) == ClientMove(c, "out", Client("poll", syncCancel))

\* ActiveProgress, Snapshot and the look at syncRunning take their locks one
\* after the other.
Poll(c) ==
    ClientMove(c, "poll", IF Active = 0 THEN At(c, "sleep")
                          ELSE [At(c, "inspect") EXCEPT !.tracker = Active])

Inspect(c) ==
    ClientMove(c, "inspect", IF Terminal(client[c].tracker) THEN At(c, "ask") ELSE Showing(c))

\* Mutant: a terminal tracker is shown whether or not an operation is starting.
AskNothing(c) == ClientMove(c, "ask", Showing(c))

AskRunning(c) ==
    ClientMove(c, "ask", IF syncRunning THEN [At(c, "sleep") EXCEPT !.tracker = 0] ELSE Showing(c))

\* 100 ms later: the next poll, or after the last one "No sync running".
PollAgain(c) ==
    ClientMove(c, "sleep",
        IF client[c].polls + 1 < MaxPolls
        THEN [At(c, "poll") EXCEPT !.polls = @ + 1]
        ELSE Closed)

\* A snapshot of the active tracker: a "done" event closes the stream, a
\* "progress" event is followed by a wait.
SendSnapshot(c) ==
    ClientMove(c, "load", IF Terminal(Active) THEN Closed
                          ELSE [At(c, "arm") EXCEPT !.tracker = Active])

\* tracker.Wait(): the channel that the next signal of this tracker closes.
Arm(c) == ClientMove(c, "arm", [At(c, "blocked") EXCEPT !.woken = FALSE])

\* Mutant: no heartbeat.
WakeOnly(c) == client[c].woken /\ ClientMove(c, "blocked", Showing(c))

\* An update, or the heartbeat after five seconds.
Wake(c) == client[c].woken /\ ClientMove(c, "blocked", Showing(c))
Heartbeat(c) == ClientMove(c, "blocked", Showing(c))

\* The request context ends; only the selects look at it.
Disconnect(c) == ClientMove(c, "sleep", Closed) \/ ClientMove(c, "blocked", Closed)

ClientStep(c) ==
    \/ Poll(c) \/ Inspect(c) \/ AskRunning(c) \/ PollAgain(c)
    \/ SendSnapshot(c) \/ Arm(c) \/ Wake(c) \/ Heartbeat(c)

------------------------------------------------------------------------------
\* Nothing left to ask for, no stream open.
Quiet ==
    /\ \A o \in Ops : op[o] \in Over
    /\ \A c \in Clients : client[c].pc = "closed"
    /\ UNCHANGED vars

Next ==
    \/ \E o \in Ops : \/ Start(o) \/ Refuse(o) \/ Proceed(o) \/ Update(o) \/ EndPass(o)
                      \/ CallCancel(o)
    \/ ReadCancel
    \/ \E c \in Clients : Connect(c) \/ ClientStep(c) \/ Disconnect(c)
    \/ Quiet

Spec == Init /\ [][Next]_vars

\* Goroutines are scheduled and timers fire.  A pass is sure to end only when
\* its context is cancelled: the download client sets no overall timeout
\* ("Context cancellation still works for user-initiated cancel").  Nothing is
\* assumed of the users.
Fairness ==
    /\ \A o \in Ops : /\ WF_vars(Proceed(o))
                      /\ WF_vars(o \in ctxDone /\ EndPass(o))
    /\ \A c \in Clients : WF_vars(ClientStep(c))

FairSpec == Spec /\ Fairness

------------------------------------------------------------------------------
(* Properties *)

\* The five kinds of operation exclude each other, and while one runs the
\* guard is taken and the cancel function is its own: no operation is ever
\* started beside another or left running without a way to cancel it.
OneOperation ==
    /\ \A o1, o2 \in Ops : op[o1] \in InProgress /\ op[o2] \in InProgress => o1 = o2
    /\ \A o \in Ops : op[o] \in InProgress => syncRunning /\ syncCancel = o
    /\ syncRunning => \E o \in Ops : op[o] \in InProgress

\* The progress page shows the operation that is running: the tracker the
\* goroutine writes to is the one installed, never one that was replaced.
OwnTrackerShown == \A o \in Ops : op[o] \in {"working", "announcing"} => mine[o] = Active

\* A stream opened while an operation was running, or starting and without a
\* tracker yet, does not end with the result of an earlier operation.
NoStaleDone ==
    [][\A c \in Clients :
          client[c].pc = "load" /\ client'[c].pc = "closed" /\ client[c].for # None
              => trackers[Active].op = client[c].for \/ op[client[c].for] = "ended"]_vars

\* A stream does not hang: once every operation has ended and the last
\* tracker is terminal, every open stream ends, whatever signals it missed.
AllOver == \A o \in Ops : op[o] \in Over
StreamsEnd ==
    \A c \in Clients :
        client[c].pc # "out" /\ AllOver /\ Terminal(Active) ~> client[c].pc = "closed"

\* A cancelled operation ends and frees the guard, however many providers a
\* sync of all had left.
CancelFrees == \A o \in Ops : o \in ctxDone ~> op[o] = "ended"

\* "It stays set after completion so SSE clients can read the terminal
\* snapshot" (internal/engine/sync.go:113): the tracker of an operation that
\* has ended is terminal.
EndedIsTerminal ==
    \A t \in DOMAIN trackers : op[trackers[t].op] = "ended" => Terminal(t)
=============================================================================
