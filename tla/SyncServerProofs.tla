-------------------------- MODULE SyncServerProofs --------------------------
(***************************************************************************)
(* Proofs about SyncServer for any number of operations, passes, clients   *)
(* and polls: type correctness, the exclusion of operations, and the       *)
(* tracker shown.                                                          *)
(***************************************************************************)
EXTENDS SyncServer, SequenceTheorems, TLAPS

\* The exclusion of operations needs that the guard, the cancel function and
\* the goroutine agree, which OneOperation says; the tracker shown needs that
\* exclusion; the types need that a pass under way is one of those left.
PassesLeft == \A o \in Ops : op[o] \in {"started", "working", "announcing"} => passes[o] > 0

ServerInv == TypeOK /\ PassesLeft /\ OneOperation /\ OwnTrackerShown

------------------------------------------------------------------------------
\* A tracker replaced by one of the same operation leaves as many installed.
LEMMA TrackersUpdate ==
    ASSUME TypeOK, NEW t \in Nat, trackers' = [trackers EXCEPT ![t].terminal = TRUE]
    PROVE  /\ trackers' \in Seq([op : Ops, terminal : BOOLEAN])
           /\ Len(trackers') = Len(trackers)
<1> DEFINE T == [op : Ops, terminal : BOOLEAN]
<1>1. trackers \in Seq(T)
  BY DEF TypeOK
<1>2. trackers \in [1..Len(trackers) -> T] /\ Len(trackers) \in Nat
  BY <1>1, LenProperties
<1>3. ASSUME NEW i \in 1..Len(trackers)
      PROVE  trackers'[i] \in T
  <2>1. trackers[i] \in T
    BY <1>2
  <2>2. CASE i = t
    <3>1. trackers'[i] = [trackers[i] EXCEPT !.terminal = TRUE]
      BY <2>2, <1>2
    <3> QED  BY <2>1, <3>1
  <2>3. CASE i # t
    BY <2>1, <2>3, <1>2
  <2> QED  BY <2>2, <2>3
<1>4. trackers' = [i \in 1..Len(trackers) |-> trackers'[i]]
  BY <1>2
<1>5. trackers' \in [1..Len(trackers) -> T]
  BY <1>3, <1>4
<1>6. trackers' \in Seq(T)
  <2> HIDE DEF T
  <2>1. trackers' \in UNION {[1..n -> T] : n \in Nat}
    BY <1>2, <1>5
  <2> QED  BY <2>1, SeqDef
<1>7. DOMAIN trackers' = 1..Len(trackers)
  BY <1>2
<1>8. Len(trackers') = Len(trackers)
  BY <1>2, <1>6, <1>7, LenProperties
<1> QED  BY <1>6, <1>8

\* A signal changes nothing of a client but whether it is woken.
LEMMA SignalType ==
    ASSUME TypeOK, NEW t, Signal(t)
    PROVE  client' \in [Clients -> [pc : ClientPC, polls : 0..MaxPolls, tracker : Nat,
                                    woken : BOOLEAN, for : Ops \cup {None}]]
<1> DEFINE R == [pc : ClientPC, polls : 0..MaxPolls, tracker : Nat, woken : BOOLEAN, for : Ops \cup {None}]
<1>1. client \in [Clients -> R]
  BY DEF TypeOK
<1>2. \A r \in R : [r EXCEPT !.woken = TRUE] \in R
  OBVIOUS
<1> HIDE DEF R
<1>3. client' \in [Clients -> R]
  BY <1>1, <1>2 DEF Signal
<1> QED  BY <1>3 DEF R

\* A step of a client that leaves it with a record of the right type.
LEMMA MoveType ==
    ASSUME TypeOK, NEW c \in Clients, NEW from, NEW next, ClientMove(c, from, next),
           next \in [pc : ClientPC, polls : 0..MaxPolls, tracker : Nat,
                     woken : BOOLEAN, for : Ops \cup {None}]
    PROVE  TypeOK'
BY DEF TypeOK, ClientMove, guardVars, opVars, cancelVars

\* Every step of a client keeps the types.
LEMMA ClientType ==
    ASSUME TypeOK, NEW c \in Clients, Connect(c) \/ ClientStep(c) \/ Disconnect(c)
    PROVE  TypeOK'
<1> DEFINE C == [pc : ClientPC, polls : 0..MaxPolls, tracker : Nat,
                 woken : BOOLEAN, for : Ops \cup {None}]
<1>1. client[c] \in C /\ syncCancel \in Ops \cup {None} /\ Active \in Nat
  BY DEF TypeOK, Active
<1>2. ASSUME NEW to \in ClientPC
      PROVE  At(c, to) \in C
  BY <1>1 DEF At
<1>3. ASSUME NEW to \in ClientPC, NEW n \in Nat
      PROVE  [At(c, to) EXCEPT !.tracker = n] \in C
  BY <1>1 DEF At
<1>4. Closed \in C /\ Showing(c) \in C /\ Client("poll", syncCancel) \in C
  BY <1>1, BoundsAssumption DEF Closed, Showing, Client, ClientPC
<1>5. CASE Connect(c)
  BY <1>5, <1>4, MoveType DEF Connect
<1>6. CASE Poll(c)
  <2> DEFINE next == IF Active = 0 THEN At(c, "sleep") ELSE [At(c, "inspect") EXCEPT !.tracker = Active]
  <2>1. next \in C
    BY <1>1, <1>2, <1>3 DEF ClientPC
  <2> QED  BY <1>6, <2>1, MoveType DEF Poll
<1>7. CASE Inspect(c)
  <2> DEFINE next == IF Terminal(client[c].tracker) THEN At(c, "ask") ELSE Showing(c)
  <2>1. next \in C
    BY <1>2, <1>4 DEF ClientPC
  <2> QED  BY <1>7, <2>1, MoveType DEF Inspect
<1>8. CASE AskRunning(c)
  <2> DEFINE next == IF syncRunning THEN [At(c, "sleep") EXCEPT !.tracker = 0] ELSE Showing(c)
  <2>1. next \in C
    BY <1>3, <1>4 DEF ClientPC
  <2> QED  BY <1>8, <2>1, MoveType DEF AskRunning
<1>9. CASE PollAgain(c)
  <2> DEFINE next == IF client[c].polls + 1 < MaxPolls
                     THEN [At(c, "poll") EXCEPT !.polls = @ + 1] ELSE Closed
  <2>1. client[c].polls + 1 < MaxPolls => client[c].polls + 1 \in 0..MaxPolls
    BY <1>1, BoundsAssumption
  <2>2. client[c].polls + 1 \in 0..MaxPolls => [At(c, "poll") EXCEPT !.polls = @ + 1] \in C
    BY <1>1 DEF At, ClientPC
  <2>3. next \in C
    BY <2>1, <2>2, <1>4
  <2> QED  BY <1>9, <2>3, MoveType DEF PollAgain
<1>10. CASE SendSnapshot(c)
  <2> DEFINE next == IF Terminal(Active) THEN Closed ELSE [At(c, "arm") EXCEPT !.tracker = Active]
  <2>1. next \in C
    BY <1>1, <1>3, <1>4 DEF ClientPC
  <2> QED  BY <1>10, <2>1, MoveType DEF SendSnapshot
<1>11. CASE Arm(c)
  <2>1. [At(c, "blocked") EXCEPT !.woken = FALSE] \in C
    BY <1>1 DEF At, ClientPC
  <2> QED  BY <1>11, <2>1, MoveType DEF Arm
<1>12. CASE Wake(c) \/ Heartbeat(c)
  BY <1>12, <1>4, MoveType DEF Wake, Heartbeat
<1>13. CASE Disconnect(c)
  BY <1>13, <1>4, MoveType DEF Disconnect
<1> QED  BY <1>5, <1>6, <1>7, <1>8, <1>9, <1>10, <1>11, <1>12, <1>13 DEF ClientStep

------------------------------------------------------------------------------
\* What the steps of an operation leave alone keeps its type.
LEMMA InitInv == Init => ServerInv
<1> SUFFICES ASSUME Init PROVE ServerInv
  OBVIOUS
<1>1. Client("out", None) \in [pc : ClientPC, polls : 0..MaxPolls, tracker : Nat,
                               woken : BOOLEAN, for : Ops \cup {None}]
  BY BoundsAssumption DEF Client, ClientPC
<1>2. client \in [Clients -> [pc : ClientPC, polls : 0..MaxPolls, tracker : Nat,
                             woken : BOOLEAN, for : Ops \cup {None}]]
  BY <1>1 DEF Init
<1>3. passes \in [Ops -> 0..MaxPasses] /\ mine \in [Ops -> Nat]
  BY BoundsAssumption DEF Init
<1>4. trackers \in Seq([op : Ops, terminal : BOOLEAN])
  BY DEF Init
<1>5. TypeOK
  BY <1>2, <1>3, <1>4 DEF Init, TypeOK
<1>6. \A o \in Ops : op[o] = "idle"
  BY DEF Init
<1> QED  BY <1>5, <1>6 DEF Init, ServerInv, PassesLeft, OneOperation, OwnTrackerShown, InProgress

LEMMA StartInv ==
    ASSUME ServerInv, NEW o \in Ops, Start(o)
    PROVE  ServerInv'
<1>1. PICK n \in 0..MaxPasses :
          /\ passes' = [passes EXCEPT ![o] = n]
          /\ op' = [op EXCEPT ![o] = IF n = 0 THEN "passed" ELSE "started"]
  BY DEF Start
<1>2. \A p \in Ops : op[p] \notin InProgress
  BY DEF ServerInv, OneOperation, Start
<1>3. op' \in [Ops -> {"idle"} \cup InProgress \cup Over] /\ passes' \in [Ops -> 0..MaxPasses]
  BY <1>1 DEF ServerInv, TypeOK, InProgress
<1>4. TypeOK'
  BY <1>3 DEF ServerInv, TypeOK, Start, cancelVars
<1>5. PassesLeft'
  BY <1>1 DEF ServerInv, TypeOK, PassesLeft
<1>6. op'[o] \in InProgress /\ \A p \in Ops \ {o} : op'[p] = op[p]
  BY <1>1 DEF ServerInv, TypeOK, InProgress
<1>7. OneOperation'
  BY <1>2, <1>6 DEF OneOperation, Start
<1>8. OwnTrackerShown'
  BY <1>1 DEF ServerInv, TypeOK, OwnTrackerShown, Start, Active
<1> QED  BY <1>4, <1>5, <1>7, <1>8 DEF ServerInv

LEMMA RefuseInv ==
    ASSUME ServerInv, NEW o \in Ops, Refuse(o)
    PROVE  ServerInv'
<1>1. /\ op' = [op EXCEPT ![o] = "refused"] /\ op[o] = "idle"
      /\ UNCHANGED <<syncRunning, syncCancel, passes, mine, pending, ctxDone, trackers, client>>
  BY DEF Refuse, guardVars, cancelVars
<1>2. op' \in [Ops -> {"idle"} \cup InProgress \cup Over]
  BY <1>1 DEF ServerInv, TypeOK, Over
<1>3. \A p \in Ops : op'[p] \in InProgress => op[p] = op'[p] /\ op[p] \in InProgress
  BY <1>1 DEF ServerInv, TypeOK, InProgress
<1>4. \A p \in Ops : op[p] \in InProgress => op'[p] \in InProgress
  BY <1>1 DEF ServerInv, TypeOK, InProgress
<1>5. TypeOK'
  BY <1>1, <1>2 DEF ServerInv, TypeOK
<1>6. PassesLeft' /\ OwnTrackerShown'
  BY <1>1, <1>3 DEF ServerInv, PassesLeft, OwnTrackerShown, Active, InProgress, TypeOK
<1>7. OneOperation'
  BY <1>1, <1>3, <1>4 DEF ServerInv, OneOperation
<1> QED  BY <1>5, <1>6, <1>7 DEF ServerInv

LEMMA ReleaseInv ==
    ASSUME ServerInv, NEW o \in Ops, Release(o)
    PROVE  ServerInv'
<1>1. \A p \in Ops \ {o} : op'[p] \notin InProgress /\ op'[p] = op[p]
  BY DEF Release, ServerInv, TypeOK, OneOperation, InProgress
<1>2. op'[o] = "ended"
  BY DEF Release, ServerInv, TypeOK
<1>3. \A p \in Ops : op'[p] \notin InProgress
  BY <1>1, <1>2 DEF InProgress
<1>4. /\ op' \in [Ops -> {"idle"} \cup InProgress \cup Over]
      /\ passes' \in [Ops -> 0..MaxPasses] /\ mine' \in [Ops -> Nat]
  BY BoundsAssumption DEF Release, ServerInv, TypeOK, Over
<1>5. TypeOK'
  BY <1>4 DEF Release, ServerInv, TypeOK
<1> QED  BY <1>3, <1>5 DEF ServerInv, PassesLeft, OneOperation, OwnTrackerShown, Release, InProgress

\* The step of an operation that stays in progress: what the three parts about
\* the guard need to know of it.
LEMMA StaysInProgress ==
    ASSUME ServerInv, NEW o \in Ops, NEW to \in InProgress,
           op[o] \in InProgress, op' = [op EXCEPT ![o] = to], UNCHANGED guardVars
    PROVE  /\ op' \in [Ops -> {"idle"} \cup InProgress \cup Over]
           /\ \A p \in Ops : op'[p] \in InProgress <=> p = o
           /\ op'[o] = to
           /\ OneOperation'
<1>1. op' \in [Ops -> {"idle"} \cup InProgress \cup Over]
  BY DEF ServerInv, TypeOK
<1>2. op'[o] = to /\ \A p \in Ops \ {o} : op'[p] = op[p]
  BY DEF ServerInv, TypeOK
<1>3. \A p \in Ops : op'[p] \in InProgress <=> p = o
  BY <1>2 DEF ServerInv, OneOperation
<1>4. OneOperation'
  BY <1>3 DEF ServerInv, OneOperation, guardVars
<1> QED  BY <1>1, <1>2, <1>3, <1>4

LEMMA InstallTrackerInv ==
    ASSUME ServerInv, NEW o \in Ops, InstallTracker(o)
    PROVE  ServerInv'
<1> DEFINE T == [op : Ops, terminal : BOOLEAN]
           t == [op |-> o, terminal |-> FALSE]
<1>1. /\ op[o] = "started" /\ op' = [op EXCEPT ![o] = "working"]
      /\ trackers' = Append(trackers, t) /\ mine' = [mine EXCEPT ![o] = Active + 1]
      /\ UNCHANGED <<guardVars, passes, pending, ctxDone, client>>
  BY DEF InstallTracker, cancelVars
<1>2. /\ op' \in [Ops -> {"idle"} \cup InProgress \cup Over] /\ OneOperation'
      /\ \A p \in Ops : op'[p] \in InProgress <=> p = o
  BY <1>1, StaysInProgress DEF InProgress
<1>3. trackers \in Seq(T) /\ t \in T
  BY DEF ServerInv, TypeOK
<1>4. trackers' \in Seq(T) /\ Len(trackers') = Active + 1 /\ Active \in Nat
  BY <1>1, <1>3, AppendProperties, LenProperties DEF Active
<1>5. mine' \in [Ops -> Nat] /\ mine'[o] = Active'
  BY <1>1, <1>4 DEF ServerInv, TypeOK, Active
<1>6. TypeOK'
  BY <1>1, <1>2, <1>4, <1>5 DEF ServerInv, TypeOK, guardVars
<1>7. PassesLeft'
  BY <1>1, <1>2 DEF ServerInv, PassesLeft, InProgress
<1>8. OwnTrackerShown'
  BY <1>2, <1>5 DEF OwnTrackerShown, InProgress
<1> QED  BY <1>2, <1>6, <1>7, <1>8 DEF ServerInv

LEMMA NextPassInv ==
    ASSUME ServerInv, NEW o \in Ops, NextPass(o)
    PROVE  ServerInv'
<1>1. /\ op[o] \in InProgress /\ op' = [op EXCEPT ![o] = "started"] /\ passes[o] > 0
      /\ UNCHANGED <<guardVars, passes, mine, pending, ctxDone, trackers, client>>
  BY DEF NextPass, cancelVars, InProgress
<1>2. /\ op' \in [Ops -> {"idle"} \cup InProgress \cup Over] /\ OneOperation'
      /\ \A p \in Ops : op'[p] \in InProgress <=> p = o
      /\ op'[o] = "started"
  BY <1>1, StaysInProgress DEF InProgress
<1>3. TypeOK'
  BY <1>1, <1>2 DEF ServerInv, TypeOK, guardVars
<1>4. PassesLeft' /\ OwnTrackerShown'
  BY <1>1, <1>2 DEF PassesLeft, OwnTrackerShown, InProgress
<1> QED  BY <1>2, <1>3, <1>4 DEF ServerInv

LEMMA UpdateInv ==
    ASSUME ServerInv, NEW o \in Ops, Update(o)
    PROVE  ServerInv'
<1>1. UNCHANGED <<syncRunning, syncCancel, op, passes, mine, pending, ctxDone, trackers>>
  BY DEF Update, guardVars, opVars, cancelVars
<1>2. TypeOK'
  BY <1>1, SignalType DEF ServerInv, TypeOK, Update
<1> QED  BY <1>1, <1>2 DEF ServerInv, PassesLeft, OneOperation, OwnTrackerShown, Active

LEMMA SetTerminalInv ==
    ASSUME ServerInv, NEW o \in Ops, SetTerminal(o)
    PROVE  ServerInv'
<1>1. /\ op[o] = "working" /\ op' = [op EXCEPT ![o] = "announcing"]
      /\ trackers' = [trackers EXCEPT ![mine[o]].terminal = TRUE]
      /\ UNCHANGED <<guardVars, passes, mine, pending, ctxDone>>
  BY DEF SetTerminal, cancelVars
<1>2. /\ op' \in [Ops -> {"idle"} \cup InProgress \cup Over] /\ OneOperation'
      /\ \A p \in Ops : op'[p] \in InProgress <=> p = o
  BY <1>1, StaysInProgress DEF InProgress
<1>3. mine[o] \in Nat
  BY DEF ServerInv, TypeOK
<1>4. trackers' \in Seq([op : Ops, terminal : BOOLEAN]) /\ Active' = Active
  BY <1>1, <1>3, TrackersUpdate DEF ServerInv, Active
<1>5. TypeOK'
  BY <1>1, <1>2, <1>4, SignalType DEF ServerInv, TypeOK, SetTerminal, guardVars
<1>6. PassesLeft' /\ OwnTrackerShown'
  BY <1>1, <1>2, <1>4 DEF ServerInv, PassesLeft, OwnTrackerShown, InProgress
<1> QED  BY <1>2, <1>5, <1>6 DEF ServerInv

\* Announce and ReturnEarly: a pass ends, and passes counts one less.
LEMMA PassEnds ==
    ASSUME ServerInv, NEW o \in Ops, op[o] \in {"working", "announcing"},
           NEW end \in {"passed", "erred"}, op' = [op EXCEPT ![o] = end],
           passes' = [passes EXCEPT ![o] = @ - 1],
           UNCHANGED <<guardVars, mine, pending, ctxDone, trackers>>,
           client' \in [Clients -> [pc : ClientPC, polls : 0..MaxPolls, tracker : Nat,
                                    woken : BOOLEAN, for : Ops \cup {None}]]
    PROVE  ServerInv'
<1>1. /\ op' \in [Ops -> {"idle"} \cup InProgress \cup Over] /\ OneOperation'
      /\ \A p \in Ops : op'[p] \in InProgress <=> p = o
      /\ op'[o] = end
  BY StaysInProgress DEF InProgress
<1>2. passes[o] > 0 /\ passes[o] \in 0..MaxPasses
  BY DEF ServerInv, PassesLeft, TypeOK
<1>3. passes[o] - 1 \in 0..MaxPasses
  BY <1>2, BoundsAssumption
<1>4. passes' \in [Ops -> 0..MaxPasses]
  BY <1>3 DEF ServerInv, TypeOK
<1>5. TypeOK'
  BY <1>1, <1>4 DEF ServerInv, TypeOK, guardVars
<1>6. PassesLeft' /\ OwnTrackerShown'
  BY <1>1 DEF PassesLeft, OwnTrackerShown, InProgress
<1> QED  BY <1>1, <1>5, <1>6 DEF ServerInv

LEMMA AnnounceInv ==
    ASSUME ServerInv, NEW o \in Ops, Announce(o)
    PROVE  ServerInv'
<1>1. PICK end \in {"passed", "erred"} : op' = [op EXCEPT ![o] = end]
  BY DEF Announce
<1> QED  BY <1>1, PassEnds, SignalType DEF Announce, ServerInv, cancelVars

LEMMA ReturnEarlyInv ==
    ASSUME ServerInv, NEW o \in Ops, ReturnEarly(o)
    PROVE  ServerInv'
<1>1. op[o] = "working" /\ op' = [op EXCEPT ![o] = "erred"]
  BY DEF ReturnEarly
<1>2. client' \in [Clients -> [pc : ClientPC, polls : 0..MaxPolls, tracker : Nat,
                               woken : BOOLEAN, for : Ops \cup {None}]]
  BY DEF ReturnEarly, ServerInv, TypeOK
<1> QED  BY <1>1, <1>2, PassEnds DEF ReturnEarly, cancelVars

\* The steps that leave the operations, their trackers and the guard alone.
LEMMA ServerInvKept ==
    ASSUME ServerInv, TypeOK', UNCHANGED <<guardVars, opVars, trackers>>
    PROVE  ServerInv'
BY DEF ServerInv, PassesLeft, OneOperation, OwnTrackerShown, guardVars, opVars, Active

LEMMA CancelInv ==
    ASSUME ServerInv, ReadCancel \/ \E o \in Ops : CallCancel(o)
    PROVE  ServerInv'
<1>1. UNCHANGED <<guardVars, opVars, trackers, client>>
  BY DEF ReadCancel, CallCancel
<1>2. pending' \subseteq Ops /\ ctxDone' \subseteq Ops
  BY DEF ReadCancel, CallCancel, ServerInv, TypeOK
<1>3. TypeOK'
  BY <1>1, <1>2 DEF ServerInv, TypeOK, guardVars, opVars
<1> QED  BY <1>1, <1>3, ServerInvKept

LEMMA ClientInv ==
    ASSUME ServerInv, NEW c \in Clients, Connect(c) \/ ClientStep(c) \/ Disconnect(c)
    PROVE  ServerInv'
<1>1. TypeOK'
  BY ClientType DEF ServerInv
<1>2. UNCHANGED <<guardVars, opVars, trackers>>
  BY DEF Connect, ClientStep, Disconnect, Poll, Inspect, AskRunning, PollAgain, SendSnapshot,
         Arm, Wake, Heartbeat, ClientMove
<1> QED  BY <1>1, <1>2, ServerInvKept

LEMMA NextInv == ServerInv /\ [Next]_vars => ServerInv'
<1> SUFFICES ASSUME ServerInv, [Next]_vars PROVE ServerInv'
  OBVIOUS
<1>1. ASSUME NEW o \in Ops, Start(o) \/ Refuse(o) \/ Proceed(o) \/ Update(o) \/ EndPass(o)
      PROVE  ServerInv'
  BY <1>1, StartInv, RefuseInv, InstallTrackerInv, NextPassInv, ReleaseInv, UpdateInv,
     SetTerminalInv, AnnounceInv, ReturnEarlyInv DEF Proceed, EndPass
<1>2. CASE UNCHANGED vars
  BY <1>2 DEF vars, guardVars, opVars, cancelVars, ServerInv, TypeOK, PassesLeft, OneOperation,
     OwnTrackerShown, Active
<1> QED  BY <1>1, <1>2, CancelInv, ClientInv DEF Next, Quiet

------------------------------------------------------------------------------
\* The inductive invariant holds in every reachable state.
THEOREM ServerInvariant == Spec => []ServerInv
BY InitInv, NextInv, PTL DEF Spec

\* Every variable of the server keeps its type: trackers and cancel functions
\* are those of real operations, and no pass is taken that was not left.
THEOREM ServerTypeOK == Spec => []TypeOK
<1>1. ServerInv => TypeOK
  BY DEF ServerInv
<1> QED  BY <1>1, ServerInvariant, PTL

\* Sync, retry, scan, validate and registry push exclude each other, and the one
\* in progress can be cancelled, for any number of requests.
THEOREM ServerOneOperation == Spec => []OneOperation
<1>1. ServerInv => OneOperation
  BY DEF ServerInv
<1> QED  BY <1>1, ServerInvariant, PTL

\* The tracker an operation writes to is the one users see, for any number of
\* operations and passes.
THEOREM ServerOwnTrackerShown == Spec => []OwnTrackerShown
<1>1. ServerInv => OwnTrackerShown
  BY DEF ServerInv
<1> QED  BY <1>1, ServerInvariant, PTL

------------------------------------------------------------------------------
(* What a stream may end with *)

\* A stream opened during an operation does not end with an older result,
\* because a tracker that is not of the operation in progress stays as it is:
\* if the stream took such a tracker for live it will never be terminal, and a
\* terminal one is not shown while the guard is taken.
Shows(o) == Active # 0 /\ trackers[Active].op = o
TrackerIsOwn ==
    \A o \in Ops : op[o] \in {"working", "announcing"} =>
        mine[o] \in DOMAIN trackers /\ trackers[mine[o]].op = o
OpenedDuring(c) == client[c].for # None => op[client[c].for] \in InProgress \cup {"ended"}
NothingStale(c) ==
    client[c].for # None /\ op[client[c].for] \in InProgress =>
        /\ client[c].pc = "inspect" => client[c].tracker = Active \/ Shows(client[c].for)
        /\ client[c].pc \in {"load", "arm", "blocked"} => ~Terminal(Active) \/ Shows(client[c].for)
CancelIsOfRunning == syncRunning \/ syncCancel = None
StreamInv == TrackerIsOwn /\ CancelIsOfRunning /\ \A c \in Clients : OpenedDuring(c) /\ NothingStale(c)

\* The steps of operations leave a stream where it is.
Keeps(c) == client'[c].pc = client[c].pc /\ client'[c].tracker = client[c].tracker /\ client'[c].for = client[c].for

LEMMA SignalKeeps ==
    ASSUME TypeOK, (\E t : Signal(t)) \/ UNCHANGED client
    PROVE  \A c \in Clients : Keeps(c)
<1>1. CASE UNCHANGED client
  BY <1>1 DEF Keeps
<1>2. ASSUME NEW t, Signal(t), NEW c \in Clients PROVE Keeps(c)
  <2>1. client[c] \in [pc : ClientPC, polls : 0..MaxPolls, tracker : Nat, woken : BOOLEAN, for : Ops \cup {None}]
    BY DEF TypeOK
  <2>2. client'[c] = [client[c] EXCEPT !.woken = TRUE] \/ client'[c] = client[c]
    BY <1>2 DEF Signal
  <2>3. CASE client'[c] = client[c]
    BY <2>3 DEF Keeps
  <2>4. CASE client'[c] = [client[c] EXCEPT !.woken = TRUE]
    BY <2>1, <2>4 DEF Keeps
  <2> QED  BY <2>2, <2>3, <2>4
<1> QED  BY <1>1, <1>2

\* No operation is in progress when one starts, and the one that ends was the
\* only one.
LEMMA BetweenOperations ==
    ASSUME ServerInv, StreamInv, NEW o \in Ops, Start(o) \/ Refuse(o) \/ Release(o)
    PROVE  StreamInv'
<1>0. /\ TypeOK /\ OneOperation /\ TrackerIsOwn /\ CancelIsOfRunning
      /\ \A c \in Clients : OpenedDuring(c) /\ NothingStale(c)
  BY DEF ServerInv, StreamInv
<1>a. CancelIsOfRunning'
  BY <1>0 DEF Start, Refuse, Release, CancelIsOfRunning, guardVars
<1>1. UNCHANGED trackers /\ \A c \in Clients : Keeps(c)
  BY <1>0, SignalKeeps DEF Start, Refuse, Release
<1>2. CASE Start(o)
  <2>1. PICK n \in 0..MaxPasses : op' = [op EXCEPT ![o] = IF n = 0 THEN "passed" ELSE "started"]
    BY <1>2 DEF Start
  <2>2. op[o] = "idle" /\ \A p \in Ops : op[p] \notin InProgress
    BY <1>0, <1>2 DEF Start, OneOperation
  <2>3. op'[o] \in {"passed", "started"} /\ \A p \in Ops \ {o} : op'[p] = op[p]
    BY <1>0, <2>1 DEF TypeOK
  <2>4. \A p \in Ops : op'[p] \notin {"working", "announcing"}
    BY <2>2, <2>3 DEF InProgress
  <2>5. ASSUME NEW c \in Clients, client[c].for # None PROVE op'[client[c].for] = "ended"
    <3>1. client[c].for \in Ops
      BY <1>0, <2>5 DEF TypeOK
    <3>2. op[client[c].for] = "ended"
      BY <1>0, <2>2, <2>5, <3>1 DEF OpenedDuring
    <3> QED  BY <2>2, <2>3, <3>1, <3>2
  <2>6. ASSUME NEW c \in Clients PROVE OpenedDuring(c)' /\ NothingStale(c)'
    BY <1>1, <2>5 DEF OpenedDuring, NothingStale, Keeps, InProgress
  <2> QED  BY <1>a, <2>4, <2>6 DEF StreamInv, TrackerIsOwn
<1>3. CASE Refuse(o)
  <2>1. op[o] = "idle" /\ op' = [op EXCEPT ![o] = "refused"] /\ mine' = mine
    BY <1>3 DEF Refuse
  <2>2. op'[o] = "refused" /\ \A p \in Ops \ {o} : op'[p] = op[p]
    BY <1>0, <2>1 DEF TypeOK
  <2>3. TrackerIsOwn'
    BY <1>0, <1>1, <2>1, <2>2 DEF TrackerIsOwn
  <2>4. ASSUME NEW c \in Clients, client[c].for # None PROVE op'[client[c].for] = op[client[c].for]
    <3>1. client[c].for \in Ops
      BY <1>0, <2>4 DEF TypeOK
    <3>2. op[client[c].for] # "idle"
      BY <1>0, <2>4 DEF OpenedDuring, InProgress
    <3> QED  BY <2>1, <2>2, <3>1, <3>2
  <2>5. ASSUME NEW c \in Clients PROVE OpenedDuring(c)' /\ NothingStale(c)'
    BY <1>0, <1>1, <2>4 DEF OpenedDuring, NothingStale, Keeps, Shows, Terminal, Active
  <2> QED  BY <1>a, <2>3, <2>5 DEF StreamInv
<1>4. CASE Release(o)
  <2>1. op[o] \in InProgress /\ op' = [op EXCEPT ![o] = "ended"]
    BY <1>4 DEF Release, InProgress
  <2>2. op'[o] = "ended" /\ \A p \in Ops \ {o} : op'[p] = op[p] /\ op[p] \notin InProgress
    BY <1>0, <2>1 DEF TypeOK, OneOperation
  <2>3. TrackerIsOwn'
    BY <2>2 DEF TrackerIsOwn, InProgress
  <2>4. ASSUME NEW c \in Clients, client[c].for # None PROVE op'[client[c].for] = "ended"
    <3>1. client[c].for \in Ops
      BY <1>0, <2>4 DEF TypeOK
    <3> QED  BY <1>0, <2>2, <2>4, <3>1 DEF OpenedDuring
  <2>5. ASSUME NEW c \in Clients PROVE OpenedDuring(c)' /\ NothingStale(c)'
    BY <1>1, <2>4 DEF OpenedDuring, NothingStale, Keeps, InProgress
  <2> QED  BY <1>a, <2>3, <2>5 DEF StreamInv
<1> QED  BY <1>2, <1>3, <1>4

\* The steps of the operation in progress: the active tracker stays as it is,
\* or is its own afterwards.
LEMMA DuringOperation ==
    ASSUME ServerInv, StreamInv, NEW o \in Ops, op[o] \in InProgress, NEW to \in InProgress,
           op' = [op EXCEPT ![o] = to],
           trackers' = trackers \/ Shows(o)',
           TrackerIsOwn', UNCHANGED guardVars,
           \A c \in Clients : Keeps(c)
    PROVE  StreamInv'
<1>0. /\ TypeOK /\ OneOperation /\ CancelIsOfRunning
      /\ \A c \in Clients : OpenedDuring(c) /\ NothingStale(c)
  BY DEF ServerInv, StreamInv
<1>a. CancelIsOfRunning'
  BY <1>0 DEF CancelIsOfRunning, guardVars
<1>1. op'[o] = to /\ \A p \in Ops \ {o} : op'[p] = op[p] /\ op[p] \notin InProgress
  BY <1>0 DEF TypeOK, OneOperation
<1>2. ASSUME NEW c \in Clients PROVE OpenedDuring(c)' /\ NothingStale(c)'
  <2>1. client'[c].for = client[c].for /\ client'[c].pc = client[c].pc /\ client'[c].tracker = client[c].tracker
    BY DEF Keeps
  <2>2. client[c].for # None => client[c].for \in Ops
    BY <1>0 DEF TypeOK
  <2>3. OpenedDuring(c)'
    BY <1>0, <1>1, <2>1, <2>2 DEF OpenedDuring
  <2>4. CASE client[c].for # o
    BY <1>1, <2>1, <2>2, <2>3, <2>4 DEF NothingStale
  <2>5. CASE client[c].for = o
    <3>1. CASE trackers' = trackers
      BY <1>0, <1>1, <2>1, <2>3, <2>5, <3>1 DEF NothingStale, Shows, Terminal, Active
    <3>2. CASE Shows(o)'
      BY <2>1, <2>3, <2>5, <3>2 DEF NothingStale, Shows, Active
    <3> QED  BY <3>1, <3>2
  <2> QED  BY <2>3, <2>4, <2>5
<1> QED  BY <1>a, <1>2 DEF StreamInv

LEMMA OperationKeepsStreams ==
    ASSUME ServerInv, StreamInv, NEW o \in Ops,
           InstallTracker(o) \/ NextPass(o) \/ Update(o) \/ SetTerminal(o) \/ Announce(o) \/ ReturnEarly(o)
    PROVE  StreamInv'
<1> DEFINE T == [op : Ops, terminal : BOOLEAN]
<1>0. TypeOK /\ OneOperation /\ OwnTrackerShown /\ TrackerIsOwn
  BY DEF ServerInv, StreamInv
<1>1. \A c \in Clients : Keeps(c)
  BY <1>0, SignalKeeps DEF InstallTracker, NextPass, Update, SetTerminal, Announce, ReturnEarly
<1>b. UNCHANGED guardVars
  BY DEF InstallTracker, NextPass, Update, SetTerminal, Announce, ReturnEarly
<1>2. op[o] \in InProgress /\ \A p \in Ops \ {o} : op[p] \notin InProgress
  BY <1>0 DEF InstallTracker, NextPass, Update, SetTerminal, Announce, ReturnEarly, OneOperation, InProgress
<1>3. trackers \in Seq(T) /\ DOMAIN trackers = 1..Active /\ Active \in Nat
  BY <1>0 DEF TypeOK, Active
<1>4. CASE InstallTracker(o)
  <2> DEFINE t == [op |-> o, terminal |-> FALSE]
  <2>1. /\ op' = [op EXCEPT ![o] = "working"] /\ trackers' = Append(trackers, t)
        /\ mine' = [mine EXCEPT ![o] = Active + 1]
    BY <1>4 DEF InstallTracker
  <2>2. t \in T /\ t.op = o
    OBVIOUS
  <2> HIDE DEF t
  <2>3. /\ Len(trackers') = Active + 1 /\ trackers'[Active + 1] = t /\ Active + 1 # 0
        /\ Active + 1 \in DOMAIN trackers'
    BY <1>3, <2>1, <2>2, AppendProperties DEF Active
  <2>4. Shows(o)'
    BY <2>2, <2>3 DEF Shows, Active
  <2>5. mine'[o] = Active + 1 /\ op'[o] = "working" /\ \A p \in Ops \ {o} : op'[p] = op[p]
    BY <1>0, <2>1 DEF TypeOK
  <2>6. TrackerIsOwn'
    BY <1>2, <2>2, <2>3, <2>5 DEF TrackerIsOwn, InProgress
  <2> QED  BY <1>1, <1>b, <1>2, <2>1, <2>4, <2>6, DuringOperation DEF InProgress
<1>5. CASE SetTerminal(o)
  <2>1. /\ op[o] = "working" /\ op' = [op EXCEPT ![o] = "announcing"] /\ mine' = mine
        /\ trackers' = [trackers EXCEPT ![mine[o]].terminal = TRUE]
    BY <1>5 DEF SetTerminal
  <2>2. mine[o] = Active /\ mine[o] \in DOMAIN trackers /\ trackers[mine[o]].op = o
    BY <1>0, <2>1 DEF OwnTrackerShown, TrackerIsOwn
  <2>3. Active \in 1..Active /\ trackers[Active] \in T
    <3>1. Active \in 1..Active
      BY <1>3, <2>2
    <3> HIDE DEF T
    <3> QED  BY <1>3, <3>1, ElementOfSeq DEF Active
  <2>4. trackers'[Active] = [trackers[Active] EXCEPT !.terminal = TRUE] /\ DOMAIN trackers' = DOMAIN trackers
    BY <1>3, <2>1, <2>2
  <2>5. trackers'[Active].op = o /\ Active # 0
    BY <2>2, <2>3, <2>4
  <2>6. Len(trackers') = Active
    BY <1>0, <2>1, <2>2, <1>3, TrackersUpdate DEF Active
  <2>7. Shows(o)'
    BY <2>5, <2>6 DEF Shows, Active
  <2>8. op'[o] = "announcing" /\ \A p \in Ops \ {o} : op'[p] = op[p]
    BY <1>0, <2>1 DEF TypeOK
  <2>9. TrackerIsOwn'
    BY <1>2, <2>1, <2>2, <2>4, <2>5, <2>8 DEF TrackerIsOwn, InProgress
  <2> QED  BY <1>1, <1>b, <1>2, <2>1, <2>7, <2>9, DuringOperation DEF InProgress
<1>6. CASE NextPass(o) \/ Announce(o) \/ ReturnEarly(o)
  <2>1. PICK to \in {"started", "passed", "erred"} : op' = [op EXCEPT ![o] = to]
    BY <1>6 DEF NextPass, Announce, ReturnEarly
  <2>2. trackers' = trackers /\ to \in InProgress
    BY <1>6, <2>1 DEF NextPass, Announce, ReturnEarly, InProgress
  <2>3. op'[o] = to /\ \A p \in Ops \ {o} : op'[p] = op[p]
    BY <1>0, <2>1 DEF TypeOK
  <2>4. TrackerIsOwn'
    BY <1>2, <2>1, <2>3 DEF TrackerIsOwn, InProgress
  <2> QED  BY <1>1, <1>b, <1>2, <2>1, <2>2, <2>4, DuringOperation
<1>7. CASE Update(o)
  <2>1. UNCHANGED <<opVars, trackers>>
    BY <1>7 DEF Update
  <2>2. op' = [op EXCEPT ![o] = op[o]] /\ mine' = mine
    BY <1>0, <2>1 DEF TypeOK, opVars
  <2>3. TrackerIsOwn'
    BY <1>0, <2>1 DEF TrackerIsOwn, opVars
  <2> QED  BY <1>1, <1>b, <1>2, <2>1, <2>2, <2>3, DuringOperation
<1> QED  BY <1>4, <1>5, <1>6, <1>7

\* What one step of a stream does to it.
LEMMA MoveDoes ==
    ASSUME TypeOK, NEW c \in Clients, NEW from, NEW next, ClientMove(c, from, next)
    PROVE  /\ client[c].pc = from /\ client'[c] = next /\ \A d \in Clients \ {c} : client'[d] = client[d]
           /\ UNCHANGED <<guardVars, opVars, trackers>>
BY DEF TypeOK, ClientMove

\* Where a step of a stream leaves it, as far as its end is concerned.
LEMMA ClientDoes ==
    ASSUME TypeOK, NEW c \in Clients, Connect(c) \/ ClientStep(c) \/ Disconnect(c)
    PROVE  /\ \A d \in Clients \ {c} : client'[d] = client[d]
           /\ UNCHANGED <<guardVars, opVars, trackers>>
           /\ \/ client'[c].for = None
              \/ client'[c].for = syncCancel /\ client'[c].pc = "poll"
              \/ /\ client'[c].for = client[c].for
                 /\ \/ client'[c].pc \in {"poll", "sleep", "ask"}
                    \/ client'[c].pc = "inspect" /\ client'[c].tracker = Active
                    \/ client'[c].pc = "load" /\ client[c].pc = "inspect" /\ ~Terminal(client[c].tracker)
                    \/ client'[c].pc = "load" /\ client[c].pc = "ask" /\ ~syncRunning
                    \/ client'[c].pc \in {"load", "arm", "blocked"} /\ client[c].pc \in {"load", "arm", "blocked"}
           /\ client[c].pc = "load" /\ client'[c].pc = "closed" => Terminal(Active)
<1>0. client[c] \in [pc : ClientPC, polls : 0..MaxPolls, tracker : Nat, woken : BOOLEAN, for : Ops \cup {None}]
  BY DEF TypeOK
<1>1. \A to : At(c, to).pc = to /\ At(c, to).for = client[c].for
  BY <1>0 DEF At
<1>3. /\ Closed.pc = "closed" /\ Closed.for = None /\ Showing(c).pc = "load" /\ Showing(c).for = client[c].for
      /\ Client("poll", syncCancel).pc = "poll" /\ Client("poll", syncCancel).for = syncCancel
  BY DEF Closed, Showing, Client
<1>4. CASE Connect(c)
  BY <1>3, <1>4, MoveDoes DEF Connect
<1>5. CASE Poll(c)
  <2>1. CASE Active = 0
    BY <1>1, <1>5, <2>1, MoveDoes DEF Poll
  <2>2. CASE Active # 0
    <3> DEFINE next == [At(c, "inspect") EXCEPT !.tracker = Active]
    <3>1. ClientMove(c, "poll", next)
      BY <1>5, <2>2 DEF Poll
    <3>2. next.pc = "inspect" /\ next.for = client[c].for /\ next.tracker = Active
      BY <1>0 DEF At
    <3> HIDE DEF next
    <3>3. /\ client[c].pc = "poll" /\ client'[c] = next /\ \A d \in Clients \ {c} : client'[d] = client[d]
          /\ UNCHANGED <<guardVars, opVars, trackers>>
      BY <3>1, MoveDoes
    <3> QED  BY <3>2, <3>3
  <2> QED  BY <2>1, <2>2
<1>6. CASE Inspect(c)
  <2>1. CASE Terminal(client[c].tracker)
    BY <1>1, <1>6, <2>1, MoveDoes DEF Inspect
  <2>2. CASE ~Terminal(client[c].tracker)
    BY <1>3, <1>6, <2>2, MoveDoes DEF Inspect
  <2> QED  BY <2>1, <2>2
<1>7. CASE AskRunning(c)
  <2>1. CASE syncRunning
    <3> DEFINE next == [At(c, "sleep") EXCEPT !.tracker = 0]
    <3>1. ClientMove(c, "ask", next)
      BY <1>7, <2>1 DEF AskRunning
    <3>2. next.pc = "sleep" /\ next.for = client[c].for /\ next.tracker = 0
      BY <1>0 DEF At
    <3> HIDE DEF next
    <3>3. /\ client[c].pc = "ask" /\ client'[c] = next /\ \A d \in Clients \ {c} : client'[d] = client[d]
          /\ UNCHANGED <<guardVars, opVars, trackers>>
      BY <3>1, MoveDoes
    <3> QED  BY <3>2, <3>3
  <2>2. CASE ~syncRunning
    BY <1>3, <1>7, <2>2, MoveDoes DEF AskRunning
  <2> QED  BY <2>1, <2>2
<1>8. CASE PollAgain(c)
  <2>1. CASE client[c].polls + 1 < MaxPolls
    <3> DEFINE next == [At(c, "poll") EXCEPT !.polls = @ + 1]
    <3>1. ClientMove(c, "sleep", next)
      BY <1>8, <2>1 DEF PollAgain
    <3>2. next.pc = "poll" /\ next.for = client[c].for
      BY <1>0 DEF At
    <3> HIDE DEF next
    <3>3. /\ client[c].pc = "sleep" /\ client'[c] = next /\ \A d \in Clients \ {c} : client'[d] = client[d]
          /\ UNCHANGED <<guardVars, opVars, trackers>>
      BY <3>1, MoveDoes
    <3> QED  BY <3>2, <3>3
  <2>2. CASE ~(client[c].polls + 1 < MaxPolls)
    BY <1>3, <1>8, <2>2, MoveDoes DEF PollAgain
  <2> QED  BY <2>1, <2>2
<1>9. CASE SendSnapshot(c)
  <2>1. CASE Terminal(Active)
    BY <1>3, <1>9, <2>1, MoveDoes DEF SendSnapshot
  <2>2. CASE ~Terminal(Active)
    <3> DEFINE next == [At(c, "arm") EXCEPT !.tracker = Active]
    <3>1. ClientMove(c, "load", next)
      BY <1>9, <2>2 DEF SendSnapshot
    <3>2. next.pc = "arm" /\ next.for = client[c].for /\ next.tracker = Active
      BY <1>0 DEF At
    <3> HIDE DEF next
    <3>3. /\ client[c].pc = "load" /\ client'[c] = next /\ \A d \in Clients \ {c} : client'[d] = client[d]
          /\ UNCHANGED <<guardVars, opVars, trackers>>
      BY <3>1, MoveDoes
    <3> QED  BY <3>2, <3>3
  <2> QED  BY <2>1, <2>2
<1>10. CASE Arm(c)
  <2>1. [At(c, "blocked") EXCEPT !.woken = FALSE].pc = "blocked" /\ [At(c, "blocked") EXCEPT !.woken = FALSE].for = client[c].for
    BY <1>0 DEF At
  <2>2. PICK next : ClientMove(c, "arm", next) /\ next.pc = "blocked" /\ next.for = client[c].for
    BY <1>10, <2>1 DEF Arm
  <2>3. /\ client[c].pc = "arm" /\ client'[c] = next /\ \A d \in Clients \ {c} : client'[d] = client[d]
        /\ UNCHANGED <<guardVars, opVars, trackers>>
    BY <2>2, MoveDoes
  <2> QED  BY <2>2, <2>3
<1>11. CASE Wake(c) \/ Heartbeat(c)
  BY <1>3, <1>11, MoveDoes DEF Wake, Heartbeat
<1>12. CASE Disconnect(c)
  BY <1>3, <1>12, MoveDoes DEF Disconnect
<1> QED  BY <1>4, <1>5, <1>6, <1>7, <1>8, <1>9, <1>10, <1>11, <1>12 DEF ClientStep

LEMMA StreamMoves ==
    ASSUME ServerInv, StreamInv, NEW c \in Clients, Connect(c) \/ ClientStep(c) \/ Disconnect(c)
    PROVE  StreamInv'
<1>0. /\ TypeOK /\ OneOperation /\ TrackerIsOwn /\ CancelIsOfRunning
      /\ \A d \in Clients : OpenedDuring(d) /\ NothingStale(d)
  BY DEF ServerInv, StreamInv
<1>1. /\ \A d \in Clients \ {c} : client'[d] = client[d]
      /\ op' = op /\ mine' = mine /\ trackers' = trackers /\ UNCHANGED guardVars
  BY <1>0, ClientDoes DEF opVars
<1>a. CancelIsOfRunning'
  BY <1>0, <1>1 DEF CancelIsOfRunning, guardVars
<1>2. TrackerIsOwn'
  BY <1>0, <1>1 DEF TrackerIsOwn
<1>3. \A d \in Clients \ {c} : OpenedDuring(d)' /\ NothingStale(d)'
  BY <1>0, <1>1 DEF OpenedDuring, NothingStale, Shows, Terminal, Active
<1>4. Active' = Active /\ (Terminal(Active)' <=> Terminal(Active)) /\ \A o : Shows(o)' <=> Shows(o)
  BY <1>1 DEF Active, Terminal, Shows
<1>5. OpenedDuring(c)' /\ NothingStale(c)'
  <2>1. CASE client'[c].for = None
    BY <2>1 DEF OpenedDuring, NothingStale
  <2>2. CASE client'[c].for = syncCancel /\ client'[c].pc = "poll"
    <3>1. syncCancel # None => op[syncCancel] \in InProgress
      BY <1>0 DEF CancelIsOfRunning, OneOperation
    <3> QED  BY <1>1, <2>2, <3>1 DEF OpenedDuring, NothingStale
  <2>3. CASE client'[c].for = client[c].for
    <3>1. OpenedDuring(c)'
      BY <1>0, <1>1, <2>3 DEF OpenedDuring
    <3>2. CASE client'[c].pc \in {"poll", "sleep", "ask"}
      BY <3>1, <3>2 DEF NothingStale
    <3>3. CASE client'[c].pc = "inspect" /\ client'[c].tracker = Active
      BY <1>4, <3>1, <3>3 DEF NothingStale
    <3>4. CASE client'[c].pc = "load" /\ client[c].pc = "inspect" /\ ~Terminal(client[c].tracker)
      BY <1>0, <1>1, <1>4, <2>3, <3>1, <3>4 DEF NothingStale
    <3>5. CASE client'[c].pc = "load" /\ client[c].pc = "ask" /\ ~syncRunning
      <4>1. client[c].for # None => client[c].for \in Ops
        BY <1>0 DEF TypeOK
      <4>2. client[c].for # None => op[client[c].for] \notin InProgress
        BY <1>0, <3>5, <4>1 DEF OneOperation
      <4> QED  BY <1>1, <2>3, <3>1, <4>2 DEF NothingStale
    <3>6. CASE client'[c].pc \in {"load", "arm", "blocked"} /\ client[c].pc \in {"load", "arm", "blocked"}
      BY <1>0, <1>1, <1>4, <2>3, <3>1, <3>6 DEF NothingStale
    <3> QED  BY <1>0, <2>3, <3>1, <3>2, <3>3, <3>4, <3>5, <3>6, ClientDoes DEF NothingStale
  <2> QED  BY <1>0, <2>1, <2>2, <2>3, ClientDoes
<1> QED  BY <1>a, <1>2, <1>3, <1>5 DEF StreamInv


LEMMA StreamInit == Init => StreamInv
<1> SUFFICES ASSUME Init PROVE StreamInv
  OBVIOUS
<1>1. \A o \in Ops : op[o] = "idle"
  BY DEF Init
<1>2. \A c \in Clients : client[c].for = None
  BY DEF Init, Client
<1>3. ~syncRunning /\ syncCancel = None
  BY DEF Init
<1> QED  BY <1>1, <1>2, <1>3 DEF StreamInv, TrackerIsOwn, CancelIsOfRunning, OpenedDuring, NothingStale

LEMMA StreamStep == ServerInv /\ StreamInv /\ [Next]_vars => StreamInv'
<1> SUFFICES ASSUME ServerInv, StreamInv, [Next]_vars PROVE StreamInv'
  OBVIOUS
<1>1. ASSUME NEW o \in Ops, Start(o) \/ Refuse(o) \/ Proceed(o) \/ Update(o) \/ EndPass(o)
      PROVE  StreamInv'
  BY <1>1, BetweenOperations, OperationKeepsStreams DEF Proceed, EndPass
<1>2. CASE UNCHANGED <<guardVars, opVars, trackers, client>>
  BY <1>2 DEF guardVars, opVars, StreamInv, TrackerIsOwn, CancelIsOfRunning, OpenedDuring, NothingStale,
     Shows, Terminal, Active
<1>3. CASE ReadCancel \/ \E o \in Ops : CallCancel(o)
  BY <1>2, <1>3 DEF ReadCancel, CallCancel
<1>4. CASE UNCHANGED vars
  BY <1>2, <1>4 DEF vars
<1> QED  BY <1>1, <1>3, <1>4, StreamMoves DEF Next, Quiet

------------------------------------------------------------------------------
\* In every reachable state a tracker is of the operation that writes to it,
\* and a stream opened during the operation in progress is not about to show
\* the terminal tracker of an earlier one.
THEOREM ServerStreamInvariant == Spec => []StreamInv
<1>1. ServerInv /\ StreamInv /\ [Next]_vars => StreamInv'
  BY StreamStep
<1> QED  BY <1>1, StreamInit, ServerInvariant, PTL DEF Spec

\* A stream that shows a terminal tracker ends there only if the tracker is of
\* the operation the stream was opened for, or that operation has ended.
LEMMA StreamCloses ==
    ASSUME ServerInv, StreamInv, [Next]_vars, NEW c \in Clients,
           client[c].pc = "load", client'[c].pc = "closed", client[c].for # None
    PROVE  trackers[Active].op = client[c].for \/ op[client[c].for] = "ended"
<1>0. TypeOK /\ OpenedDuring(c) /\ NothingStale(c)
  BY DEF ServerInv, StreamInv
<1>1. ~Keeps(c)
  BY DEF Keeps
<1>2. CASE Terminal(Active)
  BY <1>0, <1>2 DEF OpenedDuring, NothingStale, Shows
<1>3. ASSUME NEW d \in Clients, Connect(d) \/ ClientStep(d) \/ Disconnect(d) PROVE Terminal(Active)
  <2>1. CASE d = c
    BY <1>0, <1>3, <2>1, ClientDoes
  <2>2. CASE d # c
    <3>1. client'[c] = client[c]
      BY <1>0, <1>3, <2>2, ClientDoes
    <3> QED  BY <1>1, <3>1 DEF Keeps
  <2> QED  BY <2>1, <2>2
<1>4. ASSUME (\E t : Signal(t)) \/ UNCHANGED client PROVE FALSE
  BY <1>0, <1>1, <1>4, SignalKeeps
<1>5. ASSUME NEW o \in Ops, Start(o) \/ Refuse(o) \/ Proceed(o) \/ Update(o) \/ EndPass(o) \/ CallCancel(o)
      PROVE  FALSE
  BY <1>4, <1>5 DEF Start, Refuse, Proceed, InstallTracker, NextPass, Release, Update, EndPass, SetTerminal,
     Announce, ReturnEarly, CallCancel
<1>6. ASSUME ReadCancel \/ Quiet \/ UNCHANGED vars PROVE FALSE
  BY <1>4, <1>6 DEF ReadCancel, Quiet, vars
<1> QED  BY <1>2, <1>3, <1>5, <1>6 DEF Next

\* A stream opened while an operation was running, or starting and without a
\* tracker yet, does not end with the result of an earlier operation, for any
\* number of operations and streams.
THEOREM ServerNoStaleDone == Spec => NoStaleDone
<1> DEFINE Fresh == \A c \in Clients :
          client[c].pc = "load" /\ client'[c].pc = "closed" /\ client[c].for # None
              => trackers[Active].op = client[c].for \/ op[client[c].for] = "ended"
<1>1. ServerInv /\ StreamInv /\ [Next]_vars => [Fresh]_vars
  BY StreamCloses
<1> QED  BY <1>1, ServerInvariant, ServerStreamInvariant, PTL DEF Spec, NoStaleDone
=============================================================================
