------------------------------ MODULE Launchpad ------------------------------
(***************************************************************************)
(* The pre-fork application launcher of                                    *)
(* app-framework/launchpad: the daemon's worker pool (launchpad-loader.c), *)
(* the D-Bus method LaunchApp (launchpad-daemon.c), the worker processes   *)
(* it forks, and systemd restarting the service (launchpad.service).       *)
(*                                                                         *)
(* The daemon is one thread, so a D-Bus call is one step; between two of   *)
(* its steps every worker may read, run, return or die on its own.         *)
(* Descriptor tables are modelled because fork() copies them: which        *)
(* process still holds an end of a socket decides who sees end-of-file,    *)
(* and a descriptor number the pool remembers may be reused by the kernel. *)
(*                                                                         *)
(* Nothing calls waitpid(), so a pid is not reused while the daemon lives; *)
(* the c-th socketpair and the worker forked on it share the number c.     *)
(***************************************************************************)
EXTENDS Naturals, FiniteSets

CONSTANTS
    PoolSize,     \* PREFORK_POOL_SIZE
    Apps,         \* what a client may pass as app_path
    Loadable,     \* the paths that dlopen() and that export app_main
    EmptyPath,    \* the path of length zero
    NoApp,        \* no path at all
    FdLimit,      \* descriptors the daemon may have open beyond its own
    ProcLimit,    \* children, zombies included, the kernel lets it have
    MaxChannels,  \* bound of the model: socketpairs ever made
    StartLimitBurst, \* starts systemd allows in StartLimitIntervalSec
    MaxFaults     \* bound of the model: failures the environment injects

ASSUME LaunchpadAssumption ==
    /\ PoolSize \in Nat \ {0}
    /\ FdLimit \in Nat
    /\ ProcLimit \in Nat
    /\ MaxChannels \in Nat
    /\ StartLimitBurst \in Nat \ {0}
    /\ MaxFaults \in Nat
    /\ Loadable \subseteq Apps
    /\ EmptyPath \in Apps \ Loadable
    /\ NoApp \notin Apps

Slots == 0 .. PoolSize - 1
Fds == 1 .. FdLimit
Channels == 1 .. MaxChannels

DaemonEnd(c) == [chan |-> c, side |-> "daemon"]     \* sv[0]
WorkerEnd(c) == [chan |-> c, side |-> "worker"]     \* sv[1]
Ends == [chan : Channels, side : {"daemon", "worker"}]
Closed == [chan |-> 0, side |-> "closed"]

ZeroSlot == [pid |-> 0, fd |-> 0, busy |-> FALSE]   \* static storage

VARIABLES
    daemon,    \* "stopped", "init", "serving", "dead" before systemd cleans up, or
               \* "failed" when it was started too often
    starts,    \* starts systemd has counted in the current interval
    initIdx,   \* the loop variable of launchpad_init_pool
    pool,      \* pool[i]: the PreForkWorker of slot i
    fds,       \* the daemon's descriptor table
    proc,      \* proc[c]: the process forked on channel c
    held,      \* held[c]: the socket ends that process has open
    buf,       \* buf[c]: the path in transit from the daemon end to the worker end
    handed,    \* handed[c]: the path of the LaunchApp that picked the worker
    ran,       \* ran[c]: the path whose app_main the worker called
    nextChan,  \* the next socketpair
    failed,    \* launchpad_spawn_worker calls of this daemon that returned early
    reply,     \* the answer to the last LaunchApp: "none", "true" or "false"
    faults     \* failures injected so far

vars == <<daemon, starts, initIdx, pool, fds, proc, held, buf, handed, ran, nextChan,
          failed, reply, faults>>

-----------------------------------------------------------------------------
(* The daemon's view of a slot, and descriptors. *)

Up == daemon \in {"init", "serving"}

Idle(slots, i) == ~slots[i].busy /\ slots[i].pid > 0

\* The slot the for loop of launchpad_launch_app stops at.
FirstIdle(i) == Idle(pool, i) /\ \A j \in Slots : j < i => ~Idle(pool, j)

Free(table) == {f \in Fds : table[f] = Closed}
OpenEnds(table) == {table[f] : f \in Fds} \ {Closed}

\* The kernel gives socketpair() the two lowest free descriptors.
TwoLowestFree(table, f, g) ==
    /\ f \in Free(table) /\ g \in Free(table) /\ f < g
    /\ \A h \in Free(table) : h = f \/ h >= g

\* Mutant: the slot stays idle until the replacement is in it.
MarkBusyForgotten(i) == pool

\* pool[i].is_busy = true
MarkBusy(i) == [pool EXCEPT ![i].busy = TRUE]

\* Mutant: the socket of the worker that was picked is never closed.
CloseForgotten(i) == fds

\* close(pool[i].socket_fd)
CloseSocket(i) == [fds EXCEPT ![pool[i].fd] = Closed]

Live(c) == proc[c] \in {"waiting", "app"}
Children == {c \in Channels : proc[c] \in {"waiting", "app", "zombie"}}

\* Somebody could still read what is written to, or write what is read from, c.
WorkerEndOpen(c) ==
    WorkerEnd(c) \in OpenEnds(fds) \cup UNION {held[d] : d \in Channels}
DaemonEndOpen(c) ==
    DaemonEnd(c) \in OpenEnds(fds) \cup UNION {held[d] : d \in Channels}

\* Mutant: the terminating NUL is all that is sent.
NothingWritten(a, i) == buf

\* write(pool[i].socket_fd, a, strlen(a)): the path goes wherever that
\* descriptor leads now. A worker that has died loses it (GIO ignores SIGPIPE,
\* so the daemon gets EPIPE) and a path of length zero puts nothing in the
\* socket; the result of write() is not looked at.
Write(a, i) ==
    [c \in Channels |->
        IF fds[pool[i].fd] = DaemonEnd(c) /\ a # EmptyPath /\ WorkerEndOpen(c)
        THEN a ELSE buf[c]]

-----------------------------------------------------------------------------
(* launchpad_spawn_worker(i), called with the slots and the descriptor      *)
(* table its caller has reached. Both error returns leave the slot alone.   *)

SocketpairFails(slots, table) ==
    /\ \/ Cardinality(Free(table)) < 2                       \* EMFILE
          /\ UNCHANGED faults
       \/ nextChan > MaxChannels                             \* bound of the model
          /\ UNCHANGED faults
       \/ faults < MaxFaults
          /\ faults' = faults + 1
    /\ pool' = slots /\ fds' = table
    /\ failed' = failed + 1
    /\ UNCHANGED <<proc, held, nextChan>>

\* Neither end is closed on this path.
ForkFails(slots, table) ==
    /\ nextChan <= MaxChannels
    /\ \/ Cardinality(Children) >= ProcLimit /\ UNCHANGED faults   \* EAGAIN
       \/ faults < MaxFaults /\ faults' = faults + 1
    /\ \E f, g \in Fds :
          /\ TwoLowestFree(table, f, g)
          /\ fds' = [table EXCEPT ![f] = DaemonEnd(nextChan), ![g] = WorkerEnd(nextChan)]
    /\ pool' = slots
    /\ nextChan' = nextChan + 1
    /\ failed' = failed + 1
    /\ UNCHANGED <<proc, held>>

\* Mutant: the parent keeps sv[1] and closes sv[0].
WrongEndKept(i, slots, table) ==
    /\ nextChan <= MaxChannels
    /\ Cardinality(Children) < ProcLimit
    /\ \E f, g \in Fds :
          /\ TwoLowestFree(table, f, g)
          /\ pool' = [slots EXCEPT ![i] = [pid |-> nextChan, fd |-> f, busy |-> FALSE]]
          /\ fds' = [table EXCEPT ![g] = WorkerEnd(nextChan)]
    /\ proc' = [proc EXCEPT ![nextChan] = "waiting"]
    /\ held' = [held EXCEPT ![nextChan] = OpenEnds(table) \cup {DaemonEnd(nextChan)}]
    /\ nextChan' = nextChan + 1
    /\ UNCHANGED <<failed, faults>>

\* The child closes sv[0] only: it keeps what the daemon had open.
ForkSucceeds(i, slots, table) ==
    /\ nextChan <= MaxChannels
    /\ Cardinality(Children) < ProcLimit
    /\ \E f, g \in Fds :
          /\ TwoLowestFree(table, f, g)
          /\ pool' = [slots EXCEPT ![i] = [pid |-> nextChan, fd |-> f, busy |-> FALSE]]
          /\ fds' = [table EXCEPT ![f] = DaemonEnd(nextChan)]
    /\ proc' = [proc EXCEPT ![nextChan] = "waiting"]
    /\ held' = [held EXCEPT ![nextChan] = OpenEnds(table) \cup {WorkerEnd(nextChan)}]
    /\ nextChan' = nextChan + 1
    /\ UNCHANGED <<failed, faults>>

SpawnWorker(i, slots, table) ==
    \/ SocketpairFails(slots, table)
    \/ ForkFails(slots, table)
    \/ ForkSucceeds(i, slots, table)

-----------------------------------------------------------------------------
(* The daemon. *)

\* Mutant: the unit has no Restart=always.
StartedOnce ==
    /\ daemon = "stopped" /\ nextChan = 1
    /\ daemon' = "init" /\ starts' = 1
    /\ UNCHANGED <<initIdx, pool, fds, proc, held, buf, handed, ran, nextChan,
                   failed, reply, faults>>

\* systemd starts the service: fresh memory, no socket open. The unit sets no limit of its
\* own, so a start that is one too many in the default interval leaves it failed for good;
\* whether the interval is over is the clock's choice.
ServiceStart ==
    /\ daemon = "stopped"
    /\ \/ daemon' = "init" /\ starts' = 1
       \/ starts < StartLimitBurst /\ daemon' = "init" /\ starts' = starts + 1
       \/ starts = StartLimitBurst /\ daemon' = "failed" /\ UNCHANGED starts
    /\ UNCHANGED <<initIdx, pool, fds, proc, held, buf, handed, ran, nextChan,
                   failed, reply, faults>>

\* Mutant: the loop runs to i <= PREFORK_POOL_SIZE.
InitPoolOneTooMany ==
    /\ daemon = "init"
    /\ SpawnWorker(initIdx, pool, fds)
    /\ initIdx' = initIdx + 1
    /\ daemon' = IF initIdx = PoolSize THEN "serving" ELSE "init"
    /\ UNCHANGED <<starts, buf, handed, ran, reply>>

\* One turn of the loop of launchpad_init_pool; after the last one the
\* daemon owns its bus name and serves.
InitPool ==
    /\ daemon = "init"
    /\ SpawnWorker(initIdx, pool, fds)
    /\ initIdx' = initIdx + 1
    /\ daemon' = IF initIdx + 1 = PoolSize THEN "serving" ELSE "init"
    /\ UNCHANGED <<starts, buf, handed, ran, reply>>

\* LaunchApp(a) finds an idle slot: write the path, close the socket, mark the
\* slot busy, fork the replacement; the caller is told "true" whatever failed.
LaunchApp(a) ==
    /\ daemon = "serving"
    /\ \E i \in Slots :
          /\ FirstIdle(i)
          /\ buf' = Write(a, i)
          /\ handed' = [handed EXCEPT ![pool[i].pid] = a]
          /\ SpawnWorker(i, MarkBusy(i), CloseSocket(i))
    /\ reply' = "true"
    /\ UNCHANGED <<daemon, starts, initIdx, ran>>

\* Mutant: only the first slot is tried.
RefuseEarly ==
    /\ daemon = "serving"
    /\ ~Idle(pool, 0)
    /\ reply' = "false"
    /\ UNCHANGED <<daemon, starts, initIdx, pool, fds, proc, held, buf, handed,
                   ran,
                   nextChan, failed, faults>>

\* LaunchApp finds every slot busy or never filled.
RefuseLaunch ==
    /\ daemon = "serving"
    /\ \A i \in Slots : ~Idle(pool, i)
    /\ reply' = "false"
    /\ UNCHANGED <<daemon, starts, initIdx, pool, fds, proc, held, buf, handed,
                   ran,
                   nextChan, failed, faults>>

\* The daemon dies: its descriptors close and its memory is gone. The zombies
\* are reaped by init.
DaemonDies ==
    /\ Up
    /\ faults < MaxFaults
    /\ faults' = faults + 1
    /\ daemon' = "dead"
    /\ initIdx' = 0
    /\ pool' = [i \in Slots |-> ZeroSlot]
    /\ fds' = [f \in Fds |-> Closed]
    /\ failed' = 0
    /\ reply' = "none"
    /\ proc' = [c \in Channels |-> IF proc[c] = "zombie" THEN "gone" ELSE proc[c]]
    /\ UNCHANGED <<starts, held, buf, handed, ran, nextChan>>

\* systemd kills what is left in the control group before it restarts.
ServiceStop ==
    /\ daemon = "dead"
    /\ daemon' = "stopped"
    /\ proc' = [c \in Channels |-> IF Live(c) THEN "gone" ELSE proc[c]]
    /\ held' = [c \in Channels |-> {}]
    /\ buf' = [c \in Channels |-> NoApp]
    /\ UNCHANGED <<starts, initIdx, pool, fds, handed, ran, nextChan, failed, reply, faults>>

-----------------------------------------------------------------------------
(* The workers: worker_process_main reads once and leaves. *)

\* The process is gone, its descriptors and what they had to read with it; a
\* daemon that lives never waits for it.
Exit(c) ==
    /\ proc' = [proc EXCEPT ![c] = IF Up THEN "zombie" ELSE "gone"]
    /\ held' = [held EXCEPT ![c] = {}]
    /\ buf' = [buf EXCEPT ![c] = NoApp]

\* Mutant: the results of dlopen() and dlsym() are not tested.
StartUnloaded(c) ==
    /\ proc[c] = "waiting"
    /\ buf[c] # NoApp
    /\ buf' = [buf EXCEPT ![c] = NoApp]
    /\ proc' = [proc EXCEPT ![c] = "app"]
    /\ ran' = [ran EXCEPT ![c] = buf[c]]
    /\ UNCHANGED <<daemon, starts, initIdx, pool, fds, held, handed, nextChan, failed,
                   reply, faults>>

\* read() returns a path, dlopen() and dlsym() succeed: app_main runs.
StartApp(c) ==
    /\ proc[c] = "waiting"
    /\ buf[c] \in Loadable
    /\ buf' = [buf EXCEPT ![c] = NoApp]
    /\ proc' = [proc EXCEPT ![c] = "app"]
    /\ ran' = [ran EXCEPT ![c] = buf[c]]
    /\ UNCHANGED <<daemon, starts, initIdx, pool, fds, held, handed, nextChan, failed,
                   reply, faults>>

\* Mutant: after a path that does not load the worker reads again.
ReadAgain(c) ==
    /\ proc[c] = "waiting"
    /\ buf[c] \in Apps \ Loadable
    /\ UNCHANGED vars

\* read() returns a path that does not load (a path cut at 511 bytes is one).
RejectApp(c) ==
    /\ proc[c] = "waiting"
    /\ buf[c] \in Apps \ Loadable
    /\ Exit(c)
    /\ UNCHANGED <<daemon, starts, initIdx, pool, fds, handed, ran, nextChan, failed,
                   reply, faults>>

\* read() returns 0: every copy of the daemon's end is closed.
EndOfFile(c) ==
    /\ proc[c] = "waiting"
    /\ buf[c] = NoApp
    /\ ~DaemonEndOpen(c)
    /\ Exit(c)
    /\ UNCHANGED <<daemon, starts, initIdx, pool, fds, handed, ran, nextChan, failed,
                   reply, faults>>

\* app_main returns; dlclose(), close(), exit().
AppReturns(c) ==
    /\ proc[c] = "app"
    /\ Exit(c)
    /\ UNCHANGED <<daemon, starts, initIdx, pool, fds, handed, ran, nextChan, failed,
                   reply, faults>>

\* The worker crashes or is killed, waiting or in app_main.
WorkerDies(c) ==
    /\ Live(c)
    /\ faults < MaxFaults
    /\ faults' = faults + 1
    /\ Exit(c)
    /\ UNCHANGED <<daemon, starts, initIdx, pool, fds, handed, ran, nextChan, failed,
                   reply>>

-----------------------------------------------------------------------------

Init ==
    /\ daemon = "stopped" /\ starts = 0
    /\ initIdx = 0
    /\ pool = [i \in Slots |-> ZeroSlot]
    /\ fds = [f \in Fds |-> Closed]
    /\ proc = [c \in Channels |-> "none"]
    /\ held = [c \in Channels |-> {}]
    /\ buf = [c \in Channels |-> NoApp]
    /\ handed = [c \in Channels |-> NoApp]
    /\ ran = [c \in Channels |-> NoApp]
    /\ nextChan = 1
    /\ failed = 0
    /\ reply = "none"
    /\ faults = 0

WorkerRuns(c) == StartApp(c) \/ RejectApp(c) \/ EndOfFile(c)

Next ==
    \/ ServiceStart
    \/ InitPool
    \/ \E a \in Apps : LaunchApp(a)
    \/ RefuseLaunch
    \/ DaemonDies
    \/ ServiceStop
    \/ \E c \in Channels : WorkerRuns(c) \/ AppReturns(c) \/ WorkerDies(c)

WorkerIsScheduled(c) == WF_vars(WorkerRuns(c))
WorkersAreScheduled == \A c \in Channels : WorkerIsScheduled(c)

\* systemd (Restart=always, within its start limit) and the scheduler make progress; clients
\* need not call, app_main need not return and nothing need fail.
Fairness ==
    /\ WF_vars(ServiceStart) /\ WF_vars(ServiceStop) /\ WF_vars(InitPool)
    /\ WorkersAreScheduled

Spec == Init /\ [][Next]_vars /\ Fairness

-----------------------------------------------------------------------------
(* Properties. *)

SlotType == [Slots -> [pid : {0} \cup Channels, fd : {0} \cup Fds, busy : BOOLEAN]]
TableType == [Fds -> Ends \cup {Closed}]

\* Every variable has its type.
TypeOK ==
    /\ daemon \in {"stopped", "init", "serving", "dead", "failed"}
    /\ starts \in 0 .. StartLimitBurst
    /\ initIdx \in 0 .. PoolSize
    /\ pool \in SlotType
    /\ fds \in TableType
    /\ proc \in [Channels -> {"none", "waiting", "app", "zombie", "gone"}]
    /\ held \in [Channels -> SUBSET Ends]
    /\ buf \in [Channels -> Apps \cup {NoApp}]
    /\ handed \in [Channels -> Apps \cup {NoApp}]
    /\ ran \in [Channels -> Apps \cup {NoApp}]
    /\ nextChan \in 1 .. MaxChannels + 1
    /\ failed \in Nat
    /\ reply \in {"none", "true", "false"}
    /\ faults \in 0 .. MaxFaults

\* A slot that the next launch may pick has an open socket, that socket leads to
\* the worker whose pid the slot holds, no other slot has it, and nobody has
\* been launched in that worker: descriptor numbers the kernel hands out again
\* never make two slots share a worker.
IdleSlotWired ==
    Up => \A i \in Slots : Idle(pool, i) =>
              /\ pool[i].fd \in Fds
              /\ fds[pool[i].fd] = DaemonEnd(pool[i].pid)
              /\ handed[pool[i].pid] = NoApp
              /\ \A j \in Slots \ {i} : Idle(pool, j) => pool[j].pid # pool[i].pid

\* The daemon leaks no descriptor except the two of a failed fork(): every open
\* one is the socket of an idle slot or an end of a pair nobody was forked on.
NoDescriptorLost ==
    \A f \in Fds : fds[f] # Closed =>
        \/ \E i \in Slots : Idle(pool, i) /\ pool[i].fd = f
        \/ proc[fds[f].chan] = "none"

\* Because each failed fork() also retires a slot, the leak is bounded: the
\* daemon never has more than two descriptors per slot open.
DescriptorBound == Cardinality({f \in Fds : fds[f] # Closed}) <= 2 * PoolSize

\* Every early return of launchpad_spawn_worker costs one slot for good: the
\* slots that can still launch are those minus the failures of this daemon.
SlotAccounting ==
    daemon = "serving" =>
        Cardinality({i \in Slots : Idle(pool, i)}) + failed = PoolSize

\* No worker waits for a path that will never come: it is in an idle slot, or a
\* path is on its way, or it was picked for the empty path and waits for
\* end-of-file.
NoOrphanWorker ==
    Up => \A c \in Channels : proc[c] = "waiting" =>
              \/ \E i \in Slots : Idle(pool, i) /\ pool[i].pid = c
              \/ buf[c] # NoApp
              \/ handed[c] = EmptyPath

\* A worker runs the application it was picked for, never the one of another
\* call.
RunsWhatItWasHanded == \A c \in Channels : ran[c] # NoApp => ran[c] = handed[c]

\* LaunchApp never picks the same worker twice.
OneLaunchPerWorker ==
    [][\A c \in Channels : handed[c] # NoApp => handed'[c] = handed[c]]_vars

\* Once LaunchApp has answered false it never answers true again before the
\* daemon is restarted: nothing refills a slot.
RefusalIsFinal == [][reply = "false" /\ daemon' = daemon => reply' # "true"]_vars

Ready(c) == proc[c] = "waiting" /\ buf[c] # NoApp

\* A worker whose socket holds a path reads it and leaves the waiting state.
PathIsRead ==
    \A c \in Channels : Ready(c) ~> proc[c] # "waiting"

\* After a crash the service is up again, and neither an unfilled slot nor a worker keeps
\* the daemon from serving: only systemd's start limit does, once it is reached.
ServiceComesBack ==
    daemon = "dead" ~> \/ daemon = "serving"
                       \/ daemon = "failed" /\ starts = StartLimitBurst

\* The comment at the top of launchpad-loader.c: the daemon keeps N idle workers
\* in memory and forks a replacement at once so that the number is maintained.
\* Read as weakly as it can be: while it serves, the pool is full again and again.
PoolIsMaintained ==
    daemon = "serving" ~>
        \/ daemon # "serving"
        \/ \A i \in Slots : Idle(pool, i) /\ proc[pool[i].pid] = "waiting"

-----------------------------------------------------------------------------
(* The inductive invariant behind the safety properties above.              *)

\* Slots and descriptors agree, for the slots and the table a handler has
\* reached: each idle slot owns its worker and the open descriptor to it, and
\* an open descriptor has such an owner or belongs to a failed fork().
Wired(slots, table, given, born, children) ==
    /\ \A i \in Slots : Idle(slots, i) =>
          /\ slots[i].pid < born
          /\ slots[i].fd \in Fds
          /\ table[slots[i].fd] = DaemonEnd(slots[i].pid)
          /\ given[slots[i].pid] = NoApp
          /\ children[slots[i].pid] # "none"
    /\ \A i, j \in Slots :
          Idle(slots, i) /\ Idle(slots, j) /\ i # j => slots[i].pid # slots[j].pid

Owned(slots, table, children) ==
    \A f \in Fds : table[f] # Closed =>
        \/ \E i \in Slots : Idle(slots, i) /\ slots[i].fd = f
        \/ children[table[f].chan] = "none"

\* Numbers not given out yet are untouched.
Unborn(c) == proc[c] = "none" /\ handed[c] = NoApp
FreshChannels ==
    /\ \A c \in Channels : c >= nextChan => Unborn(c)
    /\ \A f \in Fds : fds[f] # Closed => fds[f].chan < nextChan

\* A daemon that is down has no memory; one that initialises has filled no slot
\* from initIdx on.
DaemonPhase ==
    /\ ~Up => /\ initIdx = 0
              /\ \A i \in Slots : ~Idle(pool, i)
              /\ \A f \in Fds : fds[f] = Closed
    /\ daemon = "init" => /\ initIdx < PoolSize
                          /\ \A i \in Slots : i >= initIdx => ~Idle(pool, i)
    /\ daemon = "stopped" => /\ initIdx = 0
                             /\ \A c \in Channels : ~Live(c)

\* A path in a socket, and one being run, is the path of the LaunchApp call that
\* picked the worker.
PathsMatch ==
    \A c \in Channels :
        /\ buf[c] # NoApp => buf[c] = handed[c]
        /\ ran[c] # NoApp => ran[c] = handed[c]
        /\ proc[c] = "app" => handed[c] # NoApp
        /\ proc[c] = "waiting" => WorkerEnd(c) \in held[c]

LaunchpadInv ==
    /\ TypeOK
    /\ FreshChannels
    /\ Wired(pool, fds, handed, nextChan, proc)
    /\ Owned(pool, fds, proc)
    /\ DaemonPhase
    /\ PathsMatch
    /\ NoOrphanWorker

=============================================================================
