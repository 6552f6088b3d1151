--------------------------- MODULE LaunchpadProofs ---------------------------
(***************************************************************************)
(* Proofs about the launcher for every pool size, every set of paths and   *)
(* every bound: LaunchpadInv is inductive, hence the safety properties of  *)
(* Launchpad; CountInv on top of it accounts for slots and descriptors;    *)
(* and every step is a step of WorkerLifecycle.                            *)
(***************************************************************************)
EXTENDS LaunchpadRefinement, FiniteSetTheorems, TLAPS

\* The facts about spawning that the callers of launchpad_spawn_worker need:
\* started from slots and a table that agree, with slot i not usable, it leaves
\* slots and a table that agree, and at most one channel gains a process.
LEMMA SpawnKeepsAgreement ==
    ASSUME TypeOK, FreshChannels,
           NEW i \in Slots, NEW slots \in SlotType, NEW table \in TableType,
           NEW given \in [Channels -> Apps \cup {NoApp}],
           \A c \in Channels : c >= nextChan => given[c] = NoApp,
           \A f \in Fds : table[f] # Closed => table[f].chan < nextChan,
           ~Idle(slots, i),
           Wired(slots, table, given, nextChan, proc),
           Owned(slots, table, proc),
           SpawnWorker(i, slots, table)
    PROVE  /\ pool' \in SlotType /\ fds' \in TableType
           /\ proc' \in [Channels -> {"none", "waiting", "app", "zombie", "gone"}]
           /\ held' \in [Channels -> SUBSET Ends]
           /\ nextChan' \in 1 .. MaxChannels + 1 /\ nextChan' >= nextChan
           /\ failed' \in Nat /\ faults' \in 0 .. MaxFaults
           /\ \A c \in Channels : c >= nextChan' => proc'[c] = "none"
           /\ \A f \in Fds : fds'[f] # Closed => fds'[f].chan < nextChan'
           /\ Wired(pool', fds', given, nextChan', proc')
           /\ Owned(pool', fds', proc')
           /\ \A k \in Slots \ {i} : pool'[k] = slots[k]
           /\ \A c \in Channels :
                 \/ proc'[c] = proc[c] /\ held'[c] = held[c]
                 \/ /\ c = nextChan /\ proc'[c] = "waiting"
                    /\ WorkerEnd(c) \in held'[c]
                    /\ Idle(pool', i) /\ pool'[i].pid = c
<1> USE LaunchpadAssumption DEF Channels, Fds, Slots
<1>0. /\ failed \in Nat /\ nextChan \in 1 .. MaxChannels + 1 /\ MaxChannels \in Nat
      /\ proc \in [Channels -> {"none", "waiting", "app", "zombie", "gone"}]
      /\ held \in [Channels -> SUBSET Ends] /\ faults \in 0 .. MaxFaults
  BY DEF TypeOK
<1>1. CASE SocketpairFails(slots, table)
  <2>1. /\ pool' = slots /\ fds' = table /\ failed' = failed + 1
        /\ proc' = proc /\ held' = held /\ nextChan' = nextChan
        /\ faults' \in 0 .. MaxFaults
    BY <1>1 DEF SocketpairFails, TypeOK
  <2>2. \A c \in Channels : c >= nextChan' => proc'[c] = "none"
    BY <2>1 DEF FreshChannels, Unborn
  <2>3. failed' \in Nat /\ nextChan' \in 1 .. MaxChannels + 1 /\ nextChan' >= nextChan
    BY <2>1 DEF TypeOK
  <2>4. Wired(pool', fds', given, nextChan', proc') /\ Owned(pool', fds', proc')
    BY <2>1
  <2>5. \A f \in Fds : fds'[f] # Closed => fds'[f].chan < nextChan'
    BY <2>1
  <2>6. QED
    BY <2>1, <2>2, <2>3, <2>4, <2>5 DEF TypeOK
<1>2. CASE ForkFails(slots, table)
  <2>1. /\ nextChan \in Channels /\ nextChan' = nextChan + 1
        /\ pool' = slots /\ failed' = failed + 1
        /\ proc' = proc /\ held' = held /\ faults' \in 0 .. MaxFaults
    BY <1>2 DEF ForkFails, TypeOK
  <2>2. PICK f \in Fds, g \in Fds :
           /\ TwoLowestFree(table, f, g)
           /\ fds' = [table EXCEPT ![f] = DaemonEnd(nextChan), ![g] = WorkerEnd(nextChan)]
    BY <1>2 DEF ForkFails
  <2>2a. table[f] = Closed /\ table[g] = Closed /\ f # g
    BY <2>2 DEF TwoLowestFree, Free
  <2>3. DaemonEnd(nextChan) \in Ends /\ WorkerEnd(nextChan) \in Ends
    BY <2>1 DEF DaemonEnd, WorkerEnd, Ends
  <2>4. fds' \in TableType
    BY <2>2, <2>3 DEF TableType
  <2>5. \A h \in Fds : \/ fds'[h] = table[h] /\ h # f /\ h # g
                       \/ table[h] = Closed /\ fds'[h].chan = nextChan
    BY <2>2, <2>2a DEF TableType, DaemonEnd, WorkerEnd
  <2>6. \A h \in Fds : fds'[h] # Closed => fds'[h].chan < nextChan'
    BY <2>1, <2>5 DEF TypeOK, TableType, Ends
  <2>7. proc[nextChan] = "none"
    BY <2>1 DEF FreshChannels, Unborn, TypeOK
  <2>8. Owned(pool', fds', proc')
    BY <2>1, <2>5, <2>7 DEF Owned
  <2>9. \A k \in Slots : Idle(slots, k) =>
           /\ slots[k].pid < nextChan' /\ slots[k].fd \in Fds
           /\ fds'[slots[k].fd] = DaemonEnd(slots[k].pid)
           /\ given[slots[k].pid] = NoApp
           /\ proc'[slots[k].pid] # "none"
    <3>1. TAKE k \in Slots
    <3>2. HAVE Idle(slots, k)
    <3>3. /\ slots[k].pid < nextChan /\ slots[k].fd \in Fds
          /\ table[slots[k].fd] = DaemonEnd(slots[k].pid)
          /\ given[slots[k].pid] = NoApp
          /\ proc[slots[k].pid] # "none"
      BY <3>2 DEF Wired
    <3>4. slots[k].pid \in Nat /\ slots[k].pid > 0
      BY <3>2 DEF Idle, SlotType
    <3>5. DaemonEnd(slots[k].pid) # Closed
      BY <3>4 DEF DaemonEnd, Closed
    <3>6. fds'[slots[k].fd] = table[slots[k].fd]
      BY <3>3, <3>5, <2>5
    <3>7. slots[k].pid < nextChan'
      BY <3>3, <3>4, <2>1
    <3>8. QED
      BY <3>3, <3>6, <3>7, <2>1
  <2>10. Wired(pool', fds', given, nextChan', proc')
    BY <2>1, <2>9 DEF Wired
  <2>11. \A c \in Channels : c >= nextChan' => proc'[c] = "none"
    <3>1. \A c \in Channels : c >= nextChan' => c >= nextChan
      BY <2>1
    <3>2. QED
      BY <2>1, <3>1 DEF FreshChannels, Unborn
  <2>12. failed' \in Nat /\ nextChan' \in 1 .. MaxChannels + 1 /\ nextChan' >= nextChan
    BY <1>0, <2>1
  <2>13. QED
    BY <2>1, <2>4, <2>6, <2>8, <2>10, <2>11, <2>12 DEF TypeOK
<1>3. CASE ForkSucceeds(i, slots, table)
  <2> DEFINE n == nextChan
  <2>1. /\ n \in Channels /\ nextChan' = n + 1
        /\ failed' = failed /\ faults' = faults
        /\ proc' = [proc EXCEPT ![n] = "waiting"]
        /\ held' = [held EXCEPT ![n] = OpenEnds(table) \cup {WorkerEnd(n)}]
    BY <1>3 DEF ForkSucceeds, TypeOK
  <2>2. PICK f, g \in Fds :
           /\ TwoLowestFree(table, f, g)
           /\ pool' = [slots EXCEPT ![i] = [pid |-> n, fd |-> f, busy |-> FALSE]]
           /\ fds' = [table EXCEPT ![f] = DaemonEnd(n)]
    BY <1>3, Zenon DEF ForkSucceeds
  <2>2a. table[f] = Closed
    BY <2>2 DEF TwoLowestFree, Free
  <2>3. DaemonEnd(n) \in Ends /\ WorkerEnd(n) \in Ends
    BY <2>1 DEF DaemonEnd, WorkerEnd, Ends
  <2>4. pool' \in SlotType /\ fds' \in TableType
    BY <2>1, <2>2, <2>3 DEF SlotType, TableType
  <2>5. held' \in [Channels -> SUBSET Ends]
    <3>1. OpenEnds(table) \subseteq Ends
      BY DEF OpenEnds, TableType
    <3>2. QED
      BY <3>1, <2>1, <2>3 DEF TypeOK
  <2>6. proc' \in [Channels -> {"none", "waiting", "app", "zombie", "gone"}]
    BY <2>1 DEF TypeOK
  <2>7. \A h \in Fds : fds'[h] = IF h = f THEN DaemonEnd(n) ELSE table[h]
    BY <2>2 DEF TableType
  <2>8. \A k \in Slots : pool'[k] = IF k = i THEN [pid |-> n, fd |-> f, busy |-> FALSE]
                                             ELSE slots[k]
    BY <2>2 DEF SlotType
  <2>9. Idle(pool', i) /\ pool'[i].pid = n /\ pool'[i].fd = f
    BY <2>1, <2>8 DEF Idle
  <2>10. \A k \in Slots \ {i} : pool'[k] = slots[k] /\ (Idle(pool', k) <=> Idle(slots, k))
    BY <2>8 DEF Idle
  <2>11. DaemonEnd(n).chan = n
    BY DEF DaemonEnd
  <2>12. \A h \in Fds : fds'[h] # Closed => fds'[h].chan < nextChan'
    <3>1. TAKE h \in Fds
    <3>2. HAVE fds'[h] # Closed
    <3>3. CASE h = f
      BY <3>3, <2>1, <2>7, <2>11
    <3>4. CASE h # f
      <4>1. fds'[h] = table[h] /\ table[h].chan < n
        BY <3>2, <3>4, <2>7
      <4>2. table[h].chan \in Nat
        BY <3>2, <4>1 DEF TableType, Ends
      <4>3. QED
        BY <4>1, <4>2, <2>1
    <3>5. QED
      BY <3>3, <3>4
  <2>13. \A k \in Slots : Idle(pool', k) =>
           /\ pool'[k].pid < nextChan' /\ pool'[k].fd \in Fds
           /\ fds'[pool'[k].fd] = DaemonEnd(pool'[k].pid)
           /\ given[pool'[k].pid] = NoApp
           /\ proc'[pool'[k].pid] # "none"
    <3>1. TAKE k \in Slots
    <3>2. HAVE Idle(pool', k)
    <3>3. CASE k = i
      <4>1. given[n] = NoApp /\ proc'[n] = "waiting"
        BY <2>1 DEF TypeOK
      <4>2. QED
        BY <3>3, <4>1, <2>1, <2>7, <2>9
    <3>4. CASE k # i
      <4>1. Idle(slots, k) /\ pool'[k] = slots[k]
        BY <3>2, <3>4, <2>10
      <4>2. /\ slots[k].pid < n /\ slots[k].fd \in Fds
            /\ table[slots[k].fd] = DaemonEnd(slots[k].pid)
            /\ given[slots[k].pid] = NoApp /\ proc[slots[k].pid] # "none"
        BY <4>1 DEF Wired
      <4>3. slots[k].pid \in Channels /\ slots[k].pid > 0
        BY <4>1 DEF Idle, SlotType
      <4>4. slots[k].fd # f
        BY <4>2, <4>3, <2>2a DEF DaemonEnd, Closed
      <4>5. /\ slots[k].pid < nextChan' /\ slots[k].pid # n
            /\ proc'[slots[k].pid] = proc[slots[k].pid]
        <5>1. slots[k].pid \in Nat /\ n \in Nat /\ slots[k].pid < n /\ nextChan' = n + 1
          BY <4>2, <4>3, <2>1
        <5>2. slots[k].pid # n /\ slots[k].pid < nextChan'
          BY <5>1
        <5>3. QED
          BY <1>0, <5>2, <4>3, <2>1
      <4>6. fds'[slots[k].fd] = table[slots[k].fd]
        BY <4>2, <4>4, <2>7
      <4>7. QED
        BY <4>1, <4>2, <4>5, <4>6
    <3>5. QED
      BY <3>3, <3>4
  <2>14. \A k, l \in Slots :
           Idle(pool', k) /\ Idle(pool', l) /\ k # l => pool'[k].pid # pool'[l].pid
    <3>1. \A k \in Slots \ {i} : Idle(pool', k) => pool'[k].pid < n
      BY <2>10 DEF Wired
    <3>2. QED
      BY <3>1, <2>1, <2>9, <2>10 DEF Wired
  <2>15. Wired(pool', fds', given, nextChan', proc')
    BY <2>13, <2>14 DEF Wired
  <2>16. Owned(pool', fds', proc')
    <3>1. SUFFICES ASSUME NEW h \in Fds, fds'[h] # Closed
                   PROVE  \/ \E k \in Slots : Idle(pool', k) /\ pool'[k].fd = h
                          \/ proc'[fds'[h].chan] = "none"
      BY DEF Owned
    <3>2. CASE h = f
      BY <3>2, <2>9
    <3>3. CASE h # f
      <4>1. fds'[h] = table[h] /\ table[h] # Closed /\ table[h].chan < n
        BY <3>1, <3>3, <2>7
      <4>2. \A k \in Slots : Idle(slots, k) => k # i /\ Idle(pool', k) /\ pool'[k] = slots[k]
        BY <2>10
      <4>3. table[h].chan \in Channels
        BY <4>1 DEF TableType, Ends
      <4>4. proc'[table[h].chan] = proc[table[h].chan]
        BY <4>1, <4>3, <2>1 DEF TypeOK
      <4>5. QED
        BY <4>1, <4>2, <4>4 DEF Owned
    <3>4. QED
      BY <3>2, <3>3
  <2>17. \A c \in Channels : c >= nextChan' => proc'[c] = "none"
    BY <2>1 DEF TypeOK, FreshChannels, Unborn
  <2>18. \A c \in Channels :
           \/ proc'[c] = proc[c] /\ held'[c] = held[c]
           \/ c = n /\ proc'[c] = "waiting" /\ WorkerEnd(c) \in held'[c]
    BY <2>1 DEF TypeOK
  <2>19. /\ nextChan' \in 1 .. MaxChannels + 1 /\ nextChan' >= nextChan
         /\ failed' \in Nat /\ faults' \in 0 .. MaxFaults
    BY <1>0, <2>1
  <2>20. \A k \in Slots \ {i} : pool'[k] = slots[k]
    BY <2>10
  <2>21. \A c \in Channels :
           \/ proc'[c] = proc[c] /\ held'[c] = held[c]
           \/ /\ c = n /\ proc'[c] = "waiting" /\ WorkerEnd(c) \in held'[c]
              /\ Idle(pool', i) /\ pool'[i].pid = c
    BY <2>9, <2>18
  <2>22. QED
    BY <2>4, <2>5, <2>6, <2>12, <2>15, <2>16, <2>17, <2>19, <2>20, <2>21
<1>4. QED
  BY <1>1, <1>2, <1>3 DEF SpawnWorker

-----------------------------------------------------------------------------
(* LaunchpadInv is inductive. *)

LEMMA InvInit == Init => LaunchpadInv
<1> SUFFICES ASSUME Init PROVE LaunchpadInv
  OBVIOUS
<1> USE LaunchpadAssumption DEF Init
<1>1. TypeOK
  BY DEF TypeOK, SlotType, TableType, ZeroSlot, Slots
<1>2. FreshChannels
  BY DEF FreshChannels, Unborn
<1>3. \A i \in Slots : ~Idle(pool, i)
  BY DEF Idle, ZeroSlot
<1>4. Wired(pool, fds, handed, nextChan, proc) /\ Owned(pool, fds, proc)
  BY <1>3 DEF Wired, Owned
<1>5. DaemonPhase
  BY <1>3 DEF DaemonPhase, Live
<1>6. PathsMatch /\ NoOrphanWorker
  BY DEF PathsMatch, NoOrphanWorker
<1>7. QED
  BY <1>1, <1>2, <1>4, <1>5, <1>6 DEF LaunchpadInv

\* A launch: the slot it picks, the descriptors and paths after it.
LEMMA LaunchKeepsInv ==
    ASSUME LaunchpadInv, NEW a \in Apps, LaunchApp(a)
    PROVE  LaunchpadInv'
<1> USE LaunchpadAssumption DEF LaunchpadInv
<1>1. PICK i \in Slots :
         /\ FirstIdle(i)
         /\ buf' = Write(a, i)
         /\ handed' = [handed EXCEPT ![pool[i].pid] = a]
         /\ SpawnWorker(i, MarkBusy(i), CloseSocket(i))
  BY DEF LaunchApp
<1> DEFINE p == pool[i].pid
           slots == MarkBusy(i)
           table == CloseSocket(i)
<1>2. /\ daemon = "serving" /\ daemon' = daemon /\ initIdx' = initIdx /\ ran' = ran
      /\ reply' = "true" /\ starts' = starts
  BY DEF LaunchApp
<1>3. /\ Idle(pool, i) /\ p \in Channels /\ p < nextChan
      /\ pool[i].fd \in Fds /\ fds[pool[i].fd] = DaemonEnd(p) /\ handed[p] = NoApp
  BY <1>1 DEF FirstIdle, Wired, Idle, TypeOK, SlotType
<1>4. /\ slots \in SlotType /\ ~Idle(slots, i)
      /\ \A k \in Slots \ {i} : slots[k] = pool[k]
  BY DEF MarkBusy, TypeOK, SlotType, Idle
<1>5. /\ table \in TableType
      /\ \A f \in Fds : table[f] = IF f = pool[i].fd THEN Closed ELSE fds[f]
  BY DEF CloseSocket, TypeOK, TableType
<1>6. handed' \in [Channels -> Apps \cup {NoApp}]
  BY <1>1 DEF TypeOK
<1>7. \A c \in Channels : handed'[c] = IF c = p THEN a ELSE handed[c]
  BY <1>1, <1>3 DEF TypeOK
<1>8. \A k \in Slots : Idle(slots, k) => k # i /\ Idle(pool, k)
  BY <1>4 DEF Idle
<1>9. \A c \in Channels : c >= nextChan => handed'[c] = NoApp
  <2>1. \A c \in Channels : c >= nextChan => handed[c] = NoApp /\ c # p
    BY <1>3 DEF FreshChannels, Unborn, TypeOK, Channels
  <2>2. QED
    BY <2>1, <1>7
<1>10. \A f \in Fds : table[f] # Closed => table[f].chan < nextChan
  BY <1>5 DEF FreshChannels
<1>11. Wired(slots, table, handed', nextChan, proc)
  <2>1. ASSUME NEW k \in Slots, Idle(slots, k)
        PROVE  /\ slots[k].pid < nextChan /\ slots[k].fd \in Fds
               /\ table[slots[k].fd] = DaemonEnd(slots[k].pid)
               /\ handed'[slots[k].pid] = NoApp
               /\ proc[slots[k].pid] # "none"
    <3>1. k # i /\ Idle(pool, k) /\ slots[k] = pool[k]
      BY <2>1, <1>4, <1>8
    <3>2. /\ pool[k].pid < nextChan /\ pool[k].fd \in Fds
          /\ fds[pool[k].fd] = DaemonEnd(pool[k].pid) /\ handed[pool[k].pid] = NoApp
          /\ pool[k].pid # p /\ proc[pool[k].pid] # "none"
      BY <3>1, <1>3 DEF Wired
    <3>3. pool[k].fd # pool[i].fd
      BY <3>2, <1>3 DEF DaemonEnd
    <3>4. pool[k].pid \in Channels
      BY <3>1 DEF Idle, TypeOK, SlotType
    <3>5. QED
      BY <3>1, <3>2, <3>3, <3>4, <1>5, <1>7
  <2>2. \A k, l \in Slots :
           Idle(slots, k) /\ Idle(slots, l) /\ k # l => slots[k].pid # slots[l].pid
    BY <1>4, <1>8 DEF Wired
  <2>3. QED
    BY <2>1, <2>2 DEF Wired
<1>12. Owned(slots, table, proc)
  <2>1. SUFFICES ASSUME NEW f \in Fds, table[f] # Closed
                 PROVE  \/ \E k \in Slots : Idle(slots, k) /\ slots[k].fd = f
                        \/ proc[table[f].chan] = "none"
    BY DEF Owned
  <2>2. f # pool[i].fd /\ table[f] = fds[f]
    BY <2>1, <1>5
  <2>3. \A k \in Slots \ {i} : Idle(pool, k) => Idle(slots, k) /\ slots[k].fd = pool[k].fd
    BY <1>4 DEF Idle
  <2>4. QED
    BY <2>1, <2>2, <2>3 DEF Owned
<1>13. SpawnWorker(i, slots, table)
  BY <1>1
<1> HIDE DEF slots, table
<1>14. /\ pool' \in SlotType /\ fds' \in TableType
       /\ proc' \in [Channels -> {"none", "waiting", "app", "zombie", "gone"}]
       /\ held' \in [Channels -> SUBSET Ends]
       /\ nextChan' \in 1 .. MaxChannels + 1 /\ nextChan' >= nextChan
       /\ failed' \in Nat /\ faults' \in 0 .. MaxFaults
       /\ \A c \in Channels : c >= nextChan' => proc'[c] = "none"
       /\ \A f \in Fds : fds'[f] # Closed => fds'[f].chan < nextChan'
       /\ Wired(pool', fds', handed', nextChan', proc')
       /\ Owned(pool', fds', proc')
       /\ \A k \in Slots \ {i} : pool'[k] = slots[k]
       /\ \A c \in Channels :
             \/ proc'[c] = proc[c] /\ held'[c] = held[c]
             \/ /\ c = nextChan /\ proc'[c] = "waiting" /\ WorkerEnd(c) \in held'[c]
                /\ Idle(pool', i) /\ pool'[i].pid = c
  BY SpawnKeepsAgreement, <1>4, <1>5, <1>6, <1>9, <1>10, <1>11, <1>12, <1>13
<1>15. \A c \in Channels :
          buf'[c] = IF c = p /\ a # EmptyPath /\ WorkerEndOpen(c) THEN a ELSE buf[c]
  <2>1. \A c \in Channels : fds[pool[i].fd] = DaemonEnd(c) <=> c = p
    BY <1>3 DEF DaemonEnd
  <2>2. QED
    BY <1>1, <2>1 DEF Write
<1>16. TypeOK'
  <2>1. buf' \in [Channels -> Apps \cup {NoApp}]
    BY <1>1 DEF Write, TypeOK
  <2>2. QED
    BY <2>1, <1>2, <1>6, <1>14 DEF TypeOK
<1>17. FreshChannels'
  <2>1. \A c \in Channels : c >= nextChan' => c >= nextChan
    BY <1>14 DEF TypeOK, Channels
  <2>2. QED
    BY <2>1, <1>9, <1>14 DEF FreshChannels, Unborn
<1>18. DaemonPhase'
  BY <1>2 DEF DaemonPhase, Up
<1>19. PathsMatch'
  <2>1. SUFFICES ASSUME NEW c \in Channels
                 PROVE  /\ buf'[c] # NoApp => buf'[c] = handed'[c]
                        /\ ran'[c] # NoApp => ran'[c] = handed'[c]
                        /\ proc'[c] = "app" => handed'[c] # NoApp
                        /\ proc'[c] = "waiting" => WorkerEnd(c) \in held'[c]
    BY DEF PathsMatch
  <2>2. CASE c = p
    BY <2>2, <1>2, <1>3, <1>7, <1>14, <1>15 DEF PathsMatch
  <2>3. CASE c # p
    BY <2>3, <1>2, <1>7, <1>14, <1>15 DEF PathsMatch
  <2>4. QED
    BY <2>2, <2>3
<1>20. NoOrphanWorker'
  <2>1. SUFFICES ASSUME NEW c \in Channels, proc'[c] = "waiting"
                 PROVE  \/ \E k \in Slots : Idle(pool', k) /\ pool'[k].pid = c
                        \/ buf'[c] # NoApp
                        \/ handed'[c] = EmptyPath
    BY DEF NoOrphanWorker
  <2>2. CASE c = nextChan /\ Idle(pool', i) /\ pool'[i].pid = c
    BY <2>2
  <2>3. CASE proc'[c] = proc[c] /\ c = p
    <3>1. WorkerEnd(c) \in held[c]
      BY <2>1, <2>3 DEF PathsMatch
    <3>2. WorkerEndOpen(c)
      BY <3>1 DEF WorkerEndOpen
    <3>3. QED
      BY <2>3, <3>2, <1>7, <1>15
  <2>4. CASE proc'[c] = proc[c] /\ c # p
    <3>1. \/ \E k \in Slots : Idle(pool, k) /\ pool[k].pid = c
          \/ buf[c] # NoApp
          \/ handed[c] = EmptyPath
      BY <2>1, <2>4, <1>2 DEF NoOrphanWorker, Up
    <3>2. ASSUME NEW k \in Slots, Idle(pool, k), pool[k].pid = c
          PROVE  Idle(pool', k) /\ pool'[k].pid = c
      <4>1. k # i
        BY <3>2, <2>4
      <4>2. pool'[k] = pool[k]
        BY <4>1, <1>4, <1>14
      <4>3. QED
        BY <4>2, <3>2 DEF Idle
    <3>3. QED
      BY <2>4, <3>1, <3>2, <1>7, <1>15
  <2>5. QED
    BY <2>1, <2>2, <2>3, <2>4, <1>14
<1>21. QED
  BY <1>14, <1>16, <1>17, <1>18, <1>19, <1>20

\* One turn of the initialisation loop.
LEMMA InitPoolKeepsInv ==
    ASSUME LaunchpadInv, InitPool
    PROVE  LaunchpadInv'
<1> USE LaunchpadAssumption DEF LaunchpadInv
<1> DEFINE i == initIdx
<1>1. /\ daemon = "init" /\ SpawnWorker(i, pool, fds) /\ initIdx' = i + 1
      /\ daemon' = IF i + 1 = PoolSize THEN "serving" ELSE "init"
      /\ buf' = buf /\ handed' = handed /\ ran' = ran /\ reply' = reply /\ starts' = starts
  BY DEF InitPool
<1>2. i \in Slots /\ \A k \in Slots : k >= i => ~Idle(pool, k)
  BY <1>1 DEF DaemonPhase, Slots, TypeOK
<1>3. ~Idle(pool, i)
  BY <1>2 DEF Slots
<1>4. /\ handed \in [Channels -> Apps \cup {NoApp}] /\ pool \in SlotType /\ fds \in TableType
      /\ \A c \in Channels : c >= nextChan => handed[c] = NoApp
      /\ \A f \in Fds : fds[f] # Closed => fds[f].chan < nextChan
  BY DEF TypeOK, FreshChannels, Unborn
<1>5. /\ pool' \in SlotType /\ fds' \in TableType
      /\ proc' \in [Channels -> {"none", "waiting", "app", "zombie", "gone"}]
      /\ held' \in [Channels -> SUBSET Ends]
      /\ nextChan' \in 1 .. MaxChannels + 1 /\ nextChan' >= nextChan
      /\ failed' \in Nat /\ faults' \in 0 .. MaxFaults
      /\ \A c \in Channels : c >= nextChan' => proc'[c] = "none"
      /\ \A f \in Fds : fds'[f] # Closed => fds'[f].chan < nextChan'
      /\ Wired(pool', fds', handed, nextChan', proc')
      /\ Owned(pool', fds', proc')
      /\ \A k \in Slots \ {i} : pool'[k] = pool[k]
      /\ \A c \in Channels :
            \/ proc'[c] = proc[c] /\ held'[c] = held[c]
            \/ /\ c = nextChan /\ proc'[c] = "waiting" /\ WorkerEnd(c) \in held'[c]
               /\ Idle(pool', i) /\ pool'[i].pid = c
  <2> HIDE DEF i
  <2> QED
    BY SpawnKeepsAgreement, <1>1, <1>2, <1>3, <1>4
<1>6. TypeOK'
  <2>1. initIdx' \in 0 .. PoolSize /\ daemon' \in {"init", "serving"}
    BY <1>1, <1>2 DEF Slots
  <2>2. QED
    BY <2>1, <1>1, <1>5 DEF TypeOK
<1>7. FreshChannels'
  <2>1. \A c \in Channels : c >= nextChan' => c >= nextChan
    BY <1>5 DEF TypeOK, Channels
  <2>2. QED
    BY <2>1, <1>1, <1>4, <1>5 DEF FreshChannels, Unborn
<1>8. DaemonPhase'
  <2>1. \A k \in Slots : k >= i + 1 => ~Idle(pool', k)
    <3>1. \A k \in Slots : k >= i + 1 => k # i /\ k >= i
      BY <1>2 DEF Slots
    <3>2. QED
      BY <3>1, <1>2, <1>5 DEF Idle
  <2>2. daemon' = "init" => i + 1 < PoolSize
    BY <1>1, <1>2 DEF Slots
  <2>3. QED
    BY <2>1, <2>2, <1>1 DEF DaemonPhase, Up
<1>9. PathsMatch'
  <2>1. SUFFICES ASSUME NEW c \in Channels
                 PROVE  /\ buf'[c] # NoApp => buf'[c] = handed'[c]
                        /\ ran'[c] # NoApp => ran'[c] = handed'[c]
                        /\ proc'[c] = "app" => handed'[c] # NoApp
                        /\ proc'[c] = "waiting" => WorkerEnd(c) \in held'[c]
    BY DEF PathsMatch
  <2>2. QED
    BY <1>1, <1>5 DEF PathsMatch
<1>10. NoOrphanWorker'
  <2>1. SUFFICES ASSUME NEW c \in Channels, proc'[c] = "waiting"
                 PROVE  \/ \E k \in Slots : Idle(pool', k) /\ pool'[k].pid = c
                        \/ buf'[c] # NoApp
                        \/ handed'[c] = EmptyPath
    BY DEF NoOrphanWorker
  <2>2. CASE Idle(pool', i) /\ pool'[i].pid = c
    BY <2>2, <1>2
  <2>3. CASE proc'[c] = proc[c]
    <3>1. \/ \E k \in Slots : Idle(pool, k) /\ pool[k].pid = c
          \/ buf[c] # NoApp
          \/ handed[c] = EmptyPath
      BY <2>1, <2>3, <1>1 DEF NoOrphanWorker, Up
    <3>2. ASSUME NEW k \in Slots, Idle(pool, k)
          PROVE  pool'[k] = pool[k] /\ Idle(pool', k)
      BY <3>2, <1>3, <1>5 DEF Idle
    <3>3. QED
      BY <3>1, <3>2, <1>1
  <2>4. QED
    BY <2>1, <2>2, <2>3, <1>5
<1>11. QED
  BY <1>1, <1>5, <1>6, <1>7, <1>8, <1>9, <1>10

\* The steps of systemd and the death of the daemon.
LEMMA ServiceKeepsInv ==
    ASSUME LaunchpadInv, ServiceStart \/ ServiceStop \/ DaemonDies \/ RefuseLaunch
    PROVE  LaunchpadInv'
<1> USE LaunchpadAssumption DEF LaunchpadInv
<1>1. CASE ServiceStart
  <2>1. TypeOK' /\ FreshChannels'
    BY <1>1 DEF ServiceStart, TypeOK, FreshChannels, Unborn
  <2>2. Wired(pool, fds, handed, nextChan, proc)' /\ Owned(pool, fds, proc)'
    BY <1>1 DEF ServiceStart
  <2>3. DaemonPhase'
    BY <1>1 DEF ServiceStart, DaemonPhase, Up
  <2>4. PathsMatch'
    BY <1>1 DEF ServiceStart, PathsMatch
  <2>5. NoOrphanWorker'
    BY <1>1 DEF ServiceStart, NoOrphanWorker, DaemonPhase, Live
  <2>6. QED
    BY <2>1, <2>2, <2>3, <2>4, <2>5
<1>2. CASE ServiceStop
  <2>1. TypeOK' /\ FreshChannels'
    BY <1>2 DEF ServiceStop, TypeOK, FreshChannels, Unborn, Live
  <2>2. \A c \in Channels : (proc'[c] = "none" <=> proc[c] = "none") /\ ~Live(c)'
    BY <1>2 DEF ServiceStop, Live, TypeOK
  <2>3. ~Up /\ ~Up'
    BY <1>2 DEF ServiceStop, Up
  <2>4. /\ \A k \in Slots : ~Idle(pool', k)
        /\ \A f \in Fds : fds'[f] = Closed
        /\ initIdx' = 0
    BY <1>2, <2>3 DEF ServiceStop, DaemonPhase, Idle
  <2>5. Wired(pool, fds, handed, nextChan, proc)' /\ Owned(pool, fds, proc)'
    BY <2>4 DEF Wired, Owned
  <2>6. DaemonPhase'
    BY <1>2, <2>2, <2>4 DEF ServiceStop, DaemonPhase
  <2>7. PathsMatch'
    BY <1>2, <2>2 DEF ServiceStop, PathsMatch, Live
  <2>8. NoOrphanWorker'
    BY <2>3 DEF NoOrphanWorker
  <2>9. QED
    BY <2>1, <2>5, <2>6, <2>7, <2>8
<1>3. CASE DaemonDies
  <2>1. TypeOK' /\ FreshChannels'
    BY <1>3 DEF DaemonDies, TypeOK, FreshChannels, Unborn, SlotType, TableType, ZeroSlot, Slots
  <2>2. ~Up' /\ daemon' = "dead" /\ initIdx' = 0
    BY <1>3 DEF DaemonDies, Up
  <2>3. /\ \A k \in Slots : ~Idle(pool', k)
        /\ \A f \in Fds : fds'[f] = Closed
    BY <1>3 DEF DaemonDies, Idle, ZeroSlot
  <2>4. Wired(pool, fds, handed, nextChan, proc)' /\ Owned(pool, fds, proc)'
    BY <2>3 DEF Wired, Owned
  <2>5. DaemonPhase'
    BY <2>2, <2>3 DEF DaemonPhase
  <2>6. PathsMatch'
    BY <1>3 DEF DaemonDies, PathsMatch
  <2>7. NoOrphanWorker'
    BY <2>2 DEF NoOrphanWorker
  <2>8. QED
    BY <2>1, <2>4, <2>5, <2>6, <2>7
<1>4. CASE RefuseLaunch
  <2>1. TypeOK' /\ FreshChannels'
    BY <1>4 DEF RefuseLaunch, TypeOK, FreshChannels, Unborn
  <2>2. Wired(pool, fds, handed, nextChan, proc)' /\ Owned(pool, fds, proc)'
    BY <1>4 DEF RefuseLaunch
  <2>3. DaemonPhase' /\ PathsMatch'
    BY <1>4 DEF RefuseLaunch, DaemonPhase, Up, PathsMatch
  <2>4. NoOrphanWorker'
    BY <1>4 DEF RefuseLaunch, NoOrphanWorker, Up
  <2>5. QED
    BY <2>1, <2>2, <2>3, <2>4
<1>5. QED
  BY <1>1, <1>2, <1>3, <1>4

\* A step of worker c changes c's process, its descriptors and its socket only.
LEMMA WorkerKeepsInv ==
    ASSUME LaunchpadInv, NEW c \in Channels, WorkerRuns(c) \/ AppReturns(c) \/ WorkerDies(c)
    PROVE  LaunchpadInv'
<1> USE LaunchpadAssumption DEF LaunchpadInv
<1>1. /\ daemon' = daemon /\ starts' = starts /\ initIdx' = initIdx
      /\ pool' = pool /\ fds' = fds /\ handed' = handed /\ nextChan' = nextChan /\ failed' = failed /\ reply' = reply
      /\ faults' \in 0 .. MaxFaults
  BY DEF WorkerRuns, StartApp, RejectApp, EndOfFile, AppReturns, WorkerDies, TypeOK
<1>2. /\ proc[c] \in {"waiting", "app"}
      /\ buf' = [buf EXCEPT ![c] = NoApp]
      /\ \/ /\ proc' = [proc EXCEPT ![c] = "app"] /\ held' = held
            /\ buf[c] \in Loadable
            /\ ran' = [ran EXCEPT ![c] = buf[c]]
         \/ /\ \E q \in {"zombie", "gone"} : proc' = [proc EXCEPT ![c] = q]
            /\ held' = [held EXCEPT ![c] = {}]
            /\ ran' = ran
  BY DEF WorkerRuns, StartApp, RejectApp, EndOfFile, AppReturns, WorkerDies, Exit, Live
<1>3. TypeOK'
  BY <1>1, <1>2 DEF TypeOK
<1>4. /\ \A d \in Channels \ {c} : /\ proc'[d] = proc[d] /\ held'[d] = held[d]
                                  /\ buf'[d] = buf[d] /\ ran'[d] = ran[d]
      /\ buf'[c] = NoApp
      /\ proc'[c] \in {"app", "zombie", "gone"}
      /\ proc'[c] = "app" => buf[c] \in Loadable /\ ran'[c] = buf[c]
      /\ proc'[c] # "app" => ran'[c] = ran[c]
  BY <1>2 DEF TypeOK
<1>5. FreshChannels'
  BY <1>1, <1>2, <1>4 DEF FreshChannels, Unborn
<1>6. Wired(pool, fds, handed, nextChan, proc)'
  <2>1. \A d \in Channels : proc[d] # "none" => proc'[d] # "none"
    BY <1>4
  <2>2. \A i \in Slots : Idle(pool, i) => pool[i].pid \in Channels
    BY DEF Idle, TypeOK, SlotType
  <2>3. QED
    BY <2>1, <2>2, <1>1 DEF Wired
<1>7. Owned(pool, fds, proc)'
  <2>1. \A d \in Channels : proc[d] = "none" => proc'[d] = "none"
    BY <1>2, <1>4
  <2>2. \A f \in Fds : fds[f] # Closed => fds[f].chan \in Channels
    BY DEF TypeOK, TableType, Ends
  <2>3. QED
    BY <2>1, <2>2, <1>1 DEF Owned
<1>8. DaemonPhase'
  <2>1. daemon # "stopped"
    BY <1>2 DEF DaemonPhase, Live
  <2>2. QED
    BY <2>1, <1>1 DEF DaemonPhase, Up
<1>9. PathsMatch'
  <2>1. buf[c] \in Loadable => buf[c] # NoApp
    OBVIOUS
  <2>2. QED
    BY <2>1, <1>1, <1>4 DEF PathsMatch
<1>10. NoOrphanWorker'
  BY <1>1, <1>4 DEF NoOrphanWorker, Up
<1>11. QED
  BY <1>3, <1>5, <1>6, <1>7, <1>8, <1>9, <1>10

LEMMA InvStep == LaunchpadInv /\ [Next]_vars => LaunchpadInv'
<1> SUFFICES ASSUME LaunchpadInv, [Next]_vars PROVE LaunchpadInv'
  OBVIOUS
<1>1. CASE ServiceStart \/ ServiceStop \/ DaemonDies \/ RefuseLaunch
  BY <1>1, ServiceKeepsInv
<1>2. CASE InitPool
  BY <1>2, InitPoolKeepsInv
<1>3. CASE \E a \in Apps : LaunchApp(a)
  BY <1>3, LaunchKeepsInv
<1>4. CASE \E c \in Channels : WorkerRuns(c) \/ AppReturns(c) \/ WorkerDies(c)
  BY <1>4, WorkerKeepsInv
<1>5. CASE UNCHANGED vars
  BY <1>5 DEF vars, LaunchpadInv, TypeOK, FreshChannels, Unborn, Wired, Owned, DaemonPhase,
              PathsMatch, NoOrphanWorker, Up, Live, Idle
<1>6. QED
  BY <1>1, <1>2, <1>3, <1>4, <1>5 DEF Next

THEOREM LaunchpadInvariant == Spec => []LaunchpadInv
BY InvInit, InvStep, PTL DEF Spec

\* Every variable keeps its type.
THEOREM TypeCorrect == Spec => []TypeOK
<1>1. LaunchpadInv => TypeOK
  BY DEF LaunchpadInv
<1>2. QED
  BY <1>1, LaunchpadInvariant, PTL

-----------------------------------------------------------------------------
(* The safety properties of the launcher. *)

\* A launch always reaches the worker its slot names, and no other slot shares it.
THEOREM IdleSlotsAreWired == Spec => []IdleSlotWired
<1>1. LaunchpadInv => IdleSlotWired
  BY DEF LaunchpadInv, Wired, IdleSlotWired
<1>2. QED
  BY <1>1, LaunchpadInvariant, PTL

\* The daemon has no descriptor open that it could not name, but for failed forks.
THEOREM NoDescriptorIsLost == Spec => []NoDescriptorLost
<1>1. LaunchpadInv => NoDescriptorLost
  BY DEF LaunchpadInv, Owned, NoDescriptorLost
<1>2. QED
  BY <1>1, LaunchpadInvariant, PTL

\* No worker waits for a path that will never come.
THEOREM NoWorkerIsOrphaned == Spec => []NoOrphanWorker
<1>1. LaunchpadInv => NoOrphanWorker
  BY DEF LaunchpadInv
<1>2. QED
  BY <1>1, LaunchpadInvariant, PTL

\* A worker runs the application it was picked for.
THEOREM WorkersRunTheirOwnApp == Spec => []RunsWhatItWasHanded
<1>1. LaunchpadInv => RunsWhatItWasHanded
  BY DEF LaunchpadInv, PathsMatch, RunsWhatItWasHanded
<1>2. QED
  BY <1>1, LaunchpadInvariant, PTL

\* The only step that hands out a path gives it to a worker that had none.
LEMMA HandingOut ==
    ASSUME LaunchpadInv, [Next]_vars
    PROVE  \/ handed' = handed
           \/ \E p \in Channels, a \in Apps :
                 /\ handed[p] = NoApp /\ proc[p] # "none"
                 /\ handed' = [handed EXCEPT ![p] = a]
<1>1. CASE \E a \in Apps : LaunchApp(a)
  <2>1. PICK a \in Apps, i \in Slots :
           FirstIdle(i) /\ handed' = [handed EXCEPT ![pool[i].pid] = a]
    BY <1>1 DEF LaunchApp
  <2>2. pool[i].pid \in Channels /\ handed[pool[i].pid] = NoApp /\ proc[pool[i].pid] # "none"
    BY <2>1, LaunchpadAssumption
       DEF LaunchpadInv, Wired, FirstIdle, Idle, TypeOK, SlotType
  <2>3. QED
    BY <2>1, <2>2
<1>2. CASE ~ \E a \in Apps : LaunchApp(a)
  BY <1>2 DEF Next, vars, ServiceStart, ServiceStop, DaemonDies, RefuseLaunch, InitPool,
              WorkerRuns, StartApp, RejectApp, EndOfFile, AppReturns, WorkerDies
<1>3. QED
  BY <1>1, <1>2

\* LaunchApp never picks the same worker twice.
THEOREM WorkersAreLaunchedOnce == Spec => OneLaunchPerWorker
<1>1. LaunchpadInv /\ [Next]_vars
         => [\A c \in Channels : handed[c] # NoApp => handed'[c] = handed[c]]_vars
  BY HandingOut DEF LaunchpadInv, TypeOK
<1>2. QED
  BY <1>1, LaunchpadInvariant, PTL DEF Spec, OneLaunchPerWorker

\* Why a refusal is final: it is answered only when no slot is idle, and only a
\* launch or the initialisation fills a slot.
RefusedInv == reply = "false" => daemon = "serving" /\ \A i \in Slots : ~Idle(pool, i)

THEOREM RefusalsAreFinal == Spec => RefusalIsFinal
<1>1. Init => RefusedInv
  BY DEF Init, RefusedInv
<1>2. RefusedInv /\ [Next]_vars => RefusedInv'
  <2> SUFFICES ASSUME RefusedInv, [Next]_vars PROVE RefusedInv'
    OBVIOUS
  <2>1. CASE InitPool
    BY <2>1 DEF InitPool, RefusedInv
  <2>2. CASE \E a \in Apps : LaunchApp(a)
    BY <2>2 DEF LaunchApp, RefusedInv
  <2>3. CASE ServiceStart \/ ServiceStop \/ DaemonDies \/ RefuseLaunch
    BY <2>3 DEF ServiceStart, ServiceStop, DaemonDies, RefuseLaunch, RefusedInv, Idle
  <2>4. CASE \E c \in Channels : WorkerRuns(c) \/ AppReturns(c) \/ WorkerDies(c)
    BY <2>4 DEF WorkerRuns, StartApp, RejectApp, EndOfFile, AppReturns, WorkerDies,
                RefusedInv, Idle
  <2>5. CASE UNCHANGED vars
    BY <2>5 DEF vars, RefusedInv, Idle
  <2>6. QED
    BY <2>1, <2>2, <2>3, <2>4, <2>5 DEF Next
<1>3. RefusedInv /\ [Next]_vars
         => [reply = "false" /\ daemon' = daemon => reply' # "true"]_vars
  <2> SUFFICES ASSUME RefusedInv, [Next]_vars, reply = "false" PROVE reply' # "true"
    OBVIOUS
  <2>1. ~ \E a \in Apps : LaunchApp(a)
    BY DEF LaunchApp, FirstIdle, RefusedInv
  <2>2. reply' \in {"none", "false"}
    BY <2>1 DEF Next, vars, ServiceStart, ServiceStop, DaemonDies, RefuseLaunch, InitPool,
                WorkerRuns, StartApp, RejectApp, EndOfFile, AppReturns, WorkerDies
  <2>3. QED
    BY <2>2
<1>4. QED
  BY <1>1, <1>2, <1>3, PTL DEF Spec, RefusalIsFinal

-----------------------------------------------------------------------------
(* Counting slots and descriptors: the accounts of launchpad_spawn_worker.  *)

Idles(slots) == {i \in Slots : Idle(slots, i)}
Opens(table) == {f \in Fds : table[f] # Closed}

\* The slots the daemon has tried to fill are idle or were lost to a failure,
\* and a descriptor is open for an idle slot or, two at a time, for a failure.
CountInv ==
    /\ Up => Cardinality(Idles(pool)) + failed
                = IF daemon = "init" THEN initIdx ELSE PoolSize
    /\ ~Up => failed = 0
    /\ Cardinality(Opens(fds)) <= Cardinality(Idles(pool)) + 2 * failed

LEMMA SlotsAndFdsAreFinite ==
    /\ IsFiniteSet(Slots) /\ IsFiniteSet(Fds)
    /\ \A slots : IsFiniteSet(Idles(slots)) /\ Cardinality(Idles(slots)) \in Nat
    /\ \A table : IsFiniteSet(Opens(table)) /\ Cardinality(Opens(table)) \in Nat
<1> USE LaunchpadAssumption
<1>1. IsFiniteSet(Slots) /\ IsFiniteSet(Fds)
  BY FS_Interval DEF Slots, Fds
<1>2. ASSUME NEW slots
      PROVE  IsFiniteSet(Idles(slots)) /\ Cardinality(Idles(slots)) \in Nat
  <2>1. Idles(slots) \in SUBSET Slots
    BY DEF Idles
  <2>2. IsFiniteSet(Idles(slots))
    BY <1>1, <2>1, FS_Subset
  <2>3. QED
    BY <2>2, FS_CardinalityType
<1>3. ASSUME NEW table
      PROVE  IsFiniteSet(Opens(table)) /\ Cardinality(Opens(table)) \in Nat
  <2>1. Opens(table) \in SUBSET Fds
    BY DEF Opens
  <2>2. IsFiniteSet(Opens(table))
    BY <1>1, <2>1, FS_Subset
  <2>3. QED
    BY <2>2, FS_CardinalityType
<1>4. QED
  BY <1>1, <1>2, <1>3

LEMMA OneMore ==
    ASSUME NEW S, IsFiniteSet(S), NEW x
    PROVE  /\ IsFiniteSet(S \cup {x}) /\ Cardinality(S \cup {x}) \in Nat
           /\ Cardinality(S) \in Nat
           /\ Cardinality(S \cup {x}) <= Cardinality(S) + 1
<1>1. IsFiniteSet(S \cup {x})
  BY FS_AddElement
<1>2. Cardinality(S \cup {x}) \in Nat /\ Cardinality(S) \in Nat
  BY <1>1, FS_CardinalityType
<1>3. Cardinality(S \cup {x}) = IF x \in S THEN Cardinality(S) ELSE Cardinality(S) + 1
  BY FS_AddElement
<1>4. QED
  BY <1>1, <1>2, <1>3

\* Every outcome of launchpad_spawn_worker gains an idle slot or a failure, and
\* opens no more than the one descriptor of the slot or the two of the failure.
LEMMA SpawnCounts ==
    ASSUME TypeOK, NEW i \in Slots, NEW slots \in SlotType, NEW table \in TableType,
           ~Idle(slots, i), SpawnWorker(i, slots, table)
    PROVE  /\ failed' \in Nat
           /\ \/ /\ Cardinality(Idles(pool')) = Cardinality(Idles(slots))
                 /\ failed' = failed + 1
                 /\ Cardinality(Opens(fds')) <= Cardinality(Opens(table)) + 2
              \/ /\ Cardinality(Idles(pool')) = Cardinality(Idles(slots)) + 1
                 /\ failed' = failed
                 /\ Cardinality(Opens(fds')) <= Cardinality(Opens(table)) + 1
<1> USE LaunchpadAssumption, SlotsAndFdsAreFinite
<1>0. IsFiniteSet(Opens(table))
  OBVIOUS
<1>1. failed \in Nat /\ nextChan \in Nat \ {0}
  BY DEF TypeOK
<1>2. CASE SocketpairFails(slots, table)
  <2>1. pool' = slots /\ fds' = table /\ failed' = failed + 1
    BY <1>2 DEF SocketpairFails
  <2>2. QED
    BY <1>1, <2>1
<1>3. CASE ForkFails(slots, table)
  <2>1. pool' = slots /\ failed' = failed + 1
    BY <1>3 DEF ForkFails
  <2>2. PICK f \in Fds, g \in Fds :
           fds' = [table EXCEPT ![f] = DaemonEnd(nextChan), ![g] = WorkerEnd(nextChan)]
    BY <1>3 DEF ForkFails
  <2>3. Opens(fds') \in SUBSET ((Opens(table) \cup {f}) \cup {g})
    BY <2>2 DEF Opens, TableType
  <2>4. /\ IsFiniteSet(Opens(table) \cup {f})
        /\ Cardinality(Opens(table) \cup {f}) <= Cardinality(Opens(table)) + 1
        /\ Cardinality(Opens(table) \cup {f}) \in Nat
    BY <1>0, OneMore
  <2>5. /\ IsFiniteSet((Opens(table) \cup {f}) \cup {g})
        /\ Cardinality((Opens(table) \cup {f}) \cup {g})
              <= Cardinality(Opens(table) \cup {f}) + 1
        /\ Cardinality((Opens(table) \cup {f}) \cup {g}) \in Nat
    BY <2>4, OneMore
  <2>6. Cardinality(Opens(fds')) <= Cardinality((Opens(table) \cup {f}) \cup {g})
    BY <2>3, <2>5, FS_Subset
  <2>7. Cardinality(Opens(fds')) <= Cardinality(Opens(table)) + 2
    BY <2>4, <2>5, <2>6
  <2>8. QED
    BY <1>1, <2>1, <2>7
<1>4. CASE ForkSucceeds(i, slots, table)
  <2>1. failed' = failed
    BY <1>4 DEF ForkSucceeds
  <2>2. PICK f \in Fds :
           /\ pool' = [slots EXCEPT ![i] = [pid |-> nextChan, fd |-> f, busy |-> FALSE]]
           /\ fds' = [table EXCEPT ![f] = DaemonEnd(nextChan)]
    BY <1>4 DEF ForkSucceeds
  <2>3. Idles(pool') = Idles(slots) \cup {i} /\ i \notin Idles(slots)
    BY <1>1, <2>2 DEF Idles, Idle, SlotType
  <2>4. Cardinality(Idles(pool')) = Cardinality(Idles(slots)) + 1
    BY <2>3, FS_AddElement
  <2>5. Opens(fds') \in SUBSET (Opens(table) \cup {f})
    BY <2>2 DEF Opens, TableType
  <2>6. /\ IsFiniteSet(Opens(table) \cup {f})
        /\ Cardinality(Opens(table) \cup {f}) <= Cardinality(Opens(table)) + 1
        /\ Cardinality(Opens(table) \cup {f}) \in Nat
    BY <1>0, OneMore
  <2>7. Cardinality(Opens(fds')) <= Cardinality(Opens(table) \cup {f})
    BY <2>5, <2>6, FS_Subset
  <2>8. Cardinality(Opens(fds')) <= Cardinality(Opens(table)) + 1
    BY <2>6, <2>7
  <2>9. QED
    BY <1>1, <2>1, <2>4, <2>8
<1>5. QED
  BY <1>2, <1>3, <1>4 DEF SpawnWorker

\* A daemon that is not up has no slot and no descriptor.
LEMMA DownCountsNothing ==
    ASSUME LaunchpadInv, ~Up
    PROVE  Cardinality(Idles(pool)) = 0 /\ Cardinality(Opens(fds)) = 0
<1>1. Idles(pool) = {} /\ Opens(fds) = {}
  BY DEF LaunchpadInv, DaemonPhase, Idles, Opens
<1>2. QED
  BY <1>1, FS_EmptySet

LEMMA InitPoolCounts == ASSUME LaunchpadInv, CountInv, InitPool PROVE CountInv'
<1> USE LaunchpadAssumption, SlotsAndFdsAreFinite
<1>1. /\ daemon = "init" /\ SpawnWorker(initIdx, pool, fds) /\ initIdx' = initIdx + 1
      /\ daemon' = IF initIdx + 1 = PoolSize THEN "serving" ELSE "init"
  BY DEF InitPool
<1>2. initIdx \in Slots /\ ~Idle(pool, initIdx) /\ initIdx \in Nat /\ failed \in Nat
  BY <1>1 DEF LaunchpadInv, DaemonPhase, TypeOK, Slots
<1>3. pool \in SlotType /\ fds \in TableType /\ TypeOK
  BY DEF LaunchpadInv, TypeOK
<1>4. /\ failed' \in Nat
      /\ \/ /\ Cardinality(Idles(pool')) = Cardinality(Idles(pool))
            /\ failed' = failed + 1
            /\ Cardinality(Opens(fds')) <= Cardinality(Opens(fds)) + 2
         \/ /\ Cardinality(Idles(pool')) = Cardinality(Idles(pool)) + 1
            /\ failed' = failed
            /\ Cardinality(Opens(fds')) <= Cardinality(Opens(fds)) + 1
  BY <1>1, <1>2, <1>3, SpawnCounts
<1>5. /\ Cardinality(Idles(pool)) + failed = initIdx
      /\ Cardinality(Opens(fds)) <= Cardinality(Idles(pool)) + 2 * failed
  BY <1>1 DEF CountInv, Up
<1>6. Cardinality(Idles(pool')) + failed' = initIdx + 1
  BY <1>2, <1>4, <1>5
<1>7. Cardinality(Opens(fds')) <= Cardinality(Idles(pool')) + 2 * failed'
  BY <1>2, <1>4, <1>5
<1>8. QED
  BY <1>1, <1>6, <1>7 DEF CountInv, Up, Idles, Opens, Idle

\* The launch takes the picked slot and its one descriptor out of both counts;
\* the replacement puts one of each back, or costs a failure.
LEMMA LaunchCounts ==
    ASSUME LaunchpadInv, CountInv, NEW a \in Apps, LaunchApp(a)
    PROVE  CountInv'
<1> USE LaunchpadAssumption, SlotsAndFdsAreFinite
<1>1. PICK i \in Slots : FirstIdle(i) /\ SpawnWorker(i, MarkBusy(i), CloseSocket(i))
  BY DEF LaunchApp
<1> DEFINE slots == MarkBusy(i)
           table == CloseSocket(i)
           fd == pool[i].fd
<1>2. daemon = "serving" /\ daemon' = daemon
  BY DEF LaunchApp
<1>3. /\ TypeOK /\ pool \in SlotType /\ fds \in TableType /\ failed \in Nat
      /\ Idle(pool, i) /\ fd \in Fds /\ fds[fd] # Closed
  <2>1. Idle(pool, i) /\ fd \in Fds /\ fds[fd] = DaemonEnd(pool[i].pid)
    BY <1>1 DEF FirstIdle, LaunchpadInv, Wired
  <2>2. QED
    BY <2>1 DEF LaunchpadInv, TypeOK, DaemonEnd, Closed
<1>4. slots \in SlotType /\ table \in TableType /\ ~Idle(slots, i)
  BY <1>3 DEF MarkBusy, CloseSocket, SlotType, TableType, Idle
<1>5. Idles(slots) = Idles(pool) \ {i} /\ i \in Idles(pool)
  BY <1>3 DEF Idles, MarkBusy, SlotType, Idle
<1>6. Opens(table) = Opens(fds) \ {fd} /\ fd \in Opens(fds)
  BY <1>3 DEF Opens, CloseSocket, TableType
<1>7. Cardinality(Idles(slots)) = Cardinality(Idles(pool)) - 1
  <2>1. IsFiniteSet(Idles(pool))
    OBVIOUS
  <2>2. Cardinality(Idles(pool) \ {i}) = Cardinality(Idles(pool)) - 1
    BY <1>5, <2>1, FS_RemoveElement
  <2>3. QED
    BY <1>5, <2>2
<1>8. Cardinality(Opens(table)) = Cardinality(Opens(fds)) - 1
  <2>1. IsFiniteSet(Opens(fds))
    OBVIOUS
  <2>2. Cardinality(Opens(fds) \ {fd}) = Cardinality(Opens(fds)) - 1
    BY <1>6, <2>1, FS_RemoveElement
  <2>3. QED
    BY <1>6, <2>2
<1>9. SpawnWorker(i, slots, table)
  BY <1>1
<1> HIDE DEF slots, table, fd
<1>10. /\ failed' \in Nat
       /\ \/ /\ Cardinality(Idles(pool')) = Cardinality(Idles(slots))
             /\ failed' = failed + 1
             /\ Cardinality(Opens(fds')) <= Cardinality(Opens(table)) + 2
          \/ /\ Cardinality(Idles(pool')) = Cardinality(Idles(slots)) + 1
             /\ failed' = failed
             /\ Cardinality(Opens(fds')) <= Cardinality(Opens(table)) + 1
  BY <1>3, <1>4, <1>9, SpawnCounts
<1>11. /\ Cardinality(Idles(pool)) + failed = PoolSize
       /\ Cardinality(Opens(fds)) <= Cardinality(Idles(pool)) + 2 * failed
  BY <1>2 DEF CountInv, Up
<1>12. Cardinality(Idles(pool')) + failed' = PoolSize
  BY <1>3, <1>7, <1>10, <1>11
<1>13. Cardinality(Opens(fds')) <= Cardinality(Idles(pool')) + 2 * failed'
  BY <1>3, <1>7, <1>8, <1>10, <1>11
<1>14. QED
  BY <1>2, <1>12, <1>13 DEF CountInv, Up, Idles, Opens, Idle

THEOREM CountInvariant == Spec => []CountInv
<1> USE LaunchpadAssumption
<1>1. Init => CountInv
  <2> SUFFICES ASSUME Init PROVE CountInv
    OBVIOUS
  <2>1. Cardinality(Idles(pool)) = 0 /\ Cardinality(Opens(fds)) = 0
    BY InvInit, DownCountsNothing DEF Init, Up
  <2>2. QED
    BY <2>1 DEF Init, CountInv, Up
<1>2. LaunchpadInv /\ LaunchpadInv' /\ CountInv /\ [Next]_vars => CountInv'
  <2> SUFFICES ASSUME LaunchpadInv, LaunchpadInv', CountInv, [Next]_vars PROVE CountInv'
    OBVIOUS
  <2>1. CASE ServiceStart
    <3>1. /\ ~Up /\ daemon' \in {"init", "failed"} /\ initIdx' = 0 /\ failed' = 0
          /\ pool' = pool /\ fds' = fds
      BY <2>1 DEF ServiceStart, Up, CountInv, LaunchpadInv, DaemonPhase
    <3>2. Cardinality(Idles(pool)) = 0 /\ Cardinality(Opens(fds)) = 0
      BY <3>1, DownCountsNothing
    <3>3. Idles(pool)' = Idles(pool) /\ Opens(fds)' = Opens(fds)
      BY <3>1 DEF Idles, Opens, Idle
    <3>4. QED
      BY <3>1, <3>2, <3>3 DEF CountInv, Up
  <2>2. CASE DaemonDies
    <3>1. ~Up' /\ failed' = 0
      BY <2>2 DEF DaemonDies, Up
    <3>2. Idles(pool)' = {} /\ Opens(fds)' = {}
      BY <3>1 DEF LaunchpadInv, DaemonPhase, Idles, Opens
    <3>3. QED
      BY <3>1, <3>2, FS_EmptySet DEF CountInv
  <2>3. CASE InitPool
    BY <2>3, InitPoolCounts
  <2>4. CASE \E a \in Apps : LaunchApp(a)
    BY <2>4, LaunchCounts
  <2>5. CASE ServiceStop
    <3>1. ~Up /\ ~Up' /\ failed' = failed /\ pool' = pool /\ fds' = fds
      BY <2>5 DEF ServiceStop, Up
    <3>2. QED
      BY <3>1 DEF CountInv, Idles, Opens, Idle
  <2>6. CASE \/ RefuseLaunch \/ UNCHANGED vars
             \/ \E c \in Channels : WorkerRuns(c) \/ AppReturns(c) \/ WorkerDies(c)
    <3>1. /\ daemon' = daemon /\ initIdx' = initIdx /\ failed' = failed
          /\ pool' = pool /\ fds' = fds
      BY <2>6 DEF RefuseLaunch, vars, WorkerRuns, StartApp, RejectApp, EndOfFile,
                  AppReturns, WorkerDies
    <3>2. QED
      BY <3>1 DEF CountInv, Up, Idles, Opens, Idle
  <2>7. QED
    BY <2>1, <2>2, <2>3, <2>4, <2>5, <2>6 DEF Next
<1>3. QED
  BY <1>1, <1>2, LaunchpadInvariant, PTL DEF Spec

\* The slots that can still launch are all of them but those lost to an early
\* return of launchpad_spawn_worker.
THEOREM SlotsAreAccountedFor == Spec => []SlotAccounting
<1>1. CountInv => SlotAccounting
  BY DEF CountInv, Up, Idles, SlotAccounting
<1>2. QED
  BY <1>1, CountInvariant, PTL

\* The leak of failed forks is bounded: two descriptors per slot.
THEOREM DescriptorsAreBounded == Spec => []DescriptorBound
<1>1. LaunchpadInv /\ CountInv => DescriptorBound
  <2> SUFFICES ASSUME LaunchpadInv, CountInv PROVE Cardinality(Opens(fds)) <= 2 * PoolSize
    BY DEF DescriptorBound, Opens
  <2>1. /\ Cardinality(Idles(pool)) \in Nat /\ Cardinality(Opens(fds)) \in Nat
        /\ failed \in Nat /\ initIdx \in 0 .. PoolSize /\ PoolSize \in Nat
    BY SlotsAndFdsAreFinite, LaunchpadAssumption DEF LaunchpadInv, TypeOK
  <2>2. CASE Up
    <3>1. Cardinality(Idles(pool)) + failed <= PoolSize
      BY <2>1, <2>2 DEF CountInv
    <3>2. QED
      BY <2>1, <3>1 DEF CountInv
  <2>3. CASE ~Up
    BY <2>1, <2>3, DownCountsNothing
  <2>4. QED
    BY <2>2, <2>3
<1>2. QED
  BY <1>1, CountInvariant, LaunchpadInvariant, PTL

-----------------------------------------------------------------------------
(* The launcher implements WorkerLifecycle. *)

\* What one step may do to one worker, besides giving it a path.
LEMMA ProcessSteps ==
    ASSUME LaunchpadInv, [Next]_vars, NEW c \in Channels
    PROVE  \/ proc'[c] = proc[c]
           \/ proc[c] = "none" /\ proc'[c] = "waiting" /\ handed'[c] = NoApp
           \/ /\ proc[c] = "waiting" /\ proc'[c] = "app"
              /\ handed[c] \in Loadable /\ handed'[c] = handed[c]
           \/ /\ proc[c] \in {"waiting", "app"} /\ proc'[c] \in {"zombie", "gone"}
              /\ handed'[c] = handed[c]
           \/ proc[c] = "zombie" /\ proc'[c] = "gone" /\ handed'[c] = handed[c]
<1> USE LaunchpadAssumption DEF LaunchpadInv
<1>1. ASSUME NEW i, NEW slots, NEW table, SpawnWorker(i, slots, table)
      PROVE  \/ proc' = proc
             \/ nextChan \in Channels /\ proc' = [proc EXCEPT ![nextChan] = "waiting"]
  BY <1>1 DEF SpawnWorker, SocketpairFails, ForkFails, ForkSucceeds, TypeOK, Channels
<1>2. ASSUME nextChan \in Channels, proc' = [proc EXCEPT ![nextChan] = "waiting"]
      PROVE  \/ proc'[c] = proc[c]
             \/ c = nextChan /\ proc[c] = "none" /\ proc'[c] = "waiting" /\ handed[c] = NoApp
  BY <1>2 DEF FreshChannels, Unborn, TypeOK, Channels
<1>3. CASE \E a \in Apps : LaunchApp(a)
  <2>1. PICK a \in Apps, i \in Slots :
           /\ FirstIdle(i)
           /\ handed' = [handed EXCEPT ![pool[i].pid] = a]
           /\ SpawnWorker(i, MarkBusy(i), CloseSocket(i))
    BY <1>3 DEF LaunchApp
  <2>2. pool[i].pid < nextChan /\ pool[i].pid \in Channels
    BY <2>1 DEF Wired, FirstIdle, Idle, TypeOK, SlotType
  <2>3. c = nextChan => handed'[c] = handed[c]
    BY <2>1, <2>2 DEF TypeOK, Channels
  <2>4. QED
    BY <2>1, <2>3, <1>1, <1>2
<1>4. CASE InitPool
  <2>1. SpawnWorker(initIdx, pool, fds) /\ handed' = handed
    BY <1>4 DEF InitPool
  <2>2. QED
    BY <2>1, <1>1, <1>2
<1>5. CASE ServiceStart \/ ServiceStop \/ DaemonDies \/ RefuseLaunch
  BY <1>5 DEF ServiceStart, ServiceStop, DaemonDies, RefuseLaunch, Live, TypeOK
<1>6. CASE \E d \in Channels : WorkerRuns(d) \/ AppReturns(d) \/ WorkerDies(d)
  <2>1. PICK d \in Channels : WorkerRuns(d) \/ AppReturns(d) \/ WorkerDies(d)
    BY <1>6
  <2>2. CASE StartApp(d)
    <3>1. /\ handed' = handed /\ proc[d] = "waiting" /\ buf[d] \in Loadable
          /\ proc' = [proc EXCEPT ![d] = "app"]
      BY <2>2 DEF StartApp
    <3>2. handed[d] \in Loadable
      BY <3>1 DEF PathsMatch
    <3>3. QED
      BY <3>1, <3>2 DEF TypeOK
  <2>3. CASE RejectApp(d) \/ EndOfFile(d) \/ AppReturns(d) \/ WorkerDies(d)
    <3>1. /\ handed' = handed /\ proc[d] \in {"waiting", "app"}
          /\ \E q \in {"zombie", "gone"} : proc' = [proc EXCEPT ![d] = q]
      BY <2>3 DEF RejectApp, EndOfFile, AppReturns, WorkerDies, Exit, Live
    <3>2. QED
      BY <3>1 DEF TypeOK
  <2>4. QED
    BY <2>1, <2>2, <2>3 DEF WorkerRuns
<1>7. CASE UNCHANGED vars
  BY <1>7 DEF vars
<1>8. QED
  BY <1>3, <1>4, <1>5, <1>6, <1>7 DEF Next

\* What a worker runs is the path it was given; nothing else sets what it ran.
LEMMA RunSteps ==
    ASSUME LaunchpadInv, [Next]_vars, NEW c \in Channels
    PROVE  IF proc[c] = "waiting" /\ proc'[c] = "app" THEN ran'[c] = handed[c]
                                                      ELSE ran'[c] = ran[c]
<1>1. CASE \E d \in Channels : StartApp(d)
  <2>1. PICK d \in Channels : StartApp(d)
    BY <1>1
  <2>2. /\ proc[d] = "waiting" /\ buf[d] \in Loadable
        /\ proc' = [proc EXCEPT ![d] = "app"] /\ ran' = [ran EXCEPT ![d] = buf[d]]
    BY <2>1 DEF StartApp
  <2>3. buf[d] = handed[d]
    BY <2>2, LaunchpadAssumption DEF LaunchpadInv, PathsMatch
  <2>4. QED
    BY <2>2, <2>3 DEF LaunchpadInv, TypeOK
<1>2. CASE ~ \E d \in Channels : StartApp(d)
  <2>1. ran' = ran
    BY <1>2 DEF Next, ServiceStart, InitPool, LaunchApp, RefuseLaunch, DaemonDies, ServiceStop,
         WorkerRuns, RejectApp, EndOfFile, AppReturns, WorkerDies, vars
  <2>2. ~(proc[c] = "waiting" /\ proc'[c] = "app")
    <3>1. ASSUME NEW d \in Channels, NEW q \in {"waiting", "zombie", "gone"},
                 proc' = [proc EXCEPT ![d] = q], proc[c] = "waiting"
          PROVE  proc'[c] # "app"
      BY <3>1 DEF LaunchpadInv, TypeOK
    <3>2. ASSUME NEW i, NEW slots, NEW table, SpawnWorker(i, slots, table)
          PROVE  \/ proc' = proc
                 \/ nextChan \in Channels /\ proc' = [proc EXCEPT ![nextChan] = "waiting"]
      BY <3>2, LaunchpadAssumption
         DEF SpawnWorker, SocketpairFails, ForkFails, ForkSucceeds, LaunchpadInv, TypeOK, Channels
    <3>3. CASE InitPool \/ \E a \in Apps : LaunchApp(a)
      BY <3>1, <3>2, <3>3 DEF InitPool, LaunchApp
    <3>4. CASE ServiceStart \/ ServiceStop \/ DaemonDies \/ RefuseLaunch \/ UNCHANGED vars
      BY <3>4 DEF ServiceStart, ServiceStop, DaemonDies, RefuseLaunch, vars, Live, LaunchpadInv,
                  TypeOK
    <3>5. CASE \E d \in Channels : RejectApp(d) \/ EndOfFile(d) \/ AppReturns(d) \/ WorkerDies(d)
      <4>1. PICK d \in Channels : RejectApp(d) \/ EndOfFile(d) \/ AppReturns(d) \/ WorkerDies(d)
        BY <3>5
      <4>2. Exit(d)
        BY <4>1 DEF RejectApp, EndOfFile, AppReturns, WorkerDies
      <4>3. QED
        BY <3>1, <4>2 DEF Exit
    <3>6. QED
      BY <1>2, <3>3, <3>4, <3>5 DEF Next, WorkerRuns
  <2>3. QED
    BY <2>1, <2>2
<1>3. QED
  BY <1>1, <1>2

\* The launcher implements the worker life it promises.
THEOREM LaunchpadImplementsLifecycle == Spec => ImplementsLifecycle
<1> USE LaunchpadAssumption
<1> DEFINE life == [c \in Channels |-> LifeOf(c)]
<1>1. Init => Lifecycle!Init
  BY DEF Init, Lifecycle!Init, LifeOf
<1>2. LaunchpadInv /\ [Next]_vars => Lifecycle!Next
  <2> SUFFICES ASSUME LaunchpadInv, [Next]_vars PROVE Lifecycle!Next
    OBVIOUS
  <2>1. TypeOK /\ TypeOK' /\ PathsMatch /\ PathsMatch'
    BY InvStep DEF LaunchpadInv
  <2>2. \A c \in Channels : life[c] = LifeOf(c) /\ life'[c] = LifeOf(c)'
    OBVIOUS
  <2>3. ASSUME NEW c \in Channels
        PROVE  \/ Lifecycle!Fork(c) \/ Lifecycle!Give(c) \/ Lifecycle!Run(c)
               \/ Lifecycle!Leave(c) \/ Lifecycle!Stay(c)
    <3>1. \/ handed'[c] = handed[c]
          \/ handed[c] = NoApp /\ handed'[c] \in Apps /\ proc[c] # "none"
      BY HandingOut, <2>1 DEF TypeOK
    <3>2. /\ proc[c] = "app" => handed[c] # NoApp
          /\ proc[c] \in {"none", "waiting", "app", "zombie", "gone"}
          /\ proc'[c] \in {"none", "waiting", "app", "zombie", "gone"}
      BY <2>1 DEF PathsMatch, TypeOK
    <3>3. QED
      BY <3>1, <3>2, ProcessSteps, RunSteps, <2>2
         DEF LifeOf, Lifecycle!Fork, Lifecycle!Give, Lifecycle!Run, Lifecycle!Leave,
             Lifecycle!Stay, Lifecycle!Keeps
  <2>4. \A v, w \in Channels : Lifecycle!Give(v) /\ Lifecycle!Give(w) => v = w
    <3>1. \A v \in Channels : Lifecycle!Give(v) => handed[v] = NoApp /\ handed'[v] # NoApp
      BY DEF Lifecycle!Give
    <3>2. QED
      BY <3>1, HandingOut, <2>1 DEF TypeOK
  <2>5. QED
    BY <2>3, <2>4 DEF Lifecycle!Next
<1>3. QED
  BY <1>1, <1>2, LaunchpadInvariant, PTL DEF Spec, ImplementsLifecycle, Lifecycle!Spec

-----------------------------------------------------------------------------
(* A path that was handed over is read.                                     *)

Left(c) == proc[c] # "waiting"

\* Nothing but the end of the worker's waiting takes the path out of its socket.
LEMMA ReadyStays ==
    ASSUME LaunchpadInv, [Next]_vars, NEW c \in Channels, Ready(c)
    PROVE  Ready(c)' \/ Left(c)'
<1> USE LaunchpadAssumption DEF LaunchpadInv
<1>1. SUFFICES ASSUME proc'[c] = "waiting" PROVE buf'[c] # NoApp
  BY DEF Ready, Left
<1>2. CASE \E a \in Apps : LaunchApp(a)
  BY <1>2 DEF LaunchApp, Write, Ready
<1>3. CASE \E d \in Channels : WorkerRuns(d) \/ AppReturns(d) \/ WorkerDies(d)
  <2>1. PICK d \in Channels : WorkerRuns(d) \/ AppReturns(d) \/ WorkerDies(d)
    BY <1>3
  <2>2. /\ buf' = [buf EXCEPT ![d] = NoApp]
        /\ \E q \in {"app", "zombie", "gone"} : proc' = [proc EXCEPT ![d] = q]
    BY <2>1 DEF WorkerRuns, StartApp, RejectApp, EndOfFile, AppReturns, WorkerDies, Exit
  <2>3. QED
    BY <1>1, <2>2 DEF Ready, TypeOK
<1>4. CASE ServiceStop
  BY <1>1, <1>4 DEF ServiceStop, Live, Ready, TypeOK
<1>5. CASE ServiceStart \/ InitPool \/ RefuseLaunch \/ DaemonDies \/ UNCHANGED vars
  BY <1>5 DEF ServiceStart, InitPool, RefuseLaunch, DaemonDies, Ready, vars
<1>6. QED
  BY <1>2, <1>3, <1>4, <1>5 DEF Next

\* Its own step, whichever the path allows, takes the worker out of waiting.
LEMMA ReadingLeaves ==
    ASSUME LaunchpadInv, NEW c \in Channels, WorkerRuns(c)
    PROVE  Left(c)'
BY DEF WorkerRuns, StartApp, RejectApp, EndOfFile, Exit, Left, LaunchpadInv, TypeOK

LEMMA FairToEach ==
    ASSUME NEW c \in Channels
    PROVE  Fairness => WorkerIsScheduled(c)
<1>1. WorkersAreScheduled => WorkerIsScheduled(c)
  BY DEF WorkersAreScheduled
<1>2. QED
  BY <1>1, PTL DEF Fairness

\* What weak fairness asks of a worker with a path to read and of each step of a restart:
\* that it can go on, whichever limit or failure its spawns end at. It is what the guards
\* say, but says so with ENABLED, which is outside of what is proved here.
WorkersCanRead == \A c \in Channels : Ready(c) => ENABLED <<WorkerRuns(c)>>_vars
RestartCanGoOn ==
    /\ daemon = "dead" => ENABLED <<ServiceStop>>_vars
    /\ daemon = "stopped" => ENABLED <<ServiceStart>>_vars
    /\ daemon = "init" => ENABLED <<InitPool>>_vars

\* PathIsRead: a worker whose socket holds a path reads it and leaves the waiting
\* state, as long as every worker is scheduled while it has a step to take
\* (worker_process_main).
THEOREM PathsAreRead == Spec /\ []WorkersCanRead => PathIsRead
<1> SUFFICES ASSUME NEW c \in Channels
             PROVE  Spec /\ []WorkersCanRead => (Ready(c) ~> proc[c] # "waiting")
  BY DEF PathIsRead
<1>1. LaunchpadInv /\ Ready(c) /\ [Next]_vars => Ready(c)' \/ Left(c)'
  BY ReadyStays
<1>2. LaunchpadInv /\ <<WorkerRuns(c)>>_vars => Left(c)'
  BY ReadingLeaves
<1>3. WorkersCanRead => (Ready(c) => ENABLED <<WorkerRuns(c)>>_vars)
  BY DEF WorkersCanRead
<1>4. Fairness => WorkerIsScheduled(c)
  BY FairToEach
<1>5. Spec => [][Next]_vars /\ Fairness
  BY DEF Spec
<1>6. Spec /\ []WorkersCanRead => (Ready(c) ~> Left(c))
  BY <1>1, <1>2, <1>3, <1>4, <1>5, LaunchpadInvariant, PTL DEF WorkerIsScheduled
<1>7. QED
  BY <1>6 DEF Left

-----------------------------------------------------------------------------
(* Why the service comes back: what a fair schedule of a restart needs.    *)

\* The steps until the daemon serves: systemd's two and one turn of launchpad_init_pool
\* for each slot. A service systemd has given up has none.
StepsToServe ==
    CASE daemon = "dead"    -> PoolSize + 2
      [] daemon = "stopped" -> PoolSize + 1
      [] daemon = "init"    -> PoolSize - initIdx
      [] OTHER              -> 0

\* Each of these steps counts, whether its socketpair and its fork succeed or not, and
\* nothing but a crash of the daemon undoes one: no slot is tried twice and no worker
\* holds the daemon up.
RestartsAreFinite ==
    [][/\ ServiceStop \/ ServiceStart \/ InitPool => StepsToServe' < StepsToServe
       /\ ~(ServiceStop \/ ServiceStart \/ InitPool) /\ daemon' # "dead"
            => StepsToServe' = StepsToServe
       /\ StepsToServe = 0 <=> daemon \in {"serving", "failed"}]_vars

LEMMA RestartCounts ==
    ASSUME LaunchpadInv, [Next]_vars
    PROVE  /\ ServiceStop \/ ServiceStart \/ InitPool => StepsToServe' < StepsToServe
           /\ ~(ServiceStop \/ ServiceStart \/ InitPool) /\ daemon' # "dead"
                => StepsToServe' = StepsToServe
           /\ StepsToServe = 0 <=> daemon \in {"serving", "failed"}
<1> USE LaunchpadAssumption
<1>1. /\ daemon \in {"stopped", "init", "serving", "dead", "failed"}
      /\ initIdx \in 0 .. PoolSize /\ PoolSize \in Nat \ {0}
      /\ daemon = "init" => initIdx < PoolSize
      /\ ~Up => initIdx = 0
  BY DEF LaunchpadInv, TypeOK, DaemonPhase
<1>2. CASE ServiceStop \/ ServiceStart
  <2>1. /\ initIdx' = initIdx /\ initIdx = 0
        /\ \/ daemon = "dead" /\ daemon' = "stopped"
           \/ daemon = "stopped" /\ daemon' \in {"init", "failed"}
    BY <1>1, <1>2 DEF ServiceStop, ServiceStart, Up
  <2>2. QED
    BY <1>1, <1>2, <2>1 DEF StepsToServe
<1>3. CASE InitPool
  <2>1. /\ daemon = "init" /\ initIdx' = initIdx + 1
        /\ daemon' = IF initIdx + 1 = PoolSize THEN "serving" ELSE "init"
    BY <1>3 DEF InitPool
  <2>2. QED
    BY <1>1, <1>3, <2>1 DEF StepsToServe
<1>4. CASE UNCHANGED <<daemon, initIdx>> /\ ~(ServiceStop \/ ServiceStart \/ InitPool)
  BY <1>1, <1>4 DEF StepsToServe
<1>5. CASE DaemonDies
  <2>1. Up /\ daemon' = "dead" /\ initIdx' = 0
    BY <1>5 DEF DaemonDies
  <2>2. ~(ServiceStop \/ ServiceStart \/ InitPool)
    BY <2>1 DEF ServiceStop, ServiceStart, InitPool, Up
  <2>3. QED
    BY <1>1, <2>1, <2>2 DEF StepsToServe
<1>6. \/ ServiceStop \/ ServiceStart \/ InitPool \/ DaemonDies
      \/ UNCHANGED <<daemon, initIdx>>
  BY DEF Next, LaunchApp, RefuseLaunch, WorkerRuns, StartApp, RejectApp, EndOfFile,
              AppReturns, WorkerDies, vars
<1>7. QED
  BY <1>2, <1>3, <1>4, <1>5, <1>6

\* A restart is at most PoolSize + 2 steps long, whatever fails in it (launchpad.service,
\* launchpad_init_pool).
THEOREM EveryRestartIsFinite == Spec => RestartsAreFinite
BY RestartCounts, LaunchpadInvariant, PTL DEF Spec, RestartsAreFinite

\* Systemd and the scheduler bring the daemon up only when faults come to an end, as each
\* crash may cost a whole restart: a fault still to come counts for one more than that.
FaultsLeft == MaxFaults - faults
StepsToBeUp == FaultsLeft * (PoolSize + 3) + StepsToServe

Down == daemon \notin {"serving", "failed"}

LEMMA Products ==
    ASSUME NEW j \in Nat, NEW k \in Nat, NEW d \in Nat
    PROVE  /\ j * d \in Nat
           /\ j < k => j * d <= k * d - d
           /\ j = k => j * d = k * d
<1>1. j * d \in Nat
  OBVIOUS
<1>2. ASSUME j < k PROVE j * d <= k * d - d
  <2>1. PICK i \in Nat : k = j + 1 + i
    <3>1. k - j - 1 \in Nat /\ k = j + 1 + (k - j - 1)
      BY <1>2
    <3>2. QED
      BY <3>1
  <2>2. k * d = j * d + d + i * d /\ i * d \in Nat
    BY <2>1
  <2>3. QED
    BY <1>1, <2>2
<1>3. QED
  BY <1>1, <1>2

LEMMA StepsType ==
    ASSUME LaunchpadInv
    PROVE  /\ StepsToServe \in Nat /\ StepsToServe <= PoolSize + 2 /\ StepsToBeUp \in Nat
           /\ FaultsLeft \in Nat /\ PoolSize \in Nat \ {0}
           /\ Down <=> StepsToServe # 0
<1>1. /\ daemon \in {"stopped", "init", "serving", "dead", "failed"}
      /\ initIdx \in 0 .. PoolSize /\ PoolSize \in Nat \ {0}
      /\ daemon = "init" => initIdx < PoolSize
      /\ faults \in 0 .. MaxFaults /\ MaxFaults \in Nat
  BY LaunchpadAssumption DEF LaunchpadInv, TypeOK, DaemonPhase
<1>2. /\ StepsToServe \in Nat /\ StepsToServe <= PoolSize + 2
      /\ Down <=> StepsToServe # 0
  BY <1>1 DEF StepsToServe, Down
<1>3. FaultsLeft \in Nat /\ PoolSize + 3 \in Nat
  BY <1>1 DEF FaultsLeft
<1>4. FaultsLeft * (PoolSize + 3) \in Nat
  BY <1>3, Products
<1>5. QED
  BY <1>1, <1>2, <1>3, <1>4 DEF StepsToBeUp

\* Failures only add up, and a crash is one.
LEMMA FaultsAddUp ==
    ASSUME LaunchpadInv, [Next]_vars
    PROVE  faults' >= faults /\ (DaemonDies => faults' > faults)
<1>1. faults \in Nat
  BY LaunchpadAssumption DEF LaunchpadInv, TypeOK
<1>2. ASSUME NEW i, NEW slots, NEW table, SpawnWorker(i, slots, table)
      PROVE  faults' = faults \/ faults' = faults + 1
  BY <1>2 DEF SpawnWorker, SocketpairFails, ForkFails, ForkSucceeds
<1>3. CASE InitPool
  BY <1>1, <1>2, <1>3 DEF InitPool, DaemonDies, Up
<1>4. CASE \E a \in Apps : LaunchApp(a)
  BY <1>1, <1>2, <1>4 DEF LaunchApp, DaemonDies
<1>5. CASE \/ ServiceStart \/ ServiceStop \/ RefuseLaunch \/ UNCHANGED vars
           \/ \E c \in Channels : WorkerRuns(c) \/ AppReturns(c)
  BY <1>1, <1>5 DEF DaemonDies, ServiceStart, ServiceStop, RefuseLaunch, vars, WorkerRuns, StartApp,
     RejectApp, EndOfFile, AppReturns
<1>6. CASE DaemonDies \/ \E c \in Channels : WorkerDies(c)
  BY <1>1, <1>6 DEF DaemonDies, WorkerDies
<1>7. QED
  BY <1>3, <1>4, <1>5, <1>6 DEF Next

\* Its three steps bring the daemon nearer to serving and nothing takes it further away.
RestartGoesOn ==
    /\ ServiceStop \/ ServiceStart \/ InitPool => StepsToBeUp' < StepsToBeUp
    /\ StepsToBeUp' < StepsToBeUp \/ (StepsToBeUp' = StepsToBeUp /\ daemon' = daemon)

LEMMA Weighed ==
    ASSUME NEW k \in Nat, NEW k1 \in Nat, NEW t \in Nat, NEW t1 \in Nat, NEW d \in Nat, k1 <= k
    PROVE  /\ t1 < t => k1 * d + t1 < k * d + t
           /\ k1 < k /\ t1 < d => k1 * d + t1 < k * d + t
           /\ t1 = t => k1 * d + t1 < k * d + t \/ k1 * d + t1 = k * d + t
<1>1. k1 * d \in Nat /\ k * d \in Nat
  BY Products
<1>2. CASE k1 < k
  <2>1. k1 * d <= k * d - d
    BY <1>2, Products
  <2>2. QED
    BY <1>1, <2>1
<1>3. CASE k1 = k
  BY <1>1, <1>3
<1>4. QED
  BY <1>2, <1>3

LEMMA RestartSteps ==
    ASSUME LaunchpadInv, LaunchpadInv', [Next]_vars, Down
    PROVE  RestartGoesOn
<1> DEFINE d == PoolSize + 3
<1>1. /\ StepsToServe \in Nat /\ PoolSize \in Nat \ {0} /\ FaultsLeft \in Nat
      /\ faults \in Nat /\ MaxFaults \in Nat
  BY StepsType, LaunchpadAssumption DEF LaunchpadInv, TypeOK
<1>2. PICK t1 \in Nat : t1 = StepsToServe' /\ t1 < d
  <2>1. (LaunchpadInv => StepsToServe \in Nat /\ StepsToServe <= PoolSize + 2)'
    BY StepsType, PTL
  <2>2. StepsToServe' \in Nat /\ StepsToServe' <= PoolSize + 2
    BY <2>1
  <2>3. QED
    BY <1>1, <2>2
<1>3. PICK f1 \in Nat : f1 = faults' /\ f1 >= faults /\ f1 <= MaxFaults
                          /\ (DaemonDies => f1 > faults)
  BY LaunchpadAssumption, FaultsAddUp DEF LaunchpadInv, TypeOK
<1>4. PICK k1 \in Nat : /\ k1 = FaultsLeft' /\ k1 <= FaultsLeft
                        /\ DaemonDies => k1 < FaultsLeft
  <2>1. FaultsLeft = MaxFaults - faults /\ FaultsLeft' = MaxFaults - f1
    BY <1>3 DEF FaultsLeft
  <2>2. MaxFaults - f1 \in Nat /\ MaxFaults - f1 <= MaxFaults - faults
    <3>1. f1 >= faults /\ f1 <= MaxFaults
      BY <1>3
    <3>2. QED
      BY <1>1, <3>1
  <2>3. ASSUME DaemonDies PROVE MaxFaults - f1 < MaxFaults - faults
    <3>1. f1 > faults
      BY <1>3, <2>3
    <3>2. QED
      BY <1>1, <3>1
  <2>4. QED
    BY <2>1, <2>2, <2>3
<1>5. StepsToBeUp = FaultsLeft * d + StepsToServe /\ StepsToBeUp' = k1 * d + t1
  BY <1>2, <1>4 DEF StepsToBeUp
<1>6. d \in Nat
  BY <1>1
<1> HIDE DEF d
<1>7. /\ t1 < StepsToServe => StepsToBeUp' < StepsToBeUp
      /\ k1 < FaultsLeft => StepsToBeUp' < StepsToBeUp
      /\ t1 = StepsToServe => StepsToBeUp' < StepsToBeUp \/ StepsToBeUp' = StepsToBeUp
  BY <1>1, <1>2, <1>4, <1>5, <1>6, Weighed
<1>8. CASE ServiceStop \/ ServiceStart \/ InitPool
  <2>1. t1 < StepsToServe
    BY <1>2, <1>8, RestartCounts
  <2>2. QED
    BY <1>1, <1>7, <2>1 DEF RestartGoesOn
<1>9. CASE DaemonDies
  <2>1. ~(ServiceStop \/ ServiceStart \/ InitPool)
    BY <1>9 DEF DaemonDies, ServiceStop, ServiceStart, InitPool, Up
  <2>2. QED
    BY <1>4, <1>7, <1>9, <2>1 DEF RestartGoesOn
<1>10. CASE ~(ServiceStop \/ ServiceStart \/ InitPool \/ DaemonDies)
  <2>1. daemon' = daemon /\ initIdx' = initIdx
    BY <1>10 DEF Next, LaunchApp, RefuseLaunch, WorkerRuns, StartApp, RejectApp, EndOfFile,
                 AppReturns, WorkerDies, vars
  <2>2. StepsToServe' = StepsToServe
    BY <2>1 DEF StepsToServe
  <2>3. QED
    BY <1>2, <1>7, <1>10, <2>1, <2>2 DEF RestartGoesOn
<1>11. QED
  BY <1>8, <1>9, <1>10

\* What ServiceComesBack is proved of: systemd and the scheduler are fair, and a restart can
\* go on.
RestartFlow ==
    /\ []LaunchpadInv /\ [][Next]_vars
    /\ WF_vars(ServiceStop) /\ WF_vars(ServiceStart) /\ WF_vars(InitPool)
    /\ []RestartCanGoOn

StepsOf == [restart |-> StepsToBeUp]
GoesOn == [restart |-> Down]

Restart == INSTANCE Descent WITH rank <- StepsOf, busy <- GoesOn

LEMMA RestartFalls ==
    ASSUME NEW n \in Nat PROVE RestartFlow => Restart!Falls("restart", n)
<1> DEFINE At(d) == StepsToBeUp = n /\ daemon = d
<1> DEFINE Nearer == StepsToBeUp < n
<1> DEFINE Its == ServiceStop \/ ServiceStart \/ InitPool
<1>1. ASSUME NEW d \in {"dead", "stopped", "init"}
      PROVE  LaunchpadInv /\ LaunchpadInv' /\ [Next]_vars /\ At(d)
               => (At(d)' \/ Nearer') /\ (Its => Nearer')
  <2>1. daemon = d => Down
    BY DEF Down
  <2>2. QED
    BY <2>1, RestartSteps DEF RestartGoesOn
<1>2. /\ At("dead") /\ RestartCanGoOn => ENABLED <<ServiceStop>>_vars
      /\ At("stopped") /\ RestartCanGoOn => ENABLED <<ServiceStart>>_vars
      /\ At("init") /\ RestartCanGoOn => ENABLED <<InitPool>>_vars
  BY DEF RestartCanGoOn
<1>3. LaunchpadInv =>
        (GoesOn["restart"] /\ StepsOf["restart"] = n
           => At("dead") \/ At("stopped") \/ At("init"))
  BY DEF LaunchpadInv, TypeOK, GoesOn, StepsOf, Down
<1>4. Nearer <=> StepsOf["restart"] < n
  BY DEF StepsOf
<1> HIDE DEF At, Nearer
<1>5. RestartFlow => [](At("dead") => <>Nearer)
  <2>1. LaunchpadInv /\ LaunchpadInv' /\ [Next]_vars /\ At("dead")
          => (At("dead")' \/ Nearer') /\ (ServiceStop => Nearer')
    BY <1>1
  <2>2. QED
    BY <1>2, <2>1, PTL DEF RestartFlow
<1>6. RestartFlow => [](At("stopped") => <>Nearer)
  <2>1. LaunchpadInv /\ LaunchpadInv' /\ [Next]_vars /\ At("stopped")
          => (At("stopped")' \/ Nearer') /\ (ServiceStart => Nearer')
    BY <1>1
  <2>2. QED
    BY <1>2, <2>1, PTL DEF RestartFlow
<1>7. RestartFlow => [](At("init") => <>Nearer)
  <2>1. LaunchpadInv /\ LaunchpadInv' /\ [Next]_vars /\ At("init")
          => (At("init")' \/ Nearer') /\ (InitPool => Nearer')
    BY <1>1
  <2>2. QED
    BY <1>2, <2>1, PTL DEF RestartFlow
<1>8. QED
  BY <1>3, <1>4, <1>5, <1>6, <1>7, PTL DEF RestartFlow, Restart!Falls

\* systemd gives a service up at its limit only, and for good.
AtTheLimit == daemon = "failed" => starts = StartLimitBurst

LEMMA GivenUpAtTheLimit == Spec => []AtTheLimit
<1>1. Init => AtTheLimit
  BY DEF Init, AtTheLimit
<1>2. AtTheLimit /\ [Next]_vars => AtTheLimit'
  BY DEF AtTheLimit, Next, ServiceStart, InitPool, LaunchApp, RefuseLaunch, DaemonDies,
         ServiceStop, WorkerRuns, StartApp, RejectApp, EndOfFile, AppReturns, WorkerDies, Up, vars
<1>3. QED
  BY <1>1, <1>2, PTL DEF Spec

\* ServiceComesBack: after a crash, and whatever fails or crashes while it restarts, the
\* daemon serves again or has been started as often as systemd's limit allows, as long as
\* systemd and the scheduler go on while a restart can (launchpad.service,
\* launchpad_init_pool).
THEOREM TheServiceComesBack == Spec /\ []RestartCanGoOn => ServiceComesBack
<1>1. Spec /\ []RestartCanGoOn => RestartFlow /\ []AtTheLimit
  BY LaunchpadInvariant, GivenUpAtTheLimit, PTL DEF Spec, Fairness, RestartFlow
<1>2. RestartFlow => Restart!Descending("restart")
  <2>1. LaunchpadInv => (GoesOn["restart"] => StepsOf["restart"] \in Nat)
    BY StepsType DEF StepsOf
  <2>2. RestartFlow => Restart!Ranked("restart")
    BY <2>1, PTL DEF RestartFlow, Restart!Ranked
  <2>3. RestartFlow => Restart!Descends("restart")
    BY <2>2, RestartFalls DEF Restart!Descends
  <2>4. QED
    BY <2>3, PTL DEF RestartFlow, Restart!Descending
<1>3. Restart!Descending("restart") => Restart!Rests("restart")
  BY Restart!Descent
<1>4. GoesOn["restart"] <=> Down
  BY DEF GoesOn
<1>5. RestartFlow => (Down ~> ~Down)
  BY <1>2, <1>3, <1>4, PTL DEF Restart!Rests
<1>6. daemon = "dead" => Down
  BY DEF Down
<1>7. AtTheLimit /\ ~Down =>
        daemon = "serving" \/ (daemon = "failed" /\ starts = StartLimitBurst)
  BY DEF Down, AtTheLimit
<1>8. RestartFlow /\ []AtTheLimit => ServiceComesBack
  BY <1>5, <1>6, <1>7, PTL DEF ServiceComesBack
<1>9. QED
  BY <1>1, <1>8

=============================================================================
