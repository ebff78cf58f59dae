--------------------------- MODULE ClientSessions ----------------------------
(***************************************************************************)
(* The life of a ClientSession in the hub: ClientSessionMgr (world         *)
(* thread), the SessionUpdater threads, and the login queue.               *)
(*                                                                         *)
(* A session is reference counted by hand: the socket thread creates it    *)
(* with one reference, AddSession takes one for the manager, and           *)
(* SessionUpdater::AddSession one for the updater thread.  The world       *)
(* thread drops its reference when UpdateSingle fails, the updater when    *)
(* UpdateMulti fails; the last one deletes the session.                    *)
(*                                                                         *)
(* The world thread runs ClientSessionMgr::Update in the phases            *)
(*   "add"     take sessions from _addSessQueue                            *)
(*   "update"  UpdateSingle of every session of the map                    *)
(*   "move"    UpdateDynamics gives every session to updater 0             *)
(*   "down"    after ServerClose                                           *)
(* and an updater thread runs svc in the steps "clear" (SetSleep), "add"   *)
(* (AddNewSessions), "run" (UpdateMulti of every session) and "exit".      *)
(***************************************************************************)
EXTENDS Integers, Sequences, FiniteSets, SequencesExt

CONSTANTS
    Sessions,    \* the ClientSession objects that may be created
    Accounts,
    Account,     \* ClientSession::_accountId
    Players,     \* the sessions with GetSecurity() = SEC_PLAYER
    Threads,     \* _SessionThreadsCount
    PlayerLimit, \* _playerLimit
    DynEnabled, DynMax,
    Word,        \* 2^32: session counts are uint32
    MaxCloses,   \* bound: clients that hang up
    MaxKicks,    \* bound: kicks by commands, bans and checks
    MaxMoves,    \* bound: rounds of UpdateDynamics
    MaxWipes,    \* bound: logouts that reset the session flags
    None

ASSUME SessionsAssumption ==
    /\ Account \in [Sessions -> Accounts]
    /\ Players \subseteq Sessions
    /\ None \notin Sessions /\ None \notin Accounts

ASSUME ThreadsAssumption ==
    /\ Threads \in Nat \ {0} /\ PlayerLimit \in Nat /\ DynMax \in Nat
    /\ Word \in Nat \ {0}
    /\ MaxCloses \in Nat /\ MaxKicks \in Nat /\ MaxMoves \in Nat
    /\ MaxWipes \in Nat /\ DynEnabled \in BOOLEAN

\* An account id is a uint32 and is not 0.
ASSUME AccountsAssumption == IsFiniteSet(Accounts) /\ Cardinality(Accounts) < Word

Updaters == 0 .. Threads - 1

VARIABLES
    \* ClientSession
    status,   \* "unborn", "alive", "freed"
    refs,     \* _referenceCount
    kicked,   \* FLAG_ACCOUNT_KICKED
    sock,     \* _ClientSocket: "open", "closing" or "null"
    held,     \* the socket thread still has its reference
    \* ClientSessionMgr
    addQ,     \* _addSessQueue
    map,      \* _sessions
    queue,    \* _QueuedPlayer
    phase,    \* where the world thread is
    todo,     \* the accounts its loop has not reached
    cursor,   \* the account whose UpdateSingle has read the KICKED flag
    \* SessionUpdater
    newQ,     \* _newSessions
    set,      \* m_Sessions
    counter,  \* m_Counter
    sleep,    \* _sleep
    stop,     \* _stop
    step,     \* where the thread is
    work,     \* the sessions its loop has not reached
    \* history
    replaced, \* sessions that AddSession_ overwrote in the map
    orphans,  \* sessions erased from the map while in the login queue
    closes, kicks, moves, wipes

sessVars == <<status, refs, kicked, sock, held>>
mgrVars  == <<addQ, map, queue, phase, todo, cursor>>
updVars  == <<newQ, set, counter, sleep, stop, step, work>>
bounds   == <<closes, kicks, moves, wipes>>
vars     == <<sessVars, mgrVars, updVars, replaced, orphans, bounds>>

-----------------------------------------------------------------------------
Online == {a \in Accounts : map[a] # None}

\* GetActiveAndQueuedSessionCount and GetActiveSessionCount, in uint32.
GetActiveAndQueuedSessionCount == Cardinality(Online)
GetActiveSessionCount == (Cardinality(Online) - Len(queue)) % Word

\* ClientSession::remove_reference: the last reference deletes the session.
RemoveReference(s) ==
    /\ refs' = [refs EXCEPT ![s] = @ - 1]
    /\ status' = [status EXCEPT ![s] = IF refs[s] = 1 THEN "freed" ELSE @]

Init ==
    /\ status = [s \in Sessions |-> "unborn"]
    /\ refs = [s \in Sessions |-> 0]
    /\ kicked = {}
    /\ sock = [s \in Sessions |-> "open"]
    /\ held = {}
    /\ addQ = <<>> /\ map = [a \in Accounts |-> None] /\ queue = <<>>
    /\ phase = "add" /\ todo = {} /\ cursor = None
    /\ newQ = [t \in Updaters |-> <<>>]
    /\ set = [t \in Updaters |-> {}]
    /\ counter = [t \in Updaters |-> 0]
    /\ sleep = {} /\ stop = FALSE
    /\ step = [t \in Updaters |-> "run"]
    /\ work = [t \in Updaters |-> {}]
    /\ replaced = {} /\ orphans = {} /\ closes = 0 /\ kicks = 0 /\ moves = 0 /\ wipes = 0

-----------------------------------------------------------------------------
(* Mutant of AddSession: the manager takes no reference.                   *)
AddUnreferenced(s) ==
    /\ status[s] = "unborn"
    /\ status' = [status EXCEPT ![s] = "alive"]
    /\ refs' = [refs EXCEPT ![s] = 1]
    /\ held' = held \cup {s}
    /\ addQ' = Append(addQ, s)
    /\ UNCHANGED <<kicked, sock, map, queue, phase, todo, cursor, updVars,
                   replaced, orphans, bounds>>

(* Socket threads.  ClientSocket::_handleAuthSession creates the session   *)
(* and gives it to AddSession; later it drops its own reference.           *)
AddSession(s) ==
    /\ status[s] = "unborn"
    /\ status' = [status EXCEPT ![s] = "alive"]
    /\ refs' = [refs EXCEPT ![s] = 2]
    /\ held' = held \cup {s}
    /\ addQ' = Append(addQ, s)
    /\ UNCHANGED <<kicked, sock, map, queue, phase, todo, cursor, updVars,
                   replaced, orphans, bounds>>

AuthSessionReturns(s) ==
    /\ s \in held
    /\ RemoveReference(s)
    /\ held' = held \ {s}
    /\ UNCHANGED <<kicked, sock, mgrVars, updVars, replaced, orphans, bounds>>

(* The client hangs up, or a send on its socket fails.                     *)
CloseSocket(s) ==
    /\ status[s] = "alive" /\ sock[s] = "open"
    /\ closes < MaxCloses /\ closes' = closes + 1
    /\ sock' = [sock EXCEPT ![s] = "closing"]
    /\ UNCHANGED <<status, refs, kicked, held, mgrVars, updVars, replaced, orphans, kicks, moves, wipes>>

(* KickPlayer from a command, a ban, Warden or a failed login.             *)
KickPlayer(s) ==
    /\ \E a \in Accounts : map[a] = s
    /\ s \notin kicked /\ kicks < MaxKicks
    /\ kicks' = kicks + 1
    /\ kicked' = kicked \cup {s}
    /\ UNCHANGED <<status, refs, sock, held, mgrVars, updVars, replaced, orphans, closes, moves, wipes>>

-----------------------------------------------------------------------------
(* ClientSessionMgr::RemoveQueuedPlayer(old): the queue after old has left *)
(* it and, when there is room, the first player has been admitted.         *)
Found(old) == Contains(queue, old)

RemoveQueuedPlayer(old) ==
    LET rest   == RemoveFirst(queue, old)
        active == IF ~Found(old) /\ GetActiveSessionCount > 0
                  THEN GetActiveSessionCount - 1 ELSE GetActiveSessionCount
    IN  IF (PlayerLimit = 0 \/ active < PlayerLimit) /\ rest # <<>>
        THEN Tail(rest) ELSE rest

(* Mutant of MustQueue: one player more.                                   *)
QueueLate(s, others) == PlayerLimit > 0 /\ others > PlayerLimit /\ s \in Players

(* Whether AddSession_ queues s, next to so many other sessions.           *)
MustQueue(s, others) == PlayerLimit > 0 /\ others >= PlayerLimit /\ s \in Players

(* The updater AddSession_ gives the session to.                           *)
LeastLoaded ==
    CHOOSE t \in Updaters : \A u \in Updaters :
        counter[t] < counter[u] \/ (counter[t] = counter[u] /\ t <= u)

ChooseUpdater ==
    IF DynEnabled /\ counter[0] < DynMax THEN 0 ELSE LeastLoaded

(* Mutant of GiveTo: the updater takes no reference.                       *)
GiveUnreferenced(t, s) ==
    /\ counter' = [counter EXCEPT ![t] = @ + 1]
    /\ newQ' = [newQ EXCEPT ![t] = Append(@, s)]
    /\ UNCHANGED refs

(* SessionUpdater::AddSession.                                             *)
GiveTo(t, s) ==
    /\ counter' = [counter EXCEPT ![t] = @ + 1]
    /\ newQ' = [newQ EXCEPT ![t] = Append(@, s)]
    /\ refs' = [refs EXCEPT ![s] = @ + 1]

(* ClientSessionMgr::AddSession_: kick the session the account already     *)
(* has, put the new one in its place and hand it to an updater thread;     *)
(* a player beyond the limit goes into the login queue.                    *)
AddSession_ ==
    /\ phase = "add" /\ addQ # <<>>
    /\ LET s      == Head(addQ)
           old    == map[Account[s]]
           rest   == IF old = None THEN queue ELSE RemoveQueuedPlayer(old)
           size   == Cardinality(Online \cup {Account[s]})
           others == IF old # None /\ Found(old) THEN size ELSE size - 1
       IN  /\ kicked' = IF old = None THEN kicked ELSE kicked \cup {old}
           /\ replaced' = IF old = None THEN replaced ELSE replaced \cup {old}
           /\ map' = [map EXCEPT ![Account[s]] = s]
           /\ GiveTo(ChooseUpdater, s)
           /\ queue' = IF MustQueue(s, others) THEN Append(rest, s) ELSE rest
    /\ addQ' = Tail(addQ)
    /\ UNCHANGED <<status, sock, held, phase, todo, cursor, set, sleep, stop, step,
                   work, orphans, bounds>>

(* _addSessQueue is empty: start to update the sessions of the map.        *)
StartUpdate ==
    /\ phase = "add" /\ addQ = <<>>
    /\ phase' = "update" /\ todo' = Online
    /\ UNCHANGED <<sessVars, addQ, map, queue, cursor, updVars, replaced, orphans, bounds>>

(* UpdateSingle has failed: kick, drop the manager's reference, erase.     *)
Erase(a) ==
    /\ kicked' = kicked \cup {map[a]}
    /\ orphans' = orphans \cup {s \in {map[a]} : Contains(queue, s)}
    /\ RemoveReference(map[a])
    /\ map' = [map EXCEPT ![a] = None]
    /\ cursor' = None
    /\ todo' = todo \ {a}
    /\ UNCHANGED <<sock, held, addQ, queue, phase, updVars, replaced, bounds>>

(* Mutant of UpdateSingle: the flag is left to the updater thread.         *)
UpdateSingleUnkicked(a) ==
    /\ phase = "update" /\ cursor = None /\ a \in todo
    /\ cursor' = a
    /\ UNCHANGED <<sessVars, addQ, map, queue, phase, todo, updVars, replaced, orphans, bounds>>

(* ClientSession::UpdateSingle reads FLAG_ACCOUNT_KICKED ...               *)
UpdateSingle(a) ==
    /\ phase = "update" /\ cursor = None /\ a \in todo
    /\ \/ map[a] \in kicked /\ Erase(a)
       \/ /\ map[a] \notin kicked
          /\ cursor' = a
          /\ UNCHANGED <<sessVars, addQ, map, queue, phase, todo, updVars, replaced, orphans, bounds>>

(* ... handles the node's packets; Handle_SMSG_LOGOUT_COMPLETE sets        *)
(* _sessionflags to 0 when the player was not on the master ...            *)
LogoutComplete ==
    /\ cursor # None
    /\ wipes < MaxWipes /\ wipes' = wipes + 1
    /\ kicked' = kicked \ {map[cursor]}
    /\ UNCHANGED <<status, refs, sock, held, mgrVars, updVars, replaced, orphans, closes, kicks, moves>>

(* ... and then looks at the client's socket.                              *)
UpdateSingleClient ==
    /\ cursor # None
    /\ \/ sock[map[cursor]] # "open" /\ Erase(cursor)
       \/ /\ sock[map[cursor]] = "open"
          /\ todo' = todo \ {cursor}
          /\ cursor' = None
          /\ UNCHANGED <<sessVars, addQ, map, queue, phase, updVars, replaced, orphans, bounds>>

(* The end of Update.  UpdateDynamics has nothing to do, or its timer has  *)
(* not run out ...                                                         *)
UpdateDone ==
    /\ phase = "update" /\ todo = {}
    /\ phase' = "add"
    /\ UNCHANGED <<sessVars, addQ, map, queue, todo, cursor, updVars, replaced, orphans, bounds>>

(* ... or every other thread has sessions and few are left: it tells every *)
(* updater to empty itself ...                                             *)
MoveDue ==
    /\ DynEnabled /\ Threads > 1 /\ Cardinality(Online) < DynMax
    /\ \A t \in Updaters \ {0} : counter[t] # 0

UpdateDynamics ==
    /\ phase = "update" /\ todo = {}
    /\ moves < MaxMoves /\ moves' = moves + 1
    /\ MoveDue
    /\ sleep' = Updaters
    /\ phase' = "move" /\ todo' = Online
    /\ UNCHANGED <<sessVars, addQ, map, queue, cursor, newQ, set, counter, stop, step,
                   work, replaced, orphans, closes, kicks, wipes>>

(* ... and adds every session of the map to updater 0.                     *)
MoveSession(a) ==
    /\ phase = "move" /\ a \in todo
    /\ GiveTo(0, map[a])
    /\ todo' = todo \ {a}
    /\ UNCHANGED <<status, kicked, sock, held, addQ, map, queue, phase, cursor, set,
                   sleep, stop, step, work, replaced, orphans, bounds>>

MoveDone ==
    /\ phase = "move" /\ todo = {}
    /\ phase' = "add"
    /\ UNCHANGED <<sessVars, addQ, map, queue, todo, cursor, updVars, replaced, orphans, bounds>>

(* ClientSessionMgr::ServerClose.                                          *)
ServerClose ==
    /\ phase = "add"
    /\ LET mine == {map[a] : a \in Online}
       IN  /\ refs' = [s \in Sessions |-> IF s \in mine THEN refs[s] - 1 ELSE refs[s]]
           /\ status' = [s \in Sessions |->
                           IF s \in mine /\ refs[s] = 1 THEN "freed" ELSE status[s]]
    /\ map' = [a \in Accounts |-> None]
    /\ phase' = "down" /\ stop' = TRUE
    /\ UNCHANGED <<kicked, sock, held, addQ, queue, todo, cursor, newQ, set, counter,
                   sleep, step, work, replaced, orphans, bounds>>

-----------------------------------------------------------------------------
(* SessionUpdater::svc, the top of the loop: _stop, and the test of        *)
(* SetSleep, which keeps its sessions when new ones are waiting.           *)
SvcTop(t) ==
    /\ step[t] = "run" /\ work[t] = {}
    /\ sleep' = IF stop THEN sleep ELSE sleep \ {t}
    /\ step' = [step EXCEPT ![t] =
                  IF stop THEN "exit"
                  ELSE IF t \in sleep /\ newQ[t] = <<>> THEN "clear" ELSE "add"]
    /\ UNCHANGED <<sessVars, mgrVars, newQ, set, counter, stop, work, replaced, orphans, bounds>>

(* SetSleep forgets the sessions without dropping a reference.             *)
SetSleep(t) ==
    /\ step[t] = "clear"
    /\ counter' = [counter EXCEPT ![t] = 0]
    /\ set' = [set EXCEPT ![t] = {}]
    /\ step' = [step EXCEPT ![t] = "add"]
    /\ UNCHANGED <<sessVars, mgrVars, newQ, sleep, stop, work, replaced, orphans, bounds>>

AddNewSessions(t) ==
    /\ step[t] = "add"
    /\ set' = [set EXCEPT ![t] = @ \cup ToSet(newQ[t])]
    /\ work' = [work EXCEPT ![t] = set[t] \cup ToSet(newQ[t])]
    /\ newQ' = [newQ EXCEPT ![t] = <<>>]
    /\ step' = [step EXCEPT ![t] = "run"]
    /\ UNCHANGED <<sessVars, mgrVars, counter, sleep, stop, replaced, orphans, bounds>>

(* Mutants of LeaveThread: the reference is kept; m_Counter is kept.       *)
LeaveReferenced(t, s) ==
    /\ set' = [set EXCEPT ![t] = @ \ {s}]
    /\ counter' = [counter EXCEPT ![t] = @ - 1]
    /\ UNCHANGED <<refs, status>>

LeaveCounted(t, s) ==
    /\ RemoveReference(s)
    /\ set' = [set EXCEPT ![t] = @ \ {s}]
    /\ UNCHANGED counter

(* svc, when UpdateMulti has returned false.                               *)
LeaveThread(t, s) ==
    /\ RemoveReference(s)
    /\ set' = [set EXCEPT ![t] = @ \ {s}]
    /\ counter' = [counter EXCEPT ![t] = @ - 1]

(* ClientSession::UpdateMulti: false for a kicked session, and for one     *)
(* whose client socket is gone; it lets go of a closing socket itself.     *)
UpdateMulti(t, s) ==
    /\ step[t] = "run" /\ s \in work[t]
    /\ sock' = IF s \notin kicked /\ sock[s] = "closing"
               THEN [sock EXCEPT ![s] = "null"] ELSE sock
    /\ work' = [work EXCEPT ![t] = @ \ {s}]
    /\ \/ /\ s \in kicked \/ sock[s] # "open"
          /\ LeaveThread(t, s)
       \/ /\ s \notin kicked /\ sock[s] = "open"
          /\ UNCHANGED <<refs, status, set, counter>>
    /\ UNCHANGED <<kicked, held, mgrVars, newQ, sleep, stop, step, replaced, orphans, bounds>>

-----------------------------------------------------------------------------
WorldStep ==
    \/ AddSession_ \/ StartUpdate \/ UpdateSingleClient
    \/ UpdateDone \/ MoveDone
    \/ \E a \in Accounts : UpdateSingle(a) \/ MoveSession(a)

UpdaterStep(t) ==
    \/ SvcTop(t) \/ SetSleep(t) \/ AddNewSessions(t)
    \/ \E s \in Sessions : UpdateMulti(t, s)

Next ==
    \/ \E s \in Sessions :
         AddSession(s) \/ AuthSessionReturns(s) \/ CloseSocket(s) \/ KickPlayer(s)
    \/ WorldStep
    \/ LogoutComplete \/ UpdateDynamics \/ ServerClose
    \/ \E t \in Updaters : UpdaterStep(t)

Spec == Init /\ [][Next]_vars

(* Fairness: the world thread and the updater threads loop for as long as  *)
(* the process runs, and _handleAuthSession returns.                       *)
FairSpec ==
    /\ Spec
    /\ WF_vars(WorldStep)
    /\ \A t \in Updaters : WF_vars(UpdaterStep(t))
    /\ \A s \in Sessions : WF_vars(AuthSessionReturns(s))

-----------------------------------------------------------------------------
(* PROPERTIES                                                              *)

(* Type invariant of the session, manager and updater state.               *)
TypeOK ==
    /\ status \in [Sessions -> {"unborn", "alive", "freed"}]
    /\ refs \in [Sessions -> Nat]
    /\ kicked \subseteq Sessions /\ held \subseteq Sessions /\ replaced \subseteq Sessions
    /\ orphans \subseteq Sessions
    /\ sock \in [Sessions -> {"open", "closing", "null"}]
    /\ addQ \in Seq(Sessions) /\ queue \in Seq(Sessions)
    /\ map \in [Accounts -> Sessions \cup {None}]
    /\ phase \in {"add", "update", "move", "down"}
    /\ todo \subseteq Accounts /\ cursor \in Accounts \cup {None}
    /\ newQ \in [Updaters -> Seq(Sessions)]
    /\ set \in [Updaters -> SUBSET Sessions] /\ work \in [Updaters -> SUBSET Sessions]
    /\ counter \in [Updaters -> Int]
    /\ sleep \subseteq Updaters /\ stop \in BOOLEAN
    /\ step \in [Updaters -> {"clear", "add", "run", "exit"}]
    /\ closes \in Nat /\ kicks \in Nat /\ moves \in Nat /\ wipes \in Nat

(* The sessions that some thread may still dereference.                    *)
Reachable ==
    held \cup ToSet(addQ) \cup {map[a] : a \in Online}
      \cup UNION {set[t] \cup work[t] \cup ToSet(newQ[t]) : t \in Updaters}

(* The hand-made reference counts protect every session that the manager,  *)
(* an updater thread or a socket thread can still reach: none of them is   *)
(* deleted under it, whatever kicks, logouts, relogins and moves happen.   *)
NoDangling == \A s \in Reachable : status[s] = "alive"

Holders(s) ==
    Cardinality({x \in {s} : x \in held})
      + Cardinality({i \in 1 .. Len(addQ) : addQ[i] = s})
      + Cardinality({a \in Accounts : map[a] = s})
      + Cardinality({t \in Updaters : s \in set[t]})
      + Cardinality(UNION {{<<t, i>> : i \in {j \in 1 .. Len(newQ[t]) : newQ[t][j] = s}} :
                             t \in Updaters})

(* Without dynamic threading every reference has a holder, except the one  *)
(* that AddSession_ loses when it overwrites the account's old session.    *)
RefsExact ==
    \A s \in Sessions :
        refs[s] = Holders(s) + (IF s \in replaced THEN 1 ELSE 0)

(* m_Counter, by which AddSession_ balances the threads, is the number of  *)
(* sessions the thread has or is about to have.                            *)
CounterExact == \A t \in Updaters : counter[t] = Cardinality(set[t]) + Len(newQ[t])

(* Until ServerClose, and as long as nobody leaves while waiting, no more  *)
(* players are in the world than PlayerLimit allows, however often players *)
(* log in again, and RemoveQueuedPlayer admits by the true count.          *)
WithinLimit ==
    PlayerLimit > 0 /\ orphans = {} /\ phase # "down" =>
        LET inWorld == {a \in Online : ~Contains(queue, map[a])}
        IN  /\ Cardinality({a \in inWorld : map[a] \in Players}) <= PlayerLimit
            /\ GetActiveSessionCount = Cardinality(inWorld)

(* A session whose client has hung up is deleted in the end, unless a      *)
(* relogin replaced it or the server shuts down.                           *)
ClosedIsFreed ==
    \A s \in Sessions :
        status[s] = "alive" /\ sock[s] # "open" ~>
            status[s] = "freed" \/ s \in replaced \/ stop

(* "mark session to remove at next session list update": a kicked session  *)
(* leaves the map although its client stays, whatever its updater thread   *)
(* does meanwhile - unless the flag is wiped by a logout that completes,   *)
(* in which case the kick is forgotten.                                    *)
KickedIsRemoved ==
    \A s \in Sessions :
        s \in kicked /\ (\E a \in Accounts : map[a] = s)
          ~> (\A a \in Accounts : map[a] # s) \/ s \notin kicked \/ stop
=============================================================================
