------------------------------- MODULE Rebase -------------------------------
(***************************************************************************)
(* The rebase of the hub (shade/Database/DatabaseRoutines): every few days *)
(* the realm is halted, the nodes are told to stop, and the items get new  *)
(* ids 1, 2, ... in item_instance and in every table that names an item.   *)
(*                                                                         *)
(* Each table is copied to temp_<table>, emptied, and filled again with    *)
(* the rows under their new ids.  Two threads fill item_instance and       *)
(* character_inventory with statements that block; meanwhile the main      *)
(* thread queues the statements for the other tables, and later the DROPs, *)
(* for the worker thread of the database.  The hub may crash at any step.  *)
(*                                                                         *)
(* Times are kept as what is left of them: toNext is m_NextRebaseTime      *)
(* minus the time of day, and Tick counts them all down.  The other        *)
(* columns of a row are left out, but every row carries (is, in) the       *)
(* identity of the item it was written for: that is what must survive.     *)
(***************************************************************************)
EXTENDS Integers, Sequences, FiniteSets, SequencesExt, FiniteSetsExt, Functions

CONSTANTS
    Tables,     \* the tables that hold rows
    Items,      \* the identities of items
    None,       \* not in a bag
    MaxGuid,    \* bound on the ids that nodes draw
    ChunkRows,  \* rows in one statement for the worker thread
    Long,       \* tables whose full chunk is longer than MAX_QUERY_LEN
    Lead,       \* the halt is announced so long before (43200)
    Grace,      \* the nodes have so long to stop (180)
    Interval,   \* OptimizeInterval
    MaxLag,     \* longest time between two passes of the main loop
    MaxDrift,   \* longest time from _UpdateGameTime to UpdateTimers in one pass
    MaxLate,    \* bound on how late UpdateTimers may come to see a time
    MaxWrites,  \* items that nodes create or destroy
    MaxCrashes  \* crashes of the hub

ItemTable == "item_instance"
BagTable  == "character_inventory"

\* The tables in the order of Init's copies, and of its truncations and the
\* DROPs of Cleanup.
CreateOrder ==
    <<"auctionhouse", "character_gifts", "guild_bank_item", "item_refund_instance",
      "item_soulbound_trade_data", "mail_items", "petition", "petition_sign",
      "character_inventory", "item_instance">>

TruncateOrder ==
    <<"auctionhouse", "character_gifts", "character_inventory", "guild_bank_item",
      "item_instance", "item_refund_instance", "item_soulbound_trade_data",
      "mail_items", "petition", "petition_sign">>

\* The tables that the main thread of Begin renumbers, in its order.
MainOrder == SubSeq(CreateOrder, 1, 8)

\* The tables that SetHighestGuids cleans of rows without an item.
Cleaned == {"character_inventory", "mail_items", "auctionhouse", "guild_bank_item"}

\* The configured period is days, the main loop is never late by as much.
ASSUME RebaseAssumption ==
    /\ Tables \subseteq ToSet(CreateOrder) /\ {ItemTable, BagTable} \subseteq Tables
    /\ Long \subseteq Tables /\ IsFiniteSet(Items) /\ None \notin Items
    /\ {MaxGuid, ChunkRows, Lead, Grace, Interval} \subseteq Nat \ {0}
    /\ {MaxLag, MaxDrift, MaxLate, MaxWrites, MaxCrashes} \subseteq Nat
    /\ Interval > Lead + Grace /\ MaxLate < Interval

VARIABLES
    \* hub
    hub,        \* where its main thread is
    step,       \* the table it is at
    halted, haltTimer,      \* m_haltEvent, m_HaltTimer
    toNext, toPlus,         \* m_NextRebaseTime, m_NextRebaseTimePlus
    lapse,      \* time since m_gameTime
    itemMap,    \* _ItemMap
    itemRows, bagRows,      \* rows that the two threads have still to write
    tasks,      \* statements for the worker of the characters database
    saving,     \* the LOGON_REBASE_STATE that is still to be written
    \* databases and nodes
    saved,      \* LOGON_REBASE_STATE
    live, temp, \* the tables, and the copies that exist
    \* history
    owned,      \* what items there are, and where
    flaws,      \* what has happened that the rebase does not survive
    slow,       \* the halt timer was set 2 or more after its time was read
    writes, crashes

timeVars  == <<halted, haltTimer, toNext, toPlus, lapse, slow>>
beginVars == <<hub, step, itemMap, itemRows, bagRows, tasks>>
nodeVars  == <<owned, writes>>
vars == <<timeVars, beginVars, saving, saved, live, temp, nodeVars, flaws, crashes>>

Row == [item : 1..MaxGuid, bag : 0..MaxGuid, is : Items, in : Items \cup {None}]

\* The tables of an order that hold rows.
In(order) ==
    LET in[n \in 0..Len(order)] ==
          IF n = 0 THEN <<>>
          ELSE IF order[n] \in Tables THEN Append(in[n - 1], order[n]) ELSE in[n - 1]
    IN  in[Len(order)]

Guids(rows) == {r.item : r \in rows}

Highest == Max(Guids(live[ItemTable]) \cup {0})

\* INSERT IGNORE: the id of the item is a key.
InsertIgnore(t, rows) ==
    live' = [live EXCEPT ![t] = @ \cup {r \in rows : r.item \notin Guids(@)}]

-----------------------------------------------------------------------------
(* The main loop.                                                          *)

Idle == hub \in {"loop", "timers"}

\* One pass of the main loop, with the halt timer of Logon::_UpdateGameTime;
\* due: the pass comes to UpdateTimers, as one does every 30 seconds.
UpdateGameTime(due) ==
    /\ hub = "loop"
    /\ lapse' = 0
    /\ \/ /\ halted \/ haltTimer = 0 \/ lapse = 0
          /\ UNCHANGED <<halted, haltTimer>>
       \/ /\ ~halted /\ haltTimer > 0 /\ lapse > 0 /\ haltTimer <= lapse
          /\ halted' = TRUE /\ haltTimer' = 0
       \/ /\ ~halted /\ haltTimer > lapse /\ lapse > 0
          /\ haltTimer' = haltTimer - lapse
          /\ UNCHANGED halted
    /\ hub' = IF due THEN "timers" ELSE "loop"
    /\ UNCHANGED <<toNext, toPlus, step, itemMap, itemRows, bagRows, tasks, saving, saved,
                   live, temp, nodeVars, flaws, slow, crashes>>

IsHalting == haltTimer > 0

\* Logon::HaltServ.  The next pass takes all the lapse off a timer that was
\* set in the middle of it.
HaltServ(time) ==
    \/ time = 0 /\ halted' = TRUE /\ UNCHANGED <<haltTimer, slow>>
    \/ time > 0 /\ haltTimer' = time /\ slow' = (slow \/ lapse > 1) /\ UNCHANGED halted

\* Mutant of Announce: without the halt at the last moment.
AnnounceTimer ==
    \/ toNext >= Lead /\ UNCHANGED <<halted, haltTimer, slow>>
    \/ toNext < Lead /\ toNext > 1 /\ HaltServ(toNext)
    \/ toNext <= 1 /\ UNCHANGED <<halted, haltTimer, slow>>

Announce ==
    \/ toNext >= Lead /\ UNCHANGED <<halted, haltTimer, slow>>
    \/ toNext < Lead /\ HaltServ(IF toNext <= 1 THEN 0 ELSE toNext)

\* The next time is set and saved, and the nodes are told to stop (what they
\* may do until then, see the end of the module).
PrePhase ==
    \/ toNext >= 0 /\ UNCHANGED <<toNext, saving>>
    \/ /\ toNext < 0
       /\ toNext' = toNext + Interval
       /\ saving' = <<toNext'>>

BeginIfDue ==
    \/ toPlus >= 0 /\ hub' = "loop" /\ UNCHANGED <<toPlus, step, flaws>>
    \/ /\ toPlus < 0
       /\ toPlus' = toNext' + Grace
       /\ hub' = "create" /\ step' = 1
       /\ flaws' = flaws \cup (IF DOMAIN temp = {} THEN {} ELSE {"stale"})

UpdateTimers ==
    /\ hub = "timers"
    /\ \/ /\ toNext < Lead /\ IsHalting
          /\ hub' = "loop"
          /\ UNCHANGED <<halted, haltTimer, slow, toNext, saving, toPlus, step, flaws>>
       \/ /\ toNext >= Lead \/ ~IsHalting
          /\ Announce /\ PrePhase /\ BeginIfDue
    /\ UNCHANGED <<lapse, itemMap, itemRows, bagRows, tasks, saved, live, temp, nodeVars,
                   crashes>>

-----------------------------------------------------------------------------
(* Begin.                                                                  *)

\* CREATE TABLE ... SELECT fails when the table exists.
CreateTable ==
    LET t == In(CreateOrder)[step] IN
    /\ hub = "create"
    /\ temp' = [x \in DOMAIN temp \cup {t} |->
                   IF x \in DOMAIN temp THEN temp[x] ELSE live[x]]
    /\ \/ step < Len(In(CreateOrder)) /\ step' = step + 1 /\ UNCHANGED hub
       \/ step = Len(In(CreateOrder)) /\ step' = 1 /\ hub' = "truncate"
    /\ UNCHANGED <<timeVars, itemMap, itemRows, bagRows, tasks, saving, saved, live,
                   nodeVars, flaws, crashes>>

TruncateTable ==
    LET t == In(TruncateOrder)[step] IN
    /\ hub = "truncate"
    /\ live' = [live EXCEPT ![t] = {}]
    /\ \/ step < Len(In(TruncateOrder)) /\ step' = step + 1 /\ UNCHANGED hub
       \/ step = Len(In(TruncateOrder)) /\ step' = 1 /\ hub' = "collect"
    /\ UNCHANGED <<timeVars, itemMap, itemRows, bagRows, tasks, saving, saved, temp,
                   nodeVars, flaws, crashes>>

\* Mutant of Numberings: the counter is counted up after it is used.
NumberingsFromZero(guids) ==
    {f \in [guids -> 0..Cardinality(guids) - 1] : IsInjective(f)}

\* The rows are counted in the order in which the database returns them.
Numberings(guids) ==
    {f \in [guids -> 1..Cardinality(guids)] : IsInjective(f)}

\* Begin returns when there is no item.  Otherwise the two threads start.
Collect ==
    LET guids == Guids(temp[ItemTable]) IN
    /\ hub = "collect"
    /\ \/ /\ guids = {}
          /\ hub' = "loop"
          /\ flaws' = flaws \cup {"empty"}
          /\ UNCHANGED <<itemMap, itemRows, bagRows>>
       \/ /\ guids # {}
          /\ \E f \in Numberings(guids) :
                itemMap' = [g \in guids \cup DOMAIN itemMap |->
                              IF g \in guids THEN f[g] ELSE itemMap[g]]
          /\ itemRows' = temp[ItemTable] /\ bagRows' = temp[BagTable]
          /\ hub' = "renumber"
          /\ UNCHANGED flaws
    /\ UNCHANGED <<timeVars, step, tasks, saving, saved, live, temp, nodeVars, crashes>>

\* A row whose item, or whose bag, has no new id is left out.
Mapped(r) == r.item \in DOMAIN itemMap /\ r.bag \in DOMAIN itemMap \cup {0}

Renumber(r) ==
    [r EXCEPT !.item = itemMap[@], !.bag = IF @ = 0 THEN 0 ELSE itemMap[@]]

Renumbered(rows) == {Renumber(r) : r \in {x \in rows : Mapped(x)}}

\* A statement of one of the two threads, for some of its rows.
ItemInstance ==
    /\ hub = "renumber"
    /\ \E rows \in SUBSET itemRows \ {{}} :
          /\ itemRows' = itemRows \ rows
          /\ InsertIgnore(ItemTable, Renumbered(rows))
    /\ UNCHANGED <<timeVars, hub, step, itemMap, bagRows, tasks, saving, saved, temp,
                   nodeVars, flaws, crashes>>

CharacterInventory ==
    /\ hub = "renumber"
    /\ \E rows \in SUBSET bagRows \ {{}} :
          /\ bagRows' = bagRows \ rows
          /\ InsertIgnore(BagTable, Renumbered(rows))
    /\ UNCHANGED <<timeVars, hub, step, itemMap, itemRows, tasks, saving, saved, temp,
                   nodeVars, flaws, crashes>>

\* The rows of one table, ChunkRows to a statement.
Chunks(rows) ==
    LET s == SetToSeq(rows)
        n == (Len(s) + ChunkRows - 1) \div ChunkRows
    IN  [k \in 1..n |-> ToSet(SubSeq(s, (k - 1) * ChunkRows + 1,
                                     Min({k * ChunkRows, Len(s)})))]

\* PExecute cuts the text of a statement at MAX_QUERY_LEN, and the database
\* then refuses it.
TooLong(t, rows) == t \in Long /\ Cardinality(rows) = ChunkRows

Insert(t, rows) == [op |-> "insert", table |-> t, rows |-> rows, from |-> 0]
Drop(t)         == [op |-> "drop", table |-> t, rows |-> {}, from |-> 0]
Clean(from)     == [op |-> "clean", table |-> BagTable, rows |-> {}, from |-> from]

\* Auctionhouse, CharacterGifts, ...: one table of the main thread.
RenumberTable ==
    LET t      == In(MainOrder)[step]
        chunks == Chunks(Renumbered(temp[t]))
    IN
    /\ hub = "renumber" /\ step <= Len(In(MainOrder))
    /\ tasks' = tasks \o [k \in DOMAIN chunks |->
                    Insert(t, IF TooLong(t, chunks[k]) THEN {} ELSE chunks[k])]
    /\ flaws' = flaws \cup (IF \E k \in DOMAIN chunks : TooLong(t, chunks[k])
                            THEN {"cut"} ELSE {})
    /\ step' = step + 1
    /\ UNCHANGED <<timeVars, hub, itemMap, itemRows, bagRows, saving, saved, live, temp,
                   nodeVars, crashes>>

\* Mutant of Cleanup: the copy that is dropped last is forgotten.
CleanupButLast ==
    [k \in 1..Len(In(TruncateOrder)) - 1 |-> Drop(In(TruncateOrder)[k])]

Cleanup == [k \in DOMAIN In(TruncateOrder) |-> Drop(In(TruncateOrder)[k])]

\* ObjectMgr::SetHighestGuids: rows that name an id above the highest one go.
SetHighestGuids == <<Clean(Highest + 1)>>

\* Mutant of Finish: the threads are not waited for.
FinishEarly ==
    /\ hub = "renumber" /\ step > Len(In(MainOrder))
    /\ tasks' = tasks \o Cleanup \o SetHighestGuids
    /\ halted' = FALSE /\ slow' = (slow /\ haltTimer > 0)
    /\ hub' = "loop"
    /\ UNCHANGED <<haltTimer, toNext, toPlus, lapse, step, itemMap, itemRows, bagRows,
                   saving, saved, live, temp, nodeVars, flaws, crashes>>

\* Mutant of Finish: ContinueNow is not called.
FinishHalted ==
    /\ hub = "renumber" /\ step > Len(In(MainOrder)) /\ itemRows = {} /\ bagRows = {}
    /\ tasks' = tasks \o Cleanup \o SetHighestGuids
    /\ hub' = "loop"
    /\ UNCHANGED <<halted, haltTimer, toNext, toPlus, lapse, slow, step, itemMap, itemRows, bagRows,
                   saving, saved, live, temp, nodeVars, flaws, crashes>>

\* Both threads have ended: Cleanup, the second message to the nodes, the
\* highest ids, and the realm is open again.
Finish ==
    /\ hub = "renumber" /\ step > Len(In(MainOrder)) /\ itemRows = {} /\ bagRows = {}
    /\ tasks' = tasks \o Cleanup \o SetHighestGuids
    /\ halted' = FALSE /\ slow' = (slow /\ haltTimer > 0)
    /\ hub' = "loop"
    /\ UNCHANGED <<haltTimer, toNext, toPlus, lapse, step, itemMap, itemRows, bagRows,
                   saving, saved, live, temp, nodeVars, flaws, crashes>>

-----------------------------------------------------------------------------
(* The database, the clock, and the life of the hub.                       *)

\* The items that exist and that a cleaning from id g takes out of a table.
Swept(g) == {r.item : r \in UNION {live[t] : t \in Cleaned \cap Tables}}
                \cap Guids(live[ItemTable]) \cap g..MaxGuid

CleanFrom(g) ==
    /\ live' = [t \in Tables |->
                  IF t \in Cleaned THEN {r \in live[t] : r.item < g} ELSE live[t]]
    /\ flaws' = flaws \cup (IF Swept(g) = {} THEN {} ELSE {"swept"})

Worker ==
    LET task == Head(tasks) IN
    /\ hub # "down" /\ tasks # <<>>
    /\ tasks' = Tail(tasks)
    /\ \/ /\ task.op = "insert"
          /\ InsertIgnore(task.table, task.rows)
          /\ UNCHANGED <<temp, flaws>>
       \/ /\ task.op = "drop"
          /\ temp' = Restrict(temp, DOMAIN temp \ {task.table})
          /\ UNCHANGED <<live, flaws>>
       \/ task.op = "clean" /\ CleanFrom(task.from) /\ UNCHANGED temp
    /\ UNCHANGED <<timeVars, hub, step, itemMap, itemRows, bagRows, saving, saved, nodeVars,
                   crashes>>

\* The worker of the logon database: setLogonState does not wait for it.
SaveState ==
    /\ hub # "down" /\ saving # <<>>
    /\ saved' = saving[1] /\ saving' = <<>>
    /\ UNCHANGED <<timeVars, beginVars, live, temp, nodeVars, flaws, crashes>>

\* Work of the rebase that is under way or queued.
Working == ~(Idle \/ hub = "down") \/ \E k \in DOMAIN tasks : tasks[k].op # "clean"

\* Begin and the statements of the workers take no time: they are short
\* against the unit of Lead and Interval.
Tick ==
    /\ \/ hub = "loop" /\ lapse < MaxLag
       \/ hub = "timers" /\ lapse < MaxDrift
    /\ toNext > -MaxLate /\ toPlus > -MaxLate
    /\ tasks = <<>> /\ saving = <<>>
    /\ lapse' = lapse + 1
    /\ toNext' = toNext - 1 /\ toPlus' = toPlus - 1
    /\ saved' = Max({saved - 1, -1})
    /\ UNCHANGED <<halted, haltTimer, slow, beginVars, saving, live, temp, nodeVars, flaws,
                   crashes>>

\* The hub is down for a while.
TickDown ==
    /\ hub = "down" /\ saved >= 0
    /\ saved' = saved - 1
    /\ UNCHANGED <<timeVars, beginVars, saving, live, temp, nodeVars, flaws, crashes>>

\* Logon::SetInitialWorldSettings: SetHighestGuids, then InitAutomaticRebase.
StartHub ==
    /\ hub = "down"
    /\ hub' = "loop" /\ lapse' = 0 /\ halted' = FALSE /\ haltTimer' = 0
    /\ UNCHANGED slow
    /\ toNext' = Max({saved, 0}) /\ toPlus' = toNext' + Grace
    /\ tasks' = SetHighestGuids
    /\ UNCHANGED <<step, itemMap, itemRows, bagRows, saving, saved, live, temp, nodeVars,
                   flaws, crashes>>

Crash ==
    /\ hub # "down" /\ crashes < MaxCrashes
    /\ crashes' = crashes + 1
    /\ flaws' = flaws \cup (IF Working THEN {"interrupted"} ELSE {})
    /\ hub' = "down" /\ step' = 1 /\ tasks' = <<>> /\ saving' = <<>>
    /\ itemMap' = <<>> /\ itemRows' = {} /\ bagRows' = {}
    /\ halted' = FALSE /\ haltTimer' = 0 /\ toNext' = 0 /\ toPlus' = 0 /\ lapse' = 0
    /\ slow' = FALSE
    /\ UNCHANGED <<saved, live, temp, nodeVars>>

-----------------------------------------------------------------------------
(* The nodes: what a node writes, it writes in one transaction.  They are  *)
(* assumed to keep away from the tables from Init to the end of Begin, not *)
(* from the statements that Begin leaves to the worker.                    *)

Away == Idle \/ hub = "down"

\* A node has the item i, which it finds by the row that names it, and i is
\* not a bag with something in it.
AtHand(i) ==
    /\ i \in DOMAIN owned
    /\ \E r \in live[owned[i].at], q \in live[ItemTable] : r.is = i /\ q.is = i /\ q.item = r.item
    /\ \A r \in live[BagTable] : r.in # i

Without(i) == [t \in Tables |-> {r \in live[t] : r.is # i}]

\* The ids under which character_inventory has the bag b.
BagIds(b) ==
    IF b = None THEN {0} ELSE Guids({r \in live[BagTable] : r.is = b /\ r.in = None})

\* A new item: its own row, and the row of the table that names it.  The id
\* is above all that the tables hold.
CreateItem(i, t, b) ==
    /\ Away /\ writes < MaxWrites /\ writes' = writes + 1
    /\ i \notin DOMAIN owned
    /\ \E g \in (Highest + 1)..MaxGuid, bag \in BagIds(b) :
          live' = [live EXCEPT
            ![ItemTable] = @ \cup {[item |-> g, bag |-> 0, is |-> i, in |-> None]},
            ![t] = {r \in @ : r.item # g} \cup {[item |-> g, bag |-> bag, is |-> i, in |-> b]}]
    /\ owned' = [x \in DOMAIN owned \cup {i} |->
                   IF x = i THEN [at |-> t, in |-> b] ELSE owned[x]]
    /\ UNCHANGED <<timeVars, beginVars, saving, saved, temp, flaws, crashes>>

DestroyItem(i) ==
    /\ Away /\ writes < MaxWrites /\ writes' = writes + 1
    /\ AtHand(i)
    /\ live' = Without(i)
    /\ owned' = Restrict(owned, DOMAIN owned \ {i})
    /\ UNCHANGED <<timeVars, beginVars, saving, saved, temp, flaws, crashes>>

-----------------------------------------------------------------------------

Init ==
    /\ hub = "down" /\ step = 1 /\ tasks = <<>> /\ saving = <<>>
    /\ itemMap = <<>> /\ itemRows = {} /\ bagRows = {}
    /\ halted = FALSE /\ haltTimer = 0 /\ toNext = 0 /\ toPlus = 0 /\ lapse = 0
    /\ slow = FALSE
    /\ saved \in {-1, Interval}
    /\ live = [t \in Tables |-> {}] /\ temp = <<>>
    /\ owned = <<>> /\ flaws = {} /\ crashes = 0 /\ writes = 0

Hub ==
    \/ \E due \in BOOLEAN : UpdateGameTime(due)
    \/ UpdateTimers \/ CreateTable \/ TruncateTable \/ Collect
    \/ ItemInstance \/ CharacterInventory \/ RenumberTable \/ Finish
    \/ Worker \/ SaveState \/ StartHub \/ Crash

Node ==
    \/ \E i \in Items, t \in Tables \ {ItemTable} : CreateItem(i, t, None)
    \/ \E i, b \in Items : CreateItem(i, BagTable, b)
    \/ \E i \in Items : DestroyItem(i)

Next == Hub \/ Node \/ Tick \/ TickDown

Spec == Init /\ [][Next]_vars

Fairness ==
    /\ WF_vars(Tick) /\ WF_vars(StartHub)
    /\ WF_vars(UpdateGameTime(TRUE)) /\ WF_vars(UpdateTimers)
    /\ WF_vars(CreateTable) /\ WF_vars(TruncateTable) /\ WF_vars(Collect)
    /\ WF_vars(ItemInstance) /\ WF_vars(CharacterInventory)
    /\ WF_vars(RenumberTable) /\ WF_vars(Finish) /\ WF_vars(Worker) /\ WF_vars(SaveState)

FairSpec == Spec /\ Fairness

-----------------------------------------------------------------------------

(* Type correctness: the times stay within their windows, new ids are      *)
(* positive, and a row is a row.                                           *)
TypeOK ==
    /\ hub \in {"down", "loop", "timers", "create", "truncate", "collect", "renumber"}
    /\ step \in 1..Len(CreateOrder) + 1
    /\ halted \in BOOLEAN /\ slow \in BOOLEAN /\ haltTimer \in 0..Lead
    /\ toNext \in -MaxLate..Interval /\ toPlus \in -MaxLate..Interval + Grace
    /\ lapse \in 0..MaxLag + MaxDrift
    /\ DOMAIN itemMap \subseteq 1..MaxGuid /\ Range(itemMap) \subseteq 1..MaxGuid
    /\ itemRows \subseteq Row /\ bagRows \subseteq Row
    /\ tasks \in Seq([op : {"insert", "drop", "clean"}, table : Tables, rows : SUBSET Row,
                     from : Nat])
    /\ saving \in Seq(0..Interval) /\ saved \in -1..Interval
    /\ live \in [Tables -> SUBSET Row]
    /\ DOMAIN temp \subseteq Tables /\ Range(temp) \subseteq SUBSET Row
    /\ DOMAIN owned \subseteq Items
    /\ flaws \subseteq {"stale", "empty", "cut", "swept", "interrupted"}
    /\ {writes, crashes} \subseteq Nat

(* Whoever logs in is refused while the tables are being rewritten: the    *)
(* timers of UpdateTimers and _UpdateGameTime come to Begin only with the  *)
(* realm halted, whenever the hub was started, late or in time.            *)
HaltedWhileRebasing == Idle \/ hub = "down" \/ halted

\* The database db has the item i, and a row that names it.
Holds(db, i) ==
    \E r \in db[ItemTable] :
        /\ r.is = i
        /\ \E t \in DOMAIN db \ {ItemTable} : \E q \in db[t] : q.is = i /\ q.item = r.item

(* Every item with the row that names it is in the tables or in the copies *)
(* whatever the two threads, the queued statements, the nodes after Begin  *)
(* and a crash have left: until a second rebase runs over the copies of an *)
(* interrupted one (stale), a statement is cut at MAX_QUERY_LEN (cut), or  *)
(* a sweep takes an item that was created since it was queued (swept).     *)
NothingLost ==
    flaws \subseteq {"interrupted", "empty"} =>
        \A i \in DOMAIN owned :
            Holds(live, i) \/ (ItemTable \in DOMAIN temp /\ Holds(temp, i))

\* The row r of table t tells the truth about its item.
Truthful(t, r) ==
    /\ r.is \in DOMAIN owned /\ owned[r.is] = [at |-> t, in |-> r.in]
    /\ \E q \in live[ItemTable] : q.is = r.is /\ q.item = r.item
    /\ r.in = None => r.bag = 0
    /\ r.in # None => \E q \in live[ItemTable] : q.is = r.in /\ q.item = r.bag

(* When nothing is under way, the tables say the same of every item as     *)
(* before: it exists once, one row names it, and a bag holds what it held. *)
(* Only a crash in the middle, an empty table, a statement that was cut    *)
(* and a sweep that came too late are excuses: a rebase does not find the  *)
(* copies of an earlier one otherwise.                                     *)
Intact ==
    ~Working /\ flaws \subseteq {"stale"} =>
        /\ {r.is : r \in live[ItemTable]} = DOMAIN owned
        /\ Cardinality(live[ItemTable]) = Cardinality(DOMAIN owned)
        /\ \A t \in Tables \ {ItemTable} : \A r \in live[t] : Truthful(t, r)
        /\ \A i \in DOMAIN owned : \E r \in live[owned[i].at] : r.is = i

(* A halted realm is opened again: by the Begin for which it was halted,   *)
(* early by a second or late, also after a restart with a date that has    *)
(* passed.  It is not after a rebase without items, nor when the pass that *)
(* set the halt timer came to UpdateTimers 2 or more after it had read the *)
(* game time: then the timer may be set once more after the halt, and no   *)
(* pass ever takes it down.                                                *)
Reopens == halted ~> (~halted \/ slow \/ "empty" \in flaws)
=============================================================================
