---------------------------- MODULE RebaseProofs ----------------------------
(***************************************************************************)
(* Four things about the rebase, for every set of tables and items: the    *)
(* types, the halt, that no item is lost, and that the tables agree after  *)
(* a rebase as they did before.                                            *)
(*                                                                         *)
(* The realm is halted whenever the rebase rewrites the tables.  Two times *)
(* decide: m_NextRebaseTime makes UpdateTimers halt the realm, and the     *)
(* later m_NextRebaseTimePlus makes it begin.  They are set one after the  *)
(* other, Grace apart, and the proof is about the passes in which only one *)
(* of them has been moved on to the next date.                             *)
(*                                                                         *)
(* A rebase leaves the tables as they were but for the ids, and whatever   *)
(* has been done when the hub crashes, the tables or the copies have every *)
(* item.                                                                   *)
(***************************************************************************)
EXTENDS Rebase, DataLemmas, TLAPS

-----------------------------------------------------------------------------
(* The halt.                                                               *)

\* The two times are Grace apart.
DatesInStep == toPlus = toNext + Grace

\* Between the two moves of the dates the realm is halted, and Begin moves
\* the second one before it touches a table.
HaltInv ==
    /\ toNext \in Int /\ toPlus \in Int /\ saved \in Int
    /\ saving # <<>> => saving[1] \in Int
    /\ hub = "down" \/ DatesInStep \/ (Idle /\ halted)
    /\ hub = "down" \/ Idle \/ halted

(* The greater of a date and 0 is a date: what StartHub and Tick make of   *)
(* the saved one.                                                          *)
LEMMA GreaterOfTwo ==
    ASSUME NEW a \in Int, NEW b \in Int
    PROVE  Max({a, b}) \in Int /\ Max({a, b}) >= a /\ Max({a, b}) >= b
<1>1. \E x \in {a, b} : \A y \in {a, b} : x >= y
  OBVIOUS
<1>2. Max({a, b}) \in {a, b} /\ \A y \in {a, b} : Max({a, b}) >= y
  BY <1>1 DEF Max
<1> QED
  BY <1>2

(* A pass of the main loop begins a rebase only with the realm halted, and *)
(* moves m_NextRebaseTime alone only with the realm halted.                *)
LEMMA TimersHalt ==
    ASSUME HaltInv, UpdateTimers
    PROVE  HaltInv'
<1>1. Grace \in Nat /\ Lead \in Nat /\ Interval \in Nat /\ Lead > 0
  BY RebaseAssumption
<1>2. hub = "timers" /\ hub # "down" /\ UNCHANGED saved
  BY DEF UpdateTimers
<1>3. CASE toNext < Lead /\ IsHalting /\ hub' = "loop"
           /\ UNCHANGED <<halted, toNext, saving, toPlus>>
  BY <1>2, <1>3 DEF HaltInv, DatesInStep, Idle
<1>4. CASE Announce /\ PrePhase /\ BeginIfDue
  <2> DEFINE time == IF toNext <= 1 THEN 0 ELSE toNext
  <2>0. halted' = halted \/ halted' = TRUE
    <3>1. CASE toNext >= Lead /\ UNCHANGED <<halted, haltTimer>>
      BY <3>1
    <3>2. CASE HaltServ(time)
      BY <3>2 DEF HaltServ
    <3> QED
      BY <3>1, <3>2, <1>4 DEF Announce
  <2>1. halted => halted'
    BY <2>0
  <2>2. toNext <= 1 /\ toNext < Lead => halted'
    BY <1>1, <1>4 DEF HaltInv, Announce, HaltServ
  <2>3. toNext' \in Int /\ (saving' # <<>> => saving'[1] \in Int)
    BY <1>1, <1>4 DEF HaltInv, PrePhase
  <2>4. CASE toPlus < 0
    <3>1. toPlus' = toNext' + Grace /\ hub' = "create"
      BY <2>4, <1>4 DEF BeginIfDue, HaltInv
    <3>2. halted'
      <4>1. CASE DatesInStep
        BY <4>1, <2>4, <2>2, <1>1 DEF DatesInStep, HaltInv
      <4>2. CASE halted
        BY <4>2, <2>1
      <4> QED
        BY <4>1, <4>2, <1>2 DEF HaltInv
    <3> QED
      BY <3>1, <3>2, <2>1, <2>3, <1>1, <1>2 DEF HaltInv, DatesInStep
  <2>5. CASE ~(toPlus < 0)
    <3>1. toPlus' = toPlus /\ hub' = "loop"
      BY <2>5, <1>4 DEF BeginIfDue, HaltInv
    <3>2. toNext' = toNext \/ halted'
      BY <2>2, <1>1, <1>4 DEF PrePhase, HaltInv
    <3> QED
      BY <3>1, <3>2, <2>1, <2>3, <1>2 DEF HaltInv, DatesInStep, Idle
  <2> QED
    BY <2>4, <2>5
<1> QED
  BY <1>3, <1>4 DEF UpdateTimers

(* Every step keeps the two times in step, or the realm halted.            *)
LEMMA HaltStep ==
    ASSUME HaltInv, [Next]_vars
    PROVE  HaltInv'
<1> USE DEF HaltInv, DatesInStep, Idle
<1>1. ASSUME NEW due \in BOOLEAN, UpdateGameTime(due)
      PROVE  HaltInv'
  BY <1>1 DEF UpdateGameTime
<1>2. CASE UpdateTimers
  BY <1>2, TimersHalt
<1>3. CASE CreateTable
  BY <1>3 DEF CreateTable, timeVars
<1>4. CASE TruncateTable
  BY <1>4 DEF TruncateTable, timeVars
<1>5. CASE Collect
  BY <1>5 DEF Collect, timeVars
<1>6. CASE ItemInstance \/ CharacterInventory \/ RenumberTable
  BY <1>6 DEF ItemInstance, CharacterInventory, RenumberTable, timeVars
<1>7. CASE Finish
  BY <1>7 DEF Finish
<1>8. CASE Worker
  BY <1>8 DEF Worker, timeVars
<1>9. CASE SaveState
  BY <1>9 DEF SaveState, timeVars, beginVars
<1>10. CASE StartHub
  <2>1. toNext' \in Int
    <3>1. saved \in Int /\ 0 \in Int
      OBVIOUS
    <3>2. Max({saved, 0}) \in Int
      BY <3>1, GreaterOfTwo
    <3> QED
      BY <3>2, <1>10 DEF StartHub
  <2>2. Grace \in Int
    BY RebaseAssumption
  <2> QED
    <3>1. hub' = "loop" /\ halted' = FALSE /\ toPlus' = toNext' + Grace
          /\ UNCHANGED <<saved, saving>>
      BY <1>10 DEF StartHub
    <3> QED
      BY <3>1, <2>1, <2>2
<1>11. CASE Crash
  <2>1. hub' = "down" /\ halted' = FALSE /\ toNext' = 0 /\ toPlus' = 0
        /\ saving' = <<>> /\ saved' = saved
    BY <1>11 DEF Crash
  <2> QED
    BY <2>1
<1>12. CASE Node
  BY <1>12 DEF Node, CreateItem, DestroyItem, timeVars, beginVars
<1>13. CASE Tick
  <2>1. saved' \in Int
    <3>1. saved - 1 \in Int /\ -1 \in Int
      OBVIOUS
    <3>2. Max({saved - 1, -1}) \in Int
      BY <3>1, GreaterOfTwo
    <3> QED
      BY <3>2, <1>13 DEF Tick
  <2>2. Grace \in Int
    BY RebaseAssumption
  <2>3. toNext' = toNext - 1 /\ toPlus' = toPlus - 1
        /\ UNCHANGED <<halted, hub, saving>>
    BY <1>13 DEF Tick, beginVars
  <2> QED
    BY <2>1, <2>2, <2>3
<1>14. CASE TickDown
  BY <1>14 DEF TickDown, timeVars, beginVars
<1>15. CASE UNCHANGED vars
  BY <1>15 DEF vars, timeVars, beginVars
<1> QED
  BY <1>1, <1>2, <1>3, <1>4, <1>5, <1>6, <1>7, <1>8, <1>9, <1>10, <1>11, <1>12, <1>13,
     <1>14, <1>15 DEF Next, Hub

(* The tables are rewritten only while the realm is halted, for every      *)
(* interval and however late the main loop, the saved date or the restart  *)
(* of the hub may be (UpdateTimers, _UpdateGameTime, InitAutomaticRebase). *)
THEOREM RebasedHalted == Spec => []HaltedWhileRebasing
<1>1. Init => HaltInv
  <2> SUFFICES ASSUME Init PROVE HaltInv
    OBVIOUS
  <2>1. saved \in Int
    BY RebaseAssumption DEF Init
  <2>2. hub = "down" /\ halted = FALSE /\ toNext = 0 /\ toPlus = 0 /\ saving = <<>>
    BY DEF Init
  <2> QED
    BY <2>1, <2>2 DEF HaltInv
<1>2. HaltInv /\ [Next]_vars => HaltInv'
  BY HaltStep
<1>3. HaltInv => HaltedWhileRebasing
  BY DEF HaltInv, HaltedWhileRebasing
<1> QED
  BY <1>1, <1>2, <1>3, PTL DEF Spec

-----------------------------------------------------------------------------
(* The orders of the tables.                                               *)

\* s has the tables of the first n of the order o, each once.
Filtered(s, o, n) ==
    /\ s \in Seq(Tables) /\ Len(s) =< n
    /\ \A j \in 1..Len(s) : \E k \in 1..n : o[k] = s[j]
    /\ \A k \in 1..n : o[k] \in Tables => \E j \in 1..Len(s) : s[j] = o[k]
    /\ \A i, j \in 1..Len(s) : s[i] = s[j] => i = j

(* One table more.                                                         *)
LEMMA FilteredNext ==
    ASSUME NEW s, NEW o, NEW n \in Nat, Filtered(s, o, n), \A k \in 1..n : o[k] # o[n + 1]
    PROVE  Filtered(IF o[n + 1] \in Tables THEN Append(s, o[n + 1]) ELSE s, o, n + 1)
<1>1. /\ s \in Seq(Tables) /\ Len(s) =< n /\ Len(s) \in Nat
      /\ \A j \in 1..Len(s) : \E k \in 1..n : o[k] = s[j]
      /\ \A k \in 1..n : o[k] \in Tables => \E j \in 1..Len(s) : s[j] = o[k]
      /\ \A i, j \in 1..Len(s) : s[i] = s[j] => i = j
  BY DEF Filtered
<1>2. \A k \in 1..n + 1 : k \in 1..n \/ k = n + 1
  OBVIOUS
<1>3. CASE o[n + 1] \notin Tables
  <2>1. \A j \in 1..Len(s) : \E k \in 1..n + 1 : o[k] = s[j]
    <3> SUFFICES ASSUME NEW j \in 1..Len(s) PROVE \E k \in 1..n + 1 : o[k] = s[j]
      OBVIOUS
    <3>1. PICK k \in 1..n : o[k] = s[j]
      BY <1>1
    <3>2. k \in 1..n + 1
      OBVIOUS
    <3> QED
      BY <3>1, <3>2
  <2>2. \A k \in 1..n + 1 : o[k] \in Tables => \E j \in 1..Len(s) : s[j] = o[k]
    BY <1>1, <1>2, <1>3
  <2>3. Filtered(s, o, n + 1)
    <3>1. Len(s) =< n + 1
      BY <1>1
    <3> QED
      BY <1>1, <2>1, <2>2, <3>1, Zenon DEF Filtered
  <2> QED
    BY <1>3, <2>3
<1>4. CASE o[n + 1] \in Tables
  <2> DEFINE x == o[n + 1]
             u == Append(s, x)
  <2>1. /\ u \in Seq(Tables) /\ Len(u) = Len(s) + 1 /\ u[Len(s) + 1] = x
        /\ \A j \in 1..Len(s) : u[j] = s[j]
    BY <1>1, <1>4
  <2> HIDE DEF u
  <2>2. \A j \in 1..Len(u) : j \in 1..Len(s) \/ j = Len(s) + 1
    BY <1>1, <2>1
  <2>3. \A j \in 1..Len(u) : \E k \in 1..n + 1 : o[k] = u[j]
    <3> SUFFICES ASSUME NEW j \in 1..Len(u) PROVE \E k \in 1..n + 1 : o[k] = u[j]
      OBVIOUS
    <3>1. CASE j \in 1..Len(s)
      <4>1. PICK k \in 1..n : o[k] = s[j]
        BY <1>1, <3>1
      <4>2. k \in 1..n + 1
        OBVIOUS
      <4> QED
        BY <2>1, <3>1, <4>1, <4>2
    <3>2. CASE j = Len(s) + 1
      BY <2>1, <3>2
    <3> QED
      BY <2>2, <3>1, <3>2
  <2>4. \A k \in 1..n + 1 : o[k] \in Tables => \E j \in 1..Len(u) : u[j] = o[k]
    <3> SUFFICES ASSUME NEW k \in 1..n + 1, o[k] \in Tables PROVE \E j \in 1..Len(u) : u[j] = o[k]
      OBVIOUS
    <3>1. CASE k \in 1..n
      <4>1. PICK j \in 1..Len(s) : s[j] = o[k]
        BY <1>1, <3>1
      <4>2. j \in 1..Len(u)
        BY <1>1, <2>1
      <4> QED
        BY <2>1, <4>1, <4>2
    <3>2. CASE k = n + 1
      <4>1. Len(s) + 1 \in 1..Len(u)
        BY <1>1, <2>1
      <4> QED
        BY <2>1, <3>2, <4>1
    <3> QED
      BY <1>2, <3>1, <3>2
  <2>5. \A i \in 1..Len(s) : s[i] # x
    BY <1>1
  <2>6. \A i, j \in 1..Len(u) : u[i] = u[j] => i = j
    <3> SUFFICES ASSUME NEW i \in 1..Len(u), NEW j \in 1..Len(u), u[i] = u[j] PROVE i = j
      OBVIOUS
    <3>1. CASE i \in 1..Len(s) /\ j \in 1..Len(s)
      BY <1>1, <2>1, <3>1
    <3>2. CASE i = Len(s) + 1 /\ j \in 1..Len(s)
      BY <2>1, <2>5, <3>2
    <3>3. CASE i \in 1..Len(s) /\ j = Len(s) + 1
      BY <2>1, <2>5, <3>3
    <3> QED
      BY <2>2, <3>1, <3>2, <3>3
  <2>7. Len(u) =< n + 1
    BY <1>1, <2>1
  <2>8. Filtered(u, o, n + 1)
    BY <2>1, <2>3, <2>4, <2>6, <2>7 DEF Filtered
  <2> QED
    BY <1>4, <2>8 DEF u
<1> QED
  BY <1>3, <1>4

(* In takes the tables of an order without repetition.                     *)
LEMMA InIs ==
    ASSUME NEW o, Len(o) \in Nat, \A i, j \in 1..Len(o) : o[i] = o[j] => i = j
    PROVE  Filtered(In(o), o, Len(o))
<1> DEFINE After(s, n) == IF o[n] \in Tables THEN Append(s, o[n]) ELSE s
           Runs(m, f) == f = [n \in 0..m |-> IF n = 0 THEN <<>>
                                 ELSE IF o[n] \in Tables THEN Append(f[n - 1], o[n]) ELSE f[n - 1]]
           Good(m, f) == Runs(m, f) /\ \A n \in 0..m : n =< Len(o) => Filtered(f[n], o, n)
           S == {m \in Nat : m =< Len(o) => \E f : Runs(m, f)}
<1>1. 0 \in S
  <2> DEFINE f == [n \in 0..0 |-> <<>>]
  <2>1. Runs(0, f)
    OBVIOUS
  <2> QED
    BY <2>1
<1>2. ASSUME NEW m \in Nat, m \in S
      PROVE  m + 1 \in S
  <2> SUFFICES ASSUME m + 1 =< Len(o) PROVE \E f : Runs(m + 1, f)
    OBVIOUS
  <2>1. PICK f : Runs(m, f)
    BY <1>2
  <2> DEFINE h == [n \in 0..m + 1 |-> IF n < m + 1 THEN f[n] ELSE After(f[m], m + 1)]
  <2>2. \A n \in 0..m : f[n] = IF n = 0 THEN <<>> ELSE After(f[n - 1], n)
    BY <2>1
  <2>3. \A n \in 0..m + 1 : h[n] = IF n = 0 THEN <<>> ELSE After(h[n - 1], n)
    <3> HIDE DEF After
    <3> QED
      BY <2>2
  <2>4. h = [n \in 0..m + 1 |-> h[n]]
    OBVIOUS
  <2>5. Runs(m + 1, h)
    BY <2>3, <2>4
  <2> HIDE DEF Runs, h
  <2> QED
    BY <2>5
<1> HIDE DEF S, Runs
<1>3. S = Nat
  BY <1>1, <1>2, Induction DEF S
<1>4. PICK f : Runs(Len(o), f)
  BY <1>3 DEF S
<1> DEFINE g == CHOOSE h : Runs(Len(o), h)
<1>5. Runs(Len(o), g)
  BY <1>4
<1>6. In(o) = g[Len(o)]
  BY DEF In, Runs
<1> HIDE DEF g
<1>7. \A n \in 0..Len(o) : g[n] = IF n = 0 THEN <<>> ELSE After(g[n - 1], n)
  BY <1>5 DEF Runs
<1> DEFINE F == {n \in Nat : n =< Len(o) => Filtered(g[n], o, n)}
<1>8. 0 \in F
  <2>1. g[0] = <<>>
    BY <1>7
  <2>2. Filtered(<<>>, o, 0)
    BY DEF Filtered
  <2> QED
    BY <2>1, <2>2
<1>9. ASSUME NEW n \in Nat, n \in F PROVE n + 1 \in F
  <2> SUFFICES ASSUME n + 1 =< Len(o) PROVE Filtered(g[n + 1], o, n + 1)
    OBVIOUS
  <2>1. n + 1 \in 0..Len(o) /\ n + 1 # 0 /\ n + 1 - 1 = n /\ n =< Len(o)
    OBVIOUS
  <2>2. g[n + 1] = After(g[n], n + 1) /\ Filtered(g[n], o, n)
    <3> HIDE DEF After
    <3> QED
      BY <1>7, <1>9, <2>1
  <2>3. \A k \in 1..n : o[k] # o[n + 1]
    <3> SUFFICES ASSUME NEW k \in 1..n, o[k] = o[n + 1] PROVE FALSE
      OBVIOUS
    <3>1. k \in 1..Len(o) /\ n + 1 \in 1..Len(o) /\ k # n + 1
      BY <2>1
    <3> QED
      BY <3>1
  <2>4. Filtered(After(g[n], n + 1), o, n + 1)
    BY <2>2, <2>3, FilteredNext
  <2> HIDE DEF After
  <2> QED
    BY <2>2, <2>4
<1> HIDE DEF F
<1>10. F = Nat
  BY <1>8, <1>9, Induction DEF F
<1> QED
  BY <1>6, <1>10 DEF F

\* s has the tables of S, each once, and no more than n.
Lists(s, S, n) ==
    /\ s \in Seq(Tables) /\ Len(s) \in 1..n /\ DOMAIN s = 1..Len(s)
    /\ \A j \in 1..Len(s) : s[j] \in S
    /\ \A t \in S : \E j \in 1..Len(s) : s[j] = t
    /\ \A i, j \in 1..Len(s) : s[i] = s[j] => i = j

\* As Lists, but there may be no table.
ListsMain(s) ==
    /\ s \in Seq(Tables) /\ Len(s) \in 0..8 /\ DOMAIN s = 1..Len(s)
    /\ \A j \in 1..Len(s) : s[j] \in Tables \ {ItemTable, BagTable}
    /\ \A t \in Tables \ {ItemTable, BagTable} : \E j \in 1..Len(s) : s[j] = t
    /\ \A i, j \in 1..Len(s) : s[i] = s[j] => i = j

(* The length of a list of tables.                                         *)
LEMMA ListBounds ==
    ASSUME NEW s, s \in Seq(Tables), NEW n \in Nat, Len(s) =< n
    PROVE  /\ DOMAIN s = 1..Len(s) /\ \A j \in 1..Len(s) : s[j] \in Tables
           /\ Len(s) \in 0..n /\ (Len(s) # 0 => Len(s) \in 1..n)
  OBVIOUS

\* The names of the tables.
Names == {"auctionhouse", "character_gifts", "guild_bank_item", "item_refund_instance",
          "item_soulbound_trade_data", "mail_items", "petition", "petition_sign",
          "character_inventory", "item_instance"}

(* The copies and the truncations go through all tables, the main thread   *)
(* of Begin through all but the two of the other threads.                  *)
LEMMA OrdersOfTables ==
    /\ Lists(In(CreateOrder), Tables, 10)
    /\ Lists(In(TruncateOrder), Tables, 10)
    /\ ListsMain(In(MainOrder))
<1>1. Tables \subseteq Names /\ ItemTable \in Tables /\ BagTable \in Tables
  <2>1. ToSet(CreateOrder) = Names
    BY DEF ToSet, CreateOrder, Names
  <2> QED
    BY <2>1, RebaseAssumption
<1>2. Lists(In(CreateOrder), Tables, 10)
  <2>1. Len(CreateOrder) = 10 /\ \A i, j \in 1..10 : CreateOrder[i] = CreateOrder[j] => i = j
    BY DEF CreateOrder
  <2>2. \A x \in Names : \E k \in 1..10 : CreateOrder[k] = x
    BY DEF CreateOrder, Names
  <2>3. Filtered(In(CreateOrder), CreateOrder, 10)
    <3>1. Len(CreateOrder) \in Nat
          /\ \A i, j \in 1..Len(CreateOrder) : CreateOrder[i] = CreateOrder[j] => i = j
      BY <2>1
    <3>2. Filtered(In(CreateOrder), CreateOrder, Len(CreateOrder))
      BY <3>1, InIs
    <3> QED
      BY <2>1, <3>2
  <2> DEFINE s == In(CreateOrder)
             o == CreateOrder
  <2> HIDE DEF s, o
  <2>4. /\ s \in Seq(Tables) /\ Len(s) =< 10 /\ Len(s) \in Nat
        /\ \A k \in 1..10 : o[k] \in Tables => \E j \in 1..Len(s) : s[j] = o[k]
        /\ \A i, j \in 1..Len(s) : s[i] = s[j] => i = j
    BY <2>3 DEF Filtered, s, o
  <2>5. \A t \in Tables : \E j \in 1..Len(s) : s[j] = t
    BY <1>1, <2>2, <2>4 DEF o
  <2>6. Len(s) # 0
    BY <1>1, <2>4, <2>5
  <2>7. DOMAIN s = 1..Len(s) /\ Len(s) \in 1..10 /\ \A j \in 1..Len(s) : s[j] \in Tables
    BY <2>4, <2>6, ListBounds
  <2>8. Lists(s, Tables, 10)
    BY <2>4, <2>5, <2>7 DEF Lists
  <2> QED
    BY <2>8 DEF s
<1>3. Lists(In(TruncateOrder), Tables, 10)
  <2>1. Len(TruncateOrder) = 10
        /\ \A i, j \in 1..10 : TruncateOrder[i] = TruncateOrder[j] => i = j
    BY DEF TruncateOrder
  <2>2. \A x \in Names : \E k \in 1..10 : TruncateOrder[k] = x
    BY DEF TruncateOrder, Names
  <2>3. Filtered(In(TruncateOrder), TruncateOrder, 10)
    <3>1. Len(TruncateOrder) \in Nat
          /\ \A i, j \in 1..Len(TruncateOrder) : TruncateOrder[i] = TruncateOrder[j] => i = j
      BY <2>1
    <3>2. Filtered(In(TruncateOrder), TruncateOrder, Len(TruncateOrder))
      BY <3>1, InIs
    <3> QED
      BY <2>1, <3>2
  <2> DEFINE s == In(TruncateOrder)
             o == TruncateOrder
  <2> HIDE DEF s, o
  <2>4. /\ s \in Seq(Tables) /\ Len(s) =< 10 /\ Len(s) \in Nat
        /\ \A k \in 1..10 : o[k] \in Tables => \E j \in 1..Len(s) : s[j] = o[k]
        /\ \A i, j \in 1..Len(s) : s[i] = s[j] => i = j
    BY <2>3 DEF Filtered, s, o
  <2>5. \A t \in Tables : \E j \in 1..Len(s) : s[j] = t
    BY <1>1, <2>2, <2>4 DEF o
  <2>6. Len(s) # 0
    BY <1>1, <2>4, <2>5
  <2>7. DOMAIN s = 1..Len(s) /\ Len(s) \in 1..10 /\ \A j \in 1..Len(s) : s[j] \in Tables
    BY <2>4, <2>6, ListBounds
  <2>8. Lists(s, Tables, 10)
    BY <2>4, <2>5, <2>7 DEF Lists
  <2> QED
    BY <2>8 DEF s
<1>4. ListsMain(In(MainOrder))
  <2>1. Len(MainOrder) = 8 /\ \A i \in 1..8 : MainOrder[i] = CreateOrder[i]
    BY DEF MainOrder, CreateOrder
  <2>2. /\ \A i, j \in 1..8 : CreateOrder[i] = CreateOrder[j] => i = j
        /\ \A i \in 1..8 : CreateOrder[i] \notin {ItemTable, BagTable}
        /\ \A x \in Names \ {ItemTable, BagTable} : \E k \in 1..8 : CreateOrder[k] = x
    BY DEF CreateOrder, ItemTable, BagTable, Names
  <2>3. /\ \A i, j \in 1..8 : MainOrder[i] = MainOrder[j] => i = j
        /\ \A i \in 1..8 : MainOrder[i] \notin {ItemTable, BagTable}
        /\ \A x \in Names \ {ItemTable, BagTable} : \E k \in 1..8 : MainOrder[k] = x
    BY <2>1, <2>2
  <2>4. Filtered(In(MainOrder), MainOrder, 8)
    <3>1. Len(MainOrder) \in Nat
          /\ \A i, j \in 1..Len(MainOrder) : MainOrder[i] = MainOrder[j] => i = j
      BY <2>1, <2>3
    <3>2. Filtered(In(MainOrder), MainOrder, Len(MainOrder))
      BY <3>1, InIs
    <3> QED
      BY <2>1, <3>2
  <2> DEFINE s == In(MainOrder)
             o == MainOrder
  <2> HIDE DEF s, o
  <2>5. /\ s \in Seq(Tables) /\ Len(s) =< 8 /\ Len(s) \in Nat
        /\ \A j \in 1..Len(s) : \E k \in 1..8 : o[k] = s[j]
        /\ \A k \in 1..8 : o[k] \in Tables => \E j \in 1..Len(s) : s[j] = o[k]
        /\ \A i, j \in 1..Len(s) : s[i] = s[j] => i = j
    <3>1. Filtered(s, o, 8)
      BY <2>4 DEF s, o
    <3>2. /\ s \in Seq(Tables) /\ Len(s) =< 8
          /\ \A j \in 1..Len(s) : \E k \in 1..8 : o[k] = s[j]
          /\ \A k \in 1..8 : o[k] \in Tables => \E j \in 1..Len(s) : s[j] = o[k]
          /\ \A i, j \in 1..Len(s) : s[i] = s[j] => i = j
      BY <3>1, Zenon DEF Filtered
    <3>3. Len(s) \in Nat
      BY <3>2, LengthIs
    <3> QED
      BY <3>2, <3>3, Zenon
  <2>6. \A t \in Tables \ {ItemTable, BagTable} : \E j \in 1..Len(s) : s[j] = t
    <3> SUFFICES ASSUME NEW t \in Tables \ {ItemTable, BagTable}
                 PROVE  \E j \in 1..Len(s) : s[j] = t
      OBVIOUS
    <3>1. t \in Names \ {ItemTable, BagTable}
      BY <1>1
    <3>2. PICK k \in 1..8 : o[k] = t
      BY <2>3, <3>1 DEF o
    <3> QED
      BY <2>5, <3>2, Zenon
  <2>7. \A j \in 1..Len(s) : s[j] \in Tables \ {ItemTable, BagTable}
    <3> SUFFICES ASSUME NEW j \in 1..Len(s) PROVE s[j] \in Tables \ {ItemTable, BagTable}
      OBVIOUS
    <3>1. PICK k \in 1..8 : o[k] = s[j]
      BY <2>5
    <3>2. o[k] \notin {ItemTable, BagTable}
      BY <2>3 DEF o
    <3>3. s[j] \in Tables
      BY <2>5
    <3> QED
      BY <3>1, <3>2, <3>3, Zenon
  <2>8. DOMAIN s = 1..Len(s) /\ Len(s) \in 0..8
    <3>1. s \in Seq(Tables) /\ Len(s) =< 8 /\ 8 \in Nat
      BY <2>5
    <3> QED
      BY <3>1, ListBounds
  <2>9. ListsMain(s)
    BY <2>5, <2>6, <2>7, <2>8 DEF ListsMain
  <2> QED
    BY <2>9 DEF s
<1> QED
  BY <1>2, <1>3, <1>4

-----------------------------------------------------------------------------
(* Rows and ids.                                                           *)

(* A set of naturals with a bound has a greatest one.                      *)
LEMMA GreatestNatural ==
    ASSUME NEW m \in Nat, NEW S \in SUBSET (0..m), S # {}
    PROVE  Max(S) \in S /\ \A y \in S : y =< Max(S)
<1> DEFINE U == {m - x : x \in S}
<1>0. \A x \in S : x \in 0..m /\ m - x \in Nat
  OBVIOUS
<1>1. U \in SUBSET Nat /\ U # {}
  BY <1>0
<1>2. PICK u \in U : \A y \in U : u =< y
  BY <1>1, LeastNatural
<1>3. PICK x \in S : u = m - x
  BY <1>2
<1>4. \A y \in S : x >= y
  <2> SUFFICES ASSUME NEW y \in S PROVE x >= y
    OBVIOUS
  <2>1. u =< m - y
    BY <1>2
  <2> QED
    BY <1>3, <2>1
<1>5. Max(S) \in S /\ \A y \in S : Max(S) >= y
  BY <1>4 DEF Max
<1> QED
  BY <1>5

(* There are finitely many rows.                                           *)
LEMMA FiniteRows == IsFiniteSet(Row)
<1> DEFINE G == 1..MaxGuid
           B == 0..MaxGuid
           N == Items \cup {None}
           P == (G \X B) \X (Items \X N)
           f == [r \in Row |-> <<<<r.item, r.bag>>, <<r.is, r.in>>>>]
<1>1. MaxGuid \in Int /\ 0 \in Int /\ 1 \in Int /\ IsFiniteSet(Items)
  BY RebaseAssumption
<1>2. IsFiniteSet(G) /\ IsFiniteSet(B)
  BY <1>1, FS_Interval
<1>3. IsFiniteSet(N)
  BY <1>1, FS_AddElement
<1> HIDE DEF G, B, N
<1>4. IsFiniteSet(G \X B) /\ IsFiniteSet(Items \X N)
  BY <1>1, <1>2, <1>3, FS_Product
<1>5. IsFiniteSet(P)
  BY <1>4, FS_Product
<1>6. f \in [Row -> P]
  BY DEF Row, G, B, N
<1>7. \A r, q \in Row : f[r] = f[q] => r = q
  <2> SUFFICES ASSUME NEW r \in Row, NEW q \in Row, f[r] = f[q] PROVE r = q
    OBVIOUS
  <2>1. r.item = q.item /\ r.bag = q.bag /\ r.is = q.is /\ r.in = q.in
    OBVIOUS
  <2> QED
    BY <2>1 DEF Row
<1> HIDE DEF f, P
<1>8. f \in Injection(Row, P)
  BY <1>6, <1>7 DEF Injection, IsInjective
<1> QED
  BY <1>5, <1>8, FS_Injection

(* The highest id of a set of items, 0 when there is none.                 *)
LEMMA HighestIs ==
    ASSUME NEW rows \in SUBSET Row
    PROVE  /\ Max(Guids(rows) \cup {0}) \in 0..MaxGuid
           /\ \A r \in rows : r.item =< Max(Guids(rows) \cup {0})
<1> DEFINE S == Guids(rows) \cup {0}
<1>1. MaxGuid \in Nat
  BY RebaseAssumption
<1>2. \A r \in rows : r.item \in 1..MaxGuid /\ r.item \in S
  BY DEF Row, Guids
<1>3. S \in SUBSET (0..MaxGuid) /\ S # {}
  BY <1>1, <1>2 DEF Guids
<1> HIDE DEF S
<1>4. Max(S) \in S /\ \A y \in S : y =< Max(S)
  BY <1>1, <1>3, GreatestNatural
<1>5. Max(S) \in 0..MaxGuid /\ \A r \in rows : r.item =< Max(S)
  BY <1>2, <1>3, <1>4
<1> QED
  BY <1>5 DEF S

(* The new ids are ids.                                                    *)
LEMMA NumberingsAreIds ==
    ASSUME NEW guids \in SUBSET (1..MaxGuid), NEW f \in Numberings(guids)
    PROVE  /\ f \in [guids -> 1..MaxGuid]
           /\ \A g, h \in guids : f[g] = f[h] => g = h
<1>1. MaxGuid \in Int /\ 1 \in Int /\ MaxGuid > 0
  BY RebaseAssumption
<1>2. IsFiniteSet(1..MaxGuid) /\ Cardinality(1..MaxGuid) = MaxGuid
  BY <1>1, FS_Interval
<1>3. Cardinality(guids) =< MaxGuid /\ IsFiniteSet(guids)
  BY <1>2, FS_Subset
<1>4. Cardinality(guids) \in Nat
  BY <1>3, FS_CardinalityType
<1>5. f \in [guids -> 1..Cardinality(guids)] /\ IsInjective(f)
  BY DEF Numberings
<1> QED
  BY <1>1, <1>3, <1>4, <1>5 DEF IsInjective

(* A place in the order of the rows is in one chunk.                       *)
LEMMA OneChunk ==
    ASSUME NEW C \in Nat, C > 0, NEW j \in Nat, NEW k \in Nat, NEW i \in Nat,
           (j - 1) * C + 1 =< i, i =< j * C, (k - 1) * C + 1 =< i, i =< k * C
    PROVE  j = k
<1>1. ASSUME NEW a \in Nat, NEW b \in Nat, a < b PROVE a * C =< (b - 1) * C
  <2>1. b - 1 \in Nat /\ b - 1 - a \in Nat
    BY <1>1
  <2>2. (b - 1) * C = a * C + (b - 1 - a) * C
    BY <2>1
  <2>3. a * C \in Nat /\ (b - 1 - a) * C \in Nat
    BY <2>1
  <2> QED
    BY <2>2, <2>3
<1>2. j * C \in Int /\ k * C \in Int /\ (j - 1) * C \in Int /\ (k - 1) * C \in Int
  OBVIOUS
<1>3. ~(j < k) /\ ~(k < j)
  BY <1>1, <1>2
<1> QED
  BY <1>3

(* The statements for a table have all its rows and no others, and a row   *)
(* is in one of them.                                                      *)
LEMMA ChunksAre ==
    ASSUME NEW rows, IsFiniteSet(rows)
    PROVE  /\ Chunks(rows) \in Seq(SUBSET rows)
           /\ \A r \in rows : \E k \in DOMAIN Chunks(rows) : r \in Chunks(rows)[k]
           /\ \A j, k \in DOMAIN Chunks(rows), r \in rows :
                r \in Chunks(rows)[j] /\ r \in Chunks(rows)[k] => j = k
<1> DEFINE s == SetToSeq(rows)
           L == Len(s)
           n == (L + ChunkRows - 1) \div ChunkRows
           end(k) == Min({k * ChunkRows, L})
           c == [k \in 1..n |-> ToSet(SubSeq(s, (k - 1) * ChunkRows + 1, end(k)))]
<1>1. /\ s \in Seq(rows) /\ \A x \in rows : \E i \in 1..L : s[i] = x
      /\ \A i, j \in 1..L : s[i] = s[j] => i = j
  BY Orders
<1>2. ChunkRows \in Nat /\ ChunkRows > 0
  BY RebaseAssumption
<1> HIDE DEF s
<1>3. L \in Nat
  BY <1>1
<1> HIDE DEF L
<1>4. n \in Nat /\ n * ChunkRows >= L
  BY <1>2, <1>3
<1>5. Chunks(rows) = c
  BY DEF Chunks, s, L
<1> HIDE DEF n
<1>6. ASSUME NEW k \in 1..n
      PROVE  /\ k * ChunkRows \in Nat /\ (k - 1) * ChunkRows \in Nat
             /\ end(k) \in 0..L /\ end(k) =< k * ChunkRows
             /\ \A i \in 1..L : i =< k * ChunkRows => i =< end(k)
  <2>1. k * ChunkRows \in Nat /\ (k - 1) * ChunkRows \in Nat
    BY <1>2, <1>4
  <2> DEFINE a == k * ChunkRows
  <2> HIDE DEF a
  <2>2. \E x \in {a, L} : \A y \in {a, L} : x =< y
    BY <1>3, <2>1 DEF a
  <2>3. Min({a, L}) \in {a, L} /\ Min({a, L}) =< a /\ Min({a, L}) =< L
    BY <2>2 DEF Min
  <2>4. Min({a, L}) \in 0..L /\ \A i \in 1..L : i =< a => i =< Min({a, L})
    BY <1>3, <2>1, <2>3 DEF a
  <2> QED
    BY <2>1, <2>3, <2>4 DEF a
<1> HIDE DEF end
<1>7. ASSUME NEW k \in 1..n
      PROVE  c[k] = {s[i] : i \in (k - 1) * ChunkRows + 1 .. end(k)}
  <2> DEFINE a == (k - 1) * ChunkRows + 1
             e == end(k)
             u == SubSeq(s, a, e)
  <2>1. a \in Nat \ {0} /\ e \in 0..Len(s)
    BY <1>2, <1>6 DEF L
  <2> HIDE DEF a, e
  <2>2. /\ Len(u) \in Nat /\ DOMAIN u = 1..Len(u)
        /\ Len(u) = IF a =< e THEN e - a + 1 ELSE 0
        /\ \A i \in 1..Len(u) : u[i] = s[a + i - 1]
    BY <1>1, <2>1
  <2>3. ToSet(u) = {u[i] : i \in 1..Len(u)}
    BY <2>2 DEF ToSet
  <2> HIDE DEF u
  <2>4. ASSUME NEW x PROVE x \in {u[i] : i \in 1..Len(u)} <=> x \in {s[i] : i \in a..e}
    <3>1. ASSUME NEW i \in 1..Len(u), x = u[i] PROVE x \in {s[j] : j \in a..e}
      <4>1. a + i - 1 \in a..e
        BY <2>1, <2>2
      <4> QED
        BY <3>1, <4>1, <2>2
    <3>2. ASSUME NEW i \in a..e, x = s[i] PROVE x \in {u[j] : j \in 1..Len(u)}
      <4>1. i - a + 1 \in 1..Len(u) /\ a + (i - a + 1) - 1 = i
        BY <2>1, <2>2
      <4> QED
        BY <3>2, <4>1, <2>2
    <3> QED
      BY <3>1, <3>2
  <2>5. ToSet(u) = {s[i] : i \in a..e}
    BY <2>3, <2>4
  <2>6. c[k] = ToSet(u)
    BY DEF u, a, e
  <2> QED
    BY <2>5, <2>6 DEF a, e
<1>8. \A k \in 1..n : c[k] \in SUBSET rows
  <2> SUFFICES ASSUME NEW k \in 1..n, NEW i \in (k - 1) * ChunkRows + 1 .. end(k)
               PROVE  s[i] \in rows
    BY <1>7
  <2>1. i \in 1..L
    BY <1>2, <1>3, <1>6
  <2> QED
    BY <1>1, <2>1 DEF L
<1>9. ASSUME NEW r \in rows PROVE \E k \in 1..n : r \in c[k]
  <2>1. PICK i \in 1..L : s[i] = r
    BY <1>1
  <2> DEFINE k == ((i - 1) \div ChunkRows) + 1
  <2>2. k \in Nat /\ k >= 1 /\ (k - 1) * ChunkRows + 1 =< i /\ i =< k * ChunkRows
    BY <1>2, <1>3
  <2>3. k =< n
    BY <1>2, <1>3 DEF n
  <2> HIDE DEF k
  <2>4. k \in 1..n /\ i =< end(k)
    BY <1>4, <1>6, <2>2, <2>3
  <2>5. i \in (k - 1) * ChunkRows + 1 .. end(k)
    BY <1>2, <1>3, <1>6, <2>2, <2>4
  <2> QED
    BY <1>7, <2>1, <2>4, <2>5
<1>13. ASSUME NEW j \in 1..n, NEW k \in 1..n, NEW r \in rows, r \in c[j], r \in c[k]
       PROVE  j = k
  <2>1. PICK i \in (j - 1) * ChunkRows + 1 .. end(j) : s[i] = r
    BY <1>7, <1>13
  <2>2. PICK h \in (k - 1) * ChunkRows + 1 .. end(k) : s[h] = r
    BY <1>7, <1>13
  <2>3. i \in 1..L /\ h \in 1..L
    BY <1>2, <1>3, <1>6
  <2>4. i = h
    BY <1>1, <2>1, <2>2, <2>3
  <2>5. /\ j \in Nat /\ k \in Nat /\ i \in Nat
        /\ (j - 1) * ChunkRows + 1 =< i /\ i =< j * ChunkRows
        /\ (k - 1) * ChunkRows + 1 =< i /\ i =< k * ChunkRows
    <3>1. end(j) \in Int /\ end(k) \in Int /\ end(j) =< j * ChunkRows /\ end(k) =< k * ChunkRows
      BY <1>3, <1>6
    <3>2. j * ChunkRows \in Int /\ k * ChunkRows \in Int
          /\ (j - 1) * ChunkRows \in Int /\ (k - 1) * ChunkRows \in Int
      BY <1>6
    <3> QED
      BY <1>3, <1>4, <2>3, <2>4, <3>1, <3>2
  <2> QED
    BY <1>2, <2>5, OneChunk
<1> HIDE DEF c
<1>10. DOMAIN c = 1..n
  BY DEF c
<1>11. c \in [1..n -> SUBSET rows]
  BY <1>8 DEF c
<1>12. c \in Seq(SUBSET rows)
  BY <1>4, <1>11
<1> QED
  BY <1>5, <1>9, <1>10, <1>12, <1>13

-----------------------------------------------------------------------------
(* The types.                                                              *)

Phases == {"create", "truncate", "collect", "renumber"}

\* Where the main thread is, and which copies there are then.
PhaseInv ==
    /\ hub \in {"down", "loop", "timers"} \cup Phases
    /\ step \in 1..11
    /\ hub = "create" => /\ step =< Len(In(CreateOrder))
                         /\ \A k \in 1..step - 1 : In(CreateOrder)[k] \in DOMAIN temp
    /\ hub = "truncate" => step =< Len(In(TruncateOrder))
    /\ hub = "collect" => step = 1
    /\ hub = "renumber" => step =< Len(In(MainOrder)) + 1
    /\ hub \in {"truncate", "collect", "renumber"} => Tables \subseteq DOMAIN temp

\* The times.
ClockInv ==
    /\ halted \in BOOLEAN /\ haltTimer \in 0..Lead
    /\ toNext \in -MaxLate..Interval /\ toPlus \in -MaxLate..Interval + Grace
    /\ lapse \in 0..MaxLag + MaxDrift
    /\ saving \in Seq(0..Interval) /\ saved \in -1..Interval

Task == [op : {"insert", "drop", "clean"}, table : Tables, rows : SUBSET Row, from : Nat]

\* The tables, their copies, and what is still to be written.
StoreInv ==
    /\ live \in [Tables -> SUBSET Row]
    /\ DOMAIN temp \subseteq Tables /\ \A t \in DOMAIN temp : temp[t] \subseteq Row
    /\ DOMAIN itemMap \subseteq 1..MaxGuid
    /\ \A g \in DOMAIN itemMap : itemMap[g] \in 1..MaxGuid
    /\ itemRows \subseteq Row /\ bagRows \subseteq Row
    /\ tasks \in Seq(Task)

\* The history.
HistoryInv ==
    /\ DOMAIN owned \subseteq Items
    /\ flaws \subseteq {"stale", "empty", "cut", "swept", "interrupted"}
    /\ writes \in Nat /\ crashes \in Nat

TypeInv == PhaseInv /\ ClockInv /\ StoreInv /\ HistoryInv

(* What is assumed of the constants.                                       *)
LEMMA Constants ==
    /\ ItemTable \in Tables /\ BagTable \in Tables /\ ItemTable # BagTable
    /\ MaxGuid \in Nat /\ MaxGuid > 0
    /\ Lead \in Nat /\ Lead > 0 /\ Grace \in Nat /\ Grace > 0
    /\ Interval \in Nat /\ Interval > Lead + Grace
    /\ MaxLag \in Nat /\ MaxDrift \in Nat /\ MaxLate \in Nat /\ MaxLate < Interval
    /\ None \notin Items
<1>1. ItemTable # BagTable
  BY DEF ItemTable, BagTable
<1> QED
  BY <1>1, RebaseAssumption

(* The nodes have Grace to stop.                                           *)
LEMMA Later ==
    ASSUME NEW n \in -MaxLate..Interval
    PROVE  n + Grace \in -MaxLate..Interval + Grace /\ (n >= 0 => n + Grace >= 0)
  BY Constants

(* UpdateTimers: the pass ends, or Begin starts with the copies.           *)
LEMMA TimersOutcome ==
    ASSUME TypeInv, UpdateTimers
    PROVE  /\ hub = "timers"
           /\ \/ hub' = "loop" /\ UNCHANGED <<toPlus, step, flaws>>
              \/ /\ hub' = "create" /\ step' = 1 /\ toPlus < 0 /\ toPlus' >= 0
                 /\ flaws' = flaws \cup (IF DOMAIN temp = {} THEN {} ELSE {"stale"})
           /\ ClockInv'
           /\ UNCHANGED <<itemMap, itemRows, bagRows, tasks, live, temp, owned, writes, crashes>>
<1>1. ClockInv
  BY DEF TypeInv
<1>2. /\ hub = "timers" /\ UNCHANGED <<lapse, saved>>
      /\ UNCHANGED <<itemMap, itemRows, bagRows, tasks, live, temp, owned, writes, crashes>>
  BY DEF UpdateTimers, nodeVars
<1>3. CASE /\ hub' = "loop"
           /\ UNCHANGED <<halted, haltTimer, toNext, saving, toPlus, step, flaws>>
  BY <1>1, <1>2, <1>3 DEF ClockInv
<1>4. CASE Announce /\ PrePhase /\ BeginIfDue
  <2>1. halted' \in BOOLEAN /\ haltTimer' \in 0..Lead
    <3> DEFINE time == IF toNext <= 1 THEN 0 ELSE toNext
    <3>1. CASE toNext >= Lead /\ UNCHANGED <<halted, haltTimer>>
      BY <1>1, <3>1 DEF ClockInv
    <3>2. CASE toNext < Lead /\ HaltServ(time)
      <4>1. time \in 0..Lead
        BY <1>1, <3>2, Constants DEF ClockInv
      <4> HIDE DEF time
      <4>2. CASE halted' = TRUE /\ UNCHANGED haltTimer
        BY <1>1, <4>2 DEF ClockInv
      <4>3. CASE haltTimer' = time /\ UNCHANGED halted
        BY <1>1, <4>1, <4>3 DEF ClockInv
      <4> QED
        BY <3>2, <4>2, <4>3 DEF HaltServ
    <3> QED
      BY <1>4, <3>1, <3>2 DEF Announce
  <2>2. /\ toNext' \in -MaxLate..Interval
        /\ toNext' >= 0 /\ saving' \in Seq(0..Interval)
    <3>1. CASE toNext >= 0 /\ UNCHANGED <<toNext, saving>>
      BY <1>1, <3>1 DEF ClockInv
    <3>2. CASE toNext < 0 /\ toNext' = toNext + Interval /\ saving' = <<toNext'>>
      <4>1. toNext' \in 0..Interval /\ toNext' \in -MaxLate..Interval
        BY <1>1, <3>2, Constants DEF ClockInv
      <4> QED
        BY <3>2, <4>1
    <3> QED
      BY <1>4, <3>1, <3>2 DEF PrePhase
  <2>3. CASE toPlus >= 0 /\ hub' = "loop" /\ UNCHANGED <<toPlus, step, flaws>>
    BY <1>1, <1>2, <2>1, <2>2, <2>3 DEF ClockInv
  <2>4. CASE /\ toPlus < 0 /\ toPlus' = toNext' + Grace /\ hub' = "create" /\ step' = 1
             /\ flaws' = flaws \cup (IF DOMAIN temp = {} THEN {} ELSE {"stale"})
    <3>1. toPlus' \in -MaxLate..Interval + Grace /\ toPlus' >= 0
      <4>1. toPlus' = toNext' + Grace
        BY <2>4
      <4> QED
        BY <2>2, <4>1, Later
    <3>2. ClockInv'
      BY <1>1, <1>2, <2>1, <2>2, <3>1 DEF ClockInv
    <3> QED
      BY <1>2, <2>4, <3>1, <3>2
  <2> QED
    BY <1>4, <2>3, <2>4 DEF BeginIfDue
<1> QED
  BY <1>3, <1>4 DEF UpdateTimers

(* The times stay within their bounds.                                     *)
LEMMA ClockStep ==
    ASSUME TypeInv, [Next]_vars
    PROVE  ClockInv'
<1>1. /\ halted \in BOOLEAN /\ haltTimer \in 0..Lead
      /\ toNext \in -MaxLate..Interval /\ toPlus \in -MaxLate..Interval + Grace
      /\ lapse \in 0..MaxLag + MaxDrift
      /\ saving \in Seq(0..Interval) /\ saved \in -1..Interval
  BY DEF TypeInv, ClockInv
<1>2. CASE UNCHANGED <<timeVars, saving, saved>>
  BY <1>1, <1>2 DEF timeVars, ClockInv
<1>3. ASSUME NEW due \in BOOLEAN, UpdateGameTime(due)
      PROVE  ClockInv'
  <2>1. lapse' = 0 /\ UNCHANGED <<toNext, toPlus, saving, saved>>
    BY <1>3 DEF UpdateGameTime
  <2>2. halted' \in BOOLEAN /\ haltTimer' \in 0..Lead
    <3>1. CASE UNCHANGED <<halted, haltTimer>>
      BY <1>1, <3>1
    <3>2. CASE halted' = TRUE /\ haltTimer' = 0
      BY <3>2, Constants
    <3>3. CASE haltTimer > lapse /\ haltTimer' = haltTimer - lapse /\ UNCHANGED halted
      BY <1>1, <3>3, Constants
    <3> QED
      BY <1>3, <3>1, <3>2, <3>3 DEF UpdateGameTime
  <2> QED
    BY <1>1, <2>1, <2>2, Constants DEF ClockInv
<1>4. CASE UpdateTimers
  BY <1>4, TimersOutcome
<1>5. CASE Finish
  <2>1. halted' = FALSE /\ UNCHANGED <<haltTimer, toNext, toPlus, lapse, saving, saved>>
    BY <1>5 DEF Finish
  <2> QED
    BY <1>1, <2>1 DEF ClockInv
<1>6. CASE SaveState
  <2>1. saving # <<>> /\ saved' = saving[1] /\ saving' = <<>> /\ UNCHANGED timeVars
    BY <1>6 DEF SaveState
  <2>2. saving[1] \in -1..Interval
    BY <1>1, <2>1, Constants
  <2> QED
    BY <1>1, <2>1, <2>2 DEF ClockInv, timeVars
<1>7. CASE StartHub
  <2>1. /\ lapse' = 0 /\ halted' = FALSE /\ haltTimer' = 0
        /\ toNext' = Max({saved, 0}) /\ toPlus' = toNext' + Grace
        /\ UNCHANGED <<saving, saved>>
    BY <1>7 DEF StartHub
  <2>2. toNext' \in -MaxLate..Interval
    <3>1. \E x \in {saved, 0} : \A y \in {saved, 0} : x >= y
      BY <1>1
    <3>2. Max({saved, 0}) \in {saved, 0} /\ Max({saved, 0}) >= 0
      BY <3>1 DEF Max
    <3> QED
      BY <1>1, <2>1, <3>2, Constants
  <2>3. toPlus' \in -MaxLate..Interval + Grace
    <3>1. toPlus' = toNext' + Grace
      BY <2>1
    <3> QED
      BY <2>2, <3>1, Later
  <2>4. lapse' \in 0..MaxLag + MaxDrift /\ haltTimer' \in 0..Lead /\ halted' \in BOOLEAN
    <3>1. lapse' = 0 /\ haltTimer' = 0 /\ halted' = FALSE
      BY <2>1
    <3>2. 0 \in 0..MaxLag + MaxDrift /\ 0 \in 0..Lead
      BY Constants
    <3> QED
      BY <3>1, <3>2
  <2> QED
    BY <1>1, <2>1, <2>2, <2>3, <2>4 DEF ClockInv
<1>8. CASE Crash
  <2>1. /\ halted' = FALSE /\ haltTimer' = 0 /\ toNext' = 0 /\ toPlus' = 0 /\ lapse' = 0
        /\ saving' = <<>> /\ saved' = saved
    BY <1>8 DEF Crash
  <2>2. /\ 0 \in 0..Lead /\ 0 \in -MaxLate..Interval /\ 0 \in -MaxLate..Interval + Grace
        /\ 0 \in 0..MaxLag + MaxDrift
    BY Constants
  <2>3. <<>> \in Seq(0..Interval) /\ FALSE \in BOOLEAN
    OBVIOUS
  <2> QED
    BY <1>1, <2>1, <2>2, <2>3 DEF ClockInv
<1>9. CASE Tick
  <2>1. /\ lapse < MaxLag \/ lapse < MaxDrift
        /\ toNext > -MaxLate /\ toPlus > -MaxLate
        /\ lapse' = lapse + 1 /\ toNext' = toNext - 1 /\ toPlus' = toPlus - 1
        /\ saved' = Max({saved - 1, -1}) /\ UNCHANGED <<halted, haltTimer, saving>>
    BY <1>9 DEF Tick
  <2>2. saved' \in -1..Interval
    <3>1. \E x \in {saved - 1, -1} : \A y \in {saved - 1, -1} : x >= y
      BY <1>1
    <3>2. Max({saved - 1, -1}) \in {saved - 1, -1} /\ Max({saved - 1, -1}) >= -1
      BY <3>1 DEF Max
    <3> QED
      BY <1>1, <2>1, <3>2, Constants
  <2> QED
    BY <1>1, <2>1, <2>2, Constants DEF ClockInv
<1>10. CASE TickDown
  <2>1. saved >= 0 /\ saved' = saved - 1 /\ UNCHANGED <<timeVars, saving>>
    BY <1>10 DEF TickDown
  <2>2. saved' \in -1..Interval
    BY <1>1, <2>1, Constants
  <2> QED
    BY <1>1, <2>1, <2>2 DEF ClockInv, timeVars
<1>11. CASE CreateTable \/ TruncateTable \/ Collect \/ ItemInstance \/ CharacterInventory
            \/ RenumberTable \/ Worker
  BY <1>2, <1>11 DEF CreateTable, TruncateTable, Collect, ItemInstance, CharacterInventory,
     RenumberTable, Worker
<1>12. CASE Node
  BY <1>2, <1>12 DEF Node, CreateItem, DestroyItem
<1>13. CASE UNCHANGED vars
  BY <1>2, <1>13 DEF vars
<1> QED
  BY <1>3, <1>4, <1>5, <1>6, <1>7, <1>8, <1>9, <1>10, <1>11, <1>12, <1>13 DEF Next, Hub

\* The statements for one table that the main thread queues.
Inserts(t, chunks) ==
    [k \in DOMAIN chunks |-> Insert(t, IF TooLong(t, chunks[k]) THEN {} ELSE chunks[k])]

(* A row under its new ids is a row.                                       *)
LEMMA RenumberIs ==
    ASSUME StoreInv, NEW r \in Row, Mapped(r)
    PROVE  /\ Renumber(r) \in Row
           /\ Renumber(r).item = itemMap[r.item] /\ Renumber(r).is = r.is /\ Renumber(r).in = r.in
           /\ Renumber(r).bag = IF r.bag = 0 THEN 0 ELSE itemMap[r.bag]
<1>1. /\ r.item \in DOMAIN itemMap /\ itemMap[r.item] \in 1..MaxGuid
      /\ r.bag # 0 => itemMap[r.bag] \in 1..MaxGuid
  BY DEF StoreInv, Mapped
<1> DEFINE b == IF r.bag = 0 THEN 0 ELSE itemMap[r.bag]
<1>2. b \in 0..MaxGuid
  BY <1>1, Constants
<1>3. Renumber(r) = [r EXCEPT !.item = itemMap[r.item], !.bag = b]
  BY DEF Renumber, Row
<1> HIDE DEF b
<1>4. /\ Renumber(r) \in Row
      /\ Renumber(r).item = itemMap[r.item] /\ Renumber(r).is = r.is /\ Renumber(r).in = r.in
      /\ Renumber(r).bag = b
  BY <1>1, <1>2, <1>3 DEF Row
<1> QED
  BY <1>4 DEF b

(* The rows a table gets are rows, and finitely many.                      *)
LEMMA RenumberedRows ==
    ASSUME StoreInv, NEW rows \in SUBSET Row
    PROVE  Renumbered(rows) \in SUBSET Row /\ IsFiniteSet(Renumbered(rows))
<1>1. Renumbered(rows) \in SUBSET Row
  <2> SUFFICES ASSUME NEW r \in rows, Mapped(r) PROVE Renumber(r) \in Row
    BY DEF Renumbered
  <2> QED
    BY RenumberIs
<1> QED
  BY <1>1, FiniteRows, FS_Subset

(* The statements that are queued are statements.                          *)
LEMMA TaskTypes ==
    /\ \A t \in Tables : Drop(t) \in Task
    /\ \A t \in Tables, rows \in SUBSET Row : Insert(t, rows) \in Task
    /\ \A n \in Nat : Clean(n) \in Task
<1>1. {} \in SUBSET Row /\ 0 \in Nat
  OBVIOUS
<1> QED
  BY <1>1, Constants DEF Drop, Insert, Clean, Task

(* A table is filled by one statement for each chunk of its rows, and by a *)
(* statement without effect for a chunk that was cut.                      *)
LEMMA InsertsAre ==
    ASSUME StoreInv, NEW t \in Tables, NEW rows \in SUBSET Row
    PROVE  /\ Inserts(t, Chunks(Renumbered(rows))) \in Seq(Task)
           /\ DOMAIN Inserts(t, Chunks(Renumbered(rows))) = DOMAIN Chunks(Renumbered(rows))
           /\ \A k \in DOMAIN Chunks(Renumbered(rows)) :
                LET c == Chunks(Renumbered(rows))[k] IN
                Inserts(t, Chunks(Renumbered(rows)))[k] = Insert(t, IF TooLong(t, c) THEN {} ELSE c)
<1> DEFINE new == Renumbered(rows)
           c == Chunks(new)
           n == Len(c)
           I(k) == Insert(t, IF TooLong(t, c[k]) THEN {} ELSE c[k])
<1>1. new \in SUBSET Row /\ IsFiniteSet(new)
  BY RenumberedRows
<1> HIDE DEF new
<1>2. c \in Seq(SUBSET new)
  BY <1>1, ChunksAre
<1> HIDE DEF c
<1>3. n \in Nat /\ DOMAIN c = 1..n /\ \A k \in 1..n : c[k] \in SUBSET Row
  BY <1>1, <1>2
<1>4. \A k \in 1..n : I(k) \in Task
  <2> SUFFICES ASSUME NEW k \in 1..n PROVE I(k) \in Task
    OBVIOUS
  <2>1. (IF TooLong(t, c[k]) THEN {} ELSE c[k]) \in SUBSET Row
    BY <1>3
  <2> QED
    BY <2>1, TaskTypes
<1> HIDE DEF I
<1>5. Inserts(t, c) = [k \in 1..n |-> I(k)]
  BY <1>3 DEF Inserts, I
<1>6. [k \in 1..n |-> I(k)] \in Seq(Task)
  BY <1>3, <1>4
<1>7. Inserts(t, c) \in Seq(Task) /\ DOMAIN Inserts(t, c) = DOMAIN c
      /\ \A k \in DOMAIN c : Inserts(t, c)[k] = I(k)
  BY <1>3, <1>5, <1>6
<1> QED
  BY <1>7 DEF I, c, new

(* The statements with which a rebase ends.                                *)
LEMMA LastStatements ==
    ASSUME StoreInv
    PROVE  /\ Cleanup \in Seq(Task) /\ Len(Cleanup) = Len(In(TruncateOrder))
           /\ \A k \in 1..Len(Cleanup) : Cleanup[k] = Drop(In(TruncateOrder)[k])
           /\ Highest \in 0..MaxGuid /\ \A r \in live[ItemTable] : r.item =< Highest
           /\ SetHighestGuids = <<Clean(Highest + 1)>> /\ SetHighestGuids \in Seq(Task)
<1> DEFINE s == In(TruncateOrder)
           n == Len(s)
<1>1. Lists(s, Tables, 10)
  BY OrdersOfTables
<1> HIDE DEF s
<1>2. n \in Nat /\ DOMAIN s = 1..n /\ \A k \in 1..n : s[k] \in Tables
  BY <1>1 DEF Lists
<1>3. \A k \in 1..n : Drop(s[k]) \in Task
  BY <1>2, TaskTypes
<1>4. Cleanup = [k \in 1..n |-> Drop(s[k])]
  BY <1>2 DEF Cleanup, s
<1>5. Cleanup \in Seq(Task) /\ Len(Cleanup) = n /\ \A k \in 1..n : Cleanup[k] = Drop(s[k])
  BY <1>2, <1>3, <1>4
<1>6. live[ItemTable] \in SUBSET Row
  BY Constants DEF StoreInv
<1>7. Highest \in 0..MaxGuid /\ \A r \in live[ItemTable] : r.item =< Highest
  BY <1>6, HighestIs DEF Highest
<1>8. Highest + 1 \in Nat
  BY <1>7, Constants
<1>9. Clean(Highest + 1) \in Task
  BY <1>8, TaskTypes
<1>10. SetHighestGuids \in Seq(Task)
  BY <1>9 DEF SetHighestGuids
<1> QED
  BY <1>5, <1>7, <1>10 DEF SetHighestGuids, s

(* INSERT IGNORE: rows with an id that the table has are left out.         *)
LEMMA InsertIgnoreIs ==
    ASSUME live \in [Tables -> SUBSET Row], NEW t \in Tables, NEW rows \in SUBSET Row,
           InsertIgnore(t, rows)
    PROVE  /\ live' \in [Tables -> SUBSET Row]
           /\ live'[t] = live[t] \cup {r \in rows : r.item \notin Guids(live[t])}
           /\ \A u \in Tables \ {t} : live'[u] = live[u]
<1>1. live' = [live EXCEPT ![t] = live[t] \cup {r \in rows : r.item \notin Guids(live[t])}]
  BY DEF InsertIgnore
<1>2. live[t] \cup {r \in rows : r.item \notin Guids(live[t])} \in SUBSET Row
  OBVIOUS
<1> QED
  BY <1>1, <1>2

\* A statement of the worker is done.
WorkerIs(task) ==
    /\ task \in Task /\ task = tasks[1]
    /\ \/ task.op = "insert" /\ InsertIgnore(task.table, task.rows) /\ UNCHANGED <<temp, flaws>>
       \/ task.op = "drop" /\ temp' = Restrict(temp, DOMAIN temp \ {task.table})
          /\ UNCHANGED <<live, flaws>>
       \/ task.op = "clean" /\ CleanFrom(task.from) /\ UNCHANGED temp
    /\ hub # "down"
    /\ UNCHANGED <<timeVars, hub, step, itemMap, itemRows, bagRows, saving, saved, nodeVars,
                   crashes>>

(* The worker does the first statement and the others move up.             *)
LEMMA WorkerTakes ==
    ASSUME StoreInv, Worker
    PROVE  /\ \E task \in Task : WorkerIs(task)
           /\ tasks # <<>> /\ tasks' \in Seq(Task) /\ Len(tasks) \in Nat /\ Len(tasks') = Len(tasks) - 1
           /\ DOMAIN tasks = 1..Len(tasks) /\ DOMAIN tasks' = 1..Len(tasks')
           /\ \A k \in DOMAIN tasks' : k + 1 \in DOMAIN tasks /\ tasks'[k] = tasks[k + 1]
<1>1. tasks \in Seq(Task) /\ tasks # <<>> /\ tasks' = Tail(tasks)
  BY DEF StoreInv, Worker
<1>2. Head(tasks) = tasks[1] /\ tasks[1] \in Task
  BY <1>1
<1>3. /\ tasks' \in Seq(Task) /\ Len(tasks) \in Nat /\ Len(tasks') = Len(tasks) - 1
      /\ DOMAIN tasks = 1..Len(tasks) /\ DOMAIN tasks' = 1..Len(tasks')
      /\ \A k \in 1..Len(tasks) - 1 : tasks'[k] = tasks[k + 1]
  BY <1>1
<1>4. \A k \in 1..Len(tasks) - 1 : k + 1 \in 1..Len(tasks)
  BY <1>3
<1>5. WorkerIs(tasks[1])
  BY <1>2 DEF Worker, WorkerIs
<1> QED
  BY <1>1, <1>2, <1>3, <1>4, <1>5

(* The tables and the queue have rows and statements.                      *)
LEMMA StoreStep ==
    ASSUME TypeInv, [Next]_vars
    PROVE  StoreInv'
<1>1. StoreInv /\ PhaseInv
  BY DEF TypeInv
<1>2. /\ live \in [Tables -> SUBSET Row]
      /\ DOMAIN temp \subseteq Tables /\ \A t \in DOMAIN temp : temp[t] \subseteq Row
      /\ DOMAIN itemMap \subseteq 1..MaxGuid
      /\ \A g \in DOMAIN itemMap : itemMap[g] \in 1..MaxGuid
      /\ itemRows \subseteq Row /\ bagRows \subseteq Row
      /\ tasks \in Seq(Task)
  BY <1>1 DEF StoreInv
<1>3. CASE UNCHANGED <<itemMap, itemRows, bagRows, tasks, live, temp>>
  BY <1>2, <1>3 DEF StoreInv
<1>4. CASE CreateTable
  <2> DEFINE t == In(CreateOrder)[step]
  <2>1. t \in Tables
    <3>1. step \in 1..Len(In(CreateOrder))
      <4>1. hub = "create"
        BY <1>4 DEF CreateTable
      <4>2. step \in 1..11 /\ step =< Len(In(CreateOrder))
        BY <1>1, <4>1 DEF PhaseInv
      <4>3. Len(In(CreateOrder)) \in 1..10
        BY OrdersOfTables DEF Lists
      <4> QED
        BY <4>2, <4>3
    <3> QED
      BY <3>1, OrdersOfTables DEF Lists
  <2>2. /\ temp' = [x \in DOMAIN temp \cup {t} |-> IF x \in DOMAIN temp THEN temp[x] ELSE live[x]]
        /\ UNCHANGED <<itemMap, itemRows, bagRows, tasks, live>>
    BY <1>4 DEF CreateTable
  <2> HIDE DEF t
  <2>3. DOMAIN temp' \subseteq Tables /\ \A x \in DOMAIN temp' : temp'[x] \subseteq Row
    BY <1>2, <2>1, <2>2
  <2> QED
    BY <1>2, <2>2, <2>3 DEF StoreInv
<1>5. CASE TruncateTable
  <2> DEFINE t == In(TruncateOrder)[step]
  <2>2. live' = [live EXCEPT ![t] = {}] /\ UNCHANGED <<itemMap, itemRows, bagRows, tasks, temp>>
    BY <1>5 DEF TruncateTable
  <2> HIDE DEF t
  <2>3. live' \in [Tables -> SUBSET Row]
    BY <1>2, <2>2
  <2> QED
    BY <1>2, <2>2, <2>3 DEF StoreInv
<1>6. CASE Collect
  <2> DEFINE guids == Guids(temp[ItemTable])
  <2>1. UNCHANGED <<tasks, live, temp>> /\ hub = "collect"
    BY <1>6 DEF Collect
  <2>2. temp[ItemTable] \subseteq Row /\ temp[BagTable] \subseteq Row
    BY <1>1, <1>2, <2>1, Constants DEF PhaseInv
  <2>3. CASE UNCHANGED <<itemMap, itemRows, bagRows>>
    BY <1>3, <2>1, <2>3
  <2>4. CASE /\ \E f \in Numberings(guids) :
                  itemMap' = [g \in guids \cup DOMAIN itemMap |->
                                IF g \in guids THEN f[g] ELSE itemMap[g]]
             /\ itemRows' = temp[ItemTable] /\ bagRows' = temp[BagTable]
    <3>1. guids \in SUBSET (1..MaxGuid)
      BY <2>2 DEF Guids, Row
    <3> HIDE DEF guids
    <3>2. PICK f \in Numberings(guids) :
                  itemMap' = [g \in guids \cup DOMAIN itemMap |->
                                IF g \in guids THEN f[g] ELSE itemMap[g]]
      BY <2>4
    <3>3. f \in [guids -> 1..MaxGuid]
      BY <3>1, NumberingsAreIds
    <3>4. DOMAIN itemMap' \subseteq 1..MaxGuid /\ \A g \in DOMAIN itemMap' : itemMap'[g] \in 1..MaxGuid
      BY <1>2, <3>1, <3>2, <3>3
    <3> QED
      BY <1>2, <2>1, <2>2, <2>4, <3>4 DEF StoreInv
  <2> QED
    BY <1>6, <2>3, <2>4 DEF Collect
<1>7. CASE ItemInstance
  <2>1. PICK rows \in SUBSET itemRows :
               itemRows' = itemRows \ rows /\ InsertIgnore(ItemTable, Renumbered(rows))
    BY <1>7 DEF ItemInstance
  <2>2. UNCHANGED <<itemMap, bagRows, tasks, temp>>
    BY <1>7 DEF ItemInstance
  <2>3. rows \in SUBSET Row
    BY <1>2
  <2>4. Renumbered(rows) \in SUBSET Row
    BY <1>1, <2>3, RenumberedRows
  <2>5. live' \in [Tables -> SUBSET Row]
    BY <1>2, <2>1, <2>4, Constants, InsertIgnoreIs
  <2> QED
    BY <1>2, <2>1, <2>2, <2>5 DEF StoreInv
<1>8. CASE CharacterInventory
  <2>1. PICK rows \in SUBSET bagRows :
               bagRows' = bagRows \ rows /\ InsertIgnore(BagTable, Renumbered(rows))
    BY <1>8 DEF CharacterInventory
  <2>2. UNCHANGED <<itemMap, itemRows, tasks, temp>>
    BY <1>8 DEF CharacterInventory
  <2>3. rows \in SUBSET Row
    BY <1>2
  <2>4. Renumbered(rows) \in SUBSET Row
    BY <1>1, <2>3, RenumberedRows
  <2>5. live' \in [Tables -> SUBSET Row]
    BY <1>2, <2>1, <2>4, Constants, InsertIgnoreIs
  <2> QED
    BY <1>2, <2>1, <2>2, <2>5 DEF StoreInv
<1>9. CASE RenumberTable
  <2> DEFINE t == In(MainOrder)[step]
             q == Inserts(t, Chunks(Renumbered(temp[t])))
  <2>1. tasks' = tasks \o q /\ hub = "renumber" /\ step =< Len(In(MainOrder))
        /\ UNCHANGED <<itemMap, itemRows, bagRows, live, temp>>
    BY <1>9 DEF RenumberTable, Inserts
  <2>2. t \in Tables /\ t \in DOMAIN temp
    BY <1>1, <2>1, OrdersOfTables DEF PhaseInv, ListsMain
  <2>3. temp[t] \in SUBSET Row
    BY <1>2, <2>2
  <2> HIDE DEF t
  <2>4. q \in Seq(Task)
    BY <1>1, <2>2, <2>3, InsertsAre
  <2> HIDE DEF q
  <2>5. tasks' \in Seq(Task)
    BY <1>2, <2>1, <2>4
  <2> QED
    BY <1>2, <2>1, <2>5 DEF StoreInv
<1>10. CASE Finish
  <2>1. tasks' = tasks \o Cleanup \o SetHighestGuids
        /\ UNCHANGED <<itemMap, itemRows, bagRows, live, temp>>
    BY <1>10 DEF Finish
  <2>2. Cleanup \in Seq(Task) /\ SetHighestGuids \in Seq(Task)
    BY <1>1, LastStatements
  <2>3. tasks' \in Seq(Task)
    BY <1>2, <2>1, <2>2
  <2> QED
    BY <1>2, <2>1, <2>3 DEF StoreInv
<1>11. CASE Worker
  <2>1. tasks' \in Seq(Task)
    BY <1>1, <1>11, WorkerTakes
  <2>2. PICK task \in Task : WorkerIs(task)
    BY <1>1, <1>11, WorkerTakes
  <2>3. UNCHANGED <<itemMap, itemRows, bagRows>>
    BY <2>2 DEF WorkerIs
  <2>4. CASE InsertIgnore(task.table, task.rows) /\ UNCHANGED <<temp, flaws>>
    <3>1. task.table \in Tables /\ task.rows \in SUBSET Row
      BY DEF Task
    <3>2. live' \in [Tables -> SUBSET Row]
      BY <1>2, <2>4, <3>1, InsertIgnoreIs
    <3> QED
      BY <1>2, <2>1, <2>3, <2>4, <3>2 DEF StoreInv
  <2>5. CASE temp' = Restrict(temp, DOMAIN temp \ {task.table}) /\ UNCHANGED <<live, flaws>>
    <3>1. DOMAIN temp' \subseteq Tables /\ \A t \in DOMAIN temp' : temp'[t] \subseteq Row
      BY <1>2, <2>5 DEF Restrict
    <3> QED
      BY <1>2, <2>1, <2>3, <2>5, <3>1 DEF StoreInv
  <2>6. CASE CleanFrom(task.from) /\ UNCHANGED temp
    <3>1. live' = [t \in Tables |-> IF t \in Cleaned THEN {r \in live[t] : r.item < task.from} ELSE live[t]]
      BY <2>6 DEF CleanFrom
    <3>2. live' \in [Tables -> SUBSET Row]
      BY <1>2, <3>1
    <3> QED
      BY <1>2, <2>1, <2>3, <2>6, <3>2 DEF StoreInv
  <2> QED
    BY <2>2, <2>4, <2>5, <2>6 DEF WorkerIs
<1>12. CASE StartHub
  <2>1. tasks' = SetHighestGuids /\ UNCHANGED <<itemMap, itemRows, bagRows, live, temp>>
    BY <1>12 DEF StartHub
  <2>2. tasks' \in Seq(Task)
    BY <1>1, <2>1, LastStatements
  <2> QED
    BY <1>2, <2>1, <2>2 DEF StoreInv
<1>13. CASE Crash
  <2>1. tasks' = <<>> /\ itemMap' = <<>> /\ itemRows' = {} /\ bagRows' = {} /\ UNCHANGED <<live, temp>>
    BY <1>13 DEF Crash
  <2>2. DOMAIN itemMap' = {}
    BY <2>1
  <2> QED
    BY <1>2, <2>1, <2>2 DEF StoreInv
<1>14. CASE Node
  <2>1. UNCHANGED <<itemMap, itemRows, bagRows, tasks, temp>>
    BY <1>14 DEF Node, CreateItem, DestroyItem, beginVars
  <2>2. ASSUME NEW i \in Items, NEW t \in Tables, NEW b \in Items \cup {None}, CreateItem(i, t, b)
        PROVE  live' \in [Tables -> SUBSET Row]
    <3>1. PICK g \in (Highest + 1)..MaxGuid, bag \in BagIds(b) :
            live' = [live EXCEPT
              ![ItemTable] = @ \cup {[item |-> g, bag |-> 0, is |-> i, in |-> None]},
              ![t] = {r \in @ : r.item # g} \cup {[item |-> g, bag |-> bag, is |-> i, in |-> b]}]
      BY <2>2 DEF CreateItem
    <3>2. g \in 1..MaxGuid
      <4>1. Highest \in 0..MaxGuid
        BY <1>1, LastStatements
      <4> QED
        BY <4>1, Constants
    <3>3. bag \in 0..MaxGuid
      <4>1. \A r \in live[BagTable] : r.item \in 0..MaxGuid
        BY <1>2, Constants DEF Row
      <4>2. CASE b = None
        BY <4>2, Constants DEF BagIds
      <4>3. CASE b # None
        <5>1. bag \in Guids({r \in live[BagTable] : r.is = b /\ r.in = None})
          BY <4>3 DEF BagIds
        <5> QED
          BY <4>1, <5>1 DEF Guids
      <4> QED
        BY <4>2, <4>3
    <3>4. /\ [item |-> g, bag |-> 0, is |-> i, in |-> None] \in Row
          /\ [item |-> g, bag |-> bag, is |-> i, in |-> b] \in Row
      BY <3>2, <3>3, Constants DEF Row
    <3> QED
      BY <1>2, <3>1, <3>4
  <2>3. ASSUME NEW i \in Items, DestroyItem(i)
        PROVE  live' \in [Tables -> SUBSET Row]
    BY <1>2, <2>3 DEF DestroyItem, Without
  <2>4. live' \in [Tables -> SUBSET Row]
    BY <1>14, <2>2, <2>3, Constants DEF Node
  <2> QED
    BY <1>2, <2>1, <2>4 DEF StoreInv
<1>15. CASE \/ \E due \in BOOLEAN : UpdateGameTime(due)
            \/ UpdateTimers \/ SaveState \/ Tick \/ TickDown
  BY <1>3, <1>15 DEF UpdateGameTime, UpdateTimers, SaveState, Tick, TickDown, beginVars
<1>16. CASE UNCHANGED vars
  BY <1>3, <1>16 DEF vars, beginVars
<1> QED
  BY <1>4, <1>5, <1>6, <1>7, <1>8, <1>9, <1>10, <1>11, <1>12, <1>13, <1>14, <1>15, <1>16
     DEF Next, Hub

(* The history has its type.                                               *)
LEMMA HistoryStep ==
    ASSUME TypeInv, [Next]_vars
    PROVE  HistoryInv'
<1>1. /\ DOMAIN owned \subseteq Items
      /\ flaws \subseteq {"stale", "empty", "cut", "swept", "interrupted"}
      /\ writes \in Nat /\ crashes \in Nat
  BY DEF TypeInv, HistoryInv
<1>2. DOMAIN owned' \subseteq Items /\ writes' \in Nat
  <2>1. CASE Node
    <3>1. ASSUME NEW i \in Items, NEW t, NEW b, CreateItem(i, t, b)
          PROVE  DOMAIN owned' \subseteq Items /\ writes' \in Nat
      BY <1>1, <3>1 DEF CreateItem
    <3>2. ASSUME NEW i \in Items, DestroyItem(i)
          PROVE  DOMAIN owned' \subseteq Items /\ writes' \in Nat
      BY <1>1, <3>2 DEF DestroyItem, Restrict
    <3> QED
      BY <2>1, <3>1, <3>2 DEF Node
  <2>2. CASE Hub
    BY <1>1, <2>2 DEF Hub, UpdateGameTime, UpdateTimers, CreateTable, TruncateTable, Collect,
       ItemInstance, CharacterInventory, RenumberTable, Finish, Worker, SaveState, StartHub,
       Crash, nodeVars
  <2>3. CASE Tick \/ TickDown \/ UNCHANGED vars
    BY <1>1, <2>3 DEF Tick, TickDown, vars, nodeVars
  <2> QED
    BY <2>1, <2>2, <2>3 DEF Next
<1>3. crashes' \in Nat
  <2>1. CASE Crash
    BY <1>1, <2>1 DEF Crash
  <2>2. CASE Hub /\ ~Crash
    BY <1>1, <2>2 DEF Hub, UpdateGameTime, UpdateTimers, CreateTable, TruncateTable, Collect,
       ItemInstance, CharacterInventory, RenumberTable, Finish, Worker, SaveState, StartHub
  <2>3. CASE Node \/ Tick \/ TickDown \/ UNCHANGED vars
    BY <1>1, <2>3 DEF Node, CreateItem, DestroyItem, Tick, TickDown, vars
  <2> QED
    BY <2>1, <2>2, <2>3 DEF Next
<1>4. flaws' \subseteq {"stale", "empty", "cut", "swept", "interrupted"}
  <2>1. CASE UpdateTimers
    BY <1>1, <2>1, TimersOutcome
  <2>2. CASE Collect
    BY <1>1, <2>2 DEF Collect
  <2>3. CASE RenumberTable
    <3>1. flaws' = flaws \/ flaws' = flaws \cup {"cut"}
      BY <2>3 DEF RenumberTable
    <3> QED
      BY <1>1, <3>1
  <2>4. CASE Worker
    BY <1>1, <2>4 DEF Worker, CleanFrom
  <2>5. CASE Crash
    BY <1>1, <2>5 DEF Crash
  <2>6. CASE Hub /\ ~(UpdateTimers \/ Collect \/ RenumberTable \/ Worker \/ Crash)
    BY <1>1, <2>6 DEF Hub, UpdateGameTime, CreateTable, TruncateTable,
       ItemInstance, CharacterInventory, Finish, SaveState, StartHub
  <2>7. CASE Node \/ Tick \/ TickDown \/ UNCHANGED vars
    BY <1>1, <2>7 DEF Node, CreateItem, DestroyItem, Tick, TickDown, vars
  <2> QED
    BY <2>1, <2>2, <2>3, <2>4, <2>5, <2>6, <2>7 DEF Next
<1> QED
  BY <1>1, <1>2, <1>3, <1>4 DEF HistoryInv

-----------------------------------------------------------------------------
(* The queue.                                                              *)

\* Inserts come first, and nothing but a cleaning comes after a cleaning.
Ordered(q) ==
    \A j, k \in DOMAIN q :
        j =< k => /\ q[k].op = "insert" => q[j].op = "insert"
                  /\ q[j].op = "clean" => q[k].op = "clean"

\* The two threads write two tables, the worker writes the others.
Apart(q) == \A k \in DOMAIN q : q[k].op = "insert" => q[k].table \notin {ItemTable, BagTable}

AllInserts(q) == \A k \in DOMAIN q : q[k].op = "insert"

\* A rebase begins when the statements of the one before are done.
TaskInv ==
    /\ hub \in {"create", "truncate", "collect", "down"} => tasks = <<>>
    /\ hub = "renumber" => AllInserts(tasks)
    /\ tasks # <<>> \/ hub \in Phases => toPlus >= 0
    /\ Apart(tasks) /\ Ordered(tasks)

(* The statements of one table, in the queue.                              *)
LEMMA QueueInserts ==
    ASSUME NEW q \in Seq(Task), AllInserts(q), Apart(q),
           NEW p \in Seq(Task), \A k \in DOMAIN p : p[k].op = "insert"
                                    /\ p[k].table \notin {ItemTable, BagTable}
    PROVE  AllInserts(q \o p) /\ Apart(q \o p) /\ Ordered(q \o p)
<1> DEFINE s == q \o p
<1>1. /\ Len(q) \in Nat /\ Len(p) \in Nat /\ DOMAIN q = 1..Len(q) /\ DOMAIN p = 1..Len(p)
      /\ DOMAIN s = 1..Len(q) + Len(p)
      /\ \A k \in 1..Len(q) + Len(p) : s[k] = IF k =< Len(q) THEN q[k] ELSE p[k - Len(q)]
  OBVIOUS
<1> HIDE DEF s
<1>2. ASSUME NEW k \in DOMAIN s PROVE s[k].op = "insert" /\ s[k].table \notin {ItemTable, BagTable}
  <2>1. CASE k =< Len(q)
    <3>1. k \in DOMAIN q /\ s[k] = q[k]
      BY <1>1, <2>1
    <3> QED
      BY <3>1 DEF AllInserts, Apart
  <2>2. CASE ~(k =< Len(q))
    <3>1. k - Len(q) \in DOMAIN p /\ s[k] = p[k - Len(q)]
      BY <1>1, <2>2
    <3> QED
      BY <3>1
  <2> QED
    BY <2>1, <2>2
<1>3. AllInserts(s) /\ Apart(s)
  BY <1>2 DEF AllInserts, Apart
<1>4. Ordered(s)
  <2>1. \A k \in DOMAIN s : s[k].op = "insert" /\ s[k].op # "clean"
    BY <1>2
  <2> QED
    BY <2>1 DEF Ordered
<1> QED
  BY <1>3, <1>4 DEF s

(* The statements with which a rebase ends, in the queue.                  *)
LEMMA QueueLast ==
    ASSUME NEW q \in Seq(Task), AllInserts(q), Apart(q),
           NEW p \in Seq(Task), \A k \in DOMAIN p : p[k].op = "drop",
           NEW n \in Nat
    PROVE  Apart(q \o p \o <<Clean(n)>>) /\ Ordered(q \o p \o <<Clean(n)>>)
<1> DEFINE s == q \o p \o <<Clean(n)>>
           a == Len(q)
           b == Len(q) + Len(p)
<1>0. Clean(n) \in Task /\ Clean(n).op = "clean"
  BY TaskTypes DEF Clean
<1> DEFINE c == Clean(n)
<1> HIDE DEF c
<1>1. /\ a \in Nat /\ b \in Nat /\ a =< b /\ DOMAIN q = 1..a /\ DOMAIN p = 1..Len(p)
      /\ DOMAIN s = 1..b + 1
      /\ \A k \in 1..a : s[k] = q[k]
      /\ \A k \in 1..Len(p) : s[a + k] = p[k]
      /\ s[b + 1] = Clean(n)
  <2>1. /\ Len(q) \in Nat /\ Len(p) \in Nat /\ DOMAIN q = 1..Len(q) /\ DOMAIN p = 1..Len(p)
    OBVIOUS
  <2> DEFINE u == q \o p
  <2>2. /\ u \in Seq(Task) /\ Len(u) = b
        /\ \A k \in 1..b : u[k] = IF k =< a THEN q[k] ELSE p[k - a]
    OBVIOUS
  <2> HIDE DEF u
  <2>3. /\ Len(u \o <<c>>) = b + 1 /\ DOMAIN (u \o <<c>>) = 1..b + 1
        /\ \A k \in 1..b : (u \o <<c>>)[k] = u[k]
        /\ (u \o <<c>>)[b + 1] = c
    <3>1. c \in Task
      BY <1>0 DEF c
    <3>2. u \in Seq(Task) /\ Len(u) = b /\ b \in Nat
      BY <2>1, <2>2
    <3> HIDE DEF b
    <3> QED
      BY <3>1, <3>2
  <2>4. s = u \o <<c>>
    BY DEF u, c
  <2> HIDE DEF s
  <2>5. \A k \in 1..a : s[k] = q[k]
    BY <2>1, <2>2, <2>3, <2>4
  <2>6. \A k \in 1..Len(p) : s[a + k] = p[k]
    <3> SUFFICES ASSUME NEW k \in 1..Len(p) PROVE s[a + k] = p[k]
      OBVIOUS
    <3>1. a + k \in 1..b /\ ~(a + k =< a) /\ a + k - a = k
      BY <2>1
    <3> QED
      BY <2>2, <2>3, <2>4, <3>1
  <2> QED
    BY <2>1, <2>3, <2>4, <2>5, <2>6 DEF c
<1> HIDE DEF s, a, b
<1>2. \A k \in 1..a : s[k].op = "insert" /\ s[k].table \notin {ItemTable, BagTable}
  BY <1>1 DEF AllInserts, Apart
<1>3. \A k \in a + 1..b : s[k].op = "drop"
  <2> SUFFICES ASSUME NEW k \in a + 1..b PROVE s[k].op = "drop"
    OBVIOUS
  <2>1. PICK i \in 1..Len(p) : k = a + i
    <3>1. k - a \in 1..Len(p) /\ a + (k - a) = k
      BY <1>1 DEF a, b
    <3> QED
      BY <3>1
  <2> QED
    BY <1>1, <2>1
<1>4. \A k \in DOMAIN s : k \in 1..a \/ k \in a + 1..b \/ k = b + 1
  BY <1>1
<1>5. s[b + 1].op = "clean"
  BY <1>0, <1>1
<1>6. Apart(s)
  BY <1>2, <1>3, <1>4, <1>5 DEF Apart
<1>7. Ordered(s)
  <2> SUFFICES ASSUME NEW j \in DOMAIN s, NEW k \in DOMAIN s, j =< k
               PROVE  /\ s[k].op = "insert" => s[j].op = "insert"
                      /\ s[j].op = "clean" => s[k].op = "clean"
    BY DEF Ordered
  <2>1. CASE k \in 1..a
    <3>1. j \in 1..a
      BY <1>1, <2>1
    <3> QED
      BY <1>2, <2>1, <3>1
  <2>2. CASE k \in a + 1..b
    <3>1. j \in 1..a \/ j \in a + 1..b
      BY <1>1, <2>2
    <3> QED
      BY <1>2, <1>3, <2>2, <3>1
  <2>3. CASE k = b + 1
    BY <1>5, <2>3
  <2> QED
    BY <1>4, <2>1, <2>2, <2>3
<1> QED
  BY <1>6, <1>7 DEF s

(* The statements that the main thread queues for a table.                 *)
LEMMA QueuedForTable ==
    ASSUME TypeInv, RenumberTable
    PROVE  LET t == In(MainOrder)[step]
               q == Inserts(t, Chunks(Renumbered(temp[t])))
           IN  /\ hub = "renumber" /\ step \in 1..Len(In(MainOrder)) /\ step' = step + 1
               /\ t \in Tables \ {ItemTable, BagTable} /\ t \in DOMAIN temp /\ temp[t] \in SUBSET Row
               /\ tasks' = tasks \o q /\ q \in Seq(Task)
               /\ \A k \in DOMAIN q : q[k].op = "insert" /\ q[k].table = t
<1> DEFINE t == In(MainOrder)[step]
           new == Renumbered(temp[t])
           q == Inserts(t, Chunks(new))
<1>1. StoreInv /\ PhaseInv
  BY DEF TypeInv
<1>2. tasks' = tasks \o q /\ hub = "renumber" /\ step =< Len(In(MainOrder)) /\ step' = step + 1
  BY DEF RenumberTable, Inserts
<1>3. Len(In(MainOrder)) \in 0..8 /\ \A j \in 1..Len(In(MainOrder)) :
        In(MainOrder)[j] \in Tables \ {ItemTable, BagTable}
  BY OrdersOfTables DEF ListsMain
<1>4. step \in 1..11 /\ Tables \subseteq DOMAIN temp
  BY <1>1, <1>2 DEF PhaseInv
<1>5. step \in 1..Len(In(MainOrder))
  BY <1>2, <1>3, <1>4
<1>6. t \in Tables \ {ItemTable, BagTable}
  BY <1>3, <1>5
<1> HIDE DEF t
<1>7. t \in DOMAIN temp /\ temp[t] \in SUBSET Row
  BY <1>1, <1>4, <1>6 DEF StoreInv
<1>8. /\ q \in Seq(Task) /\ DOMAIN q = DOMAIN Chunks(new)
      /\ \A k \in DOMAIN q : LET c == Chunks(new)[k] IN q[k] = Insert(t, IF TooLong(t, c) THEN {} ELSE c)
  BY <1>1, <1>6, <1>7, InsertsAre
<1> HIDE DEF q, new
<1>9. \A k \in DOMAIN q : q[k].op = "insert" /\ q[k].table = t
  BY <1>8 DEF Insert
<1>10. /\ hub = "renumber" /\ step \in 1..Len(In(MainOrder)) /\ step' = step + 1
       /\ t \in Tables \ {ItemTable, BagTable} /\ t \in DOMAIN temp /\ temp[t] \in SUBSET Row
       /\ tasks' = tasks \o q /\ q \in Seq(Task)
       /\ \A k \in DOMAIN q : q[k].op = "insert" /\ q[k].table = t
  BY <1>2, <1>5, <1>6, <1>7, <1>8, <1>9
<1> QED
  BY <1>10 DEF q, new, t

(* The queue stays in order.                                               *)
LEMMA TaskStep ==
    ASSUME TypeInv, TaskInv, [Next]_vars
    PROVE  TaskInv'
<1>1. /\ hub \in {"create", "truncate", "collect", "down"} => tasks = <<>>
      /\ hub = "renumber" => AllInserts(tasks)
      /\ tasks # <<>> \/ hub \in Phases => toPlus >= 0
      /\ Apart(tasks) /\ Ordered(tasks)
  BY DEF TaskInv
<1>2. StoreInv /\ tasks \in Seq(Task)
  BY DEF TypeInv, StoreInv
<1>3. CASE UNCHANGED <<hub, tasks, toPlus>>
  BY <1>1, <1>3 DEF TaskInv, AllInserts, Apart, Ordered
<1>4. ASSUME NEW due \in BOOLEAN, UpdateGameTime(due)
      PROVE  TaskInv'
  <2>1. hub = "loop" /\ hub' \in {"loop", "timers"} /\ UNCHANGED <<tasks, toPlus>>
    BY <1>4 DEF UpdateGameTime
  <2> QED
    BY <1>1, <2>1 DEF TaskInv, AllInserts, Apart, Ordered, Phases
<1>5. CASE UpdateTimers
  <2>1. hub = "timers" /\ UNCHANGED tasks
        /\ \/ hub' = "loop" /\ toPlus' = toPlus
           \/ hub' = "create" /\ toPlus < 0 /\ toPlus' >= 0
    BY <1>5, TimersOutcome
  <2>2. CASE hub' = "loop" /\ toPlus' = toPlus
    BY <1>1, <2>1, <2>2 DEF TaskInv, AllInserts, Apart, Ordered, Phases
  <2>3. CASE hub' = "create" /\ toPlus < 0 /\ toPlus' >= 0
    <3>1. toPlus \in Int
      BY Constants DEF TypeInv, ClockInv
    <3>2. tasks = <<>>
      BY <1>1, <2>3, <3>1
    <3> QED
      BY <2>1, <2>3, <3>2 DEF TaskInv, AllInserts, Apart, Ordered, Phases
  <2> QED
    BY <2>1, <2>2, <2>3
<1>6. CASE CreateTable \/ TruncateTable \/ Collect
  <2>1. /\ hub \in {"create", "truncate", "collect"}
        /\ hub' \in {"create", "truncate", "collect", "renumber", "loop"}
        /\ UNCHANGED <<tasks, toPlus>>
    BY <1>6 DEF CreateTable, TruncateTable, Collect, timeVars
  <2>2. tasks = <<>> /\ toPlus >= 0
    BY <1>1, <2>1 DEF Phases
  <2> QED
    BY <2>1, <2>2 DEF TaskInv, AllInserts, Apart, Ordered, Phases
<1>7. CASE RenumberTable
  <2> DEFINE t == In(MainOrder)[step]
             q == Inserts(t, Chunks(Renumbered(temp[t])))
  <2>1. /\ hub = "renumber" /\ t \in Tables \ {ItemTable, BagTable}
        /\ tasks' = tasks \o q /\ q \in Seq(Task)
        /\ \A k \in DOMAIN q : q[k].op = "insert" /\ q[k].table = t
    BY <1>7, QueuedForTable
  <2>2. UNCHANGED <<hub, toPlus>>
    BY <1>7 DEF RenumberTable, timeVars
  <2> HIDE DEF q, t
  <2>3. AllInserts(tasks \o q) /\ Apart(tasks \o q) /\ Ordered(tasks \o q)
    <3>1. \A k \in DOMAIN q : q[k].op = "insert" /\ q[k].table \notin {ItemTable, BagTable}
      BY <2>1
    <3>2. AllInserts(tasks) /\ Apart(tasks)
      BY <1>1, <2>1
    <3> QED
      BY <1>2, <2>1, <3>1, <3>2, QueueInserts
  <2>4. AllInserts(tasks') /\ Apart(tasks') /\ Ordered(tasks')
    BY <2>1, <2>3
  <2> QED
    BY <1>1, <2>1, <2>2, <2>4 DEF TaskInv, Phases, AllInserts, Apart, Ordered
<1>8. CASE Finish
  <2>1. hub = "renumber" /\ hub' = "loop" /\ tasks' = tasks \o Cleanup \o SetHighestGuids
        /\ UNCHANGED toPlus
    BY <1>8 DEF Finish
  <2>2. /\ Cleanup \in Seq(Task) /\ \A k \in 1..Len(Cleanup) : Cleanup[k] = Drop(In(TruncateOrder)[k])
        /\ Highest \in 0..MaxGuid /\ SetHighestGuids = <<Clean(Highest + 1)>>
    BY <1>2, LastStatements
  <2>3. \A k \in DOMAIN Cleanup : Cleanup[k].op = "drop"
    <3>1. DOMAIN Cleanup = 1..Len(Cleanup)
      BY <2>2
    <3>2. \A t : Drop(t).op = "drop"
      BY DEF Drop
    <3> QED
      BY <2>2, <3>1, <3>2
  <2>4. Highest + 1 \in Nat
    BY <2>2, Constants
  <2>5. AllInserts(tasks) /\ Apart(tasks)
    BY <1>1, <2>1
  <2>6. Apart(tasks \o Cleanup \o <<Clean(Highest + 1)>>)
        /\ Ordered(tasks \o Cleanup \o <<Clean(Highest + 1)>>)
    BY <1>2, <2>2, <2>3, <2>4, <2>5, QueueLast
  <2>7. Apart(tasks') /\ Ordered(tasks')
    BY <2>1, <2>2, <2>6
  <2> QED
    BY <1>1, <2>1, <2>7 DEF TaskInv, Phases, AllInserts, Apart, Ordered
<1>9. CASE Worker
  <2>1. /\ tasks # <<>> /\ tasks' \in Seq(Task) /\ Len(tasks') \in Nat /\ DOMAIN tasks' = 1..Len(tasks')
        /\ \A k \in DOMAIN tasks' : k + 1 \in DOMAIN tasks /\ tasks'[k] = tasks[k + 1]
    BY <1>2, <1>9, WorkerTakes
  <2>2. UNCHANGED <<hub, toPlus>>
    BY <1>9 DEF Worker, timeVars
  <2>3. Apart(tasks')
    BY <1>1, <2>1 DEF Apart
  <2>4. hub = "renumber" => AllInserts(tasks')
    BY <1>1, <2>1 DEF AllInserts
  <2>5. Ordered(tasks')
    <3> SUFFICES ASSUME NEW j \in DOMAIN tasks', NEW k \in DOMAIN tasks', j =< k
                 PROVE  /\ tasks'[k].op = "insert" => tasks'[j].op = "insert"
                        /\ tasks'[j].op = "clean" => tasks'[k].op = "clean"
      BY DEF Ordered
    <3>1. j + 1 =< k + 1 /\ j + 1 \in DOMAIN tasks /\ k + 1 \in DOMAIN tasks
      BY <2>1
    <3> QED
      BY <1>1, <2>1, <3>1 DEF Ordered
  <2> QED
    BY <1>1, <2>1, <2>2, <2>3, <2>4, <2>5 DEF TaskInv, AllInserts, Apart, Ordered
<1>10. CASE StartHub
  <2>1. hub' = "loop" /\ tasks' = SetHighestGuids /\ toPlus' = toNext' + Grace
        /\ toNext' = Max({saved, 0})
    BY <1>10 DEF StartHub
  <2>2. saved \in -1..Interval
    BY DEF TypeInv, ClockInv
  <2>3. Max({saved, 0}) \in -MaxLate..Interval /\ Max({saved, 0}) >= 0
    <3>1. \E x \in {saved, 0} : \A y \in {saved, 0} : x >= y
      BY <2>2
    <3>2. Max({saved, 0}) \in {saved, 0} /\ Max({saved, 0}) >= 0
      BY <3>1 DEF Max
    <3> QED
      BY <2>2, <3>2, Constants
  <2>4. toPlus' >= 0
    BY <2>1, <2>3, Later
  <2>5. SetHighestGuids = <<Clean(Highest + 1)>>
    BY DEF SetHighestGuids
  <2>6. DOMAIN SetHighestGuids = {1} /\ SetHighestGuids[1].op = "clean"
    <3>1. DOMAIN <<Clean(Highest + 1)>> = {1} /\ <<Clean(Highest + 1)>>[1] = Clean(Highest + 1)
      OBVIOUS
    <3> QED
      BY <2>5, <3>1 DEF Clean
  <2>7. Apart(tasks') /\ Ordered(tasks')
    BY <2>1, <2>6 DEF Apart, Ordered
  <2> QED
    BY <2>1, <2>4, <2>7 DEF TaskInv, Phases
<1>11. CASE Crash
  <2>1. hub' = "down" /\ tasks' = <<>>
    BY <1>11 DEF Crash
  <2> QED
    BY <2>1 DEF TaskInv, Phases, AllInserts, Apart, Ordered
<1>12. CASE Tick
  <2>1. hub \in {"loop", "timers"} /\ hub' = hub /\ tasks = <<>> /\ tasks' = tasks
    BY <1>12 DEF Tick, beginVars
  <2> QED
    BY <2>1 DEF TaskInv, Phases, AllInserts, Apart, Ordered
<1>13. CASE ItemInstance \/ CharacterInventory \/ SaveState \/ TickDown
  BY <1>3, <1>13 DEF ItemInstance, CharacterInventory, SaveState, TickDown, timeVars, beginVars
<1>14. CASE Node
  BY <1>3, <1>14 DEF Node, CreateItem, DestroyItem, timeVars, beginVars
<1>15. CASE UNCHANGED vars
  BY <1>3, <1>15 DEF vars, timeVars, beginVars
<1> QED
  BY <1>4, <1>5, <1>6, <1>7, <1>8, <1>9, <1>10, <1>11, <1>12, <1>13, <1>14, <1>15 DEF Next, Hub

(* The step of a phase stays within the tables.                            *)
LEMMA NextStep ==
    /\ \A n \in 1..10, k \in 1..11 : k < n => k + 1 \in 1..11 /\ k + 1 =< n /\ k + 1 - 1 = k
    /\ \A n \in 0..8 : \A k \in 1..n : k + 1 \in 1..11 /\ k + 1 =< n + 1
    /\ 1 \in 1..11 /\ (\A n \in 1..10 : 1 =< n) /\ 1..1 - 1 = {}
  OBVIOUS

(* The main thread goes through the tables, and there are copies of all    *)
(* when it empties the first.                                              *)
LEMMA PhaseStep ==
    ASSUME TypeInv, TaskInv, [Next]_vars
    PROVE  PhaseInv'
<1> DEFINE C == In(CreateOrder)
           T == In(TruncateOrder)
           M == In(MainOrder)
<1>1. /\ hub \in {"down", "loop", "timers"} \cup Phases
      /\ step \in 1..11
      /\ hub = "create" => step =< Len(C) /\ \A k \in 1..step - 1 : C[k] \in DOMAIN temp
      /\ hub = "truncate" => step =< Len(T)
      /\ hub = "collect" => step = 1
      /\ hub = "renumber" => step =< Len(M) + 1
      /\ hub \in {"truncate", "collect", "renumber"} => Tables \subseteq DOMAIN temp
  BY DEF TypeInv, PhaseInv
<1>2. /\ Len(C) \in 1..10 /\ \A t \in Tables : \E j \in 1..Len(C) : C[j] = t
      /\ Len(T) \in 1..10 /\ Len(M) \in 0..8
  BY OrdersOfTables DEF Lists, ListsMain
<1> HIDE DEF C, T, M
<1>3. CASE UNCHANGED <<hub, step, temp>>
  BY <1>1, <1>3 DEF PhaseInv, C, T, M
<1>4. CASE hub' \in {"loop", "timers", "down"} /\ step' \in 1..11
  BY <1>4 DEF PhaseInv
<1>5. CASE UpdateTimers
  <2>1. CASE hub' = "loop" /\ UNCHANGED step
    BY <1>1, <1>4, <2>1
  <2>2. CASE hub' = "create" /\ step' = 1
    <3>1. step' \in 1..11 /\ step' =< Len(C) /\ 1..step' - 1 = {}
      BY <1>2, <2>2, NextStep
    <3> QED
      BY <2>2, <3>1 DEF PhaseInv, Phases, C
  <2> QED
    BY <1>5, <2>1, <2>2, TimersOutcome
<1>6. CASE CreateTable
  <2>1. /\ hub = "create" /\ DOMAIN temp' = DOMAIN temp \cup {C[step]}
        /\ \/ step < Len(C) /\ step' = step + 1 /\ hub' = hub
           \/ step = Len(C) /\ step' = 1 /\ hub' = "truncate"
    BY <1>6 DEF CreateTable, C
  <2>2. \A k \in 1..step : C[k] \in DOMAIN temp'
    <3> SUFFICES ASSUME NEW k \in 1..step PROVE C[k] \in DOMAIN temp'
      OBVIOUS
    <3>1. k \in 1..step - 1 \/ k = step
      BY <1>1
    <3> QED
      BY <1>1, <2>1, <3>1
  <2>3. CASE step < Len(C) /\ step' = step + 1 /\ hub' = hub
    <3>1. step' \in 1..11 /\ step' =< Len(C) /\ step' - 1 = step
      <4>1. Len(C) \in 1..10 /\ step \in 1..11 /\ step < Len(C)
        BY <1>1, <1>2, <2>3
      <4>2. step + 1 \in 1..11 /\ step + 1 =< Len(C) /\ step + 1 - 1 = step
        BY <4>1, NextStep
      <4>3. step' = step + 1
        BY <2>3
      <4> QED
        BY <4>1, <4>2, <4>3
    <3> QED
      BY <2>1, <2>2, <2>3, <3>1 DEF PhaseInv, Phases, C
  <2>4. CASE step = Len(C) /\ step' = 1 /\ hub' = "truncate"
    <3>1. Tables \subseteq DOMAIN temp'
      BY <1>2, <2>2, <2>4
    <3>2. step' \in 1..11 /\ step' =< Len(T)
      BY <1>2, <2>4, NextStep
    <3> QED
      BY <2>4, <3>1, <3>2 DEF PhaseInv, Phases, T
  <2> QED
    BY <2>1, <2>3, <2>4
<1>7. CASE TruncateTable
  <2>1. /\ hub = "truncate" /\ temp' = temp
        /\ \/ step < Len(T) /\ step' = step + 1 /\ hub' = hub
           \/ step = Len(T) /\ step' = 1 /\ hub' = "collect"
    BY <1>7 DEF TruncateTable, T
  <2>2. CASE step < Len(T) /\ step' = step + 1 /\ hub' = hub
    <3>1. step' \in 1..11 /\ step' =< Len(T)
      BY <1>1, <1>2, <2>2, NextStep
    <3> QED
      BY <1>1, <2>1, <2>2, <3>1 DEF PhaseInv, Phases, T
  <2>3. CASE step = Len(T) /\ step' = 1 /\ hub' = "collect"
    BY <1>1, <2>1, <2>3 DEF PhaseInv, Phases
  <2> QED
    BY <2>1, <2>2, <2>3
<1>8. CASE Collect
  <2>1. hub = "collect" /\ hub' \in {"loop", "renumber"} /\ UNCHANGED <<step, temp>>
    BY <1>8 DEF Collect
  <2>2. step = 1 /\ step =< Len(M) + 1
    BY <1>1, <1>2, <2>1
  <2> QED
    BY <1>1, <2>1, <2>2 DEF PhaseInv, Phases, M
<1>9. CASE RenumberTable
  <2>1. hub = "renumber" /\ step \in 1..Len(M) /\ step' = step + 1
    BY <1>9, QueuedForTable DEF M
  <2>2. UNCHANGED <<hub, temp>>
    BY <1>9 DEF RenumberTable
  <2>3. step' \in 1..11 /\ step' =< Len(M) + 1
    BY <1>2, <2>1, NextStep
  <2> QED
    BY <1>1, <2>1, <2>2, <2>3 DEF PhaseInv, Phases, M
<1>10. CASE Worker
  <2>1. StoreInv
    BY DEF TypeInv
  <2>2. PICK task \in Task : WorkerIs(task)
    BY <1>10, <2>1, WorkerTakes
  <2>3. UNCHANGED <<hub, step>> /\ task = tasks[1]
    BY <2>2 DEF WorkerIs
  <2>4. tasks # <<>> /\ 1 \in DOMAIN tasks
    BY <1>10, <2>1, WorkerTakes
  <2>5. CASE hub \in Phases
    <3>1. AllInserts(tasks)
      BY <2>4, <2>5 DEF TaskInv, Phases
    <3>2. task.op = "insert"
      BY <2>3, <2>4, <3>1 DEF AllInserts
    <3>3. temp' = temp
      BY <2>2, <3>2 DEF WorkerIs
    <3> QED
      BY <1>3, <2>3, <3>3
  <2>6. CASE hub \notin Phases
    BY <1>1, <1>4, <2>3, <2>6
  <2> QED
    BY <2>5, <2>6
<1>11. CASE \/ \E due \in BOOLEAN : UpdateGameTime(due)
            \/ Finish \/ StartHub
  <2>1. hub' \in {"loop", "timers", "down"} /\ step' = step
    BY <1>11 DEF UpdateGameTime, Finish, StartHub
  <2> QED
    BY <1>1, <1>4, <2>1
<1>12. CASE Crash
  <2>1. hub' = "down" /\ step' = 1
    BY <1>12 DEF Crash
  <2> QED
    BY <1>4, <2>1
<1>13. CASE ItemInstance \/ CharacterInventory \/ SaveState \/ TickDown \/ Tick
  BY <1>3, <1>13 DEF ItemInstance, CharacterInventory, SaveState, TickDown, Tick, beginVars
<1>14. CASE Node
  BY <1>3, <1>14 DEF Node, CreateItem, DestroyItem, beginVars
<1>15. CASE UNCHANGED vars
  BY <1>3, <1>15 DEF vars, beginVars
<1> QED
  BY <1>5, <1>6, <1>7, <1>8, <1>9, <1>10, <1>11, <1>12, <1>13, <1>14, <1>15 DEF Next, Hub

TypesAndQueue == TypeInv /\ TaskInv

(* The types and the order of the queue do not depend on the data.         *)
LEMMA TypesAndQueueHold == Spec => []TypesAndQueue
<1>1. Init => TypesAndQueue
  <2> SUFFICES ASSUME Init PROVE TypesAndQueue
    OBVIOUS
  <2>1. /\ hub = "down" /\ step = 1 /\ tasks = <<>> /\ saving = <<>>
        /\ itemMap = <<>> /\ itemRows = {} /\ bagRows = {}
        /\ halted = FALSE /\ haltTimer = 0 /\ toNext = 0 /\ toPlus = 0 /\ lapse = 0
        /\ saved \in {-1, Interval}
        /\ live = [t \in Tables |-> {}] /\ temp = <<>>
        /\ owned = <<>> /\ flaws = {} /\ crashes = 0 /\ writes = 0
    BY DEF Init
  <2>2. DOMAIN temp = {} /\ DOMAIN itemMap = {} /\ DOMAIN owned = {} /\ DOMAIN tasks = {}
    BY <2>1
  <2>3. PhaseInv
    BY <2>1 DEF PhaseInv
  <2>4. ClockInv
    <3>1. /\ 0 \in 0..Lead /\ 0 \in -MaxLate..Interval /\ 0 \in -MaxLate..Interval + Grace
          /\ 0 \in 0..MaxLag + MaxDrift /\ -1 \in -1..Interval /\ Interval \in -1..Interval
      BY Constants
    <3>2. <<>> \in Seq(0..Interval) /\ FALSE \in BOOLEAN
      OBVIOUS
    <3> QED
      BY <2>1, <3>1, <3>2 DEF ClockInv
  <2>5. StoreInv
    <3>1. live \in [Tables -> SUBSET Row]
      BY <2>1
    <3>2. tasks \in Seq(Task)
      BY <2>1
    <3> QED
      BY <2>1, <2>2, <3>1, <3>2 DEF StoreInv
  <2>6. HistoryInv
    BY <2>1, <2>2 DEF HistoryInv
  <2>7. TaskInv
    BY <2>1, <2>2 DEF TaskInv, Phases, Apart, Ordered, AllInserts
  <2> QED
    BY <2>3, <2>4, <2>5, <2>6, <2>7 DEF TypesAndQueue, TypeInv
<1>2. TypesAndQueue /\ [Next]_vars => TypesAndQueue'
  <2> SUFFICES ASSUME TypesAndQueue, [Next]_vars PROVE TypesAndQueue'
    OBVIOUS
  <2>1. TypeInv /\ TaskInv
    BY DEF TypesAndQueue
  <2>2. PhaseInv' /\ ClockInv' /\ StoreInv' /\ HistoryInv' /\ TaskInv'
    BY <2>1, PhaseStep, ClockStep, StoreStep, HistoryStep, TaskStep
  <2> QED
    BY <2>2 DEF TypesAndQueue, TypeInv
<1> QED
  BY <1>1, <1>2, PTL DEF Spec

SlowInv == slow \in BOOLEAN

(* The flag of a late halt timer is one.                                   *)
LEMMA SlowType == Spec => []SlowInv
<1>1. Init => SlowInv
  BY DEF Init, SlowInv
<1>2. SlowInv /\ [Next]_vars => SlowInv'
  <2> SUFFICES ASSUME slow \in BOOLEAN, [Next]_vars PROVE slow' \in BOOLEAN
    BY DEF SlowInv
  <2>1. CASE UpdateTimers
    <3>1. CASE UNCHANGED slow
      BY <3>1
    <3>2. CASE Announce
      <4>1. slow' = slow \/ slow' = (slow \/ lapse > 1)
        BY <3>2 DEF Announce, HaltServ
      <4> QED
        BY <4>1
    <3> QED
      BY <2>1, <3>1, <3>2 DEF UpdateTimers
  <2>2. CASE Finish
    BY <2>2 DEF Finish
  <2>3. CASE Crash
    BY <2>3 DEF Crash
  <2>4. CASE UNCHANGED slow
    BY <2>4
  <2> QED
    BY <2>1, <2>2, <2>3, <2>4 DEF Next, Hub, Node, UpdateGameTime, CreateTable,
       TruncateTable, Collect, ItemInstance, CharacterInventory, RenumberTable, Worker, SaveState,
       StartHub, Tick, TickDown, CreateItem, DestroyItem, timeVars, vars
<1> QED
  BY <1>1, <1>2, PTL DEF Spec

(* Every variable of the hub, the tables, the copies and the queue has its *)
(* type: new ids are ids, times stay in their windows, whatever is queued, *)
(* lost in a crash or late (DatabaseRoutines, Logon::_UpdateGameTime).     *)
THEOREM RebaseTypes == Spec => []TypeOK
<1>1. TypesAndQueue /\ SlowInv => TypeOK
  <2> SUFFICES ASSUME TypesAndQueue, SlowInv PROVE TypeOK
    OBVIOUS
  <2>1. PhaseInv /\ ClockInv /\ StoreInv /\ HistoryInv
    BY DEF TypesAndQueue, TypeInv
  <2>2. Len(CreateOrder) = 10
    BY DEF CreateOrder
  <2>3. hub \in {"down", "loop", "timers", "create", "truncate", "collect", "renumber"}
        /\ step \in 1..Len(CreateOrder) + 1
    BY <2>1, <2>2 DEF PhaseInv, Phases
  <2>4. Range(itemMap) \subseteq 1..MaxGuid /\ Range(temp) \subseteq SUBSET Row
    BY <2>1 DEF StoreInv, Range
  <2>5. tasks \in Seq([op : {"insert", "drop", "clean"}, table : Tables, rows : SUBSET Row,
                       from : Nat])
    BY <2>1 DEF StoreInv, Task
  <2>6. /\ live \in [Tables -> SUBSET Row] /\ DOMAIN temp \subseteq Tables
        /\ DOMAIN itemMap \subseteq 1..MaxGuid /\ itemRows \subseteq Row /\ bagRows \subseteq Row
    BY <2>1 DEF StoreInv
  <2>7. /\ DOMAIN owned \subseteq Items /\ {writes, crashes} \subseteq Nat
        /\ flaws \subseteq {"stale", "empty", "cut", "swept", "interrupted"}
    BY <2>1 DEF HistoryInv
  <2>8. /\ halted \in BOOLEAN /\ haltTimer \in 0..Lead
        /\ toNext \in -MaxLate..Interval /\ toPlus \in -MaxLate..Interval + Grace
        /\ lapse \in 0..MaxLag + MaxDrift
        /\ saving \in Seq(0..Interval) /\ saved \in -1..Interval
    BY <2>1 DEF ClockInv
  <2> HIDE DEF Row
  <2> QED
    BY <2>3, <2>4, <2>5, <2>6, <2>7, <2>8 DEF TypeOK, SlowInv
<1> QED
  BY <1>1, TypesAndQueueHold, SlowType, PTL

-----------------------------------------------------------------------------
(* Tables that agree about the items.                                      *)

\* The row r of table t tells the truth about its item, in the tables db.
Told(db, own, t, r) ==
    /\ r.is \in DOMAIN own /\ own[r.is] = [at |-> t, in |-> r.in]
    /\ \E q \in db[ItemTable] : q.is = r.is /\ q.item = r.item
    /\ r.in = None => r.bag = 0
    /\ r.in # None => \E q \in db[ItemTable] : q.is = r.in /\ q.item = r.bag

\* item_instance has every item once, under an id of its own.
ItemsOnce(db, own) ==
    /\ \A q \in db[ItemTable] : q.bag = 0 /\ q.in = None /\ q.is \in DOMAIN own
    /\ \A q, r \in db[ItemTable] : q.is = r.is <=> q.item = r.item
    /\ \A i \in DOMAIN own : \E q \in db[ItemTable] : q.is = i

\* Every row of another table tells the truth.
AllTold(db, own) == \A t \in Tables \ {ItemTable} : \A r \in db[t] : Told(db, own, t, r)

\* Every item is where it belongs.
Placed(db, own) ==
    \A i \in DOMAIN own : /\ own[i].at \in Tables \ {ItemTable}
                          /\ \E r \in db[own[i].at] : r.is = i
                          /\ own[i].in = None \/ own[i].at = BagTable

\* The tables db say of every item what own says.
Consistent(db, own) == ItemsOnce(db, own) /\ AllTold(db, own) /\ Placed(db, own)

Rows(db) == \A t \in Tables : db[t] \in SUBSET Row

(* Only the rows matter.                                                   *)
LEMMA SameRows ==
    ASSUME NEW db, NEW other, NEW own, Consistent(db, own),
           \A t \in Tables : other[t] = db[t]
    PROVE  Consistent(other, own)
<1>1. other[ItemTable] = db[ItemTable]
  BY Constants
<1>2. ItemsOnce(other, own)
  BY <1>1 DEF Consistent, ItemsOnce
<1>3. AllTold(other, own)
  <2> SUFFICES ASSUME NEW t \in Tables \ {ItemTable}, NEW r \in other[t]
               PROVE  Told(other, own, t, r)
    BY DEF AllTold
  <2>1. Told(db, own, t, r)
    BY DEF Consistent, AllTold
  <2> QED
    BY <1>1, <2>1 DEF Told
<1>4. Placed(other, own)
  <2> SUFFICES ASSUME NEW i \in DOMAIN own
               PROVE  /\ own[i].at \in Tables \ {ItemTable}
                      /\ \E r \in other[own[i].at] : r.is = i
                      /\ own[i].in = None \/ own[i].at = BagTable
    BY DEF Placed
  <2> QED
    BY DEF Consistent, Placed
<1> QED
  BY <1>2, <1>3, <1>4 DEF Consistent

(* A row of a table is known by the id of its item.                        *)
LEMMA OneRow ==
    ASSUME NEW db, NEW own, Consistent(db, own), Rows(db), NEW t \in Tables,
           NEW r \in db[t], NEW s \in db[t], r.item = s.item
    PROVE  r = s
<1>1. ItemsOnce(db, own) /\ AllTold(db, own)
  BY DEF Consistent
<1>2. r \in Row /\ s \in Row
  BY DEF Rows
<1>3. (r.is = s.is /\ r.in = s.in /\ r.bag = s.bag) => r = s
  BY <1>2 DEF Row
<1>4. CASE t = ItemTable
  <2>1. r.is = s.is /\ r.in = s.in /\ r.bag = s.bag
    BY <1>1, <1>4 DEF ItemsOnce
  <2> QED
    BY <1>3, <2>1
<1>5. CASE t # ItemTable
  <2>1. Told(db, own, t, r) /\ Told(db, own, t, s)
    BY <1>1, <1>5 DEF AllTold
  <2>2. r.is = s.is
    <3>1. PICK p \in db[ItemTable] : p.is = r.is /\ p.item = r.item
      BY <2>1 DEF Told
    <3>2. PICK q \in db[ItemTable] : q.is = s.is /\ q.item = s.item
      BY <2>1 DEF Told
    <3> QED
      BY <1>1, <3>1, <3>2 DEF ItemsOnce
  <2>3. r.in = s.in
    BY <2>1, <2>2 DEF Told
  <2>4. r.bag = s.bag
    <3>1. CASE r.in = None
      BY <2>1, <2>3, <3>1 DEF Told
    <3>2. CASE r.in # None
      <4>1. PICK p \in db[ItemTable] : p.is = r.in /\ p.item = r.bag
        BY <2>1, <3>2 DEF Told
      <4>2. PICK q \in db[ItemTable] : q.is = s.in /\ q.item = s.bag
        BY <2>1, <2>3, <3>2 DEF Told
      <4> QED
        BY <1>1, <2>3, <4>1, <4>2 DEF ItemsOnce
    <3> QED
      BY <3>1, <3>2
  <2> QED
    BY <1>3, <2>2, <2>3, <2>4
<1> QED
  BY <1>4, <1>5

(* Rows that belong to a table are all inserted: the ids that are there    *)
(* already are those of the same rows.                                     *)
LEMMA InsertsAll ==
    ASSUME NEW db, NEW own, Consistent(db, own), Rows(db), NEW t \in Tables,
           NEW have \in SUBSET db[t], NEW rows \in SUBSET db[t]
    PROVE  have \cup {r \in rows : r.item \notin Guids(have)} = have \cup rows
<1> SUFFICES ASSUME NEW r \in rows, r.item \in Guids(have) PROVE r \in have
  OBVIOUS
<1>1. PICK s \in have : r.item = s.item
  BY DEF Guids
<1>2. r \in db[t] /\ s \in db[t]
  OBVIOUS
<1>3. r = s
  BY <1>1, <1>2, OneRow
<1> QED
  BY <1>3

(* Tables that agree have every item, and a row that names it.             *)
LEMMA ConsistentHolds ==
    ASSUME NEW db, NEW own, Consistent(db, own), Tables \subseteq DOMAIN db, NEW i \in DOMAIN own
    PROVE  Holds(db, i)
<1>1. AllTold(db, own) /\ Placed(db, own)
  BY DEF Consistent
<1> DEFINE t == own[i].at
<1>2. t \in Tables \ {ItemTable}
  BY <1>1 DEF Placed
<1>3. PICK r \in db[t] : r.is = i
  BY <1>1 DEF Placed
<1> HIDE DEF t
<1>4. Told(db, own, t, r)
  BY <1>1, <1>2, <1>3 DEF AllTold
<1>5. PICK q \in db[ItemTable] : q.is = i /\ q.item = r.item
  BY <1>3, <1>4 DEF Told
<1>6. t \in DOMAIN db \ {ItemTable}
  BY <1>2
<1> QED
  BY <1>3, <1>5, <1>6 DEF Holds

\* _ItemMap has a new id for every item of db, and no two the same.
MapsItems(db) ==
    /\ Guids(db[ItemTable]) \subseteq DOMAIN itemMap
    /\ \A g, h \in Guids(db[ItemTable]) : itemMap[g] = itemMap[h] => g = h

\* The tables under the new ids.
Renewed(db) == [t \in Tables |-> Renumbered(db[t])]

(* No row is left out for want of a new id.                                *)
LEMMA AllMapped ==
    ASSUME NEW db, NEW own, Consistent(db, own), Rows(db), MapsItems(db), NEW t \in Tables
    PROVE  /\ \A r \in db[t] : r \in Row /\ Mapped(r)
           /\ Renumbered(db[t]) = {Renumber(r) : r \in db[t]}
<1>1. ItemsOnce(db, own) /\ AllTold(db, own)
  BY DEF Consistent
<1>2. \A q \in db[ItemTable] : q.item \in DOMAIN itemMap
  BY DEF MapsItems, Guids
<1>3. ASSUME NEW r \in db[t] PROVE Mapped(r)
  <2>1. CASE t = ItemTable
    BY <1>1, <1>2, <2>1 DEF ItemsOnce, Mapped
  <2>2. CASE t # ItemTable
    <3>1. Told(db, own, t, r)
      BY <1>1, <2>2 DEF AllTold
    <3>2. r.item \in DOMAIN itemMap
      BY <1>2, <3>1 DEF Told
    <3>3. r.bag = 0 \/ r.bag \in DOMAIN itemMap
      BY <1>2, <3>1 DEF Told
    <3> QED
      BY <3>2, <3>3 DEF Mapped
  <2> QED
    BY <2>1, <2>2
<1>4. Renumbered(db[t]) = {Renumber(r) : r \in db[t]}
  BY <1>3 DEF Renumbered
<1>5. \A r \in db[t] : r \in Row
  BY DEF Rows
<1> QED
  BY <1>3, <1>4, <1>5

(* The tables agree about the items under the new ids as under the old.    *)
LEMMA RenewedConsistent ==
    ASSUME StoreInv, NEW db, NEW own, Consistent(db, own), Rows(db), MapsItems(db)
    PROVE  Consistent(Renewed(db), own) /\ Rows(Renewed(db))
<1> DEFINE N == Renewed(db)
<1>1. ItemsOnce(db, own) /\ AllTold(db, own) /\ Placed(db, own)
  BY DEF Consistent
<1>2. \A t \in Tables : N[t] = {Renumber(r) : r \in db[t]}
  BY AllMapped DEF Renewed
<1>3. ASSUME NEW t \in Tables, NEW r \in db[t]
      PROVE  /\ r \in Row /\ Renumber(r) \in Row /\ Renumber(r) \in N[t]
             /\ Renumber(r).item = itemMap[r.item] /\ Renumber(r).is = r.is /\ Renumber(r).in = r.in
             /\ Renumber(r).bag = IF r.bag = 0 THEN 0 ELSE itemMap[r.bag]
  <2>1. r \in Row /\ Mapped(r)
    BY AllMapped
  <2>2. Renumber(r) \in N[t]
    BY <1>2
  <2> HIDE DEF N
  <2> QED
    BY <2>1, <2>2, RenumberIs
<1>4. Rows(N)
  BY <1>2, <1>3 DEF Rows
<1> HIDE DEF N
<1>5. ItemTable \in Tables
  BY Constants
<1>6. ItemsOnce(N, own)
  <2>1. ASSUME NEW q \in N[ItemTable]
        PROVE  q.bag = 0 /\ q.in = None /\ q.is \in DOMAIN own
    <3>1. PICK r \in db[ItemTable] : q = Renumber(r)
      BY <1>2, <1>5
    <3>2. r.bag = 0 /\ r.in = None /\ r.is \in DOMAIN own
      BY <1>1 DEF ItemsOnce
    <3> QED
      BY <1>3, <1>5, <3>1, <3>2
  <2>2. ASSUME NEW q \in N[ItemTable], NEW p \in N[ItemTable]
        PROVE  q.is = p.is <=> q.item = p.item
    <3>1. PICK r \in db[ItemTable] : q = Renumber(r)
      BY <1>2, <1>5
    <3>2. PICK s \in db[ItemTable] : p = Renumber(s)
      BY <1>2, <1>5
    <3>3. r.is = s.is <=> r.item = s.item
      BY <1>1 DEF ItemsOnce
    <3>4. r.item = s.item <=> itemMap[r.item] = itemMap[s.item]
      <4>1. r.item \in Guids(db[ItemTable]) /\ s.item \in Guids(db[ItemTable])
        BY DEF Guids
      <4> QED
        BY <4>1 DEF MapsItems
    <3>5. /\ q.is = r.is /\ q.item = itemMap[r.item]
          /\ p.is = s.is /\ p.item = itemMap[s.item]
      BY <1>3, <1>5, <3>1, <3>2
    <3> QED
      BY <3>3, <3>4, <3>5
  <2>3. ASSUME NEW i \in DOMAIN own PROVE \E q \in N[ItemTable] : q.is = i
    <3>1. PICK r \in db[ItemTable] : r.is = i
      BY <1>1 DEF ItemsOnce
    <3> QED
      BY <1>3, <1>5, <3>1
  <2> QED
    BY <2>1, <2>2, <2>3 DEF ItemsOnce
<1>7. AllTold(N, own)
  <2> SUFFICES ASSUME NEW t \in Tables \ {ItemTable}, NEW p \in N[t] PROVE Told(N, own, t, p)
    BY DEF AllTold
  <2>1. PICK r \in db[t] : p = Renumber(r)
    BY <1>2
  <2>2. Told(db, own, t, r)
    BY <1>1 DEF AllTold
  <2>3. /\ r \in Row /\ p.item = itemMap[r.item] /\ p.is = r.is /\ p.in = r.in
        /\ p.bag = IF r.bag = 0 THEN 0 ELSE itemMap[r.bag]
    BY <1>3, <2>1
  <2>4. p.is \in DOMAIN own /\ own[p.is] = [at |-> t, in |-> p.in]
    BY <2>2, <2>3 DEF Told
  <2>5. \E q \in N[ItemTable] : q.is = p.is /\ q.item = p.item
    <3>1. PICK q \in db[ItemTable] : q.is = r.is /\ q.item = r.item
      BY <2>2 DEF Told
    <3>2. Renumber(q) \in N[ItemTable] /\ Renumber(q).is = q.is /\ Renumber(q).item = itemMap[q.item]
      BY <1>3, <1>5
    <3> QED
      BY <2>3, <3>1, <3>2
  <2>6. p.in = None => p.bag = 0
    BY <2>2, <2>3 DEF Told
  <2>7. p.in # None => \E q \in N[ItemTable] : q.is = p.in /\ q.item = p.bag
    <3> SUFFICES ASSUME p.in # None PROVE \E q \in N[ItemTable] : q.is = p.in /\ q.item = p.bag
      OBVIOUS
    <3>1. PICK q \in db[ItemTable] : q.is = r.in /\ q.item = r.bag
      BY <2>2, <2>3 DEF Told
    <3>2. Renumber(q) \in N[ItemTable] /\ Renumber(q).is = q.is /\ Renumber(q).item = itemMap[q.item]
          /\ q \in Row
      BY <1>3, <1>5
    <3>3. q.item # 0
      BY <3>2 DEF Row
    <3> QED
      BY <2>3, <3>1, <3>2, <3>3
  <2> QED
    BY <2>4, <2>5, <2>6, <2>7 DEF Told
<1>8. Placed(N, own)
  <2> SUFFICES ASSUME NEW i \in DOMAIN own
               PROVE  /\ own[i].at \in Tables \ {ItemTable}
                      /\ \E r \in N[own[i].at] : r.is = i
                      /\ own[i].in = None \/ own[i].at = BagTable
    BY DEF Placed
  <2>1. own[i].at \in Tables \ {ItemTable} /\ (own[i].in = None \/ own[i].at = BagTable)
    BY <1>1 DEF Placed
  <2>2. PICK r \in db[own[i].at] : r.is = i
    BY <1>1 DEF Placed
  <2>3. Renumber(r) \in N[own[i].at] /\ Renumber(r).is = i
    BY <1>3, <2>1, <2>2
  <2> QED
    BY <2>1, <2>3
<1>9. Consistent(N, own)
  BY <1>6, <1>7, <1>8 DEF Consistent
<1> QED
  BY <1>4, <1>9 DEF N

-----------------------------------------------------------------------------
(* The nodes.                                                              *)

\* What a new item i of table t, in the bag b, does to the tables db.
Created(db, next, i, t, b, g, bag) ==
    /\ g \in 1..MaxGuid
    /\ b = None => bag = 0
    /\ b # None => \E r \in db[BagTable] : r.is = b /\ r.item = bag
    /\ \A r \in db[ItemTable] : r.item # g
    /\ next[ItemTable] = db[ItemTable] \cup {[item |-> g, bag |-> 0, is |-> i, in |-> None]}
    /\ next[t] = {r \in db[t] : r.item # g} \cup {[item |-> g, bag |-> bag, is |-> i, in |-> b]}
    /\ \A u \in Tables \ {ItemTable, t} : next[u] = db[u]
    /\ DOMAIN owned' = DOMAIN owned \cup {i} /\ i \notin DOMAIN owned
    /\ owned'[i] = [at |-> t, in |-> b]
    /\ \A x \in DOMAIN owned : owned'[x] = owned[x]

(* What a node saves for a new item.                                       *)
LEMMA CreateItemIs ==
    ASSUME StoreInv, NEW i \in Items, NEW t \in Tables \ {ItemTable}, NEW b, CreateItem(i, t, b)
    PROVE  \E g, bag : Created(live, live', i, t, b, g, bag)
<1>1. PICK g \in (Highest + 1)..MaxGuid, bag \in BagIds(b) :
          live' = [live EXCEPT
            ![ItemTable] = @ \cup {[item |-> g, bag |-> 0, is |-> i, in |-> None]},
            ![t] = {r \in @ : r.item # g} \cup {[item |-> g, bag |-> bag, is |-> i, in |-> b]}]
  BY DEF CreateItem
<1>2. Highest \in 0..MaxGuid /\ \A r \in live[ItemTable] : r.item =< Highest
  BY LastStatements
<1>3. live \in [Tables -> SUBSET Row] /\ ItemTable \in Tables
  BY Constants DEF StoreInv
<1>4. g \in 1..MaxGuid /\ \A r \in live[ItemTable] : r.item # g
  <2>1. g \in 1..MaxGuid /\ g > Highest
    BY <1>2, Constants
  <2>2. \A r \in live[ItemTable] : r.item \in 1..MaxGuid
    BY <1>3 DEF Row
  <2> QED
    BY <1>2, <2>1, <2>2
<1>5. /\ live'[ItemTable] = live[ItemTable] \cup {[item |-> g, bag |-> 0, is |-> i, in |-> None]}
      /\ live'[t] = {r \in live[t] : r.item # g} \cup {[item |-> g, bag |-> bag, is |-> i, in |-> b]}
      /\ \A u \in Tables \ {ItemTable, t} : live'[u] = live[u]
  BY <1>1, <1>3
<1>6. owned' = [x \in DOMAIN owned \cup {i} |-> IF x = i THEN [at |-> t, in |-> b] ELSE owned[x]]
      /\ i \notin DOMAIN owned
  BY DEF CreateItem
<1>7. /\ DOMAIN owned' = DOMAIN owned \cup {i} /\ owned'[i] = [at |-> t, in |-> b]
      /\ \A x \in DOMAIN owned : owned'[x] = owned[x]
  BY <1>6
<1>8. /\ b = None => bag = 0
      /\ b # None => \E r \in live[BagTable] : r.is = b /\ r.item = bag
  BY DEF BagIds, Guids
<1>9. Created(live, live', i, t, b, g, bag)
  BY <1>4, <1>5, <1>6, <1>7, <1>8 DEF Created
<1> QED
  BY <1>9

(* A new item leaves the tables in agreement: its id is above all others.  *)
LEMMA CreateAgrees ==
    ASSUME NEW db, NEW next, Consistent(db, owned), NEW i \in Items, NEW t \in Tables \ {ItemTable},
           NEW b \in Items \cup {None}, b = None \/ t = BagTable,
           NEW g, NEW bag, Created(db, next, i, t, b, g, bag)
    PROVE  Consistent(next, owned')
<1> DEFINE n == [item |-> g, bag |-> 0, is |-> i, in |-> None]
           m == [item |-> g, bag |-> bag, is |-> i, in |-> b]
<1>1. ItemsOnce(db, owned) /\ AllTold(db, owned) /\ Placed(db, owned)
  BY DEF Consistent
<1>2. /\ b = None => bag = 0
      /\ b # None => \E r \in db[BagTable] : r.is = b /\ r.item = bag
      /\ \A r \in db[ItemTable] : r.item # g
      /\ next[ItemTable] = db[ItemTable] \cup {n}
      /\ next[t] = {r \in db[t] : r.item # g} \cup {m}
      /\ \A u \in Tables \ {ItemTable, t} : next[u] = db[u]
      /\ DOMAIN owned' = DOMAIN owned \cup {i} /\ i \notin DOMAIN owned
      /\ owned'[i] = [at |-> t, in |-> b]
      /\ \A x \in DOMAIN owned : owned'[x] = owned[x]
  BY DEF Created
<1>3. /\ n.item = g /\ n.bag = 0 /\ n.is = i /\ n.in = None
      /\ m.item = g /\ m.bag = bag /\ m.is = i /\ m.in = b
  OBVIOUS
<1> HIDE DEF n, m
<1>4. \A r \in db[t] : r.item # g
  <2> SUFFICES ASSUME NEW r \in db[t] PROVE r.item # g
    OBVIOUS
  <2>1. Told(db, owned, t, r)
    BY <1>1 DEF AllTold
  <2> QED
    BY <1>2, <2>1 DEF Told
<1>5. next[t] = db[t] \cup {m}
  BY <1>2, <1>4
<1>6. ItemsOnce(next, owned')
  <2>1. ASSUME NEW q \in next[ItemTable] PROVE q.bag = 0 /\ q.in = None /\ q.is \in DOMAIN owned'
    <3>1. q = n \/ q \in db[ItemTable]
      BY <1>2
    <3> QED
      BY <1>1, <1>2, <1>3, <3>1 DEF ItemsOnce
  <2>2. ASSUME NEW q \in next[ItemTable], NEW r \in next[ItemTable]
        PROVE  q.is = r.is <=> q.item = r.item
    <3>1. \A x \in db[ItemTable] : x.is # i /\ x.item # g
      BY <1>1, <1>2 DEF ItemsOnce
    <3>2. (q = n \/ q \in db[ItemTable]) /\ (r = n \/ r \in db[ItemTable])
      BY <1>2
    <3> QED
      BY <1>1, <1>3, <3>1, <3>2 DEF ItemsOnce
  <2>3. ASSUME NEW x \in DOMAIN owned' PROVE \E q \in next[ItemTable] : q.is = x
    <3>1. CASE x = i
      BY <1>2, <1>3, <3>1
    <3>2. CASE x # i
      <4>1. x \in DOMAIN owned
        BY <1>2, <3>2
      <4>2. PICK q \in db[ItemTable] : q.is = x
        BY <1>1, <4>1 DEF ItemsOnce
      <4> QED
        BY <1>2, <4>2
    <3> QED
      BY <3>1, <3>2
  <2> QED
    BY <2>1, <2>2, <2>3 DEF ItemsOnce
<1>7. ASSUME NEW u \in Tables \ {ItemTable}, NEW r \in db[u]
      PROVE  Told(next, owned', u, r)
  <2>1. Told(db, owned, u, r)
    BY <1>1 DEF AllTold
  <2>2. r.is \in DOMAIN owned' /\ owned'[r.is] = [at |-> u, in |-> r.in]
    BY <1>2, <2>1 DEF Told
  <2>3. \A x \in db[ItemTable] : x \in next[ItemTable]
    BY <1>2
  <2> QED
    BY <2>1, <2>2, <2>3 DEF Told
<1>8. Told(next, owned', t, m)
  <2>1. m.is \in DOMAIN owned' /\ owned'[m.is] = [at |-> t, in |-> m.in]
    BY <1>2, <1>3
  <2>2. \E q \in next[ItemTable] : q.is = m.is /\ q.item = m.item
    BY <1>2, <1>3
  <2>3. m.in = None => m.bag = 0
    BY <1>2, <1>3
  <2>4. m.in # None => \E q \in next[ItemTable] : q.is = m.in /\ q.item = m.bag
    <3> SUFFICES ASSUME b # None PROVE \E q \in next[ItemTable] : q.is = b /\ q.item = bag
      BY <1>3
    <3>1. PICK r \in db[BagTable] : r.is = b /\ r.item = bag
      BY <1>2
    <3>2. Told(db, owned, BagTable, r)
      BY <1>1, <3>1, Constants DEF AllTold
    <3>3. PICK q \in db[ItemTable] : q.is = b /\ q.item = bag
      BY <3>1, <3>2 DEF Told
    <3> QED
      BY <1>2, <3>3
  <2> QED
    BY <2>1, <2>2, <2>3, <2>4 DEF Told
<1>9. AllTold(next, owned')
  <2> SUFFICES ASSUME NEW u \in Tables \ {ItemTable}, NEW r \in next[u]
               PROVE  Told(next, owned', u, r)
    BY DEF AllTold
  <2>1. r \in db[u] \/ (u = t /\ r = m)
    BY <1>2, <1>5
  <2> QED
    BY <1>7, <1>8, <2>1
<1>10. Placed(next, owned')
  <2> SUFFICES ASSUME NEW x \in DOMAIN owned'
               PROVE  /\ owned'[x].at \in Tables \ {ItemTable}
                      /\ \E r \in next[owned'[x].at] : r.is = x
                      /\ owned'[x].in = None \/ owned'[x].at = BagTable
    BY DEF Placed
  <2>1. CASE x = i
    <3>1. owned'[x].at = t /\ owned'[x].in = b
      BY <1>2, <2>1
    <3> QED
      BY <1>3, <1>5, <2>1, <3>1
  <2>2. CASE x # i
    <3>1. x \in DOMAIN owned /\ owned'[x] = owned[x]
      BY <1>2, <2>2
    <3>2. /\ owned[x].at \in Tables \ {ItemTable}
          /\ owned[x].in = None \/ owned[x].at = BagTable
      BY <1>1, <3>1 DEF Placed
    <3>3. PICK r \in db[owned[x].at] : r.is = x
      BY <1>1, <3>1 DEF Placed
    <3>4. r \in next[owned[x].at]
      BY <1>2, <1>5, <3>2, <3>3
    <3> QED
      BY <3>1, <3>2, <3>3, <3>4
  <2> QED
    BY <2>1, <2>2
<1> QED
  BY <1>6, <1>9, <1>10 DEF Consistent

\* Every item with the row that names it is in the tables or in the copies.
Kept ==
    \A i \in DOMAIN owned : Holds(live, i) \/ (ItemTable \in DOMAIN temp /\ Holds(temp, i))

(* A new item takes nothing away, in the state that an interrupted rebase  *)
(* has left as well.                                                       *)
LEMMA CreateKeeps ==
    ASSUME StoreInv, StoreInv', Kept, temp' = temp, NEW i \in Items, NEW t \in Tables \ {ItemTable}, NEW b,
           NEW g, NEW bag, Created(live, live', i, t, b, g, bag)
    PROVE  Kept'
<1> DEFINE n == [item |-> g, bag |-> 0, is |-> i, in |-> None]
           m == [item |-> g, bag |-> bag, is |-> i, in |-> b]
<1>2. /\ \A r \in live[ItemTable] : r.item # g
      /\ live'[ItemTable] = live[ItemTable] \cup {n}
      /\ live'[t] = {r \in live[t] : r.item # g} \cup {m}
      /\ \A u \in Tables \ {ItemTable, t} : live'[u] = live[u]
      /\ DOMAIN owned' = DOMAIN owned \cup {i}
  BY DEF Created
<1>3. n.item = g /\ n.is = i /\ m.item = g /\ m.is = i
  OBVIOUS
<1> HIDE DEF n, m
<1>4. DOMAIN live = Tables /\ DOMAIN live' = Tables
  BY DEF StoreInv
<1>5. Holds(live', i)
  <2>1. n \in live'[ItemTable] /\ m \in live'[t] /\ t \in DOMAIN live' \ {ItemTable}
    BY <1>2, <1>4
  <2> QED
    BY <1>3, <2>1 DEF Holds
<1>6. ASSUME NEW x, Holds(live, x) PROVE Holds(live', x)
  <2>1. PICK r \in live[ItemTable] :
            r.is = x /\ \E u \in DOMAIN live \ {ItemTable} : \E q \in live[u] : q.is = x /\ q.item = r.item
    BY <1>6 DEF Holds
  <2>2. PICK u \in DOMAIN live \ {ItemTable} : \E q \in live[u] : q.is = x /\ q.item = r.item
    BY <2>1
  <2>3. PICK q \in live[u] : q.is = x /\ q.item = r.item
    BY <2>2
  <2>4. r \in live'[ItemTable] /\ q \in live'[u]
    BY <1>2, <1>4, <2>3
  <2> QED
    BY <1>4, <2>1, <2>3, <2>4 DEF Holds
<1> QED
  BY <1>2, <1>5, <1>6 DEF Kept

\* What the end of item i does to the tables db.
Destroyed(db, next, i) ==
    /\ \A t \in Tables : next[t] = {r \in db[t] : r.is # i}
    /\ DOMAIN owned' = DOMAIN owned \ {i}
    /\ \A x \in DOMAIN owned' : owned'[x] = owned[x]

(* What a node deletes with an item.                                       *)
LEMMA DestroyItemIs ==
    ASSUME NEW i, DestroyItem(i)
    PROVE  Destroyed(live, live', i) /\ AtHand(i)
<1>1. live' = Without(i) /\ owned' = Restrict(owned, DOMAIN owned \ {i}) /\ AtHand(i)
  BY DEF DestroyItem
<1>2. \A t \in Tables : live'[t] = {r \in live[t] : r.is # i}
  BY <1>1 DEF Without
<1>3. DOMAIN owned' = DOMAIN owned \ {i} /\ \A x \in DOMAIN owned' : owned'[x] = owned[x]
  BY <1>1 DEF Restrict
<1> QED
  BY <1>1, <1>2, <1>3 DEF Destroyed

(* The end of an item leaves the tables in agreement: nothing is in it.    *)
LEMMA DestroyAgrees ==
    ASSUME NEW db, NEW next, Consistent(db, owned), NEW i, Destroyed(db, next, i),
           \A r \in db[BagTable] : r.in # i
    PROVE  Consistent(next, owned')
<1>1. ItemsOnce(db, owned) /\ AllTold(db, owned) /\ Placed(db, owned)
  BY DEF Consistent
<1>2. /\ \A t \in Tables : next[t] = {r \in db[t] : r.is # i}
      /\ DOMAIN owned' = DOMAIN owned \ {i}
      /\ \A x \in DOMAIN owned' : owned'[x] = owned[x]
  BY DEF Destroyed
<1>3. next[ItemTable] = {r \in db[ItemTable] : r.is # i}
  BY <1>2, Constants
<1>4. ItemsOnce(next, owned')
  <2>1. ASSUME NEW x \in DOMAIN owned' PROVE \E q \in next[ItemTable] : q.is = x
    <3>1. x \in DOMAIN owned /\ x # i
      BY <1>2
    <3>2. PICK q \in db[ItemTable] : q.is = x
      BY <1>1, <3>1 DEF ItemsOnce
    <3> QED
      BY <1>3, <3>1, <3>2
  <2> QED
    BY <1>1, <1>2, <1>3, <2>1 DEF ItemsOnce
<1>5. AllTold(next, owned')
  <2> SUFFICES ASSUME NEW t \in Tables \ {ItemTable}, NEW r \in next[t]
               PROVE  Told(next, owned', t, r)
    BY DEF AllTold
  <2>1. r \in db[t] /\ r.is # i
    BY <1>2
  <2>2. Told(db, owned, t, r)
    BY <1>1, <2>1 DEF AllTold
  <2>3. r.is \in DOMAIN owned' /\ owned'[r.is] = [at |-> t, in |-> r.in]
    BY <1>2, <2>1, <2>2 DEF Told
  <2>4. r.in = None \/ r.in # i
    <3>1. owned[r.is].at = t /\ owned[r.is].in = r.in /\ r.is \in DOMAIN owned
      BY <2>2 DEF Told
    <3>2. r.in = None \/ t = BagTable
      BY <1>1, <3>1 DEF Placed
    <3> QED
      BY <2>1, <3>2
  <2>5. \E q \in next[ItemTable] : q.is = r.is /\ q.item = r.item
    BY <1>3, <2>1, <2>2 DEF Told
  <2>6. r.in # None => \E q \in next[ItemTable] : q.is = r.in /\ q.item = r.bag
    BY <1>3, <2>2, <2>4 DEF Told
  <2>7. r.in = None => r.bag = 0
    BY <2>2 DEF Told
  <2> QED
    BY <2>3, <2>5, <2>6, <2>7 DEF Told
<1>6. Placed(next, owned')
  <2> SUFFICES ASSUME NEW x \in DOMAIN owned'
               PROVE  /\ owned'[x].at \in Tables \ {ItemTable}
                      /\ \E r \in next[owned'[x].at] : r.is = x
                      /\ owned'[x].in = None \/ owned'[x].at = BagTable
    BY DEF Placed
  <2>1. x \in DOMAIN owned /\ x # i /\ owned'[x] = owned[x]
    BY <1>2
  <2>2. /\ owned[x].at \in Tables \ {ItemTable}
        /\ owned[x].in = None \/ owned[x].at = BagTable
    BY <1>1, <2>1 DEF Placed
  <2>3. PICK r \in db[owned[x].at] : r.is = x
    BY <1>1, <2>1 DEF Placed
  <2>4. r \in next[owned[x].at]
    BY <1>2, <2>1, <2>2, <2>3
  <2> QED
    BY <2>1, <2>2, <2>3, <2>4
<1> QED
  BY <1>4, <1>5, <1>6 DEF Consistent

(* The end of an item takes no other away.                                 *)
LEMMA DestroyKeeps ==
    ASSUME StoreInv, StoreInv', Kept, temp' = temp, NEW i, Destroyed(live, live', i)
    PROVE  Kept'
<1>1. /\ \A t \in Tables : live'[t] = {r \in live[t] : r.is # i}
      /\ DOMAIN owned' = DOMAIN owned \ {i}
  BY DEF Destroyed
<1>2. DOMAIN live = Tables /\ DOMAIN live' = Tables /\ ItemTable \in Tables
  BY Constants DEF StoreInv
<1>3. ASSUME NEW x, x # i, Holds(live, x) PROVE Holds(live', x)
  <2>1. PICK r \in live[ItemTable] :
            r.is = x /\ \E u \in DOMAIN live \ {ItemTable} : \E q \in live[u] : q.is = x /\ q.item = r.item
    BY <1>3 DEF Holds
  <2>2. PICK u \in DOMAIN live \ {ItemTable} : \E q \in live[u] : q.is = x /\ q.item = r.item
    BY <2>1
  <2>3. PICK q \in live[u] : q.is = x /\ q.item = r.item
    BY <2>2
  <2>4. r \in live'[ItemTable] /\ q \in live'[u]
    BY <1>1, <1>2, <1>3, <2>1, <2>3
  <2> QED
    BY <1>2, <2>1, <2>3, <2>4 DEF Holds
<1> QED
  BY <1>1, <1>3 DEF Kept

-----------------------------------------------------------------------------
(* The cleaning.                                                           *)

\* A cleaning from id g that takes no item.
Harmless(g) ==
    /\ g \in Nat /\ Swept(g) = {}
    /\ \A t \in Tables : live'[t] = IF t \in Cleaned THEN {r \in live[t] : r.item < g} ELSE live[t]

(* A row whose item exists is not swept.                                   *)
LEMMA NotSwept ==
    ASSUME StoreInv, NEW g, Harmless(g), NEW t \in Tables \ {ItemTable}, NEW r \in live[t],
           NEW q \in live[ItemTable], q.item = r.item
    PROVE  r \in live'[t]
<1>1. r \in Row
  BY DEF StoreInv
<1>2. r.item \in 1..MaxGuid
  BY <1>1 DEF Row
<1>3. CASE t \notin Cleaned
  BY <1>3 DEF Harmless
<1>4. CASE t \in Cleaned
  <2>1. r.item \in Guids(live[ItemTable])
    BY DEF Guids
  <2>2. r.item \in {x.item : x \in UNION {live[u] : u \in Cleaned \cap Tables}}
    <3>1. r \in UNION {live[u] : u \in Cleaned \cap Tables}
      BY <1>4
    <3> QED
      BY <3>1
  <2>3. r.item \notin g..MaxGuid
    BY <2>1, <2>2 DEF Swept, Harmless
  <2>4. r.item < g
    BY <1>2, <2>3, Constants DEF Harmless
  <2> QED
    BY <1>4, <2>4 DEF Harmless
<1> QED
  BY <1>3, <1>4

(* A sweep that finds nothing to delete leaves the tables in agreement.    *)
LEMMA CleanAgrees ==
    ASSUME StoreInv, Consistent(live, owned), owned' = owned, NEW g, Harmless(g)
    PROVE  Consistent(live', owned')
<1>1. AllTold(live, owned)
  BY DEF Consistent
<1>2. \A t \in Tables : live'[t] = live[t]
  <2> SUFFICES ASSUME NEW t \in Tables PROVE live'[t] = live[t]
    OBVIOUS
  <2>1. CASE t = ItemTable
    <3>1. ItemTable \notin Cleaned
      BY DEF ItemTable, Cleaned
    <3> QED
      BY <2>1, <3>1 DEF Harmless
  <2>2. CASE t # ItemTable
    <3>1. ASSUME NEW r \in live[t] PROVE r \in live'[t]
      <4>1. Told(live, owned, t, r)
        BY <1>1, <2>2 DEF AllTold
      <4>2. PICK q \in live[ItemTable] : q.item = r.item
        BY <4>1 DEF Told
      <4> QED
        BY <2>2, <4>2, NotSwept
    <3>2. live'[t] \subseteq live[t]
      BY DEF Harmless
    <3> QED
      BY <3>1, <3>2
  <2> QED
    BY <2>1, <2>2
<1> QED
  BY <1>2, SameRows

(* Such a sweep loses no item either.                                      *)
LEMMA CleanKeeps ==
    ASSUME StoreInv, StoreInv', Kept, temp' = temp, owned' = owned, NEW g, Harmless(g)
    PROVE  Kept'
<1>1. DOMAIN live = Tables /\ DOMAIN live' = Tables /\ ItemTable \in Tables
  BY Constants DEF StoreInv
<1>2. live'[ItemTable] = live[ItemTable]
  <2>1. ItemTable \notin Cleaned
    BY DEF ItemTable, Cleaned
  <2> QED
    BY <1>1, <2>1 DEF Harmless
<1>3. ASSUME NEW x, Holds(live, x) PROVE Holds(live', x)
  <2>1. PICK r \in live[ItemTable] :
            r.is = x /\ \E u \in DOMAIN live \ {ItemTable} : \E q \in live[u] : q.is = x /\ q.item = r.item
    BY <1>3 DEF Holds
  <2>2. PICK u \in DOMAIN live \ {ItemTable} : \E q \in live[u] : q.is = x /\ q.item = r.item
    BY <2>1
  <2>3. PICK q \in live[u] : q.is = x /\ q.item = r.item
    BY <2>2
  <2>4. u \in Tables \ {ItemTable} /\ r.item = q.item
    BY <1>1, <2>3
  <2>5. q \in live'[u]
    BY <2>4, NotSwept
  <2> QED
    BY <1>1, <1>2, <2>1, <2>3, <2>5 DEF Holds
<1> QED
  BY <1>3 DEF Kept

-----------------------------------------------------------------------------
(* What the tables, the copies and the queue have in each phase.           *)

\* The rows that queued statements will insert into t.
Pending(q, t) ==
    UNION {q[k].rows : k \in {j \in DOMAIN q : q[j].op = "insert" /\ q[j].table = t}}

\* The tables when the queue is empty.
Final == [t \in Tables |-> live[t] \cup Pending(tasks, t)]

HasInsert == \E k \in DOMAIN tasks : tasks[k].op = "insert"

\* A row that a statement of q will insert is in no other statement for its
\* table, nor in that table of db.
Waits(q, db) ==
    \A j \in DOMAIN q : q[j].op = "insert" =>
        \A x \in q[j].rows :
            /\ x \notin db[q[j].table]
            /\ \A k \in DOMAIN q :
                 q[k].op = "insert" /\ q[k].table = q[j].table /\ x \in q[k].rows => k = j

CalmData ==
    /\ DOMAIN temp = {} => Consistent(live, owned)
    /\ flaws = {} => DOMAIN temp = {}
    /\ Kept

CopyData == Consistent(live, owned) /\ \A t \in DOMAIN temp : temp[t] = live[t]

EmptyData ==
    /\ Consistent(temp, owned)
    /\ hub = "truncate" => \A k \in 1..step - 1 : live[In(TruncateOrder)[k]] = {}
    /\ hub = "collect" => \A t \in Tables : live[t] = {}

\* A table of the main thread is filled, or will be, when it is behind step.
Filled(k) ==
    live[In(MainOrder)[k]] \cup Pending(tasks, In(MainOrder)[k])
        = IF k < step THEN Renumbered(temp[In(MainOrder)[k]]) ELSE {}

FillData ==
    /\ Consistent(temp, owned) /\ MapsItems(temp)
    /\ itemRows \subseteq temp[ItemTable] /\ bagRows \subseteq temp[BagTable]
    /\ live[ItemTable] = Renumbered(temp[ItemTable] \ itemRows)
    /\ live[BagTable] = Renumbered(temp[BagTable] \ bagRows)
    /\ \A k \in 1..Len(In(MainOrder)) : Filled(k)
    /\ Waits(tasks, live)

QueueData ==
    /\ Consistent(Final, owned) /\ Waits(tasks, live) /\ Kept
    /\ HasInsert => Tables \subseteq DOMAIN temp
    /\ \A t \in DOMAIN temp : \E k \in DOMAIN tasks : tasks[k] = Drop(t)

Weather == flaws \subseteq {"interrupted", "empty"}

PhaseData ==
    /\ ~Working => CalmData
    /\ hub = "create" => CopyData
    /\ hub \in {"truncate", "collect"} => EmptyData
    /\ hub = "renumber" => FillData
    /\ Idle /\ Working => QueueData

\* A rebase finds copies only after a crash or a rebase without items.
StaleExcused == flaws \subseteq {"stale"} => flaws = {}

DataInv == StaleExcused /\ (Weather => PhaseData)

Invariant == TypeInv /\ TaskInv /\ DataInv

(* The rows of the queued statements.                                      *)
LEMMA PendingIs ==
    ASSUME NEW q, NEW t, NEW x
    PROVE  x \in Pending(q, t) <=>
             \E k \in DOMAIN q : q[k].op = "insert" /\ q[k].table = t /\ x \in q[k].rows
  BY DEF Pending

(* Statements that insert nothing have no rows.                            *)
LEMMA NothingPending ==
    ASSUME NEW q, \A k \in DOMAIN q : q[k].op # "insert", NEW t
    PROVE  Pending(q, t) = {}
  BY DEF Pending

(* The rows of two queues are those of the one and of the other.           *)
LEMMA PendingOfTwo ==
    ASSUME NEW q \in Seq(Task), NEW p \in Seq(Task), NEW t
    PROVE  Pending(q \o p, t) = Pending(q, t) \cup Pending(p, t)
<1> DEFINE s == q \o p
<1>1. /\ Len(q) \in Nat /\ Len(p) \in Nat /\ DOMAIN q = 1..Len(q) /\ DOMAIN p = 1..Len(p)
      /\ DOMAIN s = 1..Len(q) + Len(p)
      /\ \A k \in 1..Len(q) + Len(p) : s[k] = IF k =< Len(q) THEN q[k] ELSE p[k - Len(q)]
  OBVIOUS
<1> HIDE DEF s
<1>2. ASSUME NEW x, x \in Pending(s, t) PROVE x \in Pending(q, t) \cup Pending(p, t)
  <2>1. PICK k \in DOMAIN s : s[k].op = "insert" /\ s[k].table = t /\ x \in s[k].rows
    BY <1>2, PendingIs
  <2>2. CASE k =< Len(q)
    <3>1. k \in DOMAIN q /\ s[k] = q[k]
      BY <1>1, <2>2
    <3>2. x \in Pending(q, t)
      BY <2>1, <3>1, PendingIs
    <3> QED
      BY <3>2
  <2>3. CASE ~(k =< Len(q))
    <3>1. k - Len(q) \in DOMAIN p /\ s[k] = p[k - Len(q)]
      BY <1>1, <2>3
    <3>2. x \in Pending(p, t)
      BY <2>1, <3>1, PendingIs
    <3> QED
      BY <3>2
  <2> QED
    BY <2>2, <2>3
<1>3. ASSUME NEW x, x \in Pending(q, t) PROVE x \in Pending(s, t)
  <2>1. PICK k \in DOMAIN q : q[k].op = "insert" /\ q[k].table = t /\ x \in q[k].rows
    BY <1>3, PendingIs
  <2>2. k \in DOMAIN s /\ s[k] = q[k]
    BY <1>1
  <2> QED
    BY <2>1, <2>2, PendingIs
<1>4. ASSUME NEW x, x \in Pending(p, t) PROVE x \in Pending(s, t)
  <2>1. PICK k \in DOMAIN p : p[k].op = "insert" /\ p[k].table = t /\ x \in p[k].rows
    BY <1>4, PendingIs
  <2>2. PICK j \in DOMAIN s : s[j] = p[k]
    <3>1. Len(q) + k \in DOMAIN s /\ ~(Len(q) + k =< Len(q)) /\ Len(q) + k - Len(q) = k
      BY <1>1
    <3>2. s[Len(q) + k] = p[k]
      BY <1>1, <3>1
    <3> QED
      BY <3>1, <3>2
  <2> QED
    BY <2>1, <2>2, PendingIs
<1>5. Pending(s, t) = Pending(q, t) \cup Pending(p, t)
  BY <1>2, <1>3, <1>4
<1> QED
  BY <1>5 DEF s

(* The first statement is done: it is not pending any more.                *)
LEMMA PendingLess ==
    ASSUME StoreInv, Worker, NEW t
    PROVE  Pending(tasks, t) = Pending(tasks', t)
             \cup (IF tasks[1].op = "insert" /\ tasks[1].table = t THEN tasks[1].rows ELSE {})
<1>1. /\ Len(tasks) \in Nat /\ Len(tasks') = Len(tasks) - 1 /\ tasks # <<>>
      /\ DOMAIN tasks = 1..Len(tasks) /\ DOMAIN tasks' = 1..Len(tasks')
      /\ \A k \in DOMAIN tasks' : k + 1 \in DOMAIN tasks /\ tasks'[k] = tasks[k + 1]
      /\ tasks' \in Seq(Task)
  BY WorkerTakes
<1>2. 1 \in DOMAIN tasks /\ \A k \in DOMAIN tasks : k = 1 \/ (k - 1 \in DOMAIN tasks' /\ (k - 1) + 1 = k)
  <2>1. tasks \in Seq(Task) /\ tasks # <<>>
    BY <1>1 DEF StoreInv
  <2>2. Len(tasks) >= 1
    BY <2>1
  <2> QED
    BY <1>1, <2>2
<1> DEFINE first == IF tasks[1].op = "insert" /\ tasks[1].table = t THEN tasks[1].rows ELSE {}
<1>3. ASSUME NEW x, x \in Pending(tasks, t) PROVE x \in Pending(tasks', t) \cup first
  <2>1. PICK k \in DOMAIN tasks : tasks[k].op = "insert" /\ tasks[k].table = t /\ x \in tasks[k].rows
    BY <1>3, PendingIs
  <2>2. CASE k = 1
    BY <2>1, <2>2
  <2>3. CASE k # 1
    <3>1. k - 1 \in DOMAIN tasks' /\ tasks'[k - 1] = tasks[k]
      BY <1>1, <1>2, <2>3
    <3>2. x \in Pending(tasks', t)
      BY <2>1, <3>1, PendingIs
    <3> QED
      BY <3>2
  <2> QED
    BY <2>2, <2>3
<1>4. ASSUME NEW x, x \in Pending(tasks', t) PROVE x \in Pending(tasks, t)
  <2>1. PICK k \in DOMAIN tasks' : tasks'[k].op = "insert" /\ tasks'[k].table = t /\ x \in tasks'[k].rows
    BY <1>4, PendingIs
  <2>2. k + 1 \in DOMAIN tasks /\ tasks'[k] = tasks[k + 1]
    BY <1>1
  <2> QED
    BY <2>1, <2>2, PendingIs
<1>5. ASSUME NEW x, x \in first PROVE x \in Pending(tasks, t)
  <2>1. tasks[1].op = "insert" /\ tasks[1].table = t /\ x \in tasks[1].rows
    BY <1>5
  <2> QED
    BY <1>2, <2>1, PendingIs
<1> QED
  BY <1>3, <1>4, <1>5

(* Without inserts no row waits.                                           *)
LEMMA NoneWaits ==
    ASSUME NEW q, NEW db, \A k \in DOMAIN q : q[k].op # "insert"
    PROVE  Waits(q, db)
  BY DEF Waits

(* The rows of two queues, when they are not the same.                     *)
LEMMA WaitsOfTwo ==
    ASSUME NEW q \in Seq(Task), NEW p \in Seq(Task), NEW db, Waits(q, db), Waits(p, db),
           \A u \in Tables : Pending(q, u) = {} \/ Pending(p, u) = {}
    PROVE  Waits(q \o p, db)
<1> DEFINE s == q \o p
<1>1. /\ Len(q) \in Nat /\ Len(p) \in Nat /\ DOMAIN q = 1..Len(q) /\ DOMAIN p = 1..Len(p)
      /\ DOMAIN s = 1..Len(q) + Len(p)
      /\ \A k \in 1..Len(q) + Len(p) : s[k] = IF k =< Len(q) THEN q[k] ELSE p[k - Len(q)]
      /\ \A k \in 1..Len(q) : q[k] \in Task
  OBVIOUS
<1> HIDE DEF s
<1>6. \A k \in DOMAIN q : q[k].table \in Tables
  BY <1>1 DEF Task
<1>2. ASSUME NEW k \in DOMAIN s
      PROVE  \/ k \in DOMAIN q /\ s[k] = q[k]
             \/ k - Len(q) \in DOMAIN p /\ s[k] = p[k - Len(q)]
  BY <1>1
<1>3. ASSUME NEW j \in DOMAIN q, NEW k \in DOMAIN p, NEW x,
             q[j].op = "insert", p[k].op = "insert", q[j].table = p[k].table,
             x \in q[j].rows, x \in p[k].rows
      PROVE  FALSE
  <2>1. x \in Pending(q, q[j].table) /\ x \in Pending(p, q[j].table) /\ q[j].table \in Tables
    BY <1>3, <1>6, PendingIs
  <2> QED
    BY <2>1
<1>4. ASSUME NEW j \in DOMAIN s, s[j].op = "insert", NEW x \in s[j].rows
      PROVE  x \notin db[s[j].table]
  BY <1>2, <1>4 DEF Waits
<1>5. ASSUME NEW j \in DOMAIN s, s[j].op = "insert", NEW x \in s[j].rows,
             NEW k \in DOMAIN s, s[k].op = "insert", s[k].table = s[j].table, x \in s[k].rows
      PROVE  k = j
  <2>1. j \in Int /\ k \in Int /\ Len(q) \in Int
    BY <1>1
  <2>2. CASE j \in DOMAIN q /\ s[j] = q[j] /\ k \in DOMAIN q /\ s[k] = q[k]
    BY <1>5, <2>2 DEF Waits
  <2>3. CASE /\ j - Len(q) \in DOMAIN p /\ s[j] = p[j - Len(q)]
             /\ k - Len(q) \in DOMAIN p /\ s[k] = p[k - Len(q)]
    <3>1. k - Len(q) = j - Len(q)
      BY <1>5, <2>3 DEF Waits
    <3> QED
      BY <2>1, <3>1
  <2> QED
    BY <1>2, <1>3, <1>5, <2>2, <2>3
<1> QED
  BY <1>4, <1>5 DEF Waits, s

(* What the worker has inserted waits no longer, and the rest still does.  *)
LEMMA WaitsBehind ==
    ASSUME StoreInv, Worker, Waits(tasks, live), tasks[1].op = "insert",
           \A u \in Tables : live'[u] \subseteq
             live[u] \cup (IF u = tasks[1].table THEN tasks[1].rows ELSE {})
    PROVE  Waits(tasks', live')
<1>1. /\ tasks # <<>> /\ Len(tasks) \in Nat /\ Len(tasks') = Len(tasks) - 1
      /\ DOMAIN tasks = 1..Len(tasks) /\ DOMAIN tasks' = 1..Len(tasks')
      /\ \A k \in DOMAIN tasks' : k + 1 \in DOMAIN tasks /\ tasks'[k] = tasks[k + 1]
      /\ tasks \in Seq(Task)
  BY WorkerTakes DEF StoreInv
<1>2. 1 \in DOMAIN tasks /\ \A k \in DOMAIN tasks' : k \in Int /\ k + 1 # 1 /\ tasks[k + 1].table \in Tables
  <2>1. 1 \in DOMAIN tasks /\ \A k \in DOMAIN tasks' : k \in Int /\ k + 1 # 1
    BY <1>1
  <2>2. \A k \in DOMAIN tasks : tasks[k] \in Task
    BY <1>1
  <2>3. \A k \in DOMAIN tasks : tasks[k].table \in Tables
    BY <2>2 DEF Task
  <2> QED
    BY <1>1, <2>1, <2>3
<1>3. ASSUME NEW j \in DOMAIN tasks', tasks'[j].op = "insert", NEW x \in tasks'[j].rows
      PROVE  x \notin live'[tasks'[j].table]
  <2>1. j + 1 \in DOMAIN tasks /\ tasks'[j] = tasks[j + 1]
    BY <1>1
  <2>2. x \notin live[tasks[j + 1].table]
    BY <1>3, <2>1 DEF Waits
  <2>3. tasks[1].table = tasks[j + 1].table => x \notin tasks[1].rows
    BY <1>2, <1>3, <2>1 DEF Waits
  <2> QED
    BY <1>2, <2>1, <2>2, <2>3
<1>4. ASSUME NEW j \in DOMAIN tasks', tasks'[j].op = "insert", NEW x \in tasks'[j].rows,
             NEW k \in DOMAIN tasks', tasks'[k].op = "insert", tasks'[k].table = tasks'[j].table,
             x \in tasks'[k].rows
      PROVE  k = j
  <2>1. /\ j + 1 \in DOMAIN tasks /\ tasks'[j] = tasks[j + 1]
        /\ k + 1 \in DOMAIN tasks /\ tasks'[k] = tasks[k + 1]
    BY <1>1
  <2>2. k + 1 = j + 1
    BY <1>4, <2>1 DEF Waits
  <2> QED
    BY <1>2, <2>2
<1> QED
  BY <1>3, <1>4 DEF Waits

(* The tables are at work in the phases of Begin and while its statements  *)
(* are queued.                                                             *)
LEMMA WorkingIs ==
    ASSUME PhaseInv
    PROVE  Working <=> (hub \in Phases \/ \E k \in DOMAIN tasks : tasks[k].op # "clean")
  BY DEF PhaseInv, Phases, Working, Idle

(* Tables, copies and the tables after all statements have rows only.      *)
LEMMA RowsAre ==
    ASSUME StoreInv
    PROVE  /\ Rows(live) /\ Rows(Final) /\ DOMAIN live = Tables
           /\ Tables \subseteq DOMAIN temp => Rows(temp) /\ DOMAIN temp = Tables
<1>1. Rows(live) /\ DOMAIN live = Tables
  BY DEF StoreInv, Rows
<1>2. ASSUME NEW t \in Tables PROVE Final[t] \in SUBSET Row
  <2>1. Pending(tasks, t) \in SUBSET Row
    <3> SUFFICES ASSUME NEW x \in Pending(tasks, t) PROVE x \in Row
      OBVIOUS
    <3>1. PICK k \in DOMAIN tasks : x \in tasks[k].rows
      BY PendingIs
    <3>2. tasks[k] \in Task
      BY DEF StoreInv
    <3> QED
      BY <3>1, <3>2 DEF Task
  <2> QED
    BY <1>1, <2>1 DEF Final, Rows
<1>3. Rows(Final)
  BY <1>2 DEF Rows
<1>4. Tables \subseteq DOMAIN temp => Rows(temp) /\ DOMAIN temp = Tables
  BY DEF StoreInv, Rows
<1> QED
  BY <1>1, <1>3, <1>4

(* Without inserts the tables are what they will be.                       *)
LEMMA NothingToInsert ==
    ASSUME Consistent(Final, owned), ~HasInsert
    PROVE  Consistent(live, owned)
<1>1. \A t \in Tables : Pending(tasks, t) = {}
  BY NothingPending DEF HasInsert
<1>2. \A t \in Tables : live[t] = Final[t]
  BY <1>1 DEF Final
<1> QED
  BY <1>2, SameRows

(* In every phase the tables or the copies have every item, and without    *)
(* copies the tables agree.                                                *)
LEMMA SafeInWeather ==
    ASSUME Invariant, Weather
    PROVE  Kept /\ (DOMAIN temp = {} => Consistent(live, owned))
<1>1. StoreInv /\ PhaseInv /\ TaskInv /\ PhaseData
  BY DEF Invariant, TypeInv, DataInv
<1>2. DOMAIN live = Tables /\ ItemTable \in Tables
  BY <1>1, RowsAre, Constants
<1>3. Consistent(live, owned) => Kept
  BY <1>2, ConsistentHolds DEF Kept
<1>4. Tables \subseteq DOMAIN temp /\ Consistent(temp, owned) => Kept /\ DOMAIN temp # {}
  BY <1>2, ConsistentHolds DEF Kept
<1>5. CASE ~Working
  BY <1>1, <1>5 DEF PhaseData, CalmData
<1>6. CASE hub = "create"
  BY <1>1, <1>3, <1>6 DEF PhaseData, CopyData
<1>7. CASE hub \in {"truncate", "collect", "renumber"}
  <2>1. Consistent(temp, owned)
    BY <1>1, <1>7 DEF PhaseData, EmptyData, FillData
  <2>2. Tables \subseteq DOMAIN temp
    BY <1>1, <1>7 DEF PhaseInv
  <2> QED
    BY <1>4, <2>1, <2>2
<1>8. CASE Working /\ Idle
  <2>1. QueueData
    BY <1>1, <1>8 DEF PhaseData
  <2>2. CASE HasInsert
    BY <1>2, <2>1, <2>2 DEF QueueData
  <2>3. CASE ~HasInsert
    BY <1>3, <2>1, <2>3, NothingToInsert DEF QueueData
  <2> QED
    BY <2>2, <2>3
<1>9. CASE hub = "down"
  <2>1. tasks = <<>>
    BY <1>1, <1>9 DEF TaskInv
  <2>2. ~Working
    BY <1>9, <2>1 DEF Working
  <2> QED
    BY <1>5, <2>2
<1> QED
  BY <1>1, <1>5, <1>6, <1>7, <1>8, <1>9 DEF PhaseInv, Phases, Idle

-----------------------------------------------------------------------------
(* The steps.                                                              *)

(* A step that leaves tables, copies and queue alone, and the main thread  *)
(* where it is or in the main loop.                                        *)
LEMMA NothingTouched ==
    ASSUME Invariant, hub' = hub \/ (Idle /\ hub' \in {"loop", "timers"}),
           UNCHANGED <<step, itemMap, itemRows, bagRows, tasks, live, temp, owned, flaws>>
    PROVE  DataInv'
<1>1. DataInv
  BY DEF Invariant
<1>2. CASE hub' = hub
  <2>1. (CalmData <=> CalmData') /\ (CopyData <=> CopyData')
    BY DEF CalmData, CopyData, Kept
  <2>2. EmptyData <=> EmptyData'
    BY <1>2 DEF EmptyData
  <2>3. \A rows : Renumbered(rows) = Renumbered(rows)'
    BY DEF Renumbered, Renumber, Mapped
  <2>4. FillData <=> FillData'
    <3>1. \A k : Filled(k) <=> Filled(k)'
      BY <2>3 DEF Filled
    <3>2. MapsItems(temp) <=> MapsItems(temp)'
      BY DEF MapsItems
    <3> QED
      BY <2>3, <3>1, <3>2 DEF FillData
  <2>5. QueueData <=> QueueData'
    BY DEF QueueData, HasInsert, Final, Kept
  <2>6. (Working <=> Working') /\ (Idle <=> Idle')
    BY <1>2 DEF Working, Idle
  <2>7. PhaseData <=> PhaseData'
    BY <1>2, <2>1, <2>2, <2>4, <2>5, <2>6 DEF PhaseData
  <2> QED
    BY <1>1, <2>7 DEF DataInv, StaleExcused, Weather
<1>3. CASE Idle /\ hub' \in {"loop", "timers"}
  <2>1. Idle' /\ (Working' <=> Working) /\ Idle
    BY <1>3 DEF Idle, Working
  <2>2. ~(hub' \in Phases)
    BY <1>3 DEF Phases
  <2>3. Weather' <=> Weather
    BY DEF Weather
  <2>4. Weather' => PhaseData'
    BY <1>1, <2>1, <2>2, <2>3 DEF DataInv, PhaseData, Phases, CalmData, QueueData, Kept, HasInsert, Final
  <2> QED
    BY <1>1, <2>4 DEF DataInv, StaleExcused
<1> QED
  BY <1>2, <1>3

(* A rebase begins with tables that agree, and without copies.             *)
LEMMA TimersData ==
    ASSUME Invariant, UpdateTimers
    PROVE  DataInv'
<1>1. TypeInv /\ TaskInv /\ DataInv /\ StoreInv /\ PhaseInv
  BY DEF Invariant, TypeInv
<1>2. /\ hub = "timers"
      /\ \/ hub' = "loop" /\ UNCHANGED <<toPlus, step, flaws>>
         \/ /\ hub' = "create" /\ step' = 1 /\ toPlus < 0 /\ toPlus' >= 0
            /\ flaws' = flaws \cup (IF DOMAIN temp = {} THEN {} ELSE {"stale"})
      /\ UNCHANGED <<itemMap, itemRows, bagRows, tasks, live, temp, owned, writes, crashes>>
  BY <1>1, TimersOutcome
<1>3. CASE hub' = "loop" /\ UNCHANGED <<toPlus, step, flaws>>
  <2>1. Idle /\ hub' \in {"loop", "timers"}
    BY <1>2, <1>3 DEF Idle
  <2> QED
    BY <1>2, <1>3, <2>1, NothingTouched
<1>4. CASE /\ hub' = "create" /\ toPlus < 0
           /\ flaws' = flaws \cup (IF DOMAIN temp = {} THEN {} ELSE {"stale"})
  <2>1. toPlus \in Int
    BY <1>1, Constants DEF TypeInv, ClockInv
  <2>2. tasks = <<>>
    BY <1>1, <1>4, <2>1 DEF TaskInv
  <2>3. ~Working
    BY <1>2, <2>2 DEF Working, Idle
  <2>4. Weather => CalmData
    BY <1>1, <2>3 DEF DataInv, PhaseData
  <2>5. StaleExcused'
    <3> SUFFICES ASSUME flaws' \subseteq {"stale"} PROVE flaws' = {}
      BY DEF StaleExcused
    <3>1. flaws \subseteq {"stale"}
      BY <1>4
    <3>2. flaws = {}
      BY <1>1, <3>1 DEF DataInv, StaleExcused
    <3>3. DOMAIN temp = {}
      BY <2>4, <3>2 DEF Weather, CalmData
    <3> QED
      BY <1>4, <3>2, <3>3
  <2>6. ASSUME Weather' PROVE CopyData'
    <3>1. DOMAIN temp = {} /\ Weather
      BY <1>4, <2>6 DEF Weather
    <3>2. Consistent(live, owned)
      BY <2>4, <3>1 DEF CalmData
    <3> QED
      BY <1>2, <3>1, <3>2 DEF CopyData
  <2>7. Working' /\ ~Idle' /\ hub' = "create"
    BY <1>4 DEF Working, Idle
  <2> QED
    BY <2>5, <2>6, <2>7 DEF DataInv, PhaseData
<1> QED
  BY <1>2, <1>3, <1>4

(* The copies are those of the tables.                                     *)
LEMMA CreateTableData ==
    ASSUME Invariant, TypeInv', CreateTable
    PROVE  DataInv'
<1> DEFINE t == In(CreateOrder)[step]
<1>1. /\ hub = "create" /\ hub' \in {"create", "truncate"} /\ UNCHANGED <<live, owned, flaws>>
      /\ hub' = "truncate" => step' = 1
      /\ temp' = [x \in DOMAIN temp \cup {t} |-> IF x \in DOMAIN temp THEN temp[x] ELSE live[x]]
  BY DEF CreateTable, nodeVars
<1> HIDE DEF t
<1>2. StaleExcused' /\ (Weather' => PhaseData)
  BY <1>1 DEF Invariant, DataInv, StaleExcused, Weather
<1>3. ASSUME Weather' PROVE PhaseData'
  <2>1. Consistent(live, owned) /\ \A x \in DOMAIN temp : temp[x] = live[x]
    BY <1>1, <1>2, <1>3 DEF PhaseData, CopyData
  <2>2. \A x \in DOMAIN temp' : temp'[x] = live'[x]
    BY <1>1, <2>1
  <2>3. Consistent(live', owned')
    BY <1>1, <2>1
  <2>4. CASE hub' = "create"
    <3>1. CopyData'
      BY <2>2, <2>3 DEF CopyData
    <3> QED
      BY <2>4, <3>1 DEF PhaseData, Working, Idle
  <2>5. CASE hub' = "truncate"
    <3>1. Tables \subseteq DOMAIN temp'
      BY <2>5 DEF TypeInv, PhaseInv
    <3>2. \A x \in Tables : temp'[x] = live'[x]
      BY <2>2, <3>1
    <3>3. Consistent(temp', owned')
      BY <2>3, <3>2, SameRows
    <3>4. 1..step' - 1 = {}
      BY <1>1, <2>5
    <3>5. EmptyData'
      BY <2>5, <3>3, <3>4 DEF EmptyData
    <3> QED
      BY <2>5, <3>5 DEF PhaseData, Working, Idle
  <2> QED
    BY <1>1, <2>4, <2>5
<1> QED
  BY <1>2, <1>3 DEF DataInv

(* The tables are emptied one by one, the copies stay.                     *)
LEMMA TruncateTableData ==
    ASSUME Invariant, TruncateTable
    PROVE  DataInv'
<1> DEFINE T == In(TruncateOrder)
           t == T[step]
<1>1. /\ hub = "truncate" /\ UNCHANGED <<temp, owned, flaws>>
      /\ live' = [live EXCEPT ![t] = {}]
      /\ \/ step < Len(T) /\ step' = step + 1 /\ hub' = hub
         \/ step = Len(T) /\ step' = 1 /\ hub' = "collect"
  BY DEF TruncateTable, nodeVars
<1>2. StaleExcused' /\ (Weather' => PhaseData)
  BY <1>1 DEF Invariant, DataInv, StaleExcused, Weather
<1>3. Lists(T, Tables, 10) /\ live \in [Tables -> SUBSET Row] /\ step \in 1..11 /\ step =< Len(T)
  BY <1>1, OrdersOfTables DEF Invariant, TypeInv, StoreInv, PhaseInv
<1> HIDE DEF T
<1>4. ASSUME Weather' PROVE PhaseData'
  <2>1. Consistent(temp, owned) /\ \A k \in 1..step - 1 : live[T[k]] = {}
    BY <1>1, <1>2, <1>4 DEF PhaseData, EmptyData, T
  <2>2. Consistent(temp', owned')
    BY <1>1, <2>1
  <2>3. \A k \in 1..step : live'[T[k]] = {}
    <3> SUFFICES ASSUME NEW k \in 1..step PROVE live'[T[k]] = {}
      OBVIOUS
    <3>1. k \in 1..Len(T) /\ T[k] \in Tables
      <4>1. Len(T) \in 1..10
        BY <1>3 DEF Lists
      <4>2. k \in 1..Len(T)
        BY <1>3, <4>1
      <4> QED
        BY <1>3, <4>2 DEF Lists
    <3>2. CASE T[k] = t
      BY <1>1, <1>3, <3>1, <3>2
    <3>3. CASE T[k] # t
      <4>1. k \in 1..step - 1
        BY <1>3, <3>3
      <4>2. live[T[k]] = {}
        BY <2>1, <4>1
      <4> QED
        BY <1>1, <1>3, <3>1, <3>3, <4>2
    <3> QED
      BY <3>2, <3>3
  <2>4. CASE step < Len(T) /\ step' = step + 1 /\ hub' = hub
    <3>1. step' - 1 = step
      BY <1>3, <2>4
    <3>2. EmptyData'
      BY <1>1, <2>2, <2>3, <2>4, <3>1 DEF EmptyData, T
    <3> QED
      BY <1>1, <2>4, <3>2 DEF PhaseData, Working, Idle
  <2>5. CASE step = Len(T) /\ step' = 1 /\ hub' = "collect"
    <3>1. \A x \in Tables : live'[x] = {}
      BY <1>3, <2>3, <2>5 DEF Lists
    <3>2. EmptyData'
      BY <2>2, <2>5, <3>1 DEF EmptyData
    <3> QED
      BY <2>5, <3>2 DEF PhaseData, Working, Idle
  <2> QED
    BY <1>1, <2>4, <2>5
<1> QED
  BY <1>2, <1>4 DEF DataInv

(* Renumbering takes the rows of a table one by one.                       *)
LEMMA RenumberedParts ==
    ASSUME NEW rows, NEW more
    PROVE  /\ Renumbered(rows \cup more) = Renumbered(rows) \cup Renumbered(more)
           /\ rows \subseteq more => Renumbered(rows) \subseteq Renumbered(more)
           /\ Renumbered({}) = {}
  BY DEF Renumbered

(* The ids are counted anew, and no two items get the same.                *)
LEMMA CollectData ==
    ASSUME Invariant, Collect
    PROVE  DataInv'
<1> DEFINE guids == Guids(temp[ItemTable])
<1>1. hub = "collect" /\ UNCHANGED <<step, tasks, live, temp, owned>>
  BY DEF Collect, nodeVars
<1>2. TypeInv /\ StoreInv /\ DataInv /\ tasks = <<>> /\ step = 1 /\ Tables \subseteq DOMAIN temp
  BY <1>1 DEF Invariant, TypeInv, TaskInv, PhaseInv
<1>3. ItemTable \in Tables /\ BagTable \in Tables
  BY Constants
<1>4. CASE hub' = "loop" /\ flaws' = flaws \cup {"empty"}
  <2>1. StaleExcused'
    BY <1>4 DEF StaleExcused
  <2>2. ASSUME Weather' PROVE PhaseData'
    <3>1. Weather
      BY <1>4, <2>2 DEF Weather
    <3>2. Kept
      BY <3>1, SafeInWeather
    <3>3. CalmData'
      BY <1>1, <1>2, <1>3, <1>4, <3>2 DEF CalmData, Kept
    <3>4. ~Working' /\ hub' = "loop"
      BY <1>1, <1>2, <1>4 DEF Working, Idle
    <3> QED
      BY <3>3, <3>4 DEF PhaseData
  <2> QED
    BY <2>1, <2>2 DEF DataInv
<1>5. CASE /\ \E f \in Numberings(guids) :
                itemMap' = [g \in guids \cup DOMAIN itemMap |->
                              IF g \in guids THEN f[g] ELSE itemMap[g]]
           /\ itemRows' = temp[ItemTable] /\ bagRows' = temp[BagTable]
           /\ hub' = "renumber" /\ UNCHANGED flaws
  <2>1. guids \in SUBSET (1..MaxGuid)
    <3>1. temp[ItemTable] \in SUBSET Row
      BY <1>2, <1>3 DEF StoreInv
    <3> QED
      BY <3>1 DEF Guids, Row
  <2> HIDE DEF guids
  <2>2. PICK f \in Numberings(guids) :
                itemMap' = [g \in guids \cup DOMAIN itemMap |->
                              IF g \in guids THEN f[g] ELSE itemMap[g]]
    BY <1>5
  <2>3. \A g, h \in guids : f[g] = f[h] => g = h
    BY <2>1, NumberingsAreIds
  <2>4. guids \subseteq DOMAIN itemMap' /\ \A g, h \in guids : itemMap'[g] = itemMap'[h] => g = h
    BY <2>2, <2>3
  <2>5. MapsItems(temp)'
    BY <1>1, <2>4 DEF MapsItems, guids
  <2>6. StaleExcused' /\ (Weather' => PhaseData)
    BY <1>2, <1>5 DEF DataInv, StaleExcused, Weather
  <2>7. ASSUME Weather' PROVE FillData'
    <3>1. Consistent(temp, owned) /\ \A t \in Tables : live[t] = {}
      BY <1>1, <2>6, <2>7 DEF PhaseData, EmptyData
    <3>2. Consistent(temp', owned')
      BY <1>1, <3>1
    <3>3. Renumbered({})' = {}
      BY DEF Renumbered
    <3>4. /\ live'[ItemTable] = {} /\ live'[BagTable] = {}
          /\ temp'[ItemTable] \ itemRows' = {} /\ temp'[BagTable] \ bagRows' = {}
      BY <1>1, <1>3, <1>5, <3>1
    <3>5. ASSUME NEW k \in 1..Len(In(MainOrder)) PROVE Filled(k)'
      <4>1. In(MainOrder)[k] \in Tables
        BY OrdersOfTables DEF ListsMain
      <4>2. live'[In(MainOrder)[k]] = {}
        BY <1>1, <3>1, <4>1
      <4>3. Pending(tasks', In(MainOrder)[k]) = {}
        <5>1. \A j \in DOMAIN tasks' : tasks'[j].op # "insert"
          BY <1>1, <1>2
        <5> QED
          BY <5>1, NothingPending
      <4>4. ~(k < step')
        BY <1>1, <1>2
      <4> QED
        BY <4>2, <4>3, <4>4 DEF Filled
    <3>6. itemRows' \subseteq temp'[ItemTable] /\ bagRows' \subseteq temp'[BagTable]
      BY <1>1, <1>5
    <3>7. Waits(tasks', live')
      <4>1. \A j \in DOMAIN tasks' : tasks'[j].op # "insert"
        BY <1>1, <1>2
      <4> QED
        BY <4>1, NoneWaits
    <3> QED
      BY <2>5, <3>2, <3>3, <3>4, <3>5, <3>6, <3>7 DEF FillData
  <2>8. Working' /\ ~Idle'
    BY <1>5 DEF Working, Idle
  <2> QED
    BY <1>5, <2>6, <2>7, <2>8 DEF DataInv, PhaseData
<1> QED
  BY <1>4, <1>5 DEF Collect

(* The rows of one of the two threads are in its table.                    *)
LEMMA ThreadInserts ==
    ASSUME StoreInv, Tables \subseteq DOMAIN temp, Consistent(temp, owned), MapsItems(temp),
           NEW t \in Tables, NEW todo \in SUBSET temp[t], NEW rows \in SUBSET todo,
           live[t] = Renumbered(temp[t] \ todo), InsertIgnore(t, Renumbered(rows))
    PROVE  /\ live'[t] = Renumbered(temp[t] \ (todo \ rows))
           /\ \A u \in Tables \ {t} : live'[u] = live[u]
<1> DEFINE N == Renewed(temp)
<1>1. Rows(temp)
  BY RowsAre
<1>2. Consistent(N, owned) /\ Rows(N)
  BY <1>1, RenewedConsistent
<1>3. N[t] = Renumbered(temp[t])
  BY DEF Renewed
<1> HIDE DEF N
<1>4. rows \subseteq temp[t] /\ temp[t] \ todo \subseteq temp[t]
  OBVIOUS
<1>5. Renumbered(rows) \subseteq N[t] /\ live[t] \subseteq N[t]
  BY <1>3, <1>4, RenumberedParts
<1>6. live[t] \cup {r \in Renumbered(rows) : r.item \notin Guids(live[t])} = live[t] \cup Renumbered(rows)
  <2> DEFINE have == live[t]
             new == Renumbered(rows)
  <2>1. have \in SUBSET N[t] /\ new \in SUBSET N[t]
    BY <1>5
  <2> HIDE DEF have, new
  <2>2. have \cup {r \in new : r.item \notin Guids(have)} = have \cup new
    BY <1>2, <2>1, InsertsAll
  <2> QED
    BY <2>2 DEF have, new
<1>7. Renumbered(rows) \in SUBSET Row
  <2>1. rows \in SUBSET Row
    BY <1>1, <1>4 DEF Rows
  <2> QED
    BY <2>1, RenumberedRows
<1>8. live \in [Tables -> SUBSET Row]
  BY DEF StoreInv
<1>9. /\ live'[t] = live[t] \cup {r \in Renumbered(rows) : r.item \notin Guids(live[t])}
      /\ \A u \in Tables \ {t} : live'[u] = live[u]
  BY <1>7, <1>8, InsertIgnoreIs
<1>10. temp[t] \ (todo \ rows) = (temp[t] \ todo) \cup rows
  BY <1>4
<1>11. Renumbered((temp[t] \ todo) \cup rows) = Renumbered(temp[t] \ todo) \cup Renumbered(rows)
  BY RenumberedParts
<1> QED
  BY <1>6, <1>9, <1>10, <1>11

(* A statement of one of the two threads.                                  *)
LEMMA ThreadsData ==
    ASSUME Invariant, ItemInstance \/ CharacterInventory
    PROVE  DataInv'
<1> DEFINE M == In(MainOrder)
<1>1. hub = "renumber" /\ UNCHANGED <<hub, step, itemMap, tasks, temp, owned, flaws>>
  BY DEF ItemInstance, CharacterInventory, nodeVars
<1>2. StoreInv /\ Tables \subseteq DOMAIN temp
  BY <1>1 DEF Invariant, TypeInv, PhaseInv
<1>3. StaleExcused' /\ (Weather' => PhaseData)
  BY <1>1 DEF Invariant, DataInv, StaleExcused, Weather
<1>4. ItemTable \in Tables /\ BagTable \in Tables /\ ItemTable # BagTable
  BY Constants
<1>5. \A rows : Renumbered(rows)' = Renumbered(rows)
  BY <1>1 DEF Renumbered, Renumber, Mapped
<1>6. ASSUME Weather' PROVE FillData'
  <2>1. FillData
    BY <1>1, <1>3, <1>6 DEF PhaseData
  <2>2. /\ Consistent(temp, owned) /\ MapsItems(temp)
        /\ itemRows \in SUBSET temp[ItemTable] /\ bagRows \in SUBSET temp[BagTable]
        /\ live[ItemTable] = Renumbered(temp[ItemTable] \ itemRows)
        /\ live[BagTable] = Renumbered(temp[BagTable] \ bagRows)
        /\ \A k \in 1..Len(M) : Filled(k)
    BY <2>1 DEF FillData
  <2>3. /\ itemRows' \subseteq temp[ItemTable] /\ bagRows' \subseteq temp[BagTable]
        /\ live'[ItemTable] = Renumbered(temp[ItemTable] \ itemRows')
        /\ live'[BagTable] = Renumbered(temp[BagTable] \ bagRows')
        /\ \A u \in Tables \ {ItemTable, BagTable} : live'[u] = live[u]
    <3>1. CASE ItemInstance
      <4>1. PICK rows \in SUBSET itemRows :
                  itemRows' = itemRows \ rows /\ InsertIgnore(ItemTable, Renumbered(rows))
        BY <3>1 DEF ItemInstance
      <4>2. bagRows' = bagRows
        BY <3>1 DEF ItemInstance
      <4>3. /\ live'[ItemTable] = Renumbered(temp[ItemTable] \ (itemRows \ rows))
            /\ \A u \in Tables \ {ItemTable} : live'[u] = live[u]
        BY <1>2, <1>4, <2>2, <4>1, ThreadInserts
      <4> QED
        BY <1>4, <2>2, <4>1, <4>2, <4>3
    <3>2. CASE CharacterInventory
      <4>1. PICK rows \in SUBSET bagRows :
                  bagRows' = bagRows \ rows /\ InsertIgnore(BagTable, Renumbered(rows))
        BY <3>2 DEF CharacterInventory
      <4>2. itemRows' = itemRows
        BY <3>2 DEF CharacterInventory
      <4>3. /\ live'[BagTable] = Renumbered(temp[BagTable] \ (bagRows \ rows))
            /\ \A u \in Tables \ {BagTable} : live'[u] = live[u]
        BY <1>2, <1>4, <2>2, <4>1, ThreadInserts
      <4> QED
        BY <1>4, <2>2, <4>1, <4>2, <4>3
    <3> QED
      BY <3>1, <3>2
  <2>4. ASSUME NEW k \in 1..Len(M) PROVE Filled(k)'
    <3>1. M[k] \in Tables \ {ItemTable, BagTable}
      BY OrdersOfTables DEF ListsMain
    <3>2. live'[M[k]] = live[M[k]]
      BY <2>3, <3>1
    <3>3. Filled(k)
      BY <2>2
    <3> QED
      BY <1>1, <1>5, <3>2, <3>3 DEF Filled
  <2>5. MapsItems(temp)' /\ Consistent(temp', owned')
    BY <1>1, <2>2 DEF MapsItems
  <2>6. Waits(tasks', live')
    <3>1. Waits(tasks, live) /\ Apart(tasks) /\ tasks' = tasks
      BY <1>1, <2>1 DEF FillData, Invariant, TaskInv
    <3>2. \A k \in DOMAIN tasks : tasks[k].table \in Tables
      <4>1. \A k \in DOMAIN tasks : tasks[k] \in Task
        BY <1>2 DEF StoreInv
      <4> QED
        BY <4>1 DEF Task
    <3>3. \A k \in DOMAIN tasks :
            tasks[k].op = "insert" => live'[tasks[k].table] = live[tasks[k].table]
      BY <2>3, <3>1, <3>2 DEF Apart
    <3>4. \A k \in DOMAIN tasks : tasks[k].op = "insert" =>
             \A x \in tasks[k].rows : x \notin live'[tasks[k].table]
      BY <3>1, <3>3 DEF Waits
    <3>5. Waits(tasks, live')
      BY <3>1, <3>4 DEF Waits
    <3> QED
      BY <3>1, <3>5
  <2> QED
    BY <1>1, <1>5, <2>3, <2>4, <2>5, <2>6 DEF FillData
<1>7. Working' /\ ~Idle' /\ hub' = "renumber"
  BY <1>1 DEF Working, Idle
<1> QED
  BY <1>3, <1>6, <1>7 DEF DataInv, PhaseData

(* The statements for a table, none of them cut, have the rows of its copy *)
(* under the new ids.                                                      *)
LEMMA QueuedRows ==
    ASSUME StoreInv, NEW t \in Tables, NEW rows \in SUBSET Row,
           \A k \in DOMAIN Chunks(Renumbered(rows)) : ~TooLong(t, Chunks(Renumbered(rows))[k])
    PROVE  /\ Pending(Inserts(t, Chunks(Renumbered(rows))), t) = Renumbered(rows)
           /\ \A u \in Tables \ {t} : Pending(Inserts(t, Chunks(Renumbered(rows))), u) = {}
           /\ live[t] = {} => Waits(Inserts(t, Chunks(Renumbered(rows))), live)
<1> DEFINE new == Renumbered(rows)
           c == Chunks(new)
           q == Inserts(t, c)
<1>1. new \in SUBSET Row /\ IsFiniteSet(new)
  BY RenumberedRows
<1>2. /\ DOMAIN q = DOMAIN c
      /\ \A k \in DOMAIN c : q[k] = Insert(t, IF TooLong(t, c[k]) THEN {} ELSE c[k])
  BY InsertsAre
<1>3. \A k \in DOMAIN c : ~TooLong(t, c[k])
  OBVIOUS
<1> HIDE DEF q
<1>4. /\ c \in Seq(SUBSET new) /\ \A r \in new : \E k \in DOMAIN c : r \in c[k]
      /\ \A j, k \in DOMAIN c, r \in new : r \in c[j] /\ r \in c[k] => j = k
  <2> HIDE DEF new
  <2> QED
    BY <1>1, ChunksAre
<1> HIDE DEF new, c
<1>5. \A k \in DOMAIN c : q[k] = Insert(t, c[k])
  BY <1>2, <1>3
<1>6. \A k \in DOMAIN c : q[k].op = "insert" /\ q[k].table = t /\ q[k].rows = c[k]
  <2>1. \A x : Insert(t, x).op = "insert" /\ Insert(t, x).table = t /\ Insert(t, x).rows = x
    BY DEF Insert
  <2> QED
    BY <1>5, <2>1
<1>7. \A k \in DOMAIN c : c[k] \subseteq new
  BY <1>4
<1>8. ASSUME NEW x PROVE x \in Pending(q, t) <=> x \in new
  BY <1>2, <1>4, <1>6, <1>7, PendingIs
<1>9. ASSUME NEW u \in Tables \ {t}, NEW x PROVE x \notin Pending(q, u)
  BY <1>2, <1>6, PendingIs
<1>10. Pending(q, t) = new /\ \A u \in Tables \ {t} : Pending(q, u) = {}
  BY <1>8, <1>9
<1>11. ASSUME live[t] = {} PROVE Waits(q, live)
  BY <1>2, <1>4, <1>6, <1>7, <1>11 DEF Waits
<1> QED
  BY <1>10, <1>11 DEF q, c, new

(* One table more will be filled.                                          *)
LEMMA RenumberTableData ==
    ASSUME Invariant, RenumberTable
    PROVE  DataInv'
<1> DEFINE M == In(MainOrder)
           t == M[step]
           c == Chunks(Renumbered(temp[t]))
           q == Inserts(t, c)
<1>1. /\ hub = "renumber" /\ step \in 1..Len(M) /\ step' = step + 1
      /\ t \in Tables \ {ItemTable, BagTable} /\ t \in DOMAIN temp /\ temp[t] \in SUBSET Row
      /\ tasks' = tasks \o q /\ q \in Seq(Task)
  BY QueuedForTable DEF Invariant
<1>2. UNCHANGED <<hub, itemMap, itemRows, bagRows, live, temp, owned>>
  BY DEF RenumberTable, nodeVars
<1>3. StoreInv /\ tasks \in Seq(Task) /\ DataInv
  BY DEF Invariant, TypeInv, StoreInv
<1>4. flaws' = flaws \cup (IF \E k \in DOMAIN c : TooLong(t, c[k]) THEN {"cut"} ELSE {})
  BY DEF RenumberTable
<1>5. StaleExcused'
  BY <1>3, <1>4 DEF DataInv, StaleExcused
<1>6. \A rows : Renumbered(rows)' = Renumbered(rows)
  BY <1>2 DEF Renumbered, Renumber, Mapped
<1>7. ASSUME Weather' PROVE FillData'
  <2>1. Weather /\ \A k \in DOMAIN c : ~TooLong(t, c[k])
    BY <1>4, <1>7 DEF Weather
  <2>2. FillData
    BY <1>1, <1>3, <2>1 DEF DataInv, PhaseData
  <2>3. /\ Pending(q, t) = Renumbered(temp[t]) /\ \A u \in Tables \ {t} : Pending(q, u) = {}
        /\ live[t] = {} => Waits(q, live)
    <3>1. t \in Tables /\ temp[t] \in SUBSET Row
      BY <1>1
    <3> HIDE DEF t
    <3> QED
      BY <1>3, <2>1, <3>1, QueuedRows
  <2> HIDE DEF q
  <2>4. \A u \in Tables : Pending(tasks', u) = Pending(tasks, u) \cup Pending(q, u)
    BY <1>1, <1>3, PendingOfTwo
  <2>5. ListsMain(M)
    BY OrdersOfTables
  <2>6. ASSUME NEW k \in 1..Len(M) PROVE Filled(k)'
    <3>1. M[k] \in Tables /\ Filled(k)
      BY <2>2, <2>5 DEF ListsMain, FillData
    <3>2. live'[M[k]] \cup Pending(tasks', M[k]) = live[M[k]] \cup Pending(tasks, M[k]) \cup Pending(q, M[k])
      BY <1>2, <2>4, <3>1
    <3>3. CASE k = step
      <4>1. ~(k < step) /\ k < step'
        BY <1>1, <3>3
      <4>2. live[M[k]] \cup Pending(tasks, M[k]) = {}
        BY <3>1, <4>1 DEF Filled
      <4>3. live'[M[k]] \cup Pending(tasks', M[k]) = Renumbered(temp[M[k]])
        BY <2>3, <3>2, <3>3, <4>2
      <4> QED
        BY <1>2, <1>6, <4>1, <4>3 DEF Filled
    <3>4. CASE k # step
      <4>1. M[k] # t
        BY <1>1, <2>5, <3>4 DEF ListsMain
      <4>2. Pending(q, M[k]) = {}
        BY <2>3, <3>1, <4>1
      <4>3. k < step <=> k < step'
        <5>1. Len(M) \in Nat /\ k \in Nat /\ step \in Nat
          BY <1>1, <2>5 DEF ListsMain
        <5> QED
          BY <1>1, <3>4, <5>1
      <4>4. live'[M[k]] \cup Pending(tasks', M[k])
              = IF k < step THEN Renumbered(temp[M[k]]) ELSE {}
        BY <3>1, <3>2, <4>2 DEF Filled
      <4> QED
        BY <1>2, <1>6, <4>3, <4>4 DEF Filled
    <3> QED
      BY <3>3, <3>4
  <2>7. MapsItems(temp)' /\ Consistent(temp', owned')
    BY <1>2, <2>2 DEF MapsItems, FillData
  <2>8. Waits(tasks', live')
    <3>1. Filled(step)
      BY <1>1, <2>2 DEF FillData
    <3>2. ~(step < step)
      BY <1>1
    <3>3. live[t] = {} /\ Pending(tasks, t) = {}
      BY <3>1, <3>2 DEF Filled
    <3>4. Waits(tasks, live) /\ Waits(q, live)
      BY <2>2, <2>3, <3>3 DEF FillData
    <3>5. \A u \in Tables : Pending(tasks, u) = {} \/ Pending(q, u) = {}
      BY <2>3, <3>3
    <3>6. q \in Seq(Task) /\ tasks \in Seq(Task)
      BY <1>1, <1>3
    <3> HIDE DEF t
    <3>7. Waits(tasks \o q, live)
      BY <3>4, <3>5, <3>6, WaitsOfTwo
    <3> QED
      BY <1>1, <1>2, <3>7
  <2> QED
    BY <1>2, <1>6, <2>2, <2>6, <2>7, <2>8 DEF FillData
<1>8. Working' /\ ~Idle' /\ hub' = "renumber"
  BY <1>1, <1>2 DEF Working, Idle
<1> QED
  BY <1>5, <1>7, <1>8 DEF DataInv, PhaseData

(* A statement between two others is in the queue.                         *)
LEMMA InTheMiddle ==
    ASSUME NEW q \in Seq(Task), NEW p \in Seq(Task), NEW c \in Task, NEW j \in DOMAIN p
    PROVE  \E k \in DOMAIN (q \o p \o <<c>>) : (q \o p \o <<c>>)[k] = p[j]
<1> DEFINE u == q \o p
<1>1. /\ Len(q) \in Nat /\ Len(p) \in Nat /\ DOMAIN p = 1..Len(p) /\ u \in Seq(Task)
      /\ Len(u) = Len(q) + Len(p)
      /\ \A k \in 1..Len(q) + Len(p) : u[k] = IF k =< Len(q) THEN q[k] ELSE p[k - Len(q)]
  OBVIOUS
<1> HIDE DEF u
<1>2. DOMAIN (u \o <<c>>) = 1..Len(u) + 1 /\ \A k \in 1..Len(u) : (u \o <<c>>)[k] = u[k]
  <2>1. u \in Seq(Task)
    BY <1>1
  <2> QED
    BY <2>1
<1> DEFINE k == Len(q) + j
<1>3. k \in 1..Len(u) /\ k \in 1..Len(u) + 1 /\ ~(k =< Len(q)) /\ k - Len(q) = j
  BY <1>1
<1>4. u[k] = p[j]
  BY <1>1, <1>3
<1>5. k \in DOMAIN (u \o <<c>>) /\ (u \o <<c>>)[k] = p[j]
  BY <1>2, <1>3, <1>4
<1> QED
  BY <1>5 DEF u

(* When the threads have ended, the tables and what is queued for them are *)
(* the copies under the new ids, and a DROP is queued for every copy.      *)
LEMMA FinishData ==
    ASSUME Invariant, Finish
    PROVE  DataInv'
<1> DEFINE M == In(MainOrder)
           last == <<Clean(Highest + 1)>>
<1>1. /\ hub = "renumber" /\ hub' = "loop" /\ step > Len(M) /\ itemRows = {} /\ bagRows = {}
      /\ tasks' = tasks \o Cleanup \o SetHighestGuids
      /\ UNCHANGED <<itemMap, live, temp, owned, flaws>>
  BY DEF Finish, nodeVars
<1>2. StoreInv /\ tasks \in Seq(Task) /\ Tables \subseteq DOMAIN temp /\ step \in 1..11
  BY <1>1 DEF Invariant, TypeInv, StoreInv, PhaseInv
<1>3. StaleExcused' /\ (Weather' => PhaseData)
  BY <1>1 DEF Invariant, DataInv, StaleExcused, Weather
<1>4. /\ Cleanup \in Seq(Task) /\ Len(Cleanup) = Len(In(TruncateOrder))
      /\ \A k \in 1..Len(Cleanup) : Cleanup[k] = Drop(In(TruncateOrder)[k])
      /\ SetHighestGuids = last /\ Clean(Highest + 1) \in Task
  <2>1. Highest \in 0..MaxGuid
    BY <1>2, LastStatements
  <2>2. Highest + 1 \in Nat
    BY <2>1, Constants
  <2>3. Clean(Highest + 1) \in Task
    BY <2>2, TaskTypes
  <2> QED
    BY <1>2, <2>3, LastStatements
<1>5. ASSUME NEW t \in Tables PROVE \E k \in DOMAIN tasks' : tasks'[k] = Drop(t)
  <2>1. Lists(In(TruncateOrder), Tables, 10)
    BY OrdersOfTables
  <2>2. PICK j \in 1..Len(Cleanup) : In(TruncateOrder)[j] = t
    BY <1>4, <2>1 DEF Lists
  <2>3. j \in DOMAIN Cleanup /\ Cleanup[j] = Drop(t)
    BY <1>4, <2>2
  <2>4. tasks' = tasks \o Cleanup \o <<Clean(Highest + 1)>>
    BY <1>1, <1>4
  <2>5. \E k \in DOMAIN (tasks \o Cleanup \o <<Clean(Highest + 1)>>) :
          (tasks \o Cleanup \o <<Clean(Highest + 1)>>)[k] = Cleanup[j]
    BY <1>2, <1>4, <2>3, InTheMiddle
  <2> QED
    BY <2>3, <2>4, <2>5
<1>6. \A k \in DOMAIN Cleanup : Cleanup[k].op # "insert"
  <2>1. DOMAIN Cleanup = 1..Len(Cleanup)
    BY <1>4
  <2>2. \A x : Drop(x).op = "drop"
    BY DEF Drop
  <2> QED
    BY <1>4, <2>1, <2>2
<1>7. \A k \in DOMAIN last : last[k].op # "insert"
  <2>1. DOMAIN last = {1} /\ last[1] = Clean(Highest + 1)
    OBVIOUS
  <2>2. Clean(Highest + 1).op = "clean"
    BY DEF Clean
  <2> HIDE DEF last
  <2> QED
    BY <2>1, <2>2
<1>8. ASSUME Waits(tasks, live) PROVE Waits(tasks', live)
  <2>1. last \in Seq(Task) /\ tasks \o Cleanup \in Seq(Task)
    BY <1>2, <1>4, TwoQueues
  <2>2. Waits(Cleanup, live) /\ Waits(last, live)
    BY <1>6, <1>7, NoneWaits
  <2>3. \A u : Pending(Cleanup, u) = {} /\ Pending(last, u) = {}
    BY <1>6, <1>7, NothingPending
  <2> HIDE DEF last
  <2>4. Waits(tasks \o Cleanup, live)
    BY <1>2, <1>4, <1>8, <2>2, <2>3, WaitsOfTwo
  <2> DEFINE a == tasks \o Cleanup
  <2>5. a \in Seq(Task) /\ Waits(a, live)
    BY <2>1, <2>4
  <2> HIDE DEF a
  <2>6. Waits(a \o last, live)
    BY <2>1, <2>2, <2>3, <2>5, WaitsOfTwo
  <2>7. tasks' = a \o last
    BY <1>1, <1>4 DEF a
  <2> QED
    BY <2>6, <2>7
<1>9. ASSUME NEW t \in Tables PROVE Pending(tasks', t) = Pending(tasks, t)
  <2>1. Pending(Cleanup, t) = {}
    BY <1>6, NothingPending
  <2>2. Pending(last, t) = {}
    BY <1>7, NothingPending
  <2>3. last \in Seq(Task) /\ tasks \o Cleanup \in Seq(Task)
    BY <1>2, <1>4, TwoQueues
  <2> HIDE DEF last
  <2>4. Pending(tasks \o Cleanup \o last, t) = Pending(tasks \o Cleanup, t) \cup Pending(last, t)
    <3> DEFINE a == tasks \o Cleanup
    <3>1. a \in Seq(Task) /\ last \in Seq(Task)
      BY <2>3
    <3> HIDE DEF a
    <3>2. Pending(a \o last, t) = Pending(a, t) \cup Pending(last, t)
      BY <3>1, PendingOfTwo
    <3> QED
      BY <3>2 DEF a
  <2>5. Pending(tasks \o Cleanup, t) = Pending(tasks, t) \cup Pending(Cleanup, t)
    BY <1>2, <1>4, PendingOfTwo
  <2> QED
    BY <1>1, <1>4, <2>1, <2>2, <2>4, <2>5
<1>10. Working' /\ Idle' /\ hub' = "loop"
  <2>1. PICK k \in DOMAIN tasks' : tasks'[k] = Drop(ItemTable)
    BY <1>5, Constants
  <2>2. tasks'[k].op # "clean"
    BY <2>1 DEF Drop
  <2> QED
    BY <1>1, <2>2 DEF Working, Idle
<1>11. ASSUME Weather' PROVE QueueData'
  <2>1. FillData
    BY <1>1, <1>3, <1>11 DEF PhaseData
  <2>2. /\ Consistent(temp, owned) /\ MapsItems(temp)
        /\ live[ItemTable] = Renumbered(temp[ItemTable])
        /\ live[BagTable] = Renumbered(temp[BagTable])
    BY <1>1, <2>1 DEF FillData
  <2>3. Rows(temp)
    BY <1>2, RowsAre
  <2>4. Consistent(Renewed(temp), owned)
    BY <1>2, <2>2, <2>3, RenewedConsistent
  <2>5. ASSUME NEW t \in Tables PROVE live[t] \cup Pending(tasks, t) = Renumbered(temp[t])
    <3>1. CASE t \in {ItemTable, BagTable}
      <4>1. Pending(tasks, t) = {}
        <5>1. Apart(tasks)
          BY DEF Invariant, TaskInv
        <5>2. \A x : x \notin Pending(tasks, t)
          BY <3>1, <5>1, PendingIs DEF Apart
        <5> QED
          BY <5>2
      <4> QED
        BY <2>2, <3>1, <4>1
    <3>2. CASE t \notin {ItemTable, BagTable}
      <4>1. PICK k \in 1..Len(M) : M[k] = t
        BY <3>2, OrdersOfTables DEF ListsMain
      <4>2. Filled(k)
        BY <2>1 DEF FillData
      <4>3. k < step
        <5>1. Len(M) \in Nat
          BY OrdersOfTables DEF ListsMain
        <5> QED
          BY <1>1, <1>2, <5>1
      <4> QED
        BY <4>1, <4>2, <4>3 DEF Filled
    <3> QED
      BY <3>1, <3>2
  <2>6. \A t \in Tables : Final'[t] = Renewed(temp)[t]
    BY <1>1, <1>9, <2>5 DEF Final, Renewed
  <2>7. Consistent(Final', owned')
    <3>1. Consistent(Final', owned)
      BY <2>4, <2>6, SameRows
    <3> QED
      BY <1>1, <3>1
  <2>8. Tables \subseteq DOMAIN temp' /\ Kept'
    <3>1. ItemTable \in DOMAIN temp /\ \A i \in DOMAIN owned : Holds(temp, i)
      BY <1>2, <2>2, ConsistentHolds, Constants
    <3>2. \A i \in DOMAIN owned' : ItemTable \in DOMAIN temp' /\ Holds(temp', i)
      BY <1>1, <3>1
    <3> QED
      BY <1>1, <1>2, <3>2 DEF Kept
  <2>9. \A t \in DOMAIN temp' : \E k \in DOMAIN tasks' : tasks'[k] = Drop(t)
    BY <1>1, <1>2, <1>5 DEF StoreInv
  <2>10. Waits(tasks', live')
    <3>1. Waits(tasks, live)
      BY <2>1 DEF FillData
    <3>2. Waits(tasks', live)
      BY <1>8, <3>1
    <3> QED
      BY <1>1, <3>2
  <2> QED
    BY <2>7, <2>8, <2>9, <2>10 DEF QueueData
<1> QED
  BY <1>3, <1>10, <1>11 DEF DataInv, PhaseData

(* A queued insert moves rows from the queue to the table.                 *)
LEMMA WorkerInserts ==
    ASSUME StoreInv, Worker, NEW task \in Task, WorkerIs(task), task.op = "insert",
           NEW db, NEW own, Consistent(db, own), Rows(db),
           live[task.table] \cup Pending(tasks, task.table) \subseteq db[task.table]
    PROVE  /\ \A u \in Tables : live'[u] \cup Pending(tasks', u) = live[u] \cup Pending(tasks, u)
           /\ \A u \in Tables \ {task.table} : live'[u] = live[u]
           /\ live'[task.table] = live[task.table] \cup task.rows
           /\ UNCHANGED <<temp, flaws>>
<1> DEFINE t == task.table
           rows == task.rows
<1>1. t \in Tables /\ rows \in SUBSET Row
  BY DEF Task
<1>2. InsertIgnore(t, rows) /\ UNCHANGED <<temp, flaws>> /\ task = tasks[1]
  BY DEF WorkerIs
<1>3. Pending(tasks, t) = Pending(tasks', t) \cup rows
  BY <1>2, PendingLess
<1>4. \A u \in Tables \ {t} : Pending(tasks, u) = Pending(tasks', u)
  BY <1>2, PendingLess
<1> HIDE DEF t, rows
<1>5. live[t] \in SUBSET db[t] /\ rows \in SUBSET db[t]
  BY <1>3 DEF t
<1>6. live[t] \cup {r \in rows : r.item \notin Guids(live[t])} = live[t] \cup rows
  <2> DEFINE have == live[t]
  <2>1. have \in SUBSET db[t]
    BY <1>5
  <2> HIDE DEF have
  <2>2. have \cup {r \in rows : r.item \notin Guids(have)} = have \cup rows
    BY <1>1, <1>5, <2>1, InsertsAll
  <2> QED
    BY <2>2 DEF have
<1>7. live \in [Tables -> SUBSET Row]
  BY DEF StoreInv
<1>8. live'[t] = live[t] \cup rows /\ \A u \in Tables \ {t} : live'[u] = live[u]
  BY <1>1, <1>2, <1>6, <1>7, InsertIgnoreIs
<1>9. \A u \in Tables : live'[u] \cup Pending(tasks', u) = live[u] \cup Pending(tasks, u)
  BY <1>3, <1>4, <1>8
<1> QED
  BY <1>2, <1>8, <1>9 DEF t, rows

(* The worker while the threads fill their tables.                         *)
LEMMA WorkerFills ==
    ASSUME Invariant, Worker, hub = "renumber"
    PROVE  DataInv'
<1> DEFINE M == In(MainOrder)
<1>1. StoreInv /\ AllInserts(tasks) /\ Apart(tasks) /\ Tables \subseteq DOMAIN temp
  BY DEF Invariant, TypeInv, TaskInv, PhaseInv
<1>2. PICK task \in Task : WorkerIs(task)
  BY <1>1, WorkerTakes
<1>3. tasks # <<>> /\ 1 \in DOMAIN tasks
  <2>1. tasks # <<>> /\ tasks \in Seq(Task)
    BY <1>1, WorkerTakes DEF StoreInv
  <2> QED
    BY <2>1
<1>4. task.op = "insert" /\ task = tasks[1] /\ task.table \in Tables \ {ItemTable, BagTable}
  BY <1>1, <1>2, <1>3 DEF WorkerIs, AllInserts, Apart, Task
<1>5. UNCHANGED <<hub, step, itemMap, itemRows, bagRows, temp, owned, flaws>>
  BY <1>2, <1>4 DEF WorkerIs, nodeVars
<1>6. StaleExcused' /\ (Weather' => PhaseData)
  BY <1>5 DEF Invariant, DataInv, StaleExcused, Weather
<1>7. \A rows : Renumbered(rows)' = Renumbered(rows)
  BY <1>5 DEF Renumbered, Renumber, Mapped
<1>8. ASSUME Weather' PROVE FillData'
  <2>1. FillData
    BY <1>6, <1>8 DEF PhaseData
  <2>2. Consistent(temp, owned) /\ MapsItems(temp) /\ \A k \in 1..Len(M) : Filled(k)
    BY <2>1 DEF FillData
  <2>3. Rows(temp)
    BY <1>1, RowsAre
  <2>4. Consistent(Renewed(temp), owned) /\ Rows(Renewed(temp))
    BY <1>1, <2>2, <2>3, RenewedConsistent
  <2>5. PICK j \in 1..Len(M) : M[j] = task.table
    BY <1>4, OrdersOfTables DEF ListsMain
  <2>6. live[task.table] \cup Pending(tasks, task.table) \subseteq Renewed(temp)[task.table]
    BY <1>4, <2>2, <2>5 DEF Filled, Renewed
  <2>7. /\ \A u \in Tables : live'[u] \cup Pending(tasks', u) = live[u] \cup Pending(tasks, u)
        /\ \A u \in Tables \ {task.table} : live'[u] = live[u]
        /\ live'[task.table] = live[task.table] \cup task.rows
    <3> DEFINE N == Renewed(temp)
    <3>1. Consistent(N, owned) /\ Rows(N)
          /\ live[task.table] \cup Pending(tasks, task.table) \subseteq N[task.table]
      BY <2>4, <2>6
    <3> HIDE DEF N
    <3> QED
      BY <1>1, <1>2, <1>4, <3>1, WorkerInserts
  <2>8. ASSUME NEW k \in 1..Len(M) PROVE Filled(k)'
    <3>1. M[k] \in Tables
      BY OrdersOfTables DEF ListsMain
    <3>2. live'[M[k]] \cup Pending(tasks', M[k]) = live[M[k]] \cup Pending(tasks, M[k])
      BY <2>7, <3>1
    <3>3. Filled(k)
      BY <2>2
    <3> QED
      BY <1>5, <1>7, <3>2, <3>3 DEF Filled
  <2>9. live'[ItemTable] = live[ItemTable] /\ live'[BagTable] = live[BagTable]
    BY <1>4, <2>7, Constants
  <2>10. MapsItems(temp)' /\ Consistent(temp', owned')
    BY <1>5, <2>2 DEF MapsItems
  <2>11. Waits(tasks', live')
    <3>1. Waits(tasks, live) /\ tasks[1].op = "insert"
      BY <1>4, <2>1 DEF FillData
    <3>2. \A u \in Tables : live'[u] \subseteq
             live[u] \cup (IF u = tasks[1].table THEN tasks[1].rows ELSE {})
      BY <1>4, <2>7
    <3> QED
      BY <1>1, <3>1, <3>2, WaitsBehind
  <2> QED
    BY <1>5, <1>7, <2>1, <2>8, <2>9, <2>10, <2>11 DEF FillData
<1>9. Working' /\ ~Idle' /\ hub' = "renumber"
  BY <1>5 DEF Working, Idle
<1> QED
  BY <1>6, <1>8, <1>9 DEF DataInv, PhaseData

(* The statements behind the first move up.                                *)
LEMMA MovesUp ==
    ASSUME StoreInv, Worker
    PROVE  /\ 1 \in DOMAIN tasks
           /\ \A k \in DOMAIN tasks : k = 1 \/ \E j \in DOMAIN tasks' : tasks'[j] = tasks[k]
           /\ \A j \in DOMAIN tasks' : \E k \in DOMAIN tasks : tasks[k] = tasks'[j]
           /\ \A k \in DOMAIN tasks : 1 =< k
<1>1. /\ tasks # <<>> /\ Len(tasks) \in Nat /\ Len(tasks') = Len(tasks) - 1
      /\ DOMAIN tasks = 1..Len(tasks) /\ DOMAIN tasks' = 1..Len(tasks')
      /\ \A k \in DOMAIN tasks' : k + 1 \in DOMAIN tasks /\ tasks'[k] = tasks[k + 1]
      /\ tasks \in Seq(Task)
  BY WorkerTakes DEF StoreInv
<1>2. 1 \in DOMAIN tasks
  BY <1>1
<1>3. ASSUME NEW k \in DOMAIN tasks, k # 1 PROVE \E j \in DOMAIN tasks' : tasks'[j] = tasks[k]
  <2>1. k - 1 \in DOMAIN tasks' /\ k - 1 + 1 = k
    BY <1>1, <1>3
  <2>2. tasks'[k - 1] = tasks[k]
    BY <1>1, <2>1
  <2> QED
    BY <2>1, <2>2
<1>4. \A j \in DOMAIN tasks' : \E k \in DOMAIN tasks : tasks[k] = tasks'[j]
  BY <1>1
<1>5. \A k \in DOMAIN tasks : 1 =< k
  BY <1>1
<1> QED
  BY <1>2, <1>3, <1>4, <1>5

(* Rows that come to a table take nothing away.                            *)
LEMMA GrowthKeeps ==
    ASSUME StoreInv, StoreInv', Kept, UNCHANGED <<temp, owned>>,
           \A u \in Tables : live[u] \subseteq live'[u]
    PROVE  Kept'
<1>1. DOMAIN live = Tables /\ DOMAIN live' = Tables /\ ItemTable \in Tables
  BY Constants DEF StoreInv
<1>2. ASSUME NEW i, Holds(live, i) PROVE Holds(live', i)
  <2>1. PICK r \in live[ItemTable] :
            r.is = i /\ \E u \in DOMAIN live \ {ItemTable} : \E q \in live[u] : q.is = i /\ q.item = r.item
    BY <1>2 DEF Holds
  <2>2. PICK u \in DOMAIN live \ {ItemTable} : \E q \in live[u] : q.is = i /\ q.item = r.item
    BY <2>1
  <2>3. PICK q \in live[u] : q.is = i /\ q.item = r.item
    BY <2>2
  <2>4. r \in live'[ItemTable] /\ q \in live'[u] /\ u \in DOMAIN live' \ {ItemTable}
    BY <1>1, <2>3
  <2> QED
    BY <2>1, <2>3, <2>4 DEF Holds
<1> QED
  BY <1>2 DEF Kept

(* The worker after a rebase, or after the start of the hub.               *)
LEMMA WorkerAfter ==
    ASSUME Invariant, StoreInv', Worker, Idle
    PROVE  DataInv'
<1>1. StoreInv /\ Ordered(tasks) /\ DataInv /\ PhaseInv
  BY DEF Invariant, TypeInv, TaskInv
<1>2. PICK task \in Task : WorkerIs(task)
  BY <1>1, WorkerTakes
<1>3. task = tasks[1] /\ UNCHANGED <<hub, owned>> /\ Idle'
  BY <1>2 DEF WorkerIs, nodeVars, Idle
<1>4. /\ 1 \in DOMAIN tasks
      /\ \A k \in DOMAIN tasks : k = 1 \/ \E j \in DOMAIN tasks' : tasks'[j] = tasks[k]
      /\ \A j \in DOMAIN tasks' : \E k \in DOMAIN tasks : tasks[k] = tasks'[j]
      /\ \A k \in DOMAIN tasks : 1 =< k
  BY <1>1, MovesUp
<1>5. hub' \notin Phases /\ hub' # "down"
  BY <1>3 DEF Idle, Phases
<1>6. \A t : Drop(t).op = "drop" /\ Drop(t).table = t
  BY DEF Drop
<1>7. CASE task.op = "insert"
  <2>1. UNCHANGED <<temp, flaws>> /\ HasInsert /\ Working
    BY <1>2, <1>3, <1>4, <1>7 DEF WorkerIs, HasInsert, Working
  <2>2. StaleExcused' /\ (Weather' => QueueData)
    BY <1>1, <2>1 DEF DataInv, StaleExcused, Weather, PhaseData
  <2>3. ASSUME Weather' PROVE Working' /\ QueueData'
    <3>1. /\ Consistent(Final, owned) /\ Tables \subseteq DOMAIN temp /\ Waits(tasks, live) /\ Kept
          /\ \A t \in DOMAIN temp : \E k \in DOMAIN tasks : tasks[k] = Drop(t)
      BY <2>1, <2>2, <2>3 DEF QueueData
    <3>2. Rows(Final)
      BY <1>1, RowsAre
    <3>3. /\ \A u \in Tables : live'[u] \cup Pending(tasks', u) = live[u] \cup Pending(tasks, u)
          /\ \A u \in Tables \ {task.table} : live'[u] = live[u]
          /\ live'[task.table] = live[task.table] \cup task.rows
      <4>1. live[task.table] \cup Pending(tasks, task.table) \subseteq Final[task.table]
        BY DEF Final, Task
      <4> QED
        BY <1>1, <1>2, <1>7, <3>1, <3>2, <4>1, WorkerInserts
    <3>4. \A u \in Tables : Final'[u] = Final[u]
      BY <3>3 DEF Final
    <3>5. Consistent(Final', owned')
      <4>1. Consistent(Final', owned)
        BY <3>1, <3>4, SameRows
      <4> QED
        BY <1>3, <4>1
    <3>6. \A t \in DOMAIN temp' : \E k \in DOMAIN tasks' : tasks'[k] = Drop(t)
      <4> SUFFICES ASSUME NEW t \in DOMAIN temp PROVE \E k \in DOMAIN tasks' : tasks'[k] = Drop(t)
        BY <2>1
      <4>1. PICK k \in DOMAIN tasks : tasks[k] = Drop(t)
        BY <3>1
      <4>2. k # 1
        BY <1>3, <1>6, <1>7, <4>1
      <4> QED
        BY <1>4, <4>1, <4>2
    <3>7. Working'
      <4>1. PICK k \in DOMAIN tasks' : tasks'[k] = Drop(ItemTable)
        BY <2>1, <3>1, <3>6, Constants
      <4>2. tasks'[k].op # "clean"
        BY <1>6, <4>1
      <4> QED
        BY <4>2 DEF Working
    <3>8. Tables \subseteq DOMAIN temp' /\ Kept'
      <4>1. \A u \in Tables : live[u] \subseteq live'[u]
        BY <3>3
      <4> QED
        BY <1>1, <1>3, <2>1, <3>1, <4>1, GrowthKeeps
    <3>9. Waits(tasks', live')
      <4>1. \A u \in Tables : live'[u] \subseteq
               live[u] \cup (IF u = tasks[1].table THEN tasks[1].rows ELSE {})
        BY <1>3, <3>3
      <4> QED
        BY <1>1, <1>3, <1>7, <3>1, <4>1, WaitsBehind
    <3> QED
      BY <3>5, <3>6, <3>7, <3>8, <3>9 DEF QueueData
  <2> QED
    BY <1>3, <1>5, <2>2, <2>3 DEF DataInv, PhaseData, Phases
<1>8. CASE task.op = "drop"
  <2>1. temp' = Restrict(temp, DOMAIN temp \ {task.table}) /\ UNCHANGED <<live, flaws>>
    BY <1>2, <1>8 DEF WorkerIs
  <2>2. DOMAIN temp' = DOMAIN temp \ {task.table}
    BY <2>1 DEF Restrict
  <2>3. ~HasInsert
    <3> SUFFICES ASSUME NEW k \in DOMAIN tasks, tasks[k].op = "insert" PROVE FALSE
      BY DEF HasInsert
    <3>1. tasks[1].op = "insert"
      BY <1>1, <1>4 DEF Ordered
    <3> QED
      BY <1>3, <1>8, <3>1
  <2>4. ~HasInsert'
    BY <1>4, <2>3 DEF HasInsert
  <2>5. Working
    BY <1>3, <1>4, <1>8 DEF Working
  <2>6. StaleExcused' /\ (Weather' => QueueData)
    BY <1>1, <2>1, <2>5 DEF DataInv, StaleExcused, Weather, PhaseData
  <2>7. ASSUME Weather' PROVE (Working' => QueueData') /\ (~Working' => CalmData')
    <3>1. Consistent(Final, owned) /\ \A t \in DOMAIN temp : \E k \in DOMAIN tasks : tasks[k] = Drop(t)
      BY <2>6, <2>7 DEF QueueData
    <3>2. Consistent(live, owned)
      BY <2>3, <3>1, NothingToInsert
    <3>3. Consistent(live', owned')
      BY <1>3, <2>1, <3>2
    <3>4. \A t \in DOMAIN temp' : \E k \in DOMAIN tasks' : tasks'[k] = Drop(t)
      <4> SUFFICES ASSUME NEW t \in DOMAIN temp, t # task.table
                   PROVE  \E k \in DOMAIN tasks' : tasks'[k] = Drop(t)
        BY <2>2
      <4>1. PICK k \in DOMAIN tasks : tasks[k] = Drop(t)
        BY <3>1
      <4>2. k # 1
        BY <1>3, <1>6, <4>1
      <4> QED
        BY <1>4, <4>1, <4>2
    <3>5. Consistent(Final', owned')
      <4>1. \A k \in DOMAIN tasks' : tasks'[k].op # "insert"
        BY <2>4 DEF HasInsert
      <4>2. \A t \in Tables : Pending(tasks', t) = {}
        BY <4>1, NothingPending
      <4>3. \A t \in Tables : Final'[t] = live'[t]
        BY <4>2 DEF Final
      <4> QED
        BY <3>3, <4>3, SameRows
    <3>6. Kept'
      <4>1. DOMAIN live' = Tables
        BY DEF StoreInv
      <4>2. \A i \in DOMAIN owned' : Holds(live', i)
        BY <3>3, <4>1, ConsistentHolds
      <4> QED
        BY <4>2 DEF Kept
    <3>7. Waits(tasks', live')
      <4>1. \A k \in DOMAIN tasks' : tasks'[k].op # "insert"
        BY <2>4 DEF HasInsert
      <4> QED
        BY <4>1, NoneWaits
    <3>8. QueueData'
      BY <2>4, <3>4, <3>5, <3>6, <3>7 DEF QueueData
    <3>9. ASSUME ~Working' PROVE CalmData'
      <4>1. \A k \in DOMAIN tasks' : tasks'[k].op = "clean"
        BY <3>9 DEF Working
      <4>2. DOMAIN temp' = {}
        <5> SUFFICES ASSUME NEW t \in DOMAIN temp' PROVE FALSE
          OBVIOUS
        <5>1. PICK k \in DOMAIN tasks' : tasks'[k] = Drop(t)
          BY <3>4
        <5> QED
          BY <1>6, <4>1, <5>1
      <4> QED
        BY <3>3, <3>6, <4>2 DEF CalmData
    <3> QED
      BY <3>8, <3>9
  <2> QED
    BY <1>3, <1>5, <2>6, <2>7 DEF DataInv, PhaseData, Phases
<1>9. CASE task.op = "clean"
  <2>1. CleanFrom(task.from) /\ UNCHANGED temp
    BY <1>2, <1>9 DEF WorkerIs
  <2>2. \A k \in DOMAIN tasks : tasks[k].op = "clean"
    BY <1>1, <1>3, <1>4, <1>9 DEF Ordered
  <2>3. ~Working
    BY <2>2 DEF Working, Idle
  <2>4. ~Working'
    <3>1. \A j \in DOMAIN tasks' : tasks'[j].op = "clean"
      BY <1>4, <2>2
    <3> QED
      BY <1>3, <3>1 DEF Working
  <2>5. flaws' = flaws \cup (IF Swept(task.from) = {} THEN {} ELSE {"swept"})
    BY <2>1 DEF CleanFrom
  <2>6. StaleExcused'
    BY <1>1, <2>5 DEF DataInv, StaleExcused
  <2>7. ASSUME Weather' PROVE CalmData'
    <3>1. Weather /\ Swept(task.from) = {} /\ flaws' = flaws
      BY <2>5, <2>7 DEF Weather
    <3>2. CalmData
      BY <1>1, <2>3, <3>1 DEF DataInv, PhaseData
    <3>3. task.from \in Nat
      BY DEF Task
    <3>4. Harmless(task.from)
      BY <2>1, <3>1, <3>3 DEF Harmless, CleanFrom
    <3>5. Kept'
      BY <1>1, <1>3, <2>1, <3>2, <3>4, CleanKeeps DEF CalmData
    <3>6. DOMAIN temp' = {} => Consistent(live', owned')
      BY <1>1, <1>3, <2>1, <3>2, <3>4, CleanAgrees DEF CalmData
    <3> QED
      BY <2>1, <3>1, <3>2, <3>5, <3>6 DEF CalmData
  <2> QED
    BY <1>3, <1>5, <2>4, <2>6, <2>7 DEF DataInv, PhaseData, Phases
<1> QED
  BY <1>2, <1>7, <1>8, <1>9 DEF WorkerIs

(* A start of the hub queues a cleaning, and nothing else.                 *)
LEMMA StartHubData ==
    ASSUME Invariant, StartHub
    PROVE  DataInv'
<1>1. /\ hub = "down" /\ hub' = "loop" /\ tasks' = <<Clean(Highest + 1)>>
      /\ UNCHANGED <<live, temp, owned, flaws>>
  BY DEF StartHub, SetHighestGuids, nodeVars
<1>2. tasks = <<>>
  BY <1>1 DEF Invariant, TaskInv
<1>3. ~Working
  BY <1>1, <1>2 DEF Working
<1>4. ~Working'
  <2>1. DOMAIN <<Clean(Highest + 1)>> = {1} /\ <<Clean(Highest + 1)>>[1] = Clean(Highest + 1)
    OBVIOUS
  <2>2. Clean(Highest + 1).op = "clean"
    BY DEF Clean
  <2>3. \A k \in DOMAIN tasks' : tasks'[k].op = "clean"
    BY <1>1, <2>1, <2>2
  <2> QED
    BY <1>1, <2>3 DEF Working, Idle
<1>5. StaleExcused' /\ (Weather' => CalmData)
  BY <1>1, <1>3 DEF Invariant, DataInv, StaleExcused, Weather, PhaseData
<1>6. CalmData => CalmData'
  BY <1>1 DEF CalmData, Kept
<1> QED
  BY <1>1, <1>4, <1>5, <1>6 DEF DataInv, PhaseData

(* A crash leaves every item in the tables or in the copies.               *)
LEMMA CrashData ==
    ASSUME Invariant, Crash
    PROVE  DataInv'
<1>1. /\ hub' = "down" /\ tasks' = <<>> /\ UNCHANGED <<live, temp, owned>>
      /\ flaws' = flaws \cup (IF Working THEN {"interrupted"} ELSE {})
  BY DEF Crash, nodeVars
<1>2. DataInv
  BY DEF Invariant
<1>3. StaleExcused'
  BY <1>1, <1>2 DEF DataInv, StaleExcused
<1>4. ~Working'
  BY <1>1 DEF Working
<1>5. ASSUME Weather' PROVE CalmData'
  <2>1. Weather
    BY <1>1, <1>5 DEF Weather
  <2>2. Kept /\ (DOMAIN temp = {} => Consistent(live, owned))
    BY <2>1, SafeInWeather
  <2>3. flaws' = {} => DOMAIN temp = {}
    <3> SUFFICES ASSUME flaws' = {} PROVE DOMAIN temp = {}
      OBVIOUS
    <3>1. ~Working /\ flaws = {}
      BY <1>1
    <3> QED
      BY <1>2, <2>1, <3>1 DEF DataInv, PhaseData, CalmData
  <2>4. Kept'
    BY <1>1, <2>2 DEF Kept
  <2>5. DOMAIN temp' = {} => Consistent(live', owned')
    BY <1>1, <2>2
  <2> QED
    BY <1>1, <2>3, <2>4, <2>5 DEF CalmData
<1> QED
  BY <1>1, <1>3, <1>4, <1>5 DEF DataInv, PhaseData, Idle

(* A row that waits belongs to the tables, and not to item_instance.       *)
LEMMA WaitingRow ==
    ASSUME StoreInv, Apart(tasks), Consistent(Final, owned), NEW t, NEW x \in Pending(tasks, t)
    PROVE  t \in Tables \ {ItemTable, BagTable} /\ Told(Final, owned, t, x) /\ x \in Final[t]
<1>1. PICK k \in DOMAIN tasks : tasks[k].op = "insert" /\ tasks[k].table = t /\ x \in tasks[k].rows
  BY PendingIs
<1>2. tasks[k] \in Task
  BY <1>1 DEF StoreInv
<1>3. t \in Tables \ {ItemTable, BagTable}
  BY <1>1, <1>2 DEF Apart, Task
<1>4. x \in Final[t]
  BY <1>3 DEF Final
<1> QED
  BY <1>3, <1>4 DEF Consistent, AllTold

(* No row waits for the two tables of the threads.                         *)
LEMMA FinalIsLive ==
    ASSUME StoreInv, Apart(tasks), Consistent(Final, owned)
    PROVE  Final[ItemTable] = live[ItemTable] /\ Final[BagTable] = live[BagTable]
<1>1. Pending(tasks, ItemTable) = {} /\ Pending(tasks, BagTable) = {}
  BY WaitingRow
<1> QED
  BY <1>1, Constants DEF Final

(* A new item while rows wait: it is new to the tables that will be, too.  *)
LEMMA FinalCreated ==
    ASSUME StoreInv, Apart(tasks), Consistent(Final, owned), tasks' = tasks,
           NEW i, NEW t \in Tables \ {ItemTable}, NEW b, NEW g, NEW bag,
           Created(live, live', i, t, b, g, bag)
    PROVE  Created(Final, Final', i, t, b, g, bag)
<1> DEFINE n == [item |-> g, bag |-> 0, is |-> i, in |-> None]
           m == [item |-> g, bag |-> bag, is |-> i, in |-> b]
<1>1. /\ \A r \in live[ItemTable] : r.item # g
      /\ live'[ItemTable] = live[ItemTable] \cup {n}
      /\ live'[t] = {r \in live[t] : r.item # g} \cup {m}
      /\ \A u \in Tables \ {ItemTable, t} : live'[u] = live[u]
      /\ b # None => \E r \in live[BagTable] : r.is = b /\ r.item = bag
  BY DEF Created
<1> HIDE DEF n, m
<1>2. Final[ItemTable] = live[ItemTable] /\ Final[BagTable] = live[BagTable]
      /\ Pending(tasks, ItemTable) = {}
  BY FinalIsLive, WaitingRow
<1>3. \A u \in Tables : /\ Final[u] = live[u] \cup Pending(tasks, u)
                        /\ Final'[u] = live'[u] \cup Pending(tasks, u)
  BY DEF Final
<1>4. \A x \in Pending(tasks, t) : x.item # g
  <2> SUFFICES ASSUME NEW x \in Pending(tasks, t) PROVE x.item # g
    OBVIOUS
  <2>1. Told(Final, owned, t, x)
    BY WaitingRow
  <2> QED
    BY <1>1, <1>2, <2>1 DEF Told
<1>5. Final'[ItemTable] = Final[ItemTable] \cup {n}
  BY <1>1, <1>2, <1>3, Constants
<1>6. Final'[t] = {r \in Final[t] : r.item # g} \cup {m}
  BY <1>1, <1>3, <1>4
<1>7. \A u \in Tables \ {ItemTable, t} : Final'[u] = Final[u]
  BY <1>1, <1>3
<1> QED
  BY <1>1, <1>2, <1>5, <1>6, <1>7 DEF Created, n, m

(* The end of an item that is at hand while rows wait: none of them is its *)
(* own, for the row that names it is in the tables already.                *)
LEMMA FinalDestroyed ==
    ASSUME StoreInv, Apart(tasks), Consistent(Final, owned), Waits(tasks, live), tasks' = tasks,
           NEW i, Destroyed(live, live', i), AtHand(i)
    PROVE  Destroyed(Final, Final', i) /\ \A r \in Final[BagTable] : r.in # i
<1>1. Final[ItemTable] = live[ItemTable] /\ Final[BagTable] = live[BagTable]
  BY FinalIsLive
<1>2. PICK r \in live[owned[i].at], q \in live[ItemTable] : r.is = i /\ q.is = i /\ q.item = r.item
  BY DEF AtHand
<1>3. ASSUME NEW t \in Tables, NEW x \in Pending(tasks, t) PROVE x.is # i
  <2> SUFFICES ASSUME x.is = i PROVE FALSE
    OBVIOUS
  <2>1. Told(Final, owned, t, x) /\ x \in Final[t]
    BY WaitingRow
  <2>2. owned[i].at = t
    BY <2>1 DEF Told
  <2>3. PICK p \in live[ItemTable] : p.is = i /\ p.item = x.item
    BY <1>1, <2>1 DEF Told
  <2>4. x.item = r.item
    BY <1>1, <1>2, <2>3 DEF Consistent, ItemsOnce
  <2>5. r \in Final[t] /\ r \in live[t]
    BY <1>2, <2>2 DEF Final
  <2>6. Rows(Final)
    BY RowsAre
  <2>7. x = r
    BY <2>1, <2>4, <2>5, <2>6, OneRow
  <2>8. PICK k \in DOMAIN tasks : tasks[k].op = "insert" /\ tasks[k].table = t /\ x \in tasks[k].rows
    BY PendingIs
  <2> QED
    BY <2>5, <2>7, <2>8 DEF Waits
<1>4. \A t \in Tables : Final'[t] = {x \in Final[t] : x.is # i}
  <2> SUFFICES ASSUME NEW t \in Tables PROVE Final'[t] = {x \in Final[t] : x.is # i}
    OBVIOUS
  <2>1. Final[t] = live[t] \cup Pending(tasks, t) /\ Final'[t] = live'[t] \cup Pending(tasks, t)
    BY DEF Final
  <2>2. live'[t] = {x \in live[t] : x.is # i}
    BY DEF Destroyed
  <2> QED
    BY <1>3, <2>1, <2>2
<1> QED
  BY <1>1, <1>4 DEF Destroyed, AtHand

(* Rows still wait when those of new items come and those of others go.    *)
LEMMA NodeWaits ==
    ASSUME Waits(tasks, live), tasks' = tasks,
           \A t, x : x \in Pending(tasks, t) => (x \in live'[t] => x \in live[t])
    PROVE  Waits(tasks', live')
<1>1. ASSUME NEW j \in DOMAIN tasks, tasks[j].op = "insert", NEW x \in tasks[j].rows
      PROVE  x \notin live'[tasks[j].table]
  <2>1. x \in Pending(tasks, tasks[j].table)
    BY <1>1, PendingIs
  <2> QED
    BY <1>1, <2>1 DEF Waits
<1> QED
  BY <1>1 DEF Waits

(* The nodes write when the main thread of the hub is not in Begin: to     *)
(* tables at rest, or to tables that rows still wait for.                  *)
LEMMA NodeData ==
    ASSUME Invariant, StoreInv', Node
    PROVE  DataInv'
<1>1. Away /\ UNCHANGED <<hub, tasks, temp, flaws>>
  BY DEF Node, CreateItem, DestroyItem, beginVars
<1>2. (Working' <=> Working) /\ (Idle' <=> Idle)
  BY <1>1 DEF Working, Idle
<1>3. StoreInv /\ PhaseInv /\ Apart(tasks)
  BY DEF Invariant, TypeInv, TaskInv
<1>4. StaleExcused' /\ (Weather' => PhaseData)
  BY <1>1 DEF Invariant, DataInv, StaleExcused, Weather
<1>5. ASSUME NEW i \in Items, NEW t \in Tables \ {ItemTable}, NEW b \in Items \cup {None},
             b = None \/ t = BagTable, CreateItem(i, t, b)
      PROVE  (CalmData => CalmData') /\ (QueueData => QueueData')
  <2>1. PICK g, bag : Created(live, live', i, t, b, g, bag)
    BY <1>3, <1>5, CreateItemIs
  <2>2. Kept => Kept'
    BY <1>1, <1>3, <2>1, CreateKeeps
  <2>3. Consistent(live, owned) => Consistent(live', owned')
    BY <1>5, <2>1, CreateAgrees
  <2>4. ASSUME QueueData PROVE Consistent(Final', owned') /\ Waits(tasks', live')
    <3>1. Consistent(Final, owned) /\ Waits(tasks, live)
      BY <2>4 DEF QueueData
    <3>2. Created(Final, Final', i, t, b, g, bag)
      BY <1>1, <1>3, <2>1, <3>1, FinalCreated
    <3>3. Consistent(Final', owned')
      BY <1>5, <3>1, <3>2, CreateAgrees
    <3>4. ASSUME NEW u, NEW x \in Pending(tasks, u), x \in live'[u] PROVE x \in live[u]
      <4>1. u \in Tables \ {ItemTable} /\ Told(Final, owned, u, x)
        BY <1>3, <3>1, WaitingRow
      <4>2. x.is # i
        BY <2>1, <4>1 DEF Told, Created
      <4>3. x # [item |-> g, bag |-> bag, is |-> i, in |-> b]
        BY <4>2
      <4> QED
        BY <2>1, <3>4, <4>1, <4>3 DEF Created
    <3>5. Waits(tasks', live')
      BY <1>1, <3>1, <3>4, NodeWaits
    <3> QED
      BY <3>3, <3>5
  <2>5. CalmData => CalmData'
    BY <1>1, <2>2, <2>3 DEF CalmData
  <2>6. QueueData => QueueData'
    BY <1>1, <2>2, <2>4 DEF QueueData, HasInsert
  <2> QED
    BY <2>5, <2>6
<1>6. ASSUME NEW i \in Items, DestroyItem(i)
      PROVE  (CalmData => CalmData') /\ (QueueData => QueueData')
  <2>1. Destroyed(live, live', i) /\ AtHand(i)
    BY <1>6, DestroyItemIs
  <2>2. Kept => Kept'
    BY <1>1, <1>3, <2>1, DestroyKeeps
  <2>3. Consistent(live, owned) => Consistent(live', owned')
    <3>1. \A r \in live[BagTable] : r.in # i
      BY <2>1 DEF AtHand
    <3> QED
      BY <2>1, <3>1, DestroyAgrees
  <2>4. ASSUME QueueData PROVE Consistent(Final', owned') /\ Waits(tasks', live')
    <3>1. Consistent(Final, owned) /\ Waits(tasks, live)
      BY <2>4 DEF QueueData
    <3>2. Destroyed(Final, Final', i) /\ \A r \in Final[BagTable] : r.in # i
      BY <1>1, <1>3, <2>1, <3>1, FinalDestroyed
    <3>3. Consistent(Final', owned')
      BY <3>1, <3>2, DestroyAgrees
    <3>4. ASSUME NEW u, NEW x \in Pending(tasks, u), x \in live'[u] PROVE x \in live[u]
      <4>1. u \in Tables
        BY <1>3, <3>1, WaitingRow
      <4> QED
        BY <2>1, <3>4, <4>1 DEF Destroyed
    <3>5. Waits(tasks', live')
      BY <1>1, <3>1, <3>4, NodeWaits
    <3> QED
      BY <3>3, <3>5
  <2>5. CalmData => CalmData'
    BY <1>1, <2>2, <2>3 DEF CalmData
  <2>6. QueueData => QueueData'
    BY <1>1, <2>2, <2>4 DEF QueueData, HasInsert
  <2> QED
    BY <2>5, <2>6
<1>7. (CalmData => CalmData') /\ (QueueData => QueueData')
  <2>1. BagTable \in Tables \ {ItemTable}
    BY Constants
  <2> QED
    BY <1>5, <1>6, <2>1 DEF Node
<1>8. hub' \notin Phases
  BY <1>1 DEF Away, Idle, Phases
<1> QED
  BY <1>2, <1>4, <1>7, <1>8 DEF DataInv, PhaseData, Phases

(* Every step preserves the inductive invariant.                           *)
LEMMA InvariantStep ==
    ASSUME Invariant, [Next]_vars
    PROVE  Invariant'
<1>1. TypeInv /\ TaskInv
  BY DEF Invariant
<1>2. TypeInv' /\ TaskInv' /\ StoreInv'
  BY <1>1, PhaseStep, ClockStep, StoreStep, HistoryStep, TaskStep DEF TypeInv
<1>3. DataInv'
  <2>1. ASSUME NEW due \in BOOLEAN, UpdateGameTime(due) PROVE DataInv'
    <3>1. Idle /\ hub' \in {"loop", "timers"}
          /\ UNCHANGED <<step, itemMap, itemRows, bagRows, tasks, live, temp, owned, flaws>>
      BY <2>1 DEF UpdateGameTime, Idle, nodeVars
    <3> QED
      BY <3>1, NothingTouched
  <2>2. CASE UpdateTimers
    BY <2>2, TimersData
  <2>3. CASE CreateTable
    BY <1>2, <2>3, CreateTableData
  <2>4. CASE TruncateTable
    BY <2>4, TruncateTableData
  <2>5. CASE Collect
    BY <2>5, CollectData
  <2>6. CASE ItemInstance \/ CharacterInventory
    BY <2>6, ThreadsData
  <2>7. CASE RenumberTable
    BY <2>7, RenumberTableData
  <2>8. CASE Finish
    BY <2>8, FinishData
  <2>9. CASE Worker
    <3>1. hub # "down" /\ tasks # <<>>
      BY <2>9 DEF Worker
    <3>2. Idle \/ hub = "renumber"
      BY <1>1, <3>1 DEF TypeInv, PhaseInv, Phases, TaskInv, Idle
    <3> QED
      BY <1>2, <2>9, <3>2, WorkerFills, WorkerAfter
  <2>10. CASE StartHub
    BY <2>10, StartHubData
  <2>11. CASE Crash
    BY <2>11, CrashData
  <2>12. CASE Node
    BY <1>2, <2>12, NodeData
  <2>13. CASE SaveState \/ Tick \/ TickDown \/ UNCHANGED vars
    <3>1. UNCHANGED <<hub, step, itemMap, itemRows, bagRows, tasks, live, temp, owned, flaws>>
      BY <2>13 DEF SaveState, Tick, TickDown, vars, beginVars, nodeVars
    <3> QED
      BY <3>1, NothingTouched
  <2> QED
    BY <2>1, <2>2, <2>3, <2>4, <2>5, <2>6, <2>7, <2>8, <2>9, <2>10, <2>11, <2>12, <2>13
       DEF Next, Hub
<1> QED
  BY <1>2, <1>3 DEF Invariant

(* The inductive invariant is one.                                         *)
LEMMA InvariantHolds == Spec => []Invariant
<1>1. Init /\ TypesAndQueue => Invariant
  <2> SUFFICES ASSUME Init, TypesAndQueue PROVE Invariant
    OBVIOUS
  <2>1. hub = "down" /\ tasks = <<>> /\ flaws = {} /\ owned = <<>> /\ temp = <<>>
        /\ live = [t \in Tables |-> {}]
    BY DEF Init
  <2>2. DOMAIN owned = {} /\ DOMAIN temp = {} /\ \A t \in Tables : live[t] = {}
    BY <2>1
  <2>3. Consistent(live, owned)
    BY <2>2, Constants DEF Consistent, ItemsOnce, AllTold, Placed
  <2>4. CalmData
    BY <2>2, <2>3 DEF CalmData, Kept
  <2>5. DataInv
    BY <2>1, <2>4 DEF DataInv, StaleExcused, PhaseData, Idle
  <2> QED
    BY <2>5 DEF Invariant, TypesAndQueue
<1>2. Invariant /\ [Next]_vars => Invariant'
  BY InvariantStep
<1> QED
  BY <1>1, <1>2, TypesAndQueueHold, PTL DEF Spec

(* No item is lost: until a second rebase runs over the copies of an       *)
(* interrupted one, every item with the row that names it is in the tables *)
(* or in the copies, whatever order the two threads, the queued            *)
(* statements, the nodes after Begin and a crash of the hub come in, but   *)
(* for a statement that is cut and a sweep that comes too late (Begin,     *)
(* Cleanup, SetHighestGuids).                                              *)
THEOREM RebaseLosesNothing == Spec => []NothingLost
<1>1. Invariant => NothingLost
  BY SafeInWeather DEF NothingLost, Weather, Kept
<1> QED
  BY <1>1, InvariantHolds, PTL

(* The tables after a rebase say of every item what they said before: each *)
(* exists once, under an id of its own, one row names it, and a bag holds  *)
(* what it held (ItemInstance, CharacterInventory, Auctionhouse, ...).     *)
THEOREM RebaseKeepsTables == Spec => []Intact
<1>1. Invariant => Intact
  <2> SUFFICES ASSUME Invariant, ~Working, flaws \subseteq {"stale"}
               PROVE  /\ {r.is : r \in live[ItemTable]} = DOMAIN owned
                      /\ Cardinality(live[ItemTable]) = Cardinality(DOMAIN owned)
                      /\ \A t \in Tables \ {ItemTable} : \A r \in live[t] : Truthful(t, r)
                      /\ \A i \in DOMAIN owned : \E r \in live[owned[i].at] : r.is = i
    BY DEF Intact
  <2>1. flaws = {} /\ Weather
    BY DEF Invariant, DataInv, StaleExcused, Weather
  <2>2. CalmData
    BY <2>1 DEF Invariant, DataInv, PhaseData
  <2>3. Consistent(live, owned)
    BY <2>1, <2>2 DEF CalmData
  <2>4. ItemsOnce(live, owned) /\ AllTold(live, owned) /\ Placed(live, owned)
    BY <2>3 DEF Consistent
  <2>5. {r.is : r \in live[ItemTable]} = DOMAIN owned
    BY <2>4 DEF ItemsOnce
  <2>6. Cardinality(live[ItemTable]) = Cardinality(DOMAIN owned)
    <3> DEFINE L == live[ItemTable]
               D == DOMAIN owned
               f == [r \in L |-> r.is]
    <3>1. Rows(live)
      BY RowsAre DEF Invariant, TypeInv
    <3>2. L \in SUBSET Row
      BY <3>1, Constants DEF Rows
    <3>3. IsFiniteSet(L)
      BY <3>2, FiniteRows, FS_Subset
    <3>4. \A r, s \in L : r.is = s.is => r = s
      <4> SUFFICES ASSUME NEW r \in L, NEW s \in L, r.is = s.is PROVE r = s
        OBVIOUS
      <4>1. r.item = s.item
        BY <2>4 DEF ItemsOnce
      <4>2. ItemTable \in Tables
        BY Constants
      <4> QED
        BY <2>3, <3>1, <4>1, <4>2, OneRow
    <3>5. f \in [L -> D] /\ \A r, s \in L : f[r] = f[s] => r = s
      BY <2>5, <3>4
    <3>6. \A i \in D : \E r \in L : f[r] = i
      BY <2>4 DEF ItemsOnce
    <3> HIDE DEF f, L, D
    <3>7. f \in Bijection(L, D)
      BY <3>5, <3>6 DEF Bijection, Injection, Surjection, IsInjective
    <3>8. ExistsBijection(L, D)
      BY <3>7 DEF ExistsBijection
    <3>9. Cardinality(D) = Cardinality(L)
      BY <3>3, <3>8, FS_Bijection
    <3> QED
      BY <3>9 DEF L, D
  <2>7. \A t \in Tables \ {ItemTable} : \A r \in live[t] : Truthful(t, r)
    BY <2>4 DEF AllTold, Told, Truthful
  <2>8. \A i \in DOMAIN owned : \E r \in live[owned[i].at] : r.is = i
    BY <2>4 DEF Placed
  <2> QED
    BY <2>5, <2>6, <2>7, <2>8
<1> QED
  BY <1>1, InvariantHolds, PTL
=============================================================================
