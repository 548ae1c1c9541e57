---------------------------- MODULE Bridge_proofs ----------------------------
(***************************************************************************)
(* At most one order per row, for every set of rows, intents and wipes.    *)
(* The invariant behind it: an intent that is beyond the Shadow record, or *)
(* whose order was taken, was admitted; each admitted intent has its       *)
(* Shadow row in the table; and no two admitted intents share a row.       *)
(***************************************************************************)
EXTENDS Bridge, TLAPS

Admission ==
  /\ DOMAIN render = Intents
  /\ admitted \subseteq Intents
  /\ orders \subseteq admitted
  /\ \A i \in Intents : render[i].pc \in Later => i \in admitted
  /\ \A i \in admitted : Key(i, "Shadow") \in rows
  /\ \A i, j \in admitted : Order[i].row = Order[j].row => i = j

(* Only the insert of a Shadow record admits an intent, only the taking of *)
(* a live order adds to the orders, and rows are never deleted.            *)
LEMMA AdmissionFrame ==
  ASSUME Admission, admitted' = admitted, orders' = orders, rows \subseteq rows',
         DOMAIN render' = Intents,
         \A i \in Intents : render'[i].pc \in Later => render[i].pc \in Later
  PROVE  Admission'
BY DEF Admission, Key

(* A task that stands behind the Shadow record and goes on there.          *)
LEMMA GotoFrame ==
  ASSUME Admission, NEW i \in Intents, NEW pc, Goto(i, pc),
         pc \in Later => render[i].pc \in Later
  PROVE  /\ DOMAIN render' = Intents
         /\ \A j \in Intents : render'[j].pc \in Later => render[j].pc \in Later
BY DEF Admission, Goto

(* The insert: the row was not there, so no admitted intent shares it.     *)
LEMMA InsertAdmits ==
  ASSUME Admission, NEW i \in Intents, ShadowInsert(i)
  PROVE  Admission'
<1> DEFINE k == Key(i, "Shadow")
<1>1. CASE k \in rows
  <2>1. /\ Goto(i, "crashed")
        /\ UNCHANGED <<rows, admitted, orders>>
    BY <1>1 DEF ShadowInsert, table
  <2>2. "crashed" \notin Later
    BY DEF Later
  <2> QED BY <2>1, <2>2, GotoFrame, AdmissionFrame
<1>2. CASE k \notin rows
  <2>1. /\ rows' = rows \cup {k}
        /\ admitted' = admitted \cup {i}
        /\ orders' = orders
        /\ Goto(i, IF Order[i].lots THEN "lock" ELSE "done")
    BY <1>2 DEF ShadowInsert
  <2>2. \A j \in admitted : Order[j].row # Order[i].row
    BY <1>2 DEF Admission, Key
  <2>3. DOMAIN render' = Intents /\ \A j \in Intents \ {i} : render'[j] = render[j]
    BY <2>1 DEF Goto, Admission
  <2> QED BY <2>1, <2>2, <2>3 DEF Admission, Key
<1> QED BY <1>1, <1>2

(* The order of an intent that has come that far is an admitted one.       *)
LEMMA OrderIsAdmitted ==
  ASSUME Admission, NEW i \in Intents, LiveOrder(i)
  PROVE  Admission'
<1>1. i \in admitted
  BY DEF LiveOrder, At, Admission, Later
<1>2. orders' \in {orders, orders \cup {i}}
  BY DEF LiveOrder
<1>3. UNCHANGED <<rows, admitted>>
  BY DEF LiveOrder, table
<1>4. PICK pc : Goto(i, pc)
  BY DEF LiveOrder
<1>5. DOMAIN render' = Intents /\ \A j \in Intents \ {i} : render'[j] = render[j]
  BY <1>4 DEF Goto, Admission
<1> QED BY <1>1, <1>2, <1>3, <1>5 DEF Admission, Key

LEMMA RenderKeepsAdmission ==
  ASSUME Admission, NEW i \in Intents, Render(i)
  PROVE  Admission'
<1>6. CASE ShadowBuy(i)
  <2>1. Goto(i, "crashed") /\ UNCHANGED <<rows, admitted, orders>>
    BY <1>6 DEF ShadowBuy, table, ghosts
  <2>2. "crashed" \notin Later
    BY DEF Later
  <2> QED BY <2>1, <2>2, GotoFrame, AdmissionFrame
<1>1. CASE ShadowSelect(i)
  <2>1. DOMAIN render' = Intents /\ UNCHANGED <<rows, admitted, orders>>
    BY <1>1 DEF ShadowSelect, Admission, table, ghosts
  <2>2. \A j \in Intents : render'[j].pc \in Later => render[j].pc \in Later
    BY <1>1 DEF ShadowSelect, Admission, Later
  <2> QED BY <2>1, <2>2, AdmissionFrame
<1>2. CASE ShadowInsert(i)
  BY <1>2, InsertAdmits
<1>3. CASE ShadowUpdate(i)
  <2>1. Goto(i, "crashed") /\ UNCHANGED <<rows, admitted, orders>>
    BY <1>3 DEF ShadowUpdate, ghosts
  <2>2. "crashed" \notin Later
    BY DEF Later
  <2> QED BY <2>1, <2>2, GotoFrame, AdmissionFrame
<1>4. CASE LiveOrder(i)
  BY <1>4, OrderIsAdmitted
<1>5. CASE CheckLock(i) \/ SetLock(i) \/ Unlock(i) \/ CheckFeed(i) \/ PaperFill(i)
           \/ CheckHalt(i) \/ TakeMargin(i) \/ BookFill(i) \/ CheckBreach(i)
  <2>1. render[i].pc \in Later
    BY <1>5 DEF CheckLock, SetLock, Unlock, CheckFeed, PaperFill, CheckHalt, TakeMargin,
                BookFill, CheckBreach, At, Later
  <2>2. PICK pc : Goto(i, pc)
    BY <1>5 DEF CheckLock, SetLock, Unlock, CheckFeed, PaperFill, CheckHalt, TakeMargin,
                BookFill, CheckBreach
  <2>3. rows \subseteq rows' /\ UNCHANGED <<admitted, orders>>
    BY <1>5 DEF CheckLock, SetLock, Unlock, CheckFeed, PaperFill, CheckHalt, TakeMargin,
                BookFill, CheckBreach, Record, table, ghosts
  <2> QED BY <2>1, <2>2, <2>3, GotoFrame, AdmissionFrame
<1> QED BY <1>1, <1>2, <1>3, <1>4, <1>5, <1>6 DEF Render

(* Wipes, panic messages and the expiry of a lock touch none of it.        *)
LEMMA OthersKeepAdmission ==
  ASSUME Admission, NEW w \in Wipers,
         \/ Expire
         \/ \E target \in Targets : Publish(target)
         \/ Listen(w) \/ Wipe(w)
         \/ \E i \in Intents : AuditFill(i, w)
  PROVE  Admission'
<1>1. UNCHANGED <<rows, render, admitted, orders>>
  BY DEF Expire, Publish, Listen, Wipe, Fetch, Flatten, AuditFill,
         table, ghosts
<1> QED BY <1>1, AdmissionFrame DEF Admission

LEMMA CrashKeepsAdmission ==
  ASSUME Admission, Crash
  PROVE  Admission'
<1>1. DOMAIN render' = Intents /\ UNCHANGED <<rows, admitted, orders>>
  BY DEF Crash, table, ghosts
<1>2. \A i \in Intents : render'[i].pc \in Later => render[i].pc \in Later
  BY DEF Crash, Later
<1> QED BY <1>1, <1>2, AdmissionFrame

LEMMA AdmissionInvariant == Spec => []Admission
<1>1. Init => Admission
  BY DEF Init, Admission, Later
<1>2. Admission /\ [Next]_vars => Admission'
  <2> SUFFICES ASSUME Admission, [Next]_vars
               PROVE  Admission'
    OBVIOUS
  <2>1. CASE \E i \in Intents : Render(i)
    BY <2>1, RenderKeepsAdmission
  <2>2. CASE Crash
    BY <2>2, CrashKeepsAdmission
  <2>3. CASE Expire \/ \E target \in Targets : Publish(target)
    <3>1. UNCHANGED <<rows, render, admitted, orders>>
      BY <2>3 DEF Expire, Publish, table, ghosts
    <3> QED BY <3>1, AdmissionFrame DEF Admission
  <2>4. CASE \/ \E w \in Wipers : Listen(w) \/ Wipe(w)
             \/ \E i \in Intents, w \in Wipers : AuditFill(i, w)
    BY <2>4, OthersKeepAdmission
  <2>5. CASE UNCHANGED vars
    BY <2>5 DEF Admission, Key, vars, table, ghosts
  <2> QED BY <2>1, <2>2, <2>3, <2>4, <2>5 DEF Next
<1> QED BY <1>1, <1>2, PTL DEF Spec

(* At most one order goes to the broker for a row, whatever is asked twice,*)
(* whatever expires and whatever crashes.                                  *)
THEOREM OneOrderTheorem == Spec => []OneOrderPerRow
<1>1. Admission => OneOrderPerRow
  BY DEF Admission, OneOrderPerRow
<1> QED BY <1>1, AdmissionInvariant, PTL

-----------------------------------------------------------------------------
(* Types                                                                   *)

LEMMA Bounds == StartCash \in Nat /\ MaxPanics \in Nat /\ MaxCrashes \in Nat
BY BoundAssumption

LEMMA InitTypes == ASSUME Init PROVE TypeOK
<1>1. qty \in [Keys -> Debts] /\ net \in [Rows -> Int] /\ cash \in Nat
  BY Bounds DEF Init, Debts
<1>6. /\ rows \subseteq Keys /\ lock \subseteq Symbols /\ audit \subseteq Intents
      /\ admitted \subseteq Intents /\ orders \subseteq Intents
      /\ halt \in BOOLEAN /\ killed \in BOOLEAN
  BY DEF Init
<1>2. render \in [Intents -> [pc : {"new", "shadow"} \cup Later \cup Ended,
                              seen : BOOLEAN, old : Debts]]
  BY DEF Init, Debts
<1>3. panic \in Seq(Targets \cup {"ALL"})
  BY DEF Init
<1>4. count \in [panics : 0..MaxPanics, crashes : 0..MaxCrashes]
  BY Bounds DEF Init
<1>5. wipe \in [Wipers -> [pc : {"idle", "fetch", "next"}, target : Targets \cup {"ALL"},
                           todo : SUBSET (Keys \X Debts)]]
  BY DEF Init, NoWipe
<1> QED BY <1>1, <1>2, <1>3, <1>4, <1>5, <1>6 DEF TypeOK

(* Where a task goes on, when it forgets what it has read.                 *)
LEMMA GotoTypes ==
  ASSUME TypeOK, NEW i \in Intents, NEW pc \in {"new", "shadow"} \cup Later \cup Ended,
         Goto(i, pc)
  PROVE  render' \in [Intents -> [pc : {"new", "shadow"} \cup Later \cup Ended,
                                  seen : BOOLEAN, old : Debts]]
BY DEF TypeOK, Goto, Debts

LEMMA KeyTypes ==
  ASSUME NEW i \in Intents, NEW x \in Realities
  PROVE  /\ Key(i, x) \in Keys /\ Order[i].row \in Rows
         /\ Order[i].qty \in Int \ {0} /\ SymbolOf(i) \in Symbols
         /\ Order[i].lots \in BOOLEAN /\ Order[i].paper \in BOOLEAN
         /\ Order[i].live \in BOOLEAN
BY OrderAssumption DEF Key, Keys, SymbolOf, Symbols

(* A sale written to the table keeps its type.                             *)
LEMMA WriteTypes ==
  ASSUME TypeOK, NEW k \in Keys, NEW n \in Debts, qty' = [qty EXCEPT ![k] = n]
  PROVE  qty' \in [Keys -> Debts]
BY DEF TypeOK

(* A task behind the Shadow record is that of a sale.                      *)
Selling == \A i \in Intents : render[i].pc \in {"shadow"} \cup Later => Order[i].qty < 0

LEMMA SellingInit == ASSUME Init PROVE Selling
BY DEF Init, Selling, Later

LEMMA SellingStep ==
  ASSUME TypeOK, Selling, [Next]_vars
  PROVE  Selling'
<1>1. ASSUME NEW i \in Intents, NEW pc, Goto(i, pc), Order[i].qty < 0 \/ pc = "crashed"
      PROVE  Selling'
  BY <1>1 DEF TypeOK, Selling, Goto, Later
<1>2. ASSUME NEW i \in Intents, Render(i) PROVE Selling'
  <2>1. CASE ShadowBuy(i)
    BY <1>1, <2>1 DEF ShadowBuy
  <2>2. CASE ShadowSelect(i)
    BY <2>2 DEF ShadowSelect, TypeOK, Selling
  <2>3. CASE \/ ShadowInsert(i) \/ ShadowUpdate(i) \/ CheckLock(i) \/ SetLock(i)
             \/ Unlock(i) \/ CheckFeed(i) \/ PaperFill(i) \/ CheckHalt(i)
             \/ TakeMargin(i) \/ LiveOrder(i) \/ BookFill(i) \/ CheckBreach(i)
    <3>1. Order[i].qty < 0
      BY <2>3 DEF ShadowInsert, ShadowUpdate, CheckLock, SetLock, Unlock, CheckFeed,
                  PaperFill, CheckHalt, TakeMargin, LiveOrder, BookFill, CheckBreach, At,
                  Selling, Later
    <3>2. PICK pc : Goto(i, pc)
      BY <2>3 DEF ShadowInsert, ShadowUpdate, CheckLock, SetLock, Unlock, CheckFeed,
                  PaperFill, CheckHalt, TakeMargin, LiveOrder, BookFill, CheckBreach
    <3> QED BY <1>1, <3>1, <3>2
  <2> QED BY <1>2, <2>1, <2>2, <2>3 DEF Render
<1>3. CASE Crash
  BY <1>3 DEF Crash, TypeOK, Selling, Later, Ended
<1>4. CASE \/ Expire \/ \E target \in Targets : Publish(target)
           \/ \E w \in Wipers : Listen(w) \/ Wipe(w)
           \/ \E i \in Intents, w \in Wipers : AuditFill(i, w)
           \/ UNCHANGED vars
  <2>1. UNCHANGED render
    BY <1>4 DEF Expire, Publish, Listen, Wipe, Fetch, Flatten, AuditFill, vars
  <2> QED BY <2>1 DEF Selling
<1> QED BY <1>2, <1>3, <1>4 DEF Next

(* Two sales of a position make one.                                       *)
LEMMA DebtSum ==
  ASSUME NEW m \in Debts, NEW n \in Int, n < 0
  PROVE  n \in Debts /\ m + n \in Debts
BY DEF Debts

Steady == UNCHANGED <<net, wipe, panic, count, orders, lock, cash, halt, killed>>

LEMMA ShadowTypes ==
  ASSUME TypeOK, Selling, NEW i \in Intents,
         ShadowBuy(i) \/ ShadowSelect(i) \/ ShadowInsert(i) \/ ShadowUpdate(i)
  PROVE  TypeOK'
<1> DEFINE k == Key(i, "Shadow")
<1>0. /\ k \in Keys /\ Order[i].qty \in Int /\ qty[k] \in Debts
      /\ render[i].old \in Debts
      /\ Order[i].lots \in BOOLEAN
  BY KeyTypes DEF Realities, TypeOK
<1>1. Steady /\ UNCHANGED audit
  BY DEF ShadowBuy, ShadowSelect, ShadowInsert, ShadowUpdate, Steady, table, redis, ghosts
<1>2. /\ rows' \subseteq Keys /\ admitted' \subseteq Intents
  BY <1>0 DEF ShadowBuy, ShadowSelect, ShadowInsert, ShadowUpdate, table, redis, ghosts,
              TypeOK
<1>3. qty' \in [Keys -> Debts]
  <2>1. CASE qty' = qty
    BY <2>1 DEF TypeOK
  <2>2. CASE ShadowInsert(i) \/ ShadowUpdate(i)
    <3>1. Order[i].qty < 0
      BY <2>2 DEF ShadowInsert, ShadowUpdate, At, Selling
    <3>2. Order[i].qty \in Debts /\ render[i].old + Order[i].qty \in Debts
      BY <1>0, <3>1, DebtSum
    <3>3. \/ qty' = qty \/ qty' = [qty EXCEPT ![k] = Order[i].qty]
          \/ qty' = [qty EXCEPT ![k] = render[i].old + Order[i].qty]
      BY <2>2 DEF ShadowInsert, ShadowUpdate, table
    <3> QED BY <1>0, <2>1, <3>2, <3>3, WriteTypes
  <2> QED BY <2>1, <2>2 DEF ShadowBuy, ShadowSelect, table
<1>4. render' \in [Intents -> [pc : {"new", "shadow"} \cup Later \cup Ended,
                               seen : BOOLEAN, old : Debts]]
  <2>1. CASE ShadowSelect(i)
    BY <1>0, <2>1 DEF ShadowSelect, TypeOK
  <2>2. CASE ShadowBuy(i) \/ ShadowInsert(i) \/ ShadowUpdate(i)
    <3>1. Goto(i, "crashed") \/ Goto(i, "lock") \/ Goto(i, "done")
      BY <1>0, <2>2 DEF ShadowBuy, ShadowInsert, ShadowUpdate
    <3>2. {"crashed", "lock", "done"} \subseteq {"new", "shadow"} \cup Later \cup Ended
      BY DEF Later, Ended
    <3> QED BY <3>1, <3>2, GotoTypes
  <2> QED BY <2>1, <2>2
<1> QED BY <1>1, <1>2, <1>3, <1>4 DEF TypeOK, Steady

(* The stages behind the Shadow record: where each goes on.                *)
LEMMA StageTypes ==
  ASSUME TypeOK, Selling, NEW i \in Intents,
         \/ CheckLock(i) \/ SetLock(i) \/ Unlock(i) \/ CheckFeed(i) \/ PaperFill(i)
         \/ CheckHalt(i) \/ TakeMargin(i) \/ LiveOrder(i) \/ BookFill(i) \/ CheckBreach(i)
  PROVE  TypeOK'
<1>0. /\ Key(i, "Paper") \in Keys /\ Key(i, "Actual") \in Keys
      /\ Order[i].qty \in Int /\ Order[i].row \in Rows /\ SymbolOf(i) \in Symbols
      /\ Order[i].lots \in BOOLEAN /\ Order[i].paper \in BOOLEAN
      /\ Order[i].live \in BOOLEAN
  BY KeyTypes DEF Realities
<1>1. render' \in [Intents -> [pc : {"new", "shadow"} \cup Later \cup Ended,
                               seen : BOOLEAN, old : Debts]]
  <2>1. PICK pc \in Later \cup Ended : Goto(i, pc)
    <3>1. CASE CheckLock(i) \/ SetLock(i) \/ Unlock(i) \/ PaperFill(i) \/ CheckHalt(i)
      BY <1>0, <3>1 DEF CheckLock, SetLock, Unlock, PaperFill, CheckHalt, IfThen, Later, Ended
    <3>2. CASE CheckFeed(i) \/ TakeMargin(i) \/ BookFill(i) \/ CheckBreach(i)
      BY <1>0, <3>2 DEF CheckFeed, TakeMargin, BookFill, CheckBreach, IfThen, Later, Ended
    <3>3. CASE LiveOrder(i)
      <4>1. PICK reply \in Replies : 
              Goto(i, CASE reply = "refused"            -> "unlock"
                        [] reply \in {"lost", "failed"} -> "crashed"
                        [] OTHER                        -> "book")
        BY <3>3 DEF LiveOrder
      <4>2. (CASE reply = "refused"            -> "unlock"
               [] reply \in {"lost", "failed"} -> "crashed"
               [] OTHER                        -> "book") \in Later \cup Ended
        BY DEF Later, Ended
      <4> QED BY <4>1, <4>2
    <3> QED BY <3>1, <3>2, <3>3
  <2> QED BY <2>1, GotoTypes
<1>2. /\ rows' \subseteq Keys /\ lock' \subseteq Symbols /\ audit' \subseteq Intents
      /\ UNCHANGED <<admitted, wipe, count>> /\ orders' \subseteq Intents
  <2>1. CASE CheckLock(i) \/ SetLock(i) \/ Unlock(i) \/ PaperFill(i) \/ CheckHalt(i)
    BY <1>0, <2>1 DEF CheckLock, SetLock, Unlock, PaperFill, CheckHalt, Record, TypeOK,
                      table, redis, ghosts
  <2>2. CASE CheckFeed(i) \/ TakeMargin(i) \/ BookFill(i) \/ CheckBreach(i)
    BY <1>0, <2>2 DEF CheckFeed, TakeMargin, BookFill, CheckBreach, Record, TypeOK,
                      table, redis, ghosts
  <2>3. CASE LiveOrder(i)
    BY <1>0, <2>3 DEF LiveOrder, TypeOK, table, redis, ghosts
  <2> QED BY <2>1, <2>2, <2>3
<1>3. qty' \in [Keys -> Debts]
  <2>1. ASSUME NEW x, Key(i, x) \in Keys, Record(i, x), render[i].pc \in Later
        PROVE  qty' \in [Keys -> Debts]
    <3>1. Order[i].qty < 0
      BY <2>1 DEF Selling
    <3>2. qty[Key(i, x)] + Order[i].qty \in Debts
      BY <1>0, <2>1, <3>1, DebtSum DEF TypeOK
    <3>3. qty' = [qty EXCEPT ![Key(i, x)] = qty[Key(i, x)] + Order[i].qty]
      BY <2>1 DEF Record, TypeOK
    <3> QED BY <2>1, <3>2, <3>3, WriteTypes
  <2>2. CASE PaperFill(i)
    BY <1>0, <2>1, <2>2 DEF PaperFill, At, Later
  <2>3. CASE BookFill(i)
    BY <1>0, <2>1, <2>3 DEF BookFill, At, Later, TypeOK, table
  <2>4. CASE \/ CheckLock(i) \/ SetLock(i) \/ Unlock(i) \/ CheckHalt(i) \/ CheckFeed(i)
             \/ TakeMargin(i) \/ LiveOrder(i) \/ CheckBreach(i)
    <3>1. qty' = qty
      BY <2>4 DEF CheckLock, SetLock, Unlock, CheckHalt, CheckFeed, TakeMargin, LiveOrder,
                  CheckBreach, table
    <3> QED BY <3>1 DEF TypeOK
  <2> QED BY <2>2, <2>3, <2>4
<1>4. net' \in [Rows -> Int]
  <2>1. net' = net \/ net' = [net EXCEPT ![Order[i].row] = @ + Order[i].qty]
    BY DEF CheckLock, SetLock, Unlock, PaperFill, CheckHalt, CheckFeed, TakeMargin,
           LiveOrder, BookFill, CheckBreach
  <2> QED BY <1>0, <2>1 DEF TypeOK
<1>5. cash' \in Nat
  <2>1. CASE TakeMargin(i)
    BY <2>1 DEF TakeMargin, TypeOK
  <2>2. CASE ~TakeMargin(i)
    BY <2>2 DEF CheckLock, SetLock, Unlock, PaperFill, CheckHalt, CheckFeed,
                LiveOrder, BookFill, CheckBreach, redis, TypeOK
  <2> QED BY <2>1, <2>2
<1>6. halt' \in BOOLEAN /\ killed' \in BOOLEAN
  BY DEF CheckLock, SetLock, Unlock, PaperFill, CheckHalt, CheckFeed, TakeMargin,
         LiveOrder, BookFill, CheckBreach, TypeOK, redis
<1>7. panic' \in Seq(Targets \cup {"ALL"})
  <2>1. panic' = panic \/ panic' = Append(panic, "ALL")
    BY DEF CheckLock, SetLock, Unlock, PaperFill, CheckHalt, CheckFeed, TakeMargin,
           LiveOrder, BookFill, CheckBreach
  <2> DEFINE messages == Targets \cup {"ALL"}
  <2>2. "ALL" \in messages /\ panic \in Seq(messages)
    BY DEF TypeOK
  <2> HIDE DEF messages
  <2>3. panic' \in Seq(messages)
    BY <2>1, <2>2
  <2> QED BY <2>3 DEF messages
<1> QED BY <1>1, <1>2, <1>3, <1>4, <1>5, <1>6, <1>7 DEF TypeOK

WipeRecords ==
  [pc : {"idle", "fetch", "next"}, target : Targets \cup {"ALL"},
   todo : SUBSET (Keys \X Debts)]

LEMMA NoWipeTypes == NoWipe \in WipeRecords
BY DEF NoWipe, WipeRecords

LEMMA BeginTypes ==
  ASSUME TypeOK, NEW w \in Wipers, NEW target \in Targets \cup {"ALL"}, Begin(w, target)
  PROVE  wipe' \in [Wipers -> WipeRecords]
<1> DEFINE begun == [NoWipe EXCEPT !.pc = "fetch", !.target = target]
<1>1. begun \in WipeRecords
  BY NoWipeTypes DEF WipeRecords
<1>2. wipe' = [wipe EXCEPT ![w] = begun] /\ wipe \in [Wipers -> WipeRecords]
  BY DEF Begin, TypeOK, WipeRecords
<1> HIDE DEF begun
<1> QED BY <1>1, <1>2

LEMMA WipeTypes ==
  ASSUME TypeOK, NEW w \in Wipers, Wipe(w)
  PROVE  TypeOK'
<1>0. wipe \in [Wipers -> WipeRecords] /\ wipe[w] \in WipeRecords
  BY DEF TypeOK, WipeRecords
<1>1. UNCHANGED <<rows, qty, render, audit, panic, admitted, orders, count, lock, cash, halt,
                  killed>>
  BY DEF Wipe, Fetch, Flatten, table, redis, ghosts
<1>2. CASE Fetch(w)
  <2> DEFINE found == Hit(wipe[w].target)
             list  == {<<k, qty[k]>> : k \in found}
             walk  == [wipe[w] EXCEPT !.pc = "next", !.todo = list]
  <2>1. list \in SUBSET (Keys \X Debts)
    BY DEF Hit, TypeOK
  <2>2. walk \in WipeRecords
    <3> HIDE DEF list
    <3> QED BY <1>0, <2>1 DEF WipeRecords
  <2>3. wipe' = [wipe EXCEPT ![w] = IF found = {} THEN NoWipe ELSE walk]
    BY <1>0, <1>2 DEF Fetch
  <2> HIDE DEF walk, found
  <2>4. wipe' \in [Wipers -> WipeRecords]
    BY <1>0, <2>2, <2>3, NoWipeTypes
  <2>6. UNCHANGED net
    BY <1>2 DEF Fetch
  <2> QED BY <1>1, <2>4, <2>6 DEF TypeOK, WipeRecords
<1>3. CASE Flatten(w)
  <2>1. PICK p \in wipe[w].todo, reply \in Replies :
          net' = IF p[1][2] = "Actual" /\ reply \in {"ok", "lost"}
                 THEN [net EXCEPT ![p[1][1]] = @ - p[2]] ELSE net
    BY <1>3 DEF Flatten
  <2>2. p[1][1] \in Rows /\ p[2] \in Int
    BY <1>0 DEF WipeRecords, Keys, Debts
  <2>3. net' \in [Rows -> Int]
    BY <2>1, <2>2 DEF TypeOK
  <2>4. wipe' = [wipe EXCEPT ![w] = NoWipe]
    BY <1>3 DEF Flatten
  <2>5. wipe' \in [Wipers -> WipeRecords]
    BY <1>0, <2>4, NoWipeTypes
  <2> QED BY <1>1, <2>3, <2>5 DEF TypeOK, WipeRecords
<1> QED BY <1>2, <1>3 DEF Wipe

LEMMA StepTypes == ASSUME TypeOK, Selling, [Next]_vars PROVE TypeOK'
<1> DEFINE messages == Targets \cup {"ALL"}
<1>1. CASE \E i \in Intents : Render(i)
  BY <1>1, ShadowTypes, StageTypes DEF Render
<1>2. CASE Expire
  BY <1>2 DEF Expire, TypeOK, table, ghosts
<1>3. CASE Crash
  <2>1. render' \in [Intents -> [pc : {"new", "shadow"} \cup Later \cup Ended,
                                 seen : BOOLEAN, old : Debts]]
    BY <1>3 DEF Crash, TypeOK, Ended, Debts
  <2>2. wipe' \in [Wipers -> WipeRecords]
    BY <1>3, NoWipeTypes DEF Crash
  <2>3. killed' \in BOOLEAN /\ audit' \subseteq Intents
    BY <1>3 DEF Crash
  <2>6. panic' \in Seq(messages)
    BY <1>3 DEF Crash
  <2>4. count' \in [panics : 0..MaxPanics, crashes : 0..MaxCrashes]
    <3>1. count.crashes + 1 \in 0..MaxCrashes
      BY <1>3, Bounds DEF Crash, TypeOK
    <3> QED BY <1>3, <3>1 DEF Crash, TypeOK
  <2>5. UNCHANGED <<rows, qty, net, lock, cash, halt, admitted, orders>>
    BY <1>3 DEF Crash, table, redis, ghosts
  <2> QED BY <2>1, <2>2, <2>3, <2>4, <2>5, <2>6 DEF TypeOK, WipeRecords
<1>4. ASSUME NEW target \in Targets, Publish(target) PROVE TypeOK'
  <2>1. panic' = Append(panic, target) /\ target \in messages /\ panic \in Seq(messages)
    BY <1>4 DEF Publish, TypeOK
  <2> HIDE DEF messages
  <2>2. panic' \in Seq(messages)
    BY <2>1
  <2>3. count' \in [panics : 0..MaxPanics, crashes : 0..MaxCrashes]
    <3>1. count.panics + 1 \in 0..MaxPanics
      BY <1>4, Bounds DEF Publish, TypeOK
    <3> QED BY <1>4, <3>1 DEF Publish, TypeOK
  <2>4. halt' \in BOOLEAN
        /\ UNCHANGED <<rows, qty, net, lock, cash, killed, render, audit, wipe, admitted,
                       orders>>
    BY <1>4 DEF Publish, TypeOK, table, ghosts
  <2> QED BY <2>2, <2>3, <2>4 DEF TypeOK, messages
<1>5. ASSUME NEW w \in Wipers, Listen(w) PROVE TypeOK'
  <2>1. panic \in Seq(messages) /\ panic # <<>> /\ panic' = Tail(panic)
        /\ Begin(w, Head(panic))
    BY <1>5 DEF Listen, TypeOK
  <2> HIDE DEF messages
  <2>2. Head(panic) \in messages /\ panic' \in Seq(messages)
    BY <2>1
  <2>3. UNCHANGED <<rows, qty, net, lock, cash, halt, killed, render, audit, admitted,
                    orders, count>>
    BY <1>5 DEF Listen, table, redis, ghosts
  <2> QED BY <2>1, <2>2, <2>3, BeginTypes DEF TypeOK, WipeRecords, messages
<1>6. ASSUME NEW i \in Intents, NEW w \in Wipers, AuditFill(i, w) PROVE TypeOK'
  <2>1. /\ UNCHANGED <<rows, qty, net, lock, cash, halt, killed, render, panic, admitted,
                       orders, count>>
        /\ audit' \subseteq Intents
    BY <1>6 DEF AuditFill, TypeOK, table, redis, ghosts
  <2>2. CASE UNCHANGED wipe
    BY <2>1, <2>2 DEF TypeOK
  <2>3. CASE Begin(w, "ALL")
    BY <2>1, <2>3, BeginTypes DEF TypeOK, WipeRecords
  <2> QED BY <1>6, <2>2, <2>3 DEF AuditFill
<1>7. CASE UNCHANGED vars
  BY <1>7 DEF vars, table, redis, ghosts, TypeOK
<1> QED BY <1>1, <1>2, <1>3, <1>4, <1>5, <1>6, <1>7, WipeTypes DEF Next

(* Every variable of the bridge keeps its type: every row of the table,    *)
(* and everything a wipe still has to close, is a short position.          *)
THEOREM TypesTheorem == Spec => []TypeOK
<1>1. Init => TypeOK /\ Selling
  BY InitTypes, SellingInit
<1>2. TypeOK /\ Selling /\ [Next]_vars => TypeOK' /\ Selling'
  BY StepTypes, SellingStep
<1> QED BY <1>1, <1>2, PTL DEF Spec

-----------------------------------------------------------------------------
(* What a wipe trades.  A row is booked by the one intent admitted for it, *)
(* and once: until then it is empty, so a wipe has it on its list only     *)
(* afterwards, with the quantity it will keep.                             *)
Book(r) == <<r, "Actual">>

Ahead  == {"lock", "set", "feed", "paper", "halt", "margin", "order", "book"}
Behind == {"book", "breach", "unlock"} \cup Ended

Sent   == \A i \in Intents : i \in orders => render[i].pc \in Behind
Empty(r) == qty[Book(r)] = 0
Unasked  == \A r \in Rows : (\A i \in admitted : Order[i].row # r) => Empty(r)
Unbooked == \A i \in Intents : render[i].pc \in Ahead => Empty(Order[i].row)
Fresh ==
  \A w \in Wipers, r \in Rows, n \in Int :
    wipe[w].pc = "next" /\ <<Book(r), n>> \in wipe[w].todo => n = qty[Book(r)] /\ n # 0

Once == Sent /\ Unasked /\ Unbooked /\ Fresh

LEMMA OnceInit == ASSUME Init PROVE Once
<1>1. \A r \in Rows : Empty(r)
  BY DEF Init, Empty, Book, Keys, Realities
<1>2. Sent /\ Fresh
  BY DEF Init, Sent, Fresh, NoWipe
<1> QED BY <1>1, <1>2, OrderAssumption DEF Once, Unasked, Unbooked

(* Steps that leave the book, the orders and the wipes alone.              *)
LEMMA OnceFrame ==
  ASSUME Once, admitted \subseteq Intents,
         UNCHANGED <<admitted, orders, wipe>>,
         \A r \in Rows : qty'[Book(r)] = qty[Book(r)],
         \A i \in Intents : /\ Order[i].row \in Rows
                            /\ render'[i].pc \in Ahead => render[i].pc \in Ahead
                            /\ i \in orders /\ render[i].pc \in Behind =>
                                 render'[i].pc \in Behind
  PROVE  Once'
<1>1. \A r \in Rows : Empty(r)' <=> Empty(r)
  BY DEF Empty, Book
<1>2. Sent'
  BY DEF Once, Sent
<1>3. Unasked'
  BY <1>1 DEF Once, Unasked
<1>4. Unbooked'
  BY <1>1 DEF Once, Unbooked
<1>5. Fresh'
  BY DEF Once, Fresh, Book
<1> QED BY <1>2, <1>3, <1>4, <1>5 DEF Once

(* What a task stands at, one step on.                                     *)
LEMMA GotoAt ==
  ASSUME TypeOK, NEW i \in Intents, NEW pc, Goto(i, pc)
  PROVE  /\ render'[i].pc = pc
         /\ \A j \in Intents \ {i} : render'[j] = render[j]
BY DEF TypeOK, Goto

LEMMA RowsOf == \A i \in Intents : Order[i].row \in Rows
BY OrderAssumption

(* A write to another reality is none to the book.                         *)
LEMMA Beside ==
  ASSUME TypeOK, NEW i \in Intents, NEW x \in {"Shadow", "Paper"}, NEW n,
         qty' = [qty EXCEPT ![Key(i, x)] = n]
  PROVE  \A r \in Rows : qty'[Book(r)] = qty[Book(r)]
BY DEF TypeOK, Key, Keys, Book, Realities

LEMMA ShadowOnce ==
  ASSUME TypeOK, Admission, Once, NEW i \in Intents,
         ShadowBuy(i) \/ ShadowSelect(i) \/ ShadowInsert(i) \/ ShadowUpdate(i)
  PROVE  Once'
<1>0. /\ render[i].pc \in {"new", "shadow"}
      /\ UNCHANGED <<orders, wipe>>
      /\ i \notin orders
  BY DEF ShadowBuy, ShadowSelect, ShadowInsert, ShadowUpdate, At, ghosts, Once, Sent,
         Behind, Ended
<1>1. \A r \in Rows : qty'[Book(r)] = qty[Book(r)]
  <2>1. CASE UNCHANGED qty
    BY <2>1
  <2>2. \/ UNCHANGED qty
        \/ qty' = [qty EXCEPT ![Key(i, "Shadow")] = Order[i].qty]
        \/ qty' = [qty EXCEPT ![Key(i, "Shadow")] = render[i].old + Order[i].qty]
    BY DEF ShadowBuy, ShadowSelect, ShadowInsert, ShadowUpdate, table
  <2> QED BY <2>1, <2>2, Beside
<1>2. CASE ShadowInsert(i) /\ Key(i, "Shadow") \notin rows
  <2>1. /\ admitted' = admitted \cup {i}
        /\ Goto(i, IF Order[i].lots THEN "lock" ELSE "done")
    BY <1>2 DEF ShadowInsert
  <2>2. \A j \in Intents \ {i} : render'[j] = render[j]
    BY <2>1, GotoAt
  <2>3. \A r \in Rows : Empty(r)' <=> Empty(r)
    BY <1>1 DEF Empty, Book
  <2>4. Empty(Order[i].row)
    <3>1. \A j \in admitted : Order[j].row # Order[i].row
      BY <1>2 DEF Admission, Key
    <3> QED BY <3>1, RowsOf DEF Once, Unasked
  <2>5. Sent'
    BY <1>0, <2>2 DEF Once, Sent
  <2>6. Unasked' /\ Unbooked'
    BY <2>1, <2>2, <2>3, <2>4, RowsOf DEF Once, Unasked, Unbooked
  <2>7. Fresh'
    BY <1>0, <1>1 DEF Once, Fresh, Book
  <2> QED BY <2>5, <2>6, <2>7 DEF Once
<1>3. CASE ~(ShadowInsert(i) /\ Key(i, "Shadow") \notin rows)
  <2>1. UNCHANGED admitted
    BY <1>3 DEF ShadowBuy, ShadowSelect, ShadowInsert, ShadowUpdate, ghosts
  <2>2. \/ Goto(i, "crashed")
        \/ render'[i].pc = "shadow" /\ \A j \in Intents \ {i} : render'[j] = render[j]
    BY <1>3 DEF ShadowBuy, ShadowSelect, ShadowInsert, ShadowUpdate, TypeOK
  <2>3. render'[i].pc \notin Ahead /\ \A j \in Intents \ {i} : render'[j] = render[j]
    BY <2>2, GotoAt DEF Ahead
  <2> QED BY <1>0, <1>1, <2>1, <2>3, OnceFrame, RowsOf DEF Admission
<1> QED BY <1>2, <1>3

(* The stages between the Shadow record and the booking, but the order.    *)
LEMMA StageOnce ==
  ASSUME TypeOK, Admission, Once, NEW i \in Intents,
         \/ CheckLock(i) \/ SetLock(i) \/ Unlock(i) \/ CheckFeed(i) \/ PaperFill(i)
         \/ CheckHalt(i) \/ TakeMargin(i) \/ CheckBreach(i)
  PROVE  Once'
<1>1. PICK pc : Goto(i, pc) /\ (pc \in Ahead => render[i].pc \in Ahead)
                /\ (render[i].pc \in Behind => pc \in Behind)
  BY DEF CheckLock, SetLock, Unlock, CheckFeed, PaperFill, CheckHalt, TakeMargin,
         CheckBreach, At, Ahead, Behind, Ended, IfThen
<1>2. UNCHANGED <<admitted, orders, wipe>>
  BY DEF CheckLock, SetLock, Unlock, CheckFeed, PaperFill, CheckHalt, TakeMargin,
         CheckBreach, ghosts
<1>3. \A r \in Rows : qty'[Book(r)] = qty[Book(r)]
  <2>1. CASE PaperFill(i)
    <3>1. qty' = [qty EXCEPT ![Key(i, "Paper")] = qty[Key(i, "Paper")] + Order[i].qty]
      BY <2>1 DEF PaperFill, Record
    <3> QED BY <3>1, Beside
  <2>2. CASE ~PaperFill(i)
    BY <2>2 DEF CheckLock, SetLock, Unlock, CheckFeed, CheckHalt, TakeMargin, CheckBreach,
                table
  <2> QED BY <2>1, <2>2
<1>4. \A j \in Intents : render'[j].pc = IF j = i THEN pc ELSE render[j].pc
  BY <1>1, GotoAt
<1> QED BY <1>1, <1>2, <1>3, <1>4, OnceFrame, RowsOf DEF Admission

LEMMA OrderOnce ==
  ASSUME TypeOK, Admission, Once, NEW i \in Intents, LiveOrder(i)
  PROVE  Once' /\ (net' # net => orders' # orders)
<1>0. render[i].pc = "order" /\ i \notin orders
  BY DEF LiveOrder, At, Once, Sent, Behind, Ended
<1>1. PICK reply \in Replies :
        /\ IF reply \in {"ok", "lost"} THEN orders' = orders \cup {i}
           ELSE UNCHANGED <<net, orders>>
        /\ Goto(i, CASE reply = "refused"            -> "unlock"
                     [] reply \in {"lost", "failed"} -> "crashed"
                     [] OTHER                        -> "book")
  BY DEF LiveOrder
<1> DEFINE pc == CASE reply = "refused"            -> "unlock"
                   [] reply \in {"lost", "failed"} -> "crashed"
                   [] OTHER                        -> "book"
<1>2. pc \in Behind /\ Goto(i, pc)
  BY <1>1 DEF Behind, Ended
<1> HIDE DEF pc
<1>3. render'[i].pc \in Behind /\ \A j \in Intents \ {i} : render'[j] = render[j]
  BY <1>2, GotoAt
<1>4. UNCHANGED <<admitted, wipe, qty>>
  BY DEF LiveOrder, table
<1>5. orders' \in {orders, orders \cup {i}}
  BY <1>1
<1>6. \A r \in Rows : Empty(r)' <=> Empty(r)
  BY <1>4 DEF Empty, Book
<1>7. Sent'
  BY <1>3, <1>5 DEF Once, Sent
<1>8. Unasked' /\ Unbooked'
  BY <1>0, <1>3, <1>4, <1>6, RowsOf DEF Once, Unasked, Unbooked, Ahead
<1>9. Fresh'
  BY <1>4 DEF Once, Fresh, Book
<1> QED BY <1>0, <1>1, <1>7, <1>8, <1>9 DEF Once

(* The booking: the row was empty, so no wipe has it on its list.          *)
LEMMA BookOnce ==
  ASSUME TypeOK, Admission, Once, NEW i \in Intents, BookFill(i)
  PROVE  Once'
<1> DEFINE r == Order[i].row
<1>0. /\ render[i].pc = "book" /\ i \in admitted /\ Empty(r) /\ r \in Rows
      /\ UNCHANGED <<admitted, orders, wipe>>
  BY RowsOf DEF BookFill, At, Admission, Later, Once, Unbooked, Ahead, ghosts
<1>1. CASE UNCHANGED table
  <2>1. render'[i].pc \in {"breach", "crashed"} /\ \A j \in Intents \ {i} : render'[j] = render[j]
    BY GotoAt DEF BookFill
  <2> QED BY <1>0, <1>1, <2>1, OnceFrame, RowsOf
          DEF Admission, table, Ahead, Behind, Ended
<1>2. CASE Record(i, "Actual")
  <2>1. render'[i].pc \in {"breach", "crashed"} /\ \A j \in Intents \ {i} : render'[j] = render[j]
    BY GotoAt DEF BookFill
  <2>2. \A s \in Rows : s # r => qty'[Book(s)] = qty[Book(s)]
    BY <1>2 DEF Record, Key, TypeOK, Book, Keys, Realities
  <2>3. \A s \in Rows : s # r => (Empty(s)' <=> Empty(s))
    BY <2>2 DEF Empty, Book
  <2>4. Sent'
    BY <1>0, <2>1 DEF Once, Sent, Behind, Ended
  <2>5. Unasked'
    BY <1>0, <2>3 DEF Once, Unasked
  <2>6. Unbooked'
    <3> SUFFICES ASSUME NEW j \in Intents, render'[j].pc \in Ahead
                 PROVE  Empty(Order[j].row)'
      BY DEF Unbooked
    <3>1. j # i /\ render[j].pc \in Ahead
      BY <2>1 DEF Ahead
    <3>2. Order[j].row # r
      BY <1>0, <3>1 DEF Admission, Ahead, Later
    <3> QED BY <2>3, <3>1, <3>2, RowsOf DEF Once, Unbooked
  <2>7. Fresh'
    <3> SUFFICES ASSUME NEW w \in Wipers, NEW s \in Rows, NEW n \in Int,
                        wipe[w].pc = "next", <<Book(s), n>> \in wipe[w].todo
                 PROVE  n = qty'[Book(s)] /\ n # 0
      BY <1>0 DEF Fresh, Book
    <3>1. n = qty[Book(s)] /\ n # 0
      BY DEF Once, Fresh
    <3>2. s # r
      BY <1>0, <3>1 DEF Empty
    <3> QED BY <2>2, <3>1, <3>2
  <2> QED BY <2>4, <2>5, <2>6, <2>7 DEF Once
<1> QED BY <1>1, <1>2 DEF BookFill, table

LEMMA WipeOnce ==
  ASSUME TypeOK, Admission, Once,
         \/ Expire \/ \E target \in Targets : Publish(target)
         \/ \E w \in Wipers : Listen(w) \/ Wipe(w)
         \/ \E i \in Intents, w \in Wipers : AuditFill(i, w)
  PROVE  Once'
<1>1. UNCHANGED <<qty, render, admitted, orders>>
  BY DEF Expire, Publish, Listen, Wipe, Fetch, Flatten, AuditFill, table, ghosts
<1>2. Sent' /\ Unasked' /\ Unbooked'
  BY <1>1 DEF Once, Sent, Unasked, Unbooked, Empty, Book
<1>3. Fresh'
  <2> SUFFICES ASSUME NEW v \in Wipers, NEW r \in Rows, NEW n \in Int,
                      wipe'[v].pc = "next", <<Book(r), n>> \in wipe'[v].todo
               PROVE  n = qty[Book(r)] /\ n # 0
    BY <1>1 DEF Fresh, Book
  <2>1. CASE wipe'[v] = wipe[v]
    BY <2>1 DEF Once, Fresh
  <2>2. CASE Fetch(v)
    <3>1. wipe'[v] = [wipe[v] EXCEPT !.pc = "next",
                                     !.todo = {<<k, qty[k]>> : k \in Hit(wipe[v].target)}]
      BY <2>2 DEF Fetch, TypeOK, NoWipe
    <3>2. <<Book(r), n>> \in {<<k, qty[k]>> : k \in Hit(wipe[v].target)}
      BY <3>1 DEF TypeOK
    <3> QED BY <3>2 DEF Hit
  <2>3. \/ wipe'[v] = wipe[v] \/ Fetch(v)
    <3>1. ASSUME NEW w \in Wipers, NEW target, Begin(w, target) PROVE wipe'[v] = wipe[v]
      BY <3>1 DEF Begin, TypeOK, NoWipe
    <3>2. CASE \E w \in Wipers : Listen(w)
      BY <3>1, <3>2 DEF Listen
    <3>3. CASE \E i \in Intents, w \in Wipers : AuditFill(i, w)
      BY <3>1, <3>3 DEF AuditFill
    <3>4. ASSUME NEW w \in Wipers, Fetch(w) PROVE wipe'[v] = wipe[v] \/ Fetch(v)
      BY <3>4 DEF Fetch, TypeOK
    <3>5. ASSUME NEW w \in Wipers, Flatten(w) PROVE wipe'[v] = wipe[v]
      BY <3>5 DEF Flatten, TypeOK, NoWipe
    <3>6. CASE Expire \/ \E target \in Targets : Publish(target)
      BY <3>6 DEF Expire, Publish
    <3> QED BY <3>2, <3>3, <3>4, <3>5, <3>6 DEF Wipe
  <2> QED BY <2>1, <2>2, <2>3
<1> QED BY <1>2, <1>3 DEF Once

LEMMA OnceStep ==
  ASSUME TypeOK, Admission, Once, [Next]_vars
  PROVE  Once'
<1>1. ASSUME NEW i \in Intents, Render(i) PROVE Once'
  BY <1>1, ShadowOnce, StageOnce, OrderOnce, BookOnce DEF Render
<1>2. CASE Crash
  <2>1. /\ UNCHANGED <<qty, admitted, orders>>
        /\ \A i \in Intents : render'[i].pc \in {"new"} \cup Ended
        /\ \A i \in Intents : render'[i].pc = "new" => render[i].pc = "new"
        /\ \A w \in Wipers : wipe'[w] = NoWipe
    BY <1>2 DEF Crash, table, ghosts, Ended
  <2>2. Sent'
    BY <2>1 DEF Once, Sent, Behind, Ended
  <2>3. Unasked'
    BY <2>1 DEF Once, Unasked, Empty, Book
  <2>4. Unbooked'
    BY <2>1 DEF Unbooked, Ahead, Ended
  <2>5. Fresh'
    BY <2>1 DEF Fresh, NoWipe
  <2> QED BY <2>2, <2>3, <2>4, <2>5 DEF Once
<1>3. CASE UNCHANGED vars
  BY <1>3 DEF vars, table, ghosts, Once, Sent, Unasked, Unbooked, Fresh, Empty, Book
<1> QED BY <1>1, <1>2, <1>3, WipeOnce DEF Next

(* A wipe's trade is what the book says when the broker takes it.          *)
LEMMA OnceCloses ==
  ASSUME TypeOK, Once, Admission, [Next]_vars, NEW r \in Rows, net'[r] # net[r],
         orders' = orders
  PROVE  net'[r] = net[r] - qty[<<r, "Actual">>]
<1>1. ASSUME NEW w \in Wipers, Flatten(w) PROVE net'[r] = net[r] - qty[<<r, "Actual">>]
  <2>1. PICK p \in wipe[w].todo, reply \in Replies :
          net' = IF p[1][2] = "Actual" /\ reply \in {"ok", "lost"}
                 THEN [net EXCEPT ![p[1][1]] = @ - p[2]] ELSE net
    BY <1>1 DEF Flatten
  <2>2. p \in Keys \X Debts
    BY DEF TypeOK
  <2>3. p[1][2] = "Actual" /\ p[1][1] = r /\ net'[r] = net[r] - p[2]
    BY <2>1 DEF TypeOK
  <2>4. p[1] = Book(r) /\ p[2] \in Int /\ p = <<p[1], p[2]>>
    BY <2>2, <2>3 DEF Keys, Book, Debts
  <2>5. p[2] = qty[Book(r)]
    BY <1>1, <2>4 DEF Once, Fresh, Flatten
  <2> QED BY <2>3, <2>5 DEF Book
<1>2. ASSUME NEW i \in Intents, Render(i) PROVE FALSE
  <2>1. CASE LiveOrder(i)
    BY <2>1, OrderOnce
  <2>2. CASE ~LiveOrder(i)
    BY <1>2, <2>2 DEF Render, ShadowBuy, ShadowSelect, ShadowInsert, ShadowUpdate, CheckLock,
                SetLock, Unlock, CheckFeed, PaperFill, CheckHalt, TakeMargin, BookFill,
                CheckBreach
  <2> QED BY <2>1, <2>2
<1>3. CASE \/ Expire \/ Crash \/ \E target \in Targets : Publish(target)
           \/ \E w \in Wipers : Listen(w) \/ Fetch(w)
           \/ \E i \in Intents, w \in Wipers : AuditFill(i, w)
           \/ UNCHANGED vars
  BY <1>3 DEF Expire, Crash, Publish, Listen, Fetch, AuditFill, vars
<1> QED BY <1>1, <1>2, <1>3 DEF Next, Wipe

(* A panic trades what is booked, however late the broker is asked and     *)
(* whatever is asked for, filled, repeated or lost in between.             *)
THEOREM ClosesTheorem == Spec => ClosesWhatIsBooked
<1>1. Init => TypeOK /\ Selling /\ Once
  BY InitTypes, SellingInit, OnceInit
<1>2. TypeOK /\ Selling /\ Admission /\ Once /\ [Next]_vars => Once'
  BY OnceStep
<1>3. TypeOK /\ Admission /\ Once /\ [Next]_vars =>
        [\A r \in Rows :
           net'[r] # net[r] /\ orders' = orders =>
             net'[r] = net[r] - qty[<<r, "Actual">>]]_vars
  BY OnceCloses
<1>4. TypeOK /\ Selling /\ [Next]_vars => TypeOK' /\ Selling'
  BY StepTypes, SellingStep
<1> QED BY <1>1, <1>2, <1>3, <1>4, AdmissionInvariant, PTL DEF Spec, ClosesWhatIsBooked
=============================================================================
