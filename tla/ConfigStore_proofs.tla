------------------------ MODULE ConfigStore_proofs ------------------------
(***************************************************************************)
(* What ConfigStore keeps for any dates, values and bounds.  The index is  *)
(* proved with a potential: a record for which an index is due still has   *)
(* one change of the date to its credit.                                   *)
(***************************************************************************)
EXTENDS ConfigStore, TLAPS

\* What SpiPageAdressLookup does to a record keeps it a record of the file.
LEMMA SyncedType ==
  ASSUME NEW r \in Config
  PROVE  /\ Synced(r) \in Config
         /\ Synced(r).settings = r.settings
         /\ Synced(r).index = r.index /\ Synced(r).cycles = r.cycles
         /\ Synced(Synced(r)) = Synced(r)
<1>1. CASE r.sync
  BY <1>1 DEF Synced
<1>2. CASE ~r.sync
  <2>1. FirstDate \in AnyDate
    BY DEF FirstDate, AnyDate
  <2>2. Synced(r) = [r EXCEPT !.sync = TRUE, !.date = FirstDate]
    BY <1>2 DEF Synced
  <2>3. /\ Synced(r) \in Config
        /\ Synced(r).settings = r.settings /\ Synced(r).sync
        /\ Synced(r).index = r.index /\ Synced(r).cycles = r.cycles
    BY <2>1, <2>2 DEF Config
  <2>4. Synced(Synced(r)) = Synced(r)
    BY <2>3 DEF Synced
  <2>5. QED
    BY <2>3, <2>4
<1>3. QED
  BY <1>1, <1>2

LEMMA IndexedType ==
  ASSUME NEW r \in Config, NEW date \in AnyDate
  PROVE  /\ Indexed(r, date) \in Config
         /\ Indexed(r, date).index = r.index + 1
         /\ Indexed(r, date).cycles = 0
         /\ Indexed(r, date).date = date
         /\ Indexed(r, date).sync = r.sync
<1>1. r.index + 1 \in Nat /\ 0 \in 0..255
  BY DEF Config
<1>2. QED
  BY <1>1 DEF Indexed, Config

LEMMA CyclesType ==
  ASSUME NEW r \in Config, NEW n \in 0..255
  PROVE  LET s == [r EXCEPT !.cycles = n]
         IN s \in Config /\ s.cycles = n /\ s.index = r.index
            /\ s.date = r.date /\ s.sync = r.sync /\ s.settings = r.settings
BY DEF Config

LEMMA CyclesRange ==
  ASSUME NEW r \in Config
  PROVE  (r.cycles + 1) % 256 \in 0..255 /\ (r.cycles + 1) % 256 <= r.cycles + 1
BY DEF Config

\* The record PowerCycleCounted leaves.
LEMMA CountedRecord ==
  ASSUME ram \in Config, PowerCycleCounted
  PROVE  /\ ram' \in Config /\ ram'.sync = Synced(ram).sync
         /\ ram'.date = Synced(ram).date /\ ram'.index = ram.index
         /\ ram'.cycles <= ram.cycles + 1
<1> DEFINE n == (Synced(ram).cycles + 1) % 256
<1>1. /\ Synced(ram) \in Config /\ Synced(ram).index = ram.index
      /\ Synced(ram).cycles = ram.cycles
  BY SyncedType
<1>2. n \in 0..255 /\ n <= ram.cycles + 1
  BY <1>1, CyclesRange
<1>3. ram' = [Synced(ram) EXCEPT !.cycles = n]
  BY DEF PowerCycleCounted
<1> HIDE DEF n
<1>4. QED
  BY <1>1, <1>2, <1>3, CyclesType

LEMMA SettingsType ==
  ASSUME NEW r \in Config, NEW f \in Field, NEW v \in Nat
  PROVE  LET s == [r EXCEPT !.settings[f] = v]
         IN s \in Config /\ s.cycles = r.cycles /\ s.index = r.index
            /\ s.date = r.date /\ s.sync = r.sync
BY DEF Config

LEMMA TimeSyncType ==
  ASSUME NEW r \in Config, NEW on \in BOOLEAN, NEW date \in AnyDate
  PROVE  LET s == [r EXCEPT !.sync = on, !.date = IF on THEN date ELSE @]
         IN s \in Config /\ s.cycles = r.cycles /\ s.index = r.index
BY DEF Config

LEMMA ZeroedType == Zeroed \in Config /\ Zeroed.index = 0 /\ Zeroed.cycles = 0
BY DEF Zeroed, Config, AnyDate

LEMMA DeliveredType ==
  Delivered \in Config /\ Delivered.index = 0 /\ Delivered.cycles = 0
<1>1. Provisioned \in [Field -> Nat]
  BY DEF Provisioned
<1>2. QED
  BY <1>1, ZeroedType DEF Delivered, Config

LEMMA DateType ==
  ASSUME TypeOK
  PROVE  tm \in AnyDate /\ current \in AnyDate
BY DatesAssumption DEF TypeOK, AnyDate, DummyDate
-----------------------------------------------------------------------------
\* The types: the only delicate part is that every step of the lookup and of
\* the RPC handler leaves records of the file.
LEMMA TypeInit == Init => TypeOK
<1> SUFFICES ASSUME Init PROVE TypeOK
  OBVIOUS
<1>1. Provisioned \in [Field -> Nat]
  BY DEF Provisioned
<1>2. rpcs \in 0..MaxRpcs
  BY BoundsAssumption DEF Init
<1>3. ram \in Config /\ flash \in Config
  BY ZeroedType, DeliveredType DEF Init
<1>4. wanted \in [Field -> Nat]
  BY <1>1 DEF Init
<1>5. tm \in Dates \cup {DummyDate} /\ current \in Dates \cup {DummyDate}
  BY DEF Init
<1>6. shifts \in Nat \ {0} /\ boots \in Nat \ {0} /\ PowerCyleIndication \in {0, 1}
  BY DEF Init
<1>7. /\ blank \in BOOLEAN /\ loaded \in BOOLEAN
      /\ lookup \in {"idle", "read", "update", "open", "write"}
      /\ rpc \in {"idle", "open", "write"}
  BY DEF Init
<1>8. QED
  BY <1>2, <1>3, <1>4, <1>5, <1>6, <1>7 DEF TypeOK

LEMMA TypeStep == TypeOK /\ [Next]_vars => TypeOK'
<1> SUFFICES ASSUME TypeOK, [Next]_vars PROVE TypeOK'
  OBVIOUS
<1> USE DEF TypeOK
<1>1. CASE LookupStart
  BY <1>1 DEF LookupStart, storeVars, historyVars
<1>2. CASE LookupRead
  BY <1>2 DEF LookupRead
<1>3. CASE NewDateIndexed
  <2>1. ram' \in Config
    BY <1>3, SyncedType, IndexedType, DateType DEF NewDateIndexed
  <2>2. QED
    BY <1>3, <2>1 DEF NewDateIndexed, CycleCounted, Save, historyVars
<1>4. CASE PowerCycleCounted
  <2>1. ram' \in Config
    BY <1>4, CountedRecord
  <2>2. QED
    BY <1>4, <2>1 DEF PowerCycleCounted, CycleCounted, Save, historyVars
<1>5. CASE AlreadyUpdated
  BY <1>5, SyncedType DEF AlreadyUpdated, historyVars
<1>6. CASE WrongDate
  <2>1. ram' \in Config
    <3>1. Synced(ram) \in Config /\ 0 \in 0..255
      BY SyncedType
    <3>2. QED
      BY <1>6, <3>1, CyclesType DEF WrongDate
  <2>2. QED
    BY <1>6, <2>1 DEF WrongDate, Save, historyVars
<1>7. CASE LookupOpen
  BY <1>7 DEF LookupOpen, Truncate, historyVars
<1>8. CASE LookupWrite
  BY <1>8 DEF LookupWrite, Write, historyVars
<1>9. ASSUME NEW f \in Field, NEW v \in Values, RpcSetField(f, v) PROVE TypeOK'
  <2>1. v \in Nat
    BY ValuesAssumption
  <2>2. ram' \in Config
    BY <1>9, <2>1, SettingsType DEF RpcSetField
  <2>3. rpcs' \in 0..MaxRpcs /\ wanted' \in [Field -> Nat]
    BY <1>9, <2>1, BoundsAssumption DEF RpcSetField
  <2>4. QED
    BY <1>9, <2>2, <2>3 DEF RpcSetField, Save
<1>10. ASSUME NEW on \in BOOLEAN, RpcTimeSync(on) PROVE TypeOK'
  <2>1. ram' \in Config
    BY <1>10, TimeSyncType, DateType DEF RpcTimeSync
  <2>2. rpcs' \in 0..MaxRpcs /\ shifts' \in Nat \ {0}
    BY <1>10, BoundsAssumption DEF RpcTimeSync
  <2>3. QED
    BY <1>10, <2>1, <2>2 DEF RpcTimeSync, Save
<1>11. CASE RpcOpen
  BY <1>11 DEF RpcOpen, Truncate, historyVars
<1>12. CASE RpcWrite
  BY <1>12 DEF RpcWrite, Write, historyVars
<1>13. CASE DateChange
  BY <1>13 DEF DateChange, storeVars
<1>14. CASE PowerCycle
  <2>1. ram' \in Config
    BY <1>14, ZeroedType DEF PowerCycle
  <2>2. shifts' \in Nat \ {0} /\ boots' \in Nat \ {0}
    BY <1>14 DEF PowerCycle
  <2>3. QED
    BY <1>14, <2>1, <2>2 DEF PowerCycle
<1>15. CASE UNCHANGED vars
  BY <1>15 DEF vars, storeVars, historyVars
<1>16. QED
  BY <1>1, <1>2, <1>3, <1>4, <1>5, <1>6, <1>7, <1>8, <1>9, <1>10, <1>11, <1>12,
     <1>13, <1>14, <1>15 DEF Next, Lookup, Rpc

\* Type correctness of the configuration store.
THEOREM TypeCorrect == Spec => []TypeOK
BY TypeInit, TypeStep, PTL DEF Spec
-----------------------------------------------------------------------------
(* The index.  Credit is what a record can still cost: one index that is due  *)
(* on the date of tm, and in the middle of a lookup one on the date noted at  *)
(* its start and one more when tm has moved on since.                         *)
DueBit(r, date) == IF Due(r, date) THEN 1 ELSE 0
StaleBit        == IF current = tm THEN 0 ELSE 1

Credit(r) ==
  /\ r.index + DueBit(r, tm) <= shifts
  /\ lookup \in {"read", "update"} =>
       r.index + DueBit(r, current) + StaleBit <= shifts

IndexInv == Credit(ram) /\ Credit(flash)

LEMMA Bits ==
  /\ \A r, date : DueBit(r, date) \in {0, 1}
  /\ StaleBit \in {0, 1} /\ StaleBit' \in {0, 1}
BY DEF DueBit, StaleBit

\* A record is due by its date and by LookupTimeSync alone.
LEMMA DueByDate ==
  ASSUME NEW r \in Config, NEW s \in Config, NEW date,
         s.sync = r.sync, s.date = r.date
  PROVE  DueBit(s, date) = DueBit(r, date)
<1>1. Synced(s).date = Synced(r).date
  BY DEF Synced, Config
<1>2. QED
  BY <1>1 DEF DueBit, Due, NewYear, NewDay, SameYear

\* Noting LookupTimeSync and the first date does not change what is due.
LEMMA DueSynced ==
  ASSUME NEW r \in Config, NEW s \in Config, NEW date,
         s.sync = Synced(r).sync, s.date = Synced(r).date
  PROVE  DueBit(s, date) = DueBit(r, date)
<1>1. Synced(r) \in Config /\ Synced(Synced(r)) = Synced(r)
  BY SyncedType
<1>2. DueBit(s, date) = DueBit(Synced(r), date)
  BY <1>1, DueByDate
<1>3. QED
  BY <1>1, <1>2 DEF DueBit, Due

\* An indexed record is not due again on the same date.
LEMMA NotDueAgain ==
  ASSUME NEW r \in Config, NEW date \in AnyDate
  PROVE  DueBit(Indexed(Synced(r), date), date) = 0
<1>1. /\ Synced(r) \in Config
      /\ Indexed(Synced(r), date) \in Config
      /\ Indexed(Synced(r), date).date = date
      /\ Indexed(Synced(r), date).sync = Synced(r).sync
  BY SyncedType, IndexedType
<1>2. Synced(r).sync
  BY DEF Synced, Config
<1>3. Synced(Indexed(Synced(r), date)) = Indexed(Synced(r), date)
  BY <1>1, <1>2 DEF Synced
<1>4. ~(date.y > date.y)
  BY DEF AnyDate
<1>5. QED
  BY <1>1, <1>3, <1>4 DEF DueBit, Due, NewYear, NewDay, SameYear

\* Every lookup that indexes a record spends the credit of its date.
LEMMA IndexStep ==
  ASSUME TypeOK, IndexInv, [Next]_vars
  PROVE  IndexInv'
<1> USE DEF TypeOK
<1>0. /\ ram \in Config /\ flash \in Config /\ shifts \in Nat
      /\ ram.index \in Nat /\ flash.index \in Nat
      /\ tm \in AnyDate /\ current \in AnyDate
  BY DateType DEF Config
<1>1. CASE LookupStart
  <2>1. /\ ram' = ram /\ flash' = flash /\ shifts' = shifts /\ tm' = tm
        /\ current' = tm /\ StaleBit' = 0
    BY <1>1 DEF LookupStart, storeVars, historyVars, StaleBit
  <2>2. /\ DueBit(ram, tm)' = DueBit(ram, tm) /\ DueBit(ram, current)' = DueBit(ram, tm)
        /\ DueBit(flash, tm)' = DueBit(flash, tm) /\ DueBit(flash, current)' = DueBit(flash, tm)
    BY <2>1 DEF DueBit, Due, NewYear, NewDay, SameYear, Synced
  <2>3. QED
    BY <1>0, <2>1, <2>2, Bits DEF IndexInv, Credit
<1>2. CASE LookupRead
  <2>1. /\ ram' \in {ram, flash} /\ flash' = flash /\ shifts' = shifts /\ tm' = tm
        /\ current' = current /\ StaleBit' = StaleBit
        /\ lookup = "read" /\ lookup' = "update"
    BY <1>2 DEF LookupRead, StaleBit
  <2>2. QED
    BY <2>1 DEF IndexInv, Credit
<1>3. CASE NewDateIndexed
  <2>1. /\ ram' = Indexed(Synced(ram), current) /\ flash' = flash
        /\ shifts' = shifts /\ tm' = tm /\ current' = current
        /\ lookup = "update" /\ lookup' = "open" /\ DueBit(ram, current) = 1
    BY <1>3 DEF NewDateIndexed, Save, historyVars, DueBit
  <2>2. /\ ram'.index = ram.index + 1
        /\ current = tm => DueBit(ram', tm) = 0
    BY <1>0, <2>1, SyncedType, IndexedType, NotDueAgain
  <2>3. ram'.index + DueBit(ram', tm) <= shifts
    <3>1. ram.index + 1 + StaleBit <= shifts
      BY <2>1 DEF IndexInv, Credit
    <3>2. CASE current = tm
      BY <1>0, <2>2, <3>1, <3>2, Bits DEF StaleBit
    <3>3. CASE current # tm
      BY <1>0, <2>2, <3>1, <3>3, Bits DEF StaleBit
    <3>4. QED
      BY <3>2, <3>3
  <2>4. QED
    BY <2>1, <2>3 DEF IndexInv, Credit
<1>4. ASSUME ram' \in Config, ram'.sync = Synced(ram).sync, ram'.date = Synced(ram).date,
             ram'.index = ram.index, lookup = "update", lookup' \notin {"read", "update"},
             flash' = flash, shifts' = shifts, tm' = tm, current' = current
      PROVE  IndexInv'
  <2>1. DueBit(ram', tm) = DueBit(ram, tm)
    BY <1>0, <1>4, DueSynced
  <2>2. QED
    BY <1>4, <2>1 DEF IndexInv, Credit
<1>5. CASE PowerCycleCounted
  <2>1. /\ ram' \in Config /\ ram'.sync = Synced(ram).sync
        /\ ram'.date = Synced(ram).date /\ ram'.index = ram.index
    BY <1>0, <1>5, CountedRecord
  <2>2. QED
    BY <1>4, <1>5, <2>1 DEF PowerCycleCounted, Save, historyVars
<1>6. CASE AlreadyUpdated
  BY <1>0, <1>4, <1>6, SyncedType DEF AlreadyUpdated, historyVars
<1>7. CASE WrongDate
  <2>1. Synced(ram) \in Config /\ 0 \in 0..255
    BY <1>0, SyncedType
  <2>2. /\ ram' \in Config /\ ram'.sync = Synced(ram).sync
        /\ ram'.date = Synced(ram).date /\ ram'.index = ram.index
    BY <1>0, <1>7, <2>1, SyncedType, CyclesType DEF WrongDate
  <2>3. QED
    BY <1>4, <1>7, <2>2 DEF WrongDate, Save, historyVars
<1>8. ASSUME flash' \in {flash, ram}, ram' = ram, shifts' = shifts, tm' = tm,
             current' = current,
             lookup' = lookup \/ lookup' \notin {"read", "update"}
      PROVE  IndexInv'
  BY <1>8 DEF IndexInv, Credit, StaleBit, DueBit, Due
<1>9. CASE LookupOpen
  BY <1>8, <1>9 DEF LookupOpen, Truncate, historyVars
<1>10. CASE LookupWrite
  BY <1>8, <1>10 DEF LookupWrite, Write, historyVars
<1>11. CASE RpcOpen
  BY <1>8, <1>11 DEF RpcOpen, Truncate, historyVars
<1>12. CASE RpcWrite
  BY <1>8, <1>12 DEF RpcWrite, Write, historyVars
<1>13. ASSUME NEW f \in Field, NEW v \in Values, RpcSetField(f, v) PROVE IndexInv'
  <2>1. v \in Nat
    BY ValuesAssumption
  <2>2. /\ ram' \in Config /\ ram'.sync = ram.sync
        /\ ram'.date = ram.date /\ ram'.index = ram.index
    BY <1>0, <1>13, <2>1, SettingsType DEF RpcSetField
  <2>3. /\ flash' = flash /\ shifts' = shifts /\ tm' = tm /\ current' = current
        /\ lookup' = lookup
    BY <1>13 DEF RpcSetField
  <2>4. DueBit(ram', tm) = DueBit(ram, tm) /\ DueBit(ram', current) = DueBit(ram, current)
    BY <1>0, <2>2, DueByDate
  <2>5. QED
    BY <2>2, <2>3, <2>4 DEF IndexInv, Credit, StaleBit
<1>14. ASSUME NEW on \in BOOLEAN, RpcTimeSync(on) PROVE IndexInv'
  <2>1. ram'.index = ram.index
    BY <1>0, <1>14, TimeSyncType DEF RpcTimeSync
  <2>2. /\ flash' = flash /\ shifts' = shifts + 1 /\ tm' = tm /\ current' = current
        /\ lookup' = lookup
    BY <1>14 DEF RpcTimeSync
  <2>3. Credit(flash)'
    BY <1>0, <2>2, Bits DEF IndexInv, Credit, StaleBit
  <2>4. ram.index <= shifts /\ (lookup \in {"read", "update"} => ram.index + StaleBit <= shifts)
    BY <1>0, Bits DEF IndexInv, Credit
  <2>5. Credit(ram)'
    BY <1>0, <2>1, <2>2, <2>4, Bits DEF Credit, StaleBit
  <2>6. QED
    BY <2>3, <2>5 DEF IndexInv
<1>15. CASE DateChange
  <2>1. /\ ram' = ram /\ flash' = flash /\ shifts' = shifts + 1 /\ current' = current
        /\ lookup' = lookup
    BY <1>15 DEF DateChange, storeVars
  <2>2. ASSUME NEW r \in {ram, flash}, Credit(r) PROVE r.index + DueBit(r, tm') <= shifts + 1
    BY <1>0, <2>2, Bits DEF Credit
  <2>3. ASSUME NEW r \in {ram, flash}, Credit(r), lookup \in {"read", "update"}
        PROVE  r.index + DueBit(r, current) + StaleBit' <= shifts + 1
    BY <1>0, <2>3, Bits DEF Credit
  <2>4. QED
    BY <2>1, <2>2, <2>3 DEF IndexInv, Credit
<1>16. CASE PowerCycle
  <2>1. /\ ram' = Zeroed /\ flash' = flash /\ shifts' = shifts + 1 /\ lookup' = "idle"
    BY <1>16 DEF PowerCycle
  <2>2. ram'.index + DueBit(ram', tm') <= shifts + 1
    BY <1>0, <2>1, ZeroedType, Bits
  <2>3. flash.index + DueBit(flash, tm') <= shifts + 1
    BY <1>0, Bits DEF IndexInv, Credit
  <2>4. QED
    BY <2>1, <2>2, <2>3 DEF IndexInv, Credit
<1>17. CASE UNCHANGED vars
  BY <1>8, <1>17 DEF vars, storeVars, historyVars
<1>18. QED
  BY <1>1, <1>2, <1>3, <1>5, <1>6, <1>7, <1>9, <1>10, <1>11, <1>12, <1>13, <1>14,
     <1>15, <1>16, <1>17 DEF Next, Lookup, Rpc

\* However the lookup, the RPC handler, the clock and the power supply
\* interleave, a date is not indexed again while it stays the date.
THEOREM IndexedOnce == Spec => []OneIndexPerDate
<1>1. Init => IndexInv
  BY ZeroedType, DeliveredType, Bits DEF Init, IndexInv, Credit
<1>2. TypeOK /\ IndexInv => OneIndexPerDate
  BY Bits DEF IndexInv, Credit, OneIndexPerDate, TypeOK, Config
<1>3. QED
  BY TypeCorrect, IndexStep, <1>1, <1>2, PTL DEF Spec
-----------------------------------------------------------------------------
(* The power cycles: a boot that is still to be counted has not cost anything *)
(* yet, neither in the RAM copy nor in the file.                              *)
Uncounted(r) == r.cycles + PowerCyleIndication <= boots

CycleInv == Uncounted(ram) /\ Uncounted(flash)

LEMMA CycleStep ==
  ASSUME TypeOK, CycleInv, [Next]_vars
  PROVE  CycleInv'
<1> USE DEF TypeOK
<1>0. /\ ram \in Config /\ flash \in Config /\ boots \in Nat
      /\ ram.cycles \in Nat /\ flash.cycles \in Nat /\ PowerCyleIndication \in {0, 1}
  BY DEF Config
<1>1. ASSUME ram'.cycles + PowerCyleIndication' <= boots, flash' = flash,
             PowerCyleIndication' \in {0, PowerCyleIndication}, boots' = boots
      PROVE  CycleInv'
  BY <1>0, <1>1 DEF CycleInv, Uncounted
<1>2. ASSUME ram' \in {ram, flash}, flash' \in {ram, flash},
             PowerCyleIndication' = PowerCyleIndication, boots' = boots
      PROVE  CycleInv'
  BY <1>2 DEF CycleInv, Uncounted
<1>3. CASE LookupStart
  BY <1>2, <1>3 DEF LookupStart, storeVars, historyVars
<1>4. CASE LookupRead
  BY <1>2, <1>4 DEF LookupRead
<1>5. CASE NewDateIndexed
  <2>1. /\ ram'.cycles = 0
        /\ PowerCyleIndication' = 0 /\ flash' = flash /\ boots' = boots
    BY <1>0, <1>5, SyncedType, IndexedType, DateType
       DEF NewDateIndexed, CycleCounted, historyVars
  <2>2. QED
    BY <1>0, <1>1, <2>1
<1>6. CASE PowerCycleCounted
  <2>1. /\ ram'.cycles <= ram.cycles + 1 /\ ram'.cycles \in Nat
        /\ PowerCyleIndication = 1 /\ PowerCyleIndication' = 0
        /\ flash' = flash /\ boots' = boots
    BY <1>0, <1>6, CountedRecord DEF PowerCycleCounted, CycleCounted, historyVars, Config
  <2>2. ram.cycles + 1 <= boots
    BY <2>1 DEF CycleInv, Uncounted
  <2>3. QED
    BY <1>0, <1>1, <2>1, <2>2
<1>7. CASE AlreadyUpdated
  <2>1. /\ ram'.cycles = ram.cycles
        /\ PowerCyleIndication' = PowerCyleIndication /\ flash' = flash /\ boots' = boots
    BY <1>0, <1>7, SyncedType DEF AlreadyUpdated, historyVars
  <2>2. QED
    BY <1>1, <2>1 DEF CycleInv, Uncounted
<1>8. CASE WrongDate
  <2>1. Synced(ram) \in Config /\ 0 \in 0..255
    BY <1>0, SyncedType
  <2>2. /\ ram'.cycles = 0
        /\ PowerCyleIndication' = PowerCyleIndication /\ flash' = flash /\ boots' = boots
    BY <1>8, <2>1, CyclesType DEF WrongDate, historyVars
  <2>3. QED
    BY <1>0, <1>1, <2>2 DEF CycleInv, Uncounted
<1>9. CASE LookupOpen
  BY <1>2, <1>9 DEF LookupOpen, Truncate, historyVars
<1>10. CASE LookupWrite
  BY <1>2, <1>10 DEF LookupWrite, Write, historyVars
<1>11. CASE RpcOpen
  BY <1>2, <1>11 DEF RpcOpen, Truncate, historyVars
<1>12. CASE RpcWrite
  BY <1>2, <1>12 DEF RpcWrite, Write, historyVars
<1>13. ASSUME ram'.cycles = ram.cycles, flash' = flash,
              PowerCyleIndication' = PowerCyleIndication, boots' = boots
       PROVE  CycleInv'
  BY <1>13 DEF CycleInv, Uncounted
<1>14. ASSUME NEW f \in Field, NEW v \in Values, RpcSetField(f, v) PROVE CycleInv'
  <2>1. ram'.cycles = ram.cycles
    BY <1>0, <1>14, ValuesAssumption, SettingsType DEF RpcSetField
  <2>2. QED
    BY <1>13, <1>14, <2>1 DEF RpcSetField
<1>15. ASSUME NEW on \in BOOLEAN, RpcTimeSync(on) PROVE CycleInv'
  <2>1. ram'.cycles = ram.cycles
    BY <1>0, <1>15, TimeSyncType, DateType DEF RpcTimeSync
  <2>2. QED
    BY <1>13, <1>15, <2>1 DEF RpcTimeSync
<1>16. CASE DateChange
  BY <1>2, <1>16 DEF DateChange, storeVars
<1>17. CASE PowerCycle
  <2>1. /\ ram'.cycles = 0 /\ flash' = flash
        /\ PowerCyleIndication' = 1 /\ boots' = boots + 1
    BY <1>17, ZeroedType DEF PowerCycle
  <2>2. flash.cycles <= boots
    BY <1>0 DEF CycleInv, Uncounted
  <2>3. QED
    BY <1>0, <2>1, <2>2 DEF CycleInv, Uncounted
<1>18. CASE UNCHANGED vars
  BY <1>2, <1>18 DEF vars, storeVars, historyVars
<1>19. QED
  BY <1>3, <1>4, <1>5, <1>6, <1>7, <1>8, <1>9, <1>10, <1>11, <1>12, <1>14, <1>15,
     <1>16, <1>17, <1>18 DEF Next, Lookup, Rpc

\* Every boot is counted at most once, in the RAM copy and in the file, however
\* many rounds of connecting it has.
THEOREM CountedOnce == Spec => []OneCyclePerBoot
<1>1. Init => CycleInv
  BY ZeroedType, DeliveredType DEF Init, CycleInv, Uncounted
<1>2. TypeOK /\ CycleInv => OneCyclePerBoot
  BY DEF CycleInv, Uncounted, OneCyclePerBoot, TypeOK, Config
<1>3. QED
  BY TypeCorrect, CycleStep, <1>1, <1>2, PTL DEF Spec
-----------------------------------------------------------------------------
(* RAM copy and file.  They may differ only between a change and its write, by *)
(* the thread that made the change.                                            *)
Matched == /\ ram.settings = flash.settings
           /\ ram.index = flash.index /\ ram.cycles = flash.cycles

MatchInv == loaded /\ ~blank /\ lookup \notin {"open", "write"} /\ rpc = "idle" => Matched

LEMMA MatchStep ==
  ASSUME TypeOK, MatchInv, [Next]_vars
  PROVE  MatchInv'
<1>0. ram \in Config
  BY DEF TypeOK
<1>1. CASE LookupStart
  BY <1>1 DEF LookupStart, storeVars, historyVars, MatchInv, Matched
<1>2. CASE LookupRead
  BY <1>2 DEF LookupRead, MatchInv, Matched
<1>3. CASE NewDateIndexed \/ PowerCycleCounted \/ WrongDate
  BY <1>3 DEF NewDateIndexed, PowerCycleCounted, WrongDate, Save, MatchInv
<1>4. CASE AlreadyUpdated
  BY <1>0, <1>4, SyncedType DEF AlreadyUpdated, historyVars, MatchInv, Matched
<1>5. CASE LookupOpen \/ RpcOpen
  BY <1>5 DEF LookupOpen, RpcOpen, Truncate, MatchInv
<1>6. CASE LookupWrite \/ RpcWrite
  BY <1>6 DEF LookupWrite, RpcWrite, Write, historyVars, MatchInv, Matched
<1>7. ASSUME rpc' = "open" PROVE MatchInv'
  BY <1>7 DEF MatchInv
<1>8. ASSUME NEW f \in Field, NEW v \in Values, RpcSetField(f, v) PROVE MatchInv'
  BY <1>7, <1>8 DEF RpcSetField, Save
<1>9. ASSUME NEW on \in BOOLEAN, RpcTimeSync(on) PROVE MatchInv'
  BY <1>7, <1>9 DEF RpcTimeSync, Save
<1>10. CASE DateChange
  BY <1>10 DEF DateChange, storeVars, MatchInv, Matched
<1>11. CASE PowerCycle
  BY <1>11 DEF PowerCycle, MatchInv
<1>12. CASE UNCHANGED vars
  BY <1>12 DEF vars, storeVars, historyVars, MatchInv, Matched
<1>13. QED
  BY <1>1, <1>2, <1>3, <1>4, <1>5, <1>6, <1>8, <1>9, <1>10, <1>11, <1>12
     DEF Next, Lookup, Rpc

\* Once the file has been read, the RMU runs with what it finds after the next
\* boot, whenever no write is under way.
THEOREM SavedMatches == Spec => []RamMatchesFlash
<1>1. Init => MatchInv
  BY DEF Init, MatchInv
<1>2. MatchInv => RamMatchesFlash
  BY DEF MatchInv, Matched, RamMatchesFlash
<1>3. QED
  BY TypeCorrect, MatchStep, <1>1, <1>2, PTL DEF Spec
-----------------------------------------------------------------------------
(* RpcKeepsSettings fails (run config_wiped).  What follows says exactly what *)
(* the code would have to rule out: three steps taken at the wrong moment.    *)

\* An RPC changes the RAM copy only once the file has been read into it, ...
SetWhenLoaded == rpc = "idle" /\ rpc' # "idle" => loaded

\* ... the lookup does not read the file between an RPC's change and its write,
\* ...
ReadWhenSaved == LookupRead => rpc # "open"

\* ... and the power does not go between a change and the end of its write.
CutWhenSaved == PowerCycle => rpc # "open" /\ ~blank

Orderly == SetWhenLoaded /\ ReadWhenSaved /\ CutWhenSaved

\* Under them the RAM copy has the settings that were asked for from the first
\* read on, and the file has them whenever it is not being written or due to be.
SettingsInv ==
  /\ loaded => ram.settings = wanted
  /\ ~loaded => rpc = "idle" /\ ~blank /\ lookup \in {"idle", "read"}
  /\ rpc # "open" /\ ~blank => flash.settings = wanted

\* What the lookup does to a record leaves its settings alone.
LEMMA LookupKeepsSettings ==
  ASSUME TypeOK, NewDateIndexed \/ PowerCycleCounted \/ AlreadyUpdated \/ WrongDate
  PROVE  ram'.settings = ram.settings
<1> DEFINE s == Synced(ram)
<1>1. s \in Config /\ s.settings = ram.settings
  BY SyncedType DEF TypeOK
<1>2. ram' = Indexed(s, current) \/ (\E n : ram' = [s EXCEPT !.cycles = n]) \/ ram' = s
  BY DEF NewDateIndexed, PowerCycleCounted, AlreadyUpdated, WrongDate
<1> HIDE DEF s
<1>3. CASE ram' = Indexed(s, current)
  BY <1>1, <1>3 DEF Indexed, Config
<1>4. ASSUME NEW n, ram' = [s EXCEPT !.cycles = n] PROVE ram'.settings = ram.settings
  BY <1>1, <1>4 DEF Config
<1>5. QED
  BY <1>1, <1>2, <1>3, <1>4

LEMMA SettingsStep ==
  ASSUME TypeOK, SettingsInv, [Next]_vars, [Orderly]_vars
  PROVE  SettingsInv'
<1> USE DEF SettingsInv
<1>1. CASE UNCHANGED vars
  BY <1>1 DEF vars, storeVars, historyVars
<1> SUFFICES ASSUME Next, Orderly PROVE SettingsInv'
  BY <1>1
<1>2. CASE LookupStart
  BY <1>2 DEF LookupStart, storeVars, historyVars
<1>3. CASE LookupRead
  <2>1. rpc # "open"
    BY <1>3 DEF Orderly, ReadWhenSaved
  <2>2. CASE blank
    BY <1>3, <2>2 DEF LookupRead
  <2>3. CASE ~blank
    BY <1>3, <2>1, <2>3 DEF LookupRead
  <2>4. QED
    BY <2>2, <2>3
<1>4. CASE NewDateIndexed \/ PowerCycleCounted \/ AlreadyUpdated \/ WrongDate
  <2>1. ram'.settings = ram.settings
    BY <1>4, LookupKeepsSettings
  <2>2. lookup = "update" /\ UNCHANGED <<flash, blank, rpc, loaded, wanted>>
    BY <1>4 DEF NewDateIndexed, PowerCycleCounted, AlreadyUpdated, WrongDate, historyVars
  <2>3. QED
    BY <2>1, <2>2
<1>5. CASE LookupOpen \/ RpcOpen
  BY <1>5 DEF LookupOpen, RpcOpen, Truncate, historyVars
<1>6. CASE LookupWrite \/ RpcWrite
  <2>1. loaded
    BY <1>6 DEF LookupWrite, RpcWrite
  <2>2. UNCHANGED <<ram, loaded, wanted>> /\ (blank' \/ flash' = ram)
    BY <1>6 DEF LookupWrite, RpcWrite, Write, historyVars
  <2>3. QED
    BY <2>1, <2>2
<1>7. ASSUME NEW f \in Field, NEW v \in Values, RpcSetField(f, v)
      PROVE  SettingsInv'
  <2>1. /\ ram \in Config /\ ram' = [ram EXCEPT !.settings[f] = v]
        /\ wanted' = [wanted EXCEPT ![f] = v] /\ loaded' = loaded /\ rpc' = "open"
    BY <1>7 DEF RpcSetField, Save, TypeOK
  <2>2. loaded
    BY <1>7, <2>1 DEF Orderly, SetWhenLoaded, RpcSetField
  <2>3. ram'.settings = wanted'
    BY <2>1, <2>2 DEF Config
  <2>4. QED
    BY <2>1, <2>2, <2>3
<1>8. ASSUME NEW on \in BOOLEAN, RpcTimeSync(on)
      PROVE  SettingsInv'
  <2>1. /\ ram \in Config /\ rpc' = "open" /\ loaded' = loaded /\ wanted' = wanted
        /\ ram' = [ram EXCEPT !.sync = on, !.date = IF on THEN tm ELSE @]
    BY <1>8 DEF RpcTimeSync, Save, TypeOK
  <2>2. loaded
    BY <1>8, <2>1 DEF Orderly, SetWhenLoaded, RpcTimeSync
  <2>3. ram'.settings = ram.settings
    BY <2>1 DEF Config
  <2>4. QED
    BY <2>1, <2>2, <2>3
<1>9. CASE DateChange
  BY <1>9 DEF DateChange, storeVars
<1>10. CASE PowerCycle
  BY <1>10 DEF PowerCycle, Orderly, CutWhenSaved
<1>11. QED
  BY <1>2, <1>3, <1>4, <1>5, <1>6, <1>7, <1>8, <1>9, <1>10 DEF Next, Lookup, Rpc

\* Nothing else can lose a setting: if no RPC comes before the first read, no
\* read of the lookup and no power cut falls between an RPC's change and its
\* write, then whatever the two threads do besides, and although writes fail,
\* the file keeps every setting an RPC made along with all the others.
THEOREM SettingsKeptIfOrderly == Spec /\ [][Orderly]_vars => []RpcKeepsSettings
<1>1. Init => SettingsInv
  BY DEF Init, SettingsInv, Delivered, Zeroed
<1>2. SettingsInv => RpcKeepsSettings
  BY DEF SettingsInv, RpcKeepsSettings
<1>3. QED
  BY TypeCorrect, SettingsStep, <1>1, <1>2, PTL DEF Spec
=============================================================================
