--------------------------- MODULE StorageProofs ---------------------------
(***************************************************************************)
(* Proofs about the two stores of the probe: the configuration in the      *)
(* EEPROM (DeviceConfig) and the pools of the block allocator (MemManager).*)
(*                                                                         *)
(* The configuration store is proved for every number of pages, every set  *)
(* of settings and every page contents.                                    *)
(***************************************************************************)
EXTENDS DeviceConfig, MemManager, FiniteSetTheorems, TLAPS

(***************************************************************************)
(* What a save under way has done so far: from its second page on, the     *)
(* CRC in the EEPROM is the new one, and the pages below next are new.  It *)
(* counts as torn until it has ended.                                      *)
(***************************************************************************)
Progress ==
  /\ next # 0 => torn
  /\ conf # OFF /\ next > 1 =>
        /\ ecrc = conf
        /\ \A p \in Page : p < next => eeprom[p] = conf[p]

IInv == TypeOK /\ Progress /\ SavedUnlessTorn

(***************************************************************************)
(* Writing a page keeps the types of the EEPROM and touches only that      *)
(* page; the CRC changes with the first page and with no other.            *)
(***************************************************************************)
LEMMA ProgramLemma ==
    ASSUME TypeOK, conf # OFF, next # 0, Program
    PROVE  /\ eeprom' \in Config /\ ecrc' \in Config
           /\ next \in Page /\ conf \in Config
           /\ eeprom'[next] = conf[next]
           /\ \A p \in Page : p # next => eeprom'[p] = eeprom[p]
           /\ next = 1 => ecrc' = conf
           /\ next # 1 => ecrc' = ecrc
<1>1. next \in Page /\ conf \in Config /\ eeprom \in Config /\ ecrc \in Config
  BY PageCountAssumption DEF TypeOK, Page
<1>2. eeprom' = [eeprom EXCEPT ![next] = conf[next]] /\ conf[next] \in Value
  BY <1>1 DEF Program, Config
<1>3. ecrc' = IF next = 1 THEN conf ELSE ecrc
  BY DEF Program
<1> QED
  BY <1>1, <1>2, <1>3 DEF Config

(***************************************************************************)
(* The invariant holds when the probe is first switched on.                *)
(***************************************************************************)
LEMMA InitLemma == Init => IInv
  BY PageCountAssumption, ConfigAssumption
  DEF Init, IInv, TypeOK, Progress, SavedUnlessTorn

(***************************************************************************)
(* Every step of device_config.c and eeprom.c, every failed page and every *)
(* power cut preserves the invariant.                                      *)
(***************************************************************************)
LEMMA StepLemma == IInv /\ [Next]_vars => IInv'
<1> SUFFICES ASSUME IInv, [Next]_vars PROVE IInv'
  OBVIOUS
<1> USE PageCountAssumption, ConfigAssumption
<1>1. ASSUME NEW readOk \in BOOLEAN, device_config_init(readOk) PROVE IInv'
  <2>1. eeprom' = eeprom /\ ecrc' = ecrc /\ eeprom \in Config /\ ecrc \in Config
    BY <1>1 DEF device_config_init, IInv, TypeOK
  <2>2. CASE CrcMatches(readOk)
    <3>1. conf' = eeprom /\ next' = 0 /\ torn' = FALSE /\ ecrc = eeprom
      BY <1>1, <2>2 DEF device_config_init, CrcMatches
    <3>2. TypeOK'
      <4>1. torn' \in BOOLEAN
        BY <3>1, Zenon
      <4>2. next' \in 0..PageCount
        BY <3>1
      <4>3. conf' \in Config \cup {OFF} /\ eeprom' \in Config /\ ecrc' \in Config
        BY <2>1, <3>1, Zenon
      <4> QED
        BY <4>1, <4>2, <4>3, Zenon DEF TypeOK
    <3>3. Progress'
      <4>1. ~(next' # 0) /\ ~(next' > 1)
        BY <3>1
      <4> QED
        BY <4>1, Zenon DEF Progress
    <3>4. SavedUnlessTorn'
      BY <2>1, <3>1 DEF SavedUnlessTorn
    <3> QED
      BY <3>2, <3>3, <3>4 DEF IInv
  <2>3. CASE ~CrcMatches(readOk)
    <3>1. conf' = Default /\ next' = 1 /\ torn' = TRUE
      BY <1>1, <2>3 DEF device_config_init
    <3> QED
      BY <2>1, <3>1 DEF IInv, TypeOK, Progress, SavedUnlessTorn
  <2> QED
    BY <2>2, <2>3
<1>2. ASSUME NEW setting \in Settings, NEW value \in Config,
             device_config_set_value(setting, value)
      PROVE  IInv'
  <2> DEFINE new == [p \in Page |-> IF p \in setting THEN value[p] ELSE conf[p]]
  <2>1. conf \in Config
    BY <1>2 DEF device_config_set_value, IInv, TypeOK
  <2>2. new \in Config
    BY <2>1 DEF Config
  <2>3. conf' = new /\ next' = 1 /\ torn' = TRUE /\ eeprom' = eeprom /\ ecrc' = ecrc
    BY <1>2 DEF device_config_set_value
  <2> QED
    BY <2>2, <2>3 DEF IInv, TypeOK, Progress, SavedUnlessTorn
<1>3. CASE WritePage
  <2>1. /\ conf # OFF /\ next # 0 /\ Program /\ next' = AfterPage
        /\ torn' = (AfterPage # 0) /\ conf' = conf
    BY <1>3 DEF WritePage
  <2>2. /\ eeprom' \in Config /\ ecrc' \in Config
        /\ next \in Page /\ conf \in Config
        /\ eeprom'[next] = conf[next]
        /\ \A p \in Page : p # next => eeprom'[p] = eeprom[p]
        /\ next = 1 => ecrc' = conf
        /\ next # 1 => ecrc' = ecrc
    BY <2>1, ProgramLemma DEF IInv
  <2>3. ecrc' = conf
    BY <2>1, <2>2 DEF IInv, Progress, Page
  <2>4. \A p \in Page : p < next + 1 => eeprom'[p] = conf[p]
    BY <2>1, <2>2 DEF IInv, Progress, Page
  <2>5. next' \in 0..PageCount /\ torn' \in BOOLEAN
    BY <2>1, <2>2 DEF AfterPage, Page
  <2>6. TypeOK'
    BY <2>1, <2>2, <2>5 DEF TypeOK
  <2>7. Progress'
    <3>1. next' # 0 => torn'
      BY <2>1, Zenon
    <3>2. next' > 1 => next' = next + 1
      BY <2>1, <2>2 DEF AfterPage, Page
    <3> QED
      BY <2>1, <2>3, <2>4, <3>1, <3>2 DEF Progress
  <2>8. SavedUnlessTorn'
    <3>1. CASE next = PageCount
      <4>1. \A p \in Page : eeprom'[p] = conf[p]
        BY <3>1, <2>4 DEF Page
      <4>2. eeprom' = conf
        BY <4>1, <2>2 DEF Config
      <4> QED
        BY <4>2, <2>3, <2>1 DEF SavedUnlessTorn
    <3>2. CASE next # PageCount
      BY <3>2, <2>1, <2>2 DEF SavedUnlessTorn, AfterPage, Page
    <3> QED
      BY <3>1, <3>2
  <2> QED
    BY <2>6, <2>7, <2>8 DEF IInv
<1>4. ASSUME NEW acknowledged \in BOOLEAN, PageFails(acknowledged) PROVE IInv'
  <2>1. conf # OFF /\ next # 0 /\ next' = 0 /\ conf' = conf /\ torn' = torn
    BY <1>4 DEF PageFails
  <2>2. eeprom' \in Config /\ ecrc' \in Config
    <3>1. CASE acknowledged
      BY <3>1, <1>4, <2>1, ProgramLemma DEF PageFails, IInv
    <3>2. CASE ~acknowledged
      BY <3>2, <1>4 DEF PageFails, IInv, TypeOK
    <3> QED
      BY <3>1, <3>2
  <2>3. torn
    BY <2>1 DEF IInv, Progress
  <2> QED
    BY <2>1, <2>2, <2>3 DEF IInv, TypeOK, Progress, SavedUnlessTorn
<1>5. CASE PowerCut
  BY <1>5 DEF PowerCut, IInv, TypeOK, Progress, SavedUnlessTorn
<1>6. CASE UNCHANGED vars
  BY <1>6 DEF vars, IInv, TypeOK, Progress, SavedUnlessTorn
<1> QED
  BY <1>1, <1>2, <1>3, <1>4, <1>5, <1>6 DEF Next

(***************************************************************************)
(* The inductive invariant holds in every reachable state.                 *)
(***************************************************************************)
THEOREM ConfigInvariant == Spec => []IInv
<1>1. Init => IInv
  BY InitLemma
<1>2. IInv /\ [Next]_vars => IInv'
  BY StepLemma
<1> QED
  BY <1>1, <1>2, PTL DEF Spec

\* The configuration in RAM and in the EEPROM keeps its types (device_config_t).
THEOREM ConfigTypeOK == Spec => []TypeOK
<1>1. IInv => TypeOK
  BY DEF IInv
<1> QED
  BY <1>1, ConfigInvariant, PTL

(***************************************************************************)
(* Unless a page failed or the power was cut, the EEPROM holds the         *)
(* configuration in use and its CRC whenever eeprom_write is not running.  *)
(***************************************************************************)
THEOREM SaveIsComplete == Spec => []SavedUnlessTorn
<1>1. IInv => SavedUnlessTorn
  BY DEF IInv
<1> QED
  BY <1>1, ConfigInvariant, PTL

(***************************************************************************)
(* A first state of the probe is a first state of the store.               *)
(***************************************************************************)
LEMMA StoreInitLemma == Init => Store!StoreInit
  BY DEF Init, Store!StoreInit, Accepted

(***************************************************************************)
(* Every step maps to a step of the store or changes nothing it sees: only *)
(* the write of a page changes what a start would accept, and only to the  *)
(* configuration being saved or to nothing.                                *)
(***************************************************************************)
LEMMA StoreStepLemma ==
    IInv /\ IInv' /\ [Next]_vars => [Store!StoreNext]_(Store!storeVars)
<1> SUFFICES ASSUME IInv, IInv', [Next]_vars
             PROVE  Store!StoreNext \/ (conf' = conf /\ Accepted' = Accepted)
  BY DEF Store!storeVars
<1> USE PageCountAssumption, ConfigAssumption
<1>1. ASSUME NEW readOk \in BOOLEAN, device_config_init(readOk)
      PROVE  Store!Start
  <2>1. conf = OFF /\ eeprom' = eeprom /\ ecrc' = ecrc /\ eeprom \in Config
    BY <1>1 DEF device_config_init, IInv, TypeOK
  <2>2. Accepted' = Accepted
    BY <2>1 DEF Accepted
  <2>3. conf' \in {Default} \cup ({Accepted} \ {INVALID})
    BY <1>1, <2>1 DEF device_config_init, CrcMatches, Accepted
  <2> QED
    BY <2>1, <2>2, <2>3 DEF Store!Start
<1>2. ASSUME NEW setting \in Settings, NEW value \in Config,
             device_config_set_value(setting, value)
      PROVE  Store!Change
  <2>1. conf # OFF /\ conf' # OFF /\ eeprom' = eeprom /\ ecrc' = ecrc
    <3>1. conf \in Config
      BY <1>2 DEF device_config_set_value, IInv, TypeOK
    <3>2. [p \in Page |-> IF p \in setting THEN value[p] ELSE conf[p]] \in Config
      BY <3>1 DEF Config
    <3> QED
      BY <1>2, <3>2 DEF device_config_set_value
  <2>2. conf' \in Config
    BY <2>1 DEF IInv, TypeOK
  <2>3. Accepted' = Accepted
    BY <2>1 DEF Accepted
  <2> QED
    BY <2>1, <2>2, <2>3 DEF Store!Change
<1>3. ASSUME conf # OFF, next # 0, Program, conf' = conf
      PROVE  Store!Save
  <2>1. ecrc' = conf
    <3>1. /\ next \in Page
          /\ next = 1 => ecrc' = conf
          /\ next # 1 => ecrc' = ecrc
      BY <1>3, ProgramLemma DEF IInv
    <3>2. next # 1 => ecrc = conf
      BY <3>1, <1>3 DEF IInv, Progress, Page
    <3> QED
      BY <3>1, <3>2
  <2>2. Accepted' \in {INVALID, conf}
    BY <2>1 DEF Accepted
  <2> QED
    BY <1>3, <2>2 DEF Store!Save
<1>4. CASE WritePage
  BY <1>3, <1>4 DEF WritePage, Store!StoreNext
<1>5. ASSUME NEW acknowledged \in BOOLEAN, PageFails(acknowledged)
      PROVE  Store!Save \/ (conf' = conf /\ Accepted' = Accepted)
  <2>1. CASE acknowledged
    BY <1>3, <1>5, <2>1 DEF PageFails
  <2>2. CASE ~acknowledged
    <3>1. conf' = conf /\ eeprom' = eeprom /\ ecrc' = ecrc
      BY <1>5, <2>2 DEF PageFails
    <3> QED
      BY <3>1 DEF Accepted
  <2> QED
    BY <2>1, <2>2
<1>6. CASE PowerCut
  <2>1. conf' = OFF /\ eeprom' = eeprom /\ ecrc' = ecrc
    BY <1>6 DEF PowerCut
  <2>2. Accepted' = Accepted
    BY <2>1 DEF Accepted
  <2> QED
    BY <2>1, <2>2 DEF Store!Stop, Store!StoreNext
<1>7. CASE UNCHANGED vars
  <2>1. conf' = conf /\ eeprom' = eeprom /\ ecrc' = ecrc
    BY <1>7 DEF vars
  <2> QED
    BY <2>1 DEF Accepted
<1>8. (Store!Start \/ Store!Change \/ Store!Save) => Store!StoreNext
  BY DEF Store!StoreNext
<1> QED
  BY <1>1, <1>2, <1>4, <1>5, <1>6, <1>7, <1>8 DEF Next

(***************************************************************************)
(* The EEPROM image written page by page implements the abstract store.    *)
(***************************************************************************)
THEOREM Refinement == Spec => ImplementsStore
<1>1. Init => Store!StoreInit
  BY StoreInitLemma
<1>2. IInv /\ IInv' /\ [Next]_vars => [Store!StoreNext]_(Store!storeVars)
  BY StoreStepLemma
<1> QED
  BY <1>1, <1>2, ConfigInvariant, PTL DEF Spec, Store!StoreSpec, ImplementsStore

-----------------------------------------------------------------------------
(***************************************************************************)
(* The block allocator, for any table of pools with strictly increasing    *)
(* block sizes, any number of tasks and any requests.  It shares no state  *)
(* with the configuration store.                                           *)
(***************************************************************************)

(***************************************************************************)
(* The inductive invariant.  NeverShared is not inductive by itself: that  *)
(* a receive takes a block nobody else has is PoolsHoldOwnFreeBlocks, and  *)
(* that one needs NeverShared when a block is given back.                  *)
(***************************************************************************)
MemIInv ==
    /\ MemTypeOK
    /\ NeverShared
    /\ PoolsHoldOwnFreeBlocks
    /\ OnlyLongjmpLeaks
    /\ ServedBySmallestFit
    /\ \A t \in Tasks : InFlight(t) \intersect abandoned = {}

(***************************************************************************)
(* A pool has as many blocks as its queue has slots (xQueueCreate and the  *)
(* loop of MemManager_Init use the same bufCount).                         *)
(***************************************************************************)
LEMMA BlocksOfCardinality ==
    ASSUME NEW i \in Pools
    PROVE  /\ IsFiniteSet(BlocksOf(i))
           /\ Cardinality(BlocksOf(i)) = BufCount[i]
<1> DEFINE f == [n \in 1..BufCount[i] |-> <<i, n>>]
<1>1. BufCount[i] \in Nat
  BY BufCountAssumption
<1>2. IsFiniteSet(1..BufCount[i]) /\ Cardinality(1..BufCount[i]) = BufCount[i]
  BY <1>1, FS_Interval
<1>3. f \in Bijection(1..BufCount[i], BlocksOf(i))
  BY DEF Bijection, Injection, Surjection, BlocksOf, IsInjective
<1> QED
  BY <1>2, <1>3, FS_Bijection DEF ExistsBijection

\* A block's pool is the only one MemManager_Free can find for it.
LEMMA FreePoolIsOwn ==
    ASSUME NEW i \in Pools, NEW b \in BlocksOf(i)
    PROVE  FreePool(b) = {i}
BY PoolCountAssumption, BufSizeAssumption DEF FreePool,
       ItemSize, BlocksOf, Pools

\* While one of its blocks is out, the queue of a pool has room.
LEMMA RoomForOwnBlock ==
    ASSUME NEW i \in Pools, NEW b \in BlocksOf(i),
           queue[i] \subseteq BlocksOf(i), b \notin queue[i]
    PROVE  HasRoom(i)
<1>1. IsFiniteSet(BlocksOf(i)) /\ Cardinality(BlocksOf(i)) = BufCount[i]
  BY BlocksOfCardinality
<1>2. /\ IsFiniteSet(queue[i])
      /\ Cardinality(queue[i]) <= BufCount[i]
      /\ Cardinality(queue[i]) # BufCount[i]
  BY <1>1, FS_Subset
<1>3. Cardinality(queue[i]) \in Nat /\ BufCount[i] \in Nat
  BY <1>1, <1>2, FS_CardinalityType
<1> QED
  BY <1>2, <1>3 DEF HasRoom

LEMMA MemInitIInv == MemManager_Init => MemIInv
<1> SUFFICES ASSUME MemManager_Init PROVE MemIInv
  OBVIOUS
<1>1. \A t \in Tasks : InFlight(t) = {}
  BY DEF MemManager_Init, InFlight
<1>2. MemTypeOK
  BY DEF MemManager_Init, MemTypeOK, Blocks
<1>3. PoolsHoldOwnFreeBlocks
  BY <1>1 DEF MemManager_Init, PoolsHoldOwnFreeBlocks
<1>4. OnlyLongjmpLeaks
  BY <1>1 DEF MemManager_Init, OnlyLongjmpLeaks, Blocks
<1>5. NeverShared
  BY <1>1 DEF MemManager_Init, NeverShared
<1>6. ServedBySmallestFit
  BY DEF MemManager_Init, ServedBySmallestFit
<1> QED
  BY <1>1, <1>2, <1>3, <1>4, <1>5, <1>6 DEF MemIInv

LEMMA MemReceiveIInv ==
    ASSUME MemIInv, NEW t \in Tasks, NEW size \in Requests, Receive(t, size)
    PROVE  MemIInv'
<1> USE DEF MemIInv
<1>1. PICK i \in AllocPool(size) : \E b \in queue[i] :
        /\ queue' = [queue EXCEPT ![i] = @ \ {b}]
        /\ fresh' = [fresh EXCEPT ![t] = b]
  BY DEF Receive
<1>2. PICK b \in queue[i] :
        /\ queue' = [queue EXCEPT ![i] = @ \ {b}]
        /\ fresh' = [fresh EXCEPT ![t] = b]
  BY <1>1
<1>3. i \in Pools /\ b \in BlocksOf(i) /\ b \in Blocks /\ b # NULL
  BY NullAssumption DEF AllocPool, PoolsHoldOwnFreeBlocks, Blocks
<1>4. /\ InFlight(t)' = InFlight(t) \union {b}
      /\ \A u \in Tasks : u # t => InFlight(u)' = InFlight(u)
  BY <1>2, <1>3 DEF Receive, InFlight, MemTypeOK
<1>5. \A u \in Tasks : b \notin InFlight(u)
  BY <1>3 DEF PoolsHoldOwnFreeBlocks
<1>6. MemTypeOK'
  BY <1>2, <1>3 DEF Receive, MemTypeOK
<1>7. NeverShared'
  <2>1. \A u, v \in Tasks : u # v => (InFlight(u) \intersect InFlight(v) = {})'
    BY <1>4, <1>5 DEF NeverShared
  <2>2. \A u \in Tasks : (fresh[u] \notin held[u])'
    BY <1>2, <1>5 DEF NeverShared, Receive, MemTypeOK, InFlight
  <2> QED BY <2>1, <2>2 DEF NeverShared
<1>8. PoolsHoldOwnFreeBlocks'
  BY <1>2, <1>3, <1>4 DEF PoolsHoldOwnFreeBlocks, Receive, MemTypeOK, BlocksOf
<1>9. OnlyLongjmpLeaks'
  <2>1. \A c \in Blocks, j \in Pools : c \in queue[j] => c = b \/ c \in queue'[j]
    BY <1>2 DEF MemTypeOK
  <2>2. \A c \in Blocks, u \in Tasks : c \in InFlight(u) => c \in InFlight(u)'
    BY <1>4
  <2>3. b \in InFlight(t)'
    BY <1>4
  <2> QED BY <2>1, <2>2, <2>3 DEF OnlyLongjmpLeaks, Receive
<1>10. ServedBySmallestFit'
  <2>1. ItemSize(b) = BufSize[i]
    BY <1>3 DEF ItemSize, BlocksOf
  <2>2. \A j \in Pools : size <= BufSize[j] => BufSize[i] <= BufSize[j]
    BY <1>3, PoolCountAssumption, BufSizeAssumption DEF 
        AllocPool, Fits, Pools
  <2>3. size <= BufSize[i]
    BY DEF AllocPool, Fits
  <2> QED
    BY <1>2, <2>1, <2>2, <2>3 DEF ServedBySmallestFit, Receive, MemTypeOK, ItemSize
<1>11. \A u \in Tasks : (InFlight(u) \intersect abandoned = {})'
  BY <1>3, <1>4 DEF Receive, PoolsHoldOwnFreeBlocks
<1> QED
  BY <1>6, <1>7, <1>8, <1>9, <1>10, <1>11

LEMMA MemZeroAndReturnIInv ==
    ASSUME MemIInv, NEW t \in Tasks, ZeroAndReturn(t)
    PROVE  MemIInv'
<1> USE DEF MemIInv
<1>1. \A u \in Tasks : InFlight(u)' = InFlight(u)
  BY NullAssumption DEF ZeroAndReturn, InFlight, MemTypeOK
<1>2. MemTypeOK'
  BY DEF ZeroAndReturn, MemTypeOK
<1>3. NeverShared'
  <2>1. \A u \in Tasks : (fresh[u] \notin held[u])'
    BY <1>2, NullAssumption DEF ZeroAndReturn, NeverShared, MemTypeOK
  <2> QED BY <1>1, <2>1 DEF NeverShared
<1>4. PoolsHoldOwnFreeBlocks' /\ OnlyLongjmpLeaks'
  BY <1>1 DEF ZeroAndReturn, PoolsHoldOwnFreeBlocks, OnlyLongjmpLeaks
<1>5. ServedBySmallestFit'
  BY DEF ZeroAndReturn, ServedBySmallestFit, MemTypeOK
<1> QED
  BY <1>1, <1>2, <1>3, <1>4, <1>5 DEF ZeroAndReturn

LEMMA MemFreeIInv ==
    ASSUME MemIInv, NEW t \in Tasks, NEW b \in Blocks, Free(t, b)
    PROVE  MemIInv'
<1> USE DEF MemIInv
<1>1. PICK i \in Pools : b \in BlocksOf(i)
  BY DEF Blocks
<1>2. /\ b \in InFlight(t)
      /\ \A j \in Pools : b \notin queue[j]
      /\ \A u \in Tasks : u # t => b \notin InFlight(u)
      /\ b \notin abandoned
  BY DEF Free, InFlight, PoolsHoldOwnFreeBlocks, NeverShared
<1>3. HasRoom(i) /\ FreePool(b) = {i}
  BY <1>1, <1>2, RoomForOwnBlock, FreePoolIsOwn DEF PoolsHoldOwnFreeBlocks
<1>4. /\ queue' = [queue EXCEPT ![i] = @ \union {b}]
      /\ dropped' = dropped
  BY <1>1, <1>3 DEF Free, MemTypeOK
<1>5. /\ InFlight(t)' = InFlight(t) \ {b}
      /\ \A u \in Tasks : u # t => InFlight(u)' = InFlight(u)
  BY DEF Free, InFlight, MemTypeOK, NeverShared
<1>6. MemTypeOK'
  BY <1>1, <1>4 DEF Free, MemTypeOK
<1>7. NeverShared'
  <2>1. \A u \in Tasks : (fresh[u] \notin held[u])'
    BY DEF Free, NeverShared, MemTypeOK
  <2> QED BY <1>5, <2>1 DEF NeverShared
<1>8. PoolsHoldOwnFreeBlocks'
  BY <1>1, <1>2, <1>4, <1>5 DEF Free, PoolsHoldOwnFreeBlocks, MemTypeOK
<1>9. OnlyLongjmpLeaks'
  <2>1. \A c \in Blocks, j \in Pools : c \in queue[j] => c \in queue'[j]
    BY <1>4 DEF MemTypeOK
  <2>2. \A c \in Blocks, u \in Tasks : c \in InFlight(u) => c = b \/ c \in InFlight(u)'
    BY <1>5
  <2>3. b \in queue'[i]
    BY <1>1, <1>4 DEF MemTypeOK
  <2> QED BY <2>1, <2>2, <2>3 DEF OnlyLongjmpLeaks, Free
<1>10. ServedBySmallestFit' /\ \A u \in Tasks : (InFlight(u) \intersect abandoned = {})'
  BY <1>5 DEF Free, ServedBySmallestFit
<1> QED
  BY <1>6, <1>7, <1>8, <1>9, <1>10

LEMMA MemAbandonIInv ==
    ASSUME MemIInv, NEW t \in Tasks, NEW b \in Blocks, Abandon(t, b)
    PROVE  MemIInv'
<1> USE DEF MemIInv
<1>1. /\ b \in InFlight(t)
      /\ \A j \in Pools : b \notin queue[j]
      /\ \A u \in Tasks : u # t => b \notin InFlight(u)
  BY DEF Abandon, InFlight, PoolsHoldOwnFreeBlocks, NeverShared
<1>2. /\ InFlight(t)' = InFlight(t) \ {b}
      /\ \A u \in Tasks : u # t => InFlight(u)' = InFlight(u)
  BY DEF Abandon, InFlight, MemTypeOK, NeverShared
<1>3. MemTypeOK'
  BY DEF Abandon, MemTypeOK
<1>4. NeverShared'
  <2>1. \A u \in Tasks : (fresh[u] \notin held[u])'
    BY DEF Abandon, NeverShared, MemTypeOK
  <2> QED BY <1>2, <2>1 DEF NeverShared
<1>5. PoolsHoldOwnFreeBlocks'
  BY <1>1, <1>2 DEF Abandon, PoolsHoldOwnFreeBlocks
<1>6. OnlyLongjmpLeaks'
  <2>1. \A c \in Blocks, u \in Tasks : c \in InFlight(u) => c = b \/ c \in InFlight(u)'
    BY <1>2
  <2> QED BY <2>1 DEF OnlyLongjmpLeaks, Abandon
<1>7. ServedBySmallestFit' /\ \A u \in Tasks : (InFlight(u) \intersect abandoned = {})'
  BY <1>1, <1>2 DEF Abandon, ServedBySmallestFit
<1> QED
  BY <1>3, <1>4, <1>5, <1>6, <1>7

LEMMA MemNextIInv == MemIInv /\ [MemNext]_memVars => MemIInv'
<1> SUFFICES ASSUME MemIInv, [MemNext]_memVars PROVE MemIInv'
  OBVIOUS
<1>1. ASSUME NEW t \in Tasks, NEW size \in Requests, Receive(t, size) PROVE MemIInv'
  BY <1>1, MemReceiveIInv
<1>2. ASSUME NEW t \in Tasks, ZeroAndReturn(t) PROVE MemIInv'
  BY <1>2, MemZeroAndReturnIInv
<1>3. ASSUME NEW t \in Tasks, NEW b \in Blocks, Free(t, b) PROVE MemIInv'
  BY <1>3, MemFreeIInv
<1>4. ASSUME NEW t \in Tasks, NEW b \in Blocks, Abandon(t, b) PROVE MemIInv'
  BY <1>4, MemAbandonIInv
<1>5. CASE UNCHANGED memVars
  BY <1>5 DEF memVars, MemIInv, MemTypeOK, NeverShared, PoolsHoldOwnFreeBlocks,
      OnlyLongjmpLeaks, ServedBySmallestFit, InFlight
<1> QED
  BY <1>1, <1>2, <1>3, <1>4, <1>5 DEF MemNext, Step

\* Every reachable state of the allocator satisfies the inductive invariant.
THEOREM AllocatorInvariant == MemSpec => []MemIInv
<1>1. MemManager_Init => MemIInv
  BY MemInitIInv
<1>2. MemIInv /\ [MemNext]_memVars => MemIInv'
  BY MemNextIInv
<1> QED
  BY <1>1, <1>2, PTL DEF MemSpec

\* The allocator's state keeps its type.
THEOREM TypeCorrect == MemSpec => []MemTypeOK
<1>1. MemIInv => MemTypeOK
  BY DEF MemIInv
<1> QED BY <1>1, AllocatorInvariant, PTL

(***************************************************************************)
(* The unlocked allocator never hands one block to two tasks, and what is  *)
(* in a pool's queue belongs there and to nobody else.                     *)
(***************************************************************************)
THEOREM ExclusiveOwnership == MemSpec => [](NeverShared /\ PoolsHoldOwnFreeBlocks)
<1>1. MemIInv => NeverShared /\ PoolsHoldOwnFreeBlocks
  BY DEF MemIInv
<1> QED BY <1>1, AllocatorInvariant, PTL

\* Ignoring the result of xQueueSendToFront loses no block: only longjmp does.
THEOREM NoBlockDropped == MemSpec => []OnlyLongjmpLeaks
<1>1. MemIInv => OnlyLongjmpLeaks
  BY DEF MemIInv
<1> QED BY <1>1, AllocatorInvariant, PTL

(***************************************************************************)
(* MemManager_Alloc serves a request from the first pool that fits and     *)
(* from no other, so the caller may use as many bytes as it asked for.     *)
(***************************************************************************)
THEOREM ServedFromFirstFit == MemSpec => []ServedBySmallestFit
<1>1. MemIInv => ServedBySmallestFit
  BY DEF MemIInv
<1> QED BY <1>1, AllocatorInvariant, PTL

=============================================================================
