----------------------------- MODULE MemManager -----------------------------
(***************************************************************************)
(* The fixed-size block allocator of mem_manager.c, the only allocator of  *)
(* the GDB server, the target layer and the USB tasks.                     *)
(*                                                                         *)
(* A pool is a FreeRTOS queue of free blocks.  The mutex that was meant to *)
(* guard the pools is never taken (both xSemaphoreTake calls are commented *)
(* out), so an allocation is a sequence of steps of the calling task, with *)
(* steps of other tasks in between: the queue receive, the zeroing of the  *)
(* block, the return.  Only the two queue operations are atomic.           *)
(*                                                                         *)
(* The order of the blocks inside one pool is abstracted away: which free  *)
(* block a receive returns does not matter to any caller.                  *)
(***************************************************************************)
EXTENDS Naturals, FiniteSets

CONSTANTS
    PoolCount,     \* POOL_AMOUNT
    BufSize,       \* MEM_MANAGER_POOL_CONFIG[].bufSize, pool -> bytes
    BufCount,      \* MEM_MANAGER_POOL_CONFIG[].bufCount, pool -> blocks
    Tasks,         \* FreeRTOS tasks that allocate
    Requests,      \* sizes the tasks ask for
    NULL           \* the null pointer

Pools == 1..PoolCount

ASSUME PoolCountAssumption == PoolCount \in Nat

ASSUME BufSizeAssumption ==
    /\ BufSize \in [Pools -> Nat]
    /\ \A i, j \in Pools : i < j => BufSize[i] < BufSize[j]

ASSUME BufCountAssumption == BufCount \in [Pools -> Nat]

ASSUME RequestsAssumption == Requests \subseteq Nat

(***************************************************************************)
(* A block is named by the pool MemManager_Init made it for and a number.  *)
(* The size header of a block is written once, in MemManager_Init.         *)
(***************************************************************************)
BlocksOf(i) == {<<i, n>> : n \in 1..BufCount[i]}

Blocks == UNION {BlocksOf(i) : i \in Pools}

ItemSize(b) == BufSize[b[1]]

ASSUME NullAssumption == NULL \notin Blocks

VARIABLES
    queue,      \* memManagerPools[i].queue: the free blocks of pool i
    fresh,      \* fresh[t]: the block task t took off a queue and is zeroing
    asked,      \* asked[t]: the size of the request fresh[t] serves
    held,       \* held[t]: blocks returned to t and not yet given back
    dropped,    \* blocks MemManager_Free put in no queue
    abandoned   \* blocks whose owner was left by longjmp

memVars == <<queue, fresh, asked, held, dropped, abandoned>>

(***************************************************************************)
(* MemManager_Init: every block is sent to the queue of its own pool.      *)
(***************************************************************************)
MemManager_Init ==
    /\ queue = [i \in Pools |-> BlocksOf(i)]
    /\ fresh = [t \in Tasks |-> NULL]
    /\ asked = [t \in Tasks |-> 0]
    /\ held = [t \in Tasks |-> {}]
    /\ dropped = {}
    /\ abandoned = {}

(***************************************************************************)
(* The pool the search loop of MemManager_Alloc stops at: the first whose  *)
(* blocks are large enough.  An empty pool ends the search (the break of   *)
(* the else branch): larger pools are not tried and the call returns NULL, *)
(* which changes nothing.                                                  *)
(***************************************************************************)
Fits(i, size) == size <= BufSize[i]

AllocPool(size) ==
    {i \in Pools : Fits(i, size) /\ \A j \in Pools : Fits(j, size) => i <= j}

\* Mutant: xQueuePeek instead of xQueueReceive.
ReceivePeek(t, size) ==
    /\ fresh[t] = NULL
    /\ \E i \in AllocPool(size) : \E b \in queue[i] :
         fresh' = [fresh EXCEPT ![t] = b]
    /\ asked' = [asked EXCEPT ![t] = size]
    /\ UNCHANGED <<queue, held, dropped, abandoned>>

\* MemManager_Alloc up to a successful xQueueReceive.
Receive(t, size) ==
    /\ fresh[t] = NULL
    /\ \E i \in AllocPool(size) : \E b \in queue[i] :
         /\ queue' = [queue EXCEPT ![i] = @ \ {b}]
         /\ fresh' = [fresh EXCEPT ![t] = b]
    /\ asked' = [asked EXCEPT ![t] = size]
    /\ UNCHANGED <<held, dropped, abandoned>>

\* memset of the block, and the return of its address to the caller.
ZeroAndReturn(t) ==
    /\ fresh[t] # NULL
    /\ held' = [held EXCEPT ![t] = @ \union {fresh[t]}]
    /\ fresh' = [fresh EXCEPT ![t] = NULL]
    /\ UNCHANGED <<queue, asked, dropped, abandoned>>

(***************************************************************************)
(* MemManager_Free.  The pool is found from the size header of the block;  *)
(* the result of xQueueSendToFront is ignored, so a block sent to a full   *)
(* queue, or whose size is the size of no pool, is in no queue afterwards. *)
(***************************************************************************)
FreePool(b) == {i \in Pools : BufSize[i] = ItemSize(b)}

\* Mutant: the queues are created one slot short.
HasRoomShort(i) == Cardinality(queue[i]) + 1 < BufCount[i]

HasRoom(i) == Cardinality(queue[i]) < BufCount[i]

Free(t, b) ==
    /\ fresh[t] = NULL
    /\ b \in held[t]
    /\ held' = [held EXCEPT ![t] = @ \ {b}]
    /\ IF \E i \in FreePool(b) : HasRoom(i)
       THEN /\ queue' = [i \in Pools |-> IF i \in FreePool(b)
                                         THEN queue[i] \union {b}
                                         ELSE queue[i]]
            /\ UNCHANGED dropped
       ELSE /\ dropped' = dropped \union {b}
            /\ UNCHANGED queue
    /\ UNCHANGED <<fresh, asked, abandoned>>

(***************************************************************************)
(* raise_exception leaves the functions between it and the enclosing       *)
(* TRY_CATCH by longjmp: the block such a function still owns (the command *)
(* string of handle_q_packet, the argv of command_process, the text of     *)
(* gdb_outf) is never given back.                                          *)
(***************************************************************************)
Abandon(t, b) ==
    /\ fresh[t] = NULL
    /\ b \in held[t]
    /\ held' = [held EXCEPT ![t] = @ \ {b}]
    /\ abandoned' = abandoned \union {b}
    /\ UNCHANGED <<queue, fresh, asked, dropped>>

Step(t) ==
    \/ \E size \in Requests : Receive(t, size)
    \/ ZeroAndReturn(t)
    \/ \E b \in Blocks : Free(t, b) \/ Abandon(t, b)

MemNext == \E t \in Tasks : Step(t)

MemSpec == MemManager_Init /\ [][MemNext]_memVars

-----------------------------------------------------------------------------
(***************************************************************************)
(* Properties.                                                             *)
(***************************************************************************)

\* The type of the allocator's state.
MemTypeOK ==
    /\ queue \in [Pools -> SUBSET Blocks]
    /\ fresh \in [Tasks -> Blocks \union {NULL}]
    /\ asked \in [Tasks -> Requests \union {0}]
    /\ held \in [Tasks -> SUBSET Blocks]
    /\ dropped \in SUBSET Blocks
    /\ abandoned \in SUBSET Blocks

(***************************************************************************)
(* Although nothing locks the pools, MemManager_Alloc never gives a block  *)
(* to two tasks, never gives out a block that is still in a queue, and     *)
(* MemManager_Free returns a block only to the pool it was made for.       *)
(***************************************************************************)
InFlight(t) == held[t] \union ({fresh[t]} \ {NULL})

NeverShared ==
    /\ \A t, u \in Tasks : t # u => InFlight(t) \intersect InFlight(u) = {}
    /\ \A t \in Tasks : fresh[t] \notin held[t]

PoolsHoldOwnFreeBlocks ==
    \A i \in Pools :
        /\ queue[i] \subseteq BlocksOf(i)
        /\ queue[i] \intersect abandoned = {}
        /\ \A t \in Tasks : queue[i] \intersect InFlight(t) = {}

(***************************************************************************)
(* MemManager_Free ignores the result of xQueueSendToFront.  That is safe: *)
(* the queue of the block's pool always has room for it, so the only       *)
(* blocks the system ever loses are the ones a longjmp abandons.           *)
(***************************************************************************)
OnlyLongjmpLeaks ==
    \A b \in Blocks :
        \/ \E i \in Pools : b \in queue[i]
        \/ \E t \in Tasks : b \in InFlight(t)
        \/ b \in abandoned

(***************************************************************************)
(* The block being returned is large enough for the request, and no pool   *)
(* with smaller blocks would have been.                                    *)
(***************************************************************************)
ServedBySmallestFit ==
    \A t \in Tasks : fresh[t] # NULL =>
        /\ asked[t] <= ItemSize(fresh[t])
        /\ \A i \in Pools : asked[t] <= BufSize[i] => ItemSize(fresh[t]) <= BufSize[i]

=============================================================================
