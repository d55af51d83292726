--------------------------- MODULE CedarRunProofs ---------------------------
(***************************************************************************)
(* What holds of cedar_run for any number of calls, overlapping or not,    *)
(* any size of the pool, any limits and any readers. What is per call is   *)
(* proved of each call by itself: the pool, and what the cleanup releases. *)
(* The libraries are shared: a global is set only while a call is active   *)
(* that will still clear it, and a call that met no other one has the      *)
(* libraries for itself.                                                   *)
(***************************************************************************)
EXTENDS CedarRun, TLAPS

(* What the tables of the module say, entry by entry *)
LEMMA Tables ==
    /\ AcquirePcs = {"fb", "fbuf", "ops", "open", "make", "init", "pool", "desc"}
    /\ Acquires["fb"] = {"fb"} /\ Acquires["fbuf"] = {"fbuf"} /\ Acquires["ops"] = {}
    /\ Acquires["open"] = {"mem"} /\ Acquires["make"] = {"enc"}
    /\ Acquires["init"] = {"init"} /\ Acquires["pool"] = {"pool"}
    /\ Acquires["desc"] = {"desc"}
    /\ Follows["fb"] = "fbuf" /\ Follows["fbuf"] = "ve" /\ Follows["ops"] = "open"
    /\ Follows["open"] = "make" /\ Follows["make"] = "init" /\ Follows["init"] = "pool"
    /\ Follows["pool"] = "desc" /\ Follows["desc"] = "get"
    /\ Follows["ve"] = "memory" /\ Follows["memory"] = "venc" /\ Follows["venc"] = "syms"
  BY DEF Acquires, Follows, AcquirePcs

LEMMA UnloadTables ==
    /\ ClosePcs = {"close_venc", "close_memory", "close_ve"}
    /\ Closes["close_venc"] = "venc" /\ Closes["close_memory"] = "memory"
    /\ Closes["close_ve"] = "ve"
    /\ ClearPcs = {"clear_venc", "clear_memory", "clear_ve"}
    /\ Clears["clear_venc"] = "venc" /\ Clears["clear_memory"] = "memory"
    /\ Clears["clear_ve"] = "ve"
    /\ AfterUnload["venc"] = "close_memory" /\ AfterUnload["memory"] = "close_ve"
    /\ AfterUnload["ve"] = "return"
  BY DEF Closes, Clears, AfterUnload, ClosePcs, ClearPcs

LEMMA ReleaseTables ==
    /\ ReleasePcs = {"free_pool", "uninit", "destroy", "close_mem"}
    /\ Releases["free_pool"] = "pool" /\ Releases["uninit"] = "init"
    /\ Releases["destroy"] = "enc" /\ Releases["close_mem"] = "mem"
    /\ AfterRelease["free_pool"] = "uninit" /\ AfterRelease["uninit"] = "destroy"
    /\ AfterRelease["destroy"] = "close_mem" /\ AfterRelease["close_mem"] = "close_venc"
  BY DEF Releases, AfterRelease, ReleasePcs

LEMMA NeedsTable ==
    /\ DOMAIN Needs = {"pool", "init", "enc", "mem"}
    /\ Needs["pool"] = {"init", "enc", "mem"} /\ Needs["init"] = {"enc", "mem"}
    /\ Needs["enc"] = {"mem"} /\ Needs["mem"] = {}
  BY DEF Needs

LEMMA PlacesKnown ==
    Pcs = {"new", "return", "over", "ve", "memory", "venc", "syms", "get", "virt", "loop",
           "add", "encode", "drain", "write", "reclaim", "giveback", "next", "done",
           "unhand", "free_pool", "uninit", "destroy", "close_mem", "fb", "fbuf", "ops",
           "open", "make", "init", "pool", "desc", "close_venc", "close_memory",
           "close_ve", "clear_venc", "clear_memory", "clear_ve"}
  BY Tables, UnloadTables, ReleaseTables DEF Pcs, LoadPcs, LoopPcs, CleanPcs, Libs

(* Which place clears the global of a library *)
LEMMA ClearPlace ==
    /\ (CHOOSE c \in ClearPcs : Clears[c] = "venc") = "clear_venc"
    /\ (CHOOSE c \in ClearPcs : Clears[c] = "memory") = "clear_memory"
    /\ (CHOOSE c \in ClearPcs : Clears[c] = "ve") = "clear_ve"
  <1>1. ASSUME NEW l \in Libs, NEW c \in ClearPcs, Clears[c] = l
        PROVE  (CHOOSE e \in ClearPcs : Clears[e] = l) = c
    <2>1. \A e \in ClearPcs : Clears[e] = l => e = c
      BY <1>1, UnloadTables
    <2>2. /\ (CHOOSE e \in ClearPcs : Clears[e] = l) \in ClearPcs
          /\ Clears[CHOOSE e \in ClearPcs : Clears[e] = l] = l
      BY <1>1, Zenon
    <2> QED
      BY <2>1, <2>2, Zenon
  <1> QED
    BY <1>1, UnloadTables DEF Libs

(* One library is loaded, closed, its global cleared *)
Same == UNCHANGED <<flags, owns, buffers, frames, reader, met>>

LoadsLib(r, l, next) ==
    /\ pc[r] = l /\ pc' = [pc EXCEPT ![r] = next]
    /\ ref' = [ref EXCEPT ![l] = @ + 1] /\ handle' = handle \cup {l}
    /\ Same

ClosesLib(r, l, at, clear, next) ==
    /\ pc[r] = at
    /\ \/ /\ l \in handle
          /\ ref' = [ref EXCEPT ![l] = IF @ > 0 THEN @ - 1 ELSE 0]
          /\ pc' = [pc EXCEPT ![r] = clear]
       \/ /\ l \notin handle
          /\ pc' = [pc EXCEPT ![r] = next] /\ UNCHANGED ref
    /\ Same /\ UNCHANGED handle

ClearsLib(r, l, at, next) ==
    /\ pc[r] = at /\ pc' = [pc EXCEPT ![r] = next]
    /\ handle' = handle \ {l}
    /\ Same /\ UNCHANGED ref

LEMMA LoadCases ==
    ASSUME NEW r, Load(r)
    PROVE  \/ LoadsLib(r, "ve", "memory") \/ LoadsLib(r, "memory", "venc")
           \/ LoadsLib(r, "venc", "syms")
  BY Tables DEF Load, LoadsLib, Libs, Goto, Same, buffers, reader

LEMMA CloseCases ==
    ASSUME NEW r, Close(r)
    PROVE  \/ ClosesLib(r, "venc", "close_venc", "clear_venc", "close_memory")
           \/ ClosesLib(r, "memory", "close_memory", "clear_memory", "close_ve")
           \/ ClosesLib(r, "ve", "close_ve", "clear_ve", "return")
  <1>1. CASE pc[r] = "close_venc"
    BY <1>1, UnloadTables, ClearPlace DEF Close, ClosesLib, Goto, Same, buffers, reader
  <1>2. CASE pc[r] = "close_memory"
    BY <1>2, UnloadTables, ClearPlace DEF Close, ClosesLib, Goto, Same, buffers, reader
  <1>3. CASE pc[r] = "close_ve"
    BY <1>3, UnloadTables, ClearPlace DEF Close, ClosesLib, Goto, Same, buffers, reader
  <1> QED
    BY <1>1, <1>2, <1>3, UnloadTables DEF Close

LEMMA ClearCases ==
    ASSUME NEW r, Clear(r)
    PROVE  \/ ClearsLib(r, "venc", "clear_venc", "close_memory")
           \/ ClearsLib(r, "memory", "clear_memory", "close_ve")
           \/ ClearsLib(r, "ve", "clear_ve", "return")
  BY UnloadTables DEF Clear, ClearsLib, Goto, Same, buffers, reader

-----------------------------------------------------------------------------
(* The pool *)

InLoop == {"virt", "loop", "add", "encode", "drain", "write", "reclaim", "giveback"}
Early  == {"new", "fb", "fbuf", "ve", "memory", "venc", "syms", "ops", "open", "make",
           "init", "pool"}

(* Where the buffers of a call are, by the place of the call *)
Pool(r) ==
    /\ pc[r] \in {"encode", "drain", "write", "reclaim"} => queued[r] = 1
    /\ pc[r] \notin {"encode", "drain", "write", "reclaim", "done", "unhand", "free_pool"} =>
          queued[r] = 0
    /\ queued[r] \in {0, 1}
    /\ pc[r] \in Early => lost[r] = 0
    /\ pc[r] \in {"desc", "get", "next"} => free[r] + lost[r] = PoolSize
    /\ pc[r] \in InLoop => free[r] + lost[r] + 1 = PoolSize

(* A frame is begun only below the limit. *)
Counted(r) ==
    pc[r] \in {"add", "encode", "drain", "write", "reclaim", "giveback", "next"} /\ Limit[r] > 0
        => frames[r] < Limit[r]

PoolInv == TypeOK /\ \A r \in Runs : Pool(r) /\ Counted(r)

LEMMA PoolInit == Init => PoolInv
  <1> SUFFICES ASSUME Init PROVE PoolInv
    OBVIOUS
  <1>1. TypeOK
    BY PlacesKnown, CedarRunAssumption DEF Init, TypeOK
  <1>2. ASSUME NEW r \in Runs PROVE Pool(r) /\ Counted(r)
    BY DEF Init, Pool, Counted, InLoop
  <1> QED
    BY <1>1, <1>2 DEF PoolInv

LEMMA AcquireKept == ASSUME PoolInv, NEW r \in Runs, Acquire(r) PROVE PoolInv'
  <1>1. /\ Acquires[pc[r]] \subseteq Resources /\ Acquires[pc[r]] \subseteq Flags
        /\ Follows[pc[r]] \in Pcs
    BY Tables, PlacesKnown DEF Acquire, Resources, Flags
  <1>2. TypeOK'
    BY <1>1, CedarRunAssumption DEF Acquire, PoolInv, TypeOK, Goto, Mark, reader, libs
  <1>3. ASSUME NEW q \in Runs PROVE Pool(q)' /\ Counted(q)'
    BY Tables, CedarRunAssumption
       DEF Acquire, PoolInv, TypeOK, Pool, Counted, Goto, InLoop, Early
  <1> QED
    BY <1>2, <1>3 DEF PoolInv

LEMMA LibsKept ==
    ASSUME PoolInv, NEW r \in Runs, Load(r) \/ Close(r) \/ Clear(r) PROVE PoolInv'
  <1>a. \A l \in Libs : ref[l] \in Nat
    BY DEF PoolInv, TypeOK
  <1>1. CASE Load(r)
    <2>1. PICK l \in Libs, next \in {"memory", "venc", "syms"} : LoadsLib(r, l, next)
      BY <1>1, LoadCases DEF Libs
    <2>2. ref' \in [Libs -> Nat] /\ handle' \subseteq Libs
      BY <2>1, <1>a DEF LoadsLib, PoolInv, TypeOK
    <2>3. TypeOK'
      BY <2>1, <2>2, PlacesKnown DEF LoadsLib, Same, buffers, reader, PoolInv, TypeOK
    <2>4. ASSUME NEW c \in Runs PROVE Pool(c)' /\ Counted(c)'
      BY <2>1 DEF LoadsLib, Same, buffers, PoolInv, TypeOK, Pool, Counted, InLoop, Early, Libs
    <2> QED
      BY <2>3, <2>4 DEF PoolInv
  <1>2. CASE Close(r)
    <2>1. PICK l \in Libs, at \in ClosePcs, clear \in ClearPcs,
               next \in {"close_memory", "close_ve", "return"} :
                   ClosesLib(r, l, at, clear, next)
      BY <1>2, CloseCases, UnloadTables DEF Libs
    <2>2. ref' \in [Libs -> Nat] /\ handle' \subseteq Libs
      BY <2>1, <1>a DEF ClosesLib, PoolInv, TypeOK
    <2>3. TypeOK'
      BY <2>1, <2>2, PlacesKnown, UnloadTables
         DEF ClosesLib, Same, buffers, reader, PoolInv, TypeOK
    <2>4. ASSUME NEW c \in Runs PROVE Pool(c)' /\ Counted(c)'
      BY <2>1, UnloadTables
         DEF ClosesLib, Same, buffers, PoolInv, TypeOK, Pool, Counted, InLoop, Early
    <2> QED
      BY <2>3, <2>4 DEF PoolInv
  <1>3. CASE Clear(r)
    <2>1. PICK l \in Libs, at \in ClearPcs, next \in {"close_memory", "close_ve", "return"} :
                   ClearsLib(r, l, at, next)
      BY <1>3, ClearCases, UnloadTables DEF Libs
    <2>2. TypeOK'
      BY <2>1, PlacesKnown, UnloadTables DEF ClearsLib, Same, buffers, reader, PoolInv, TypeOK
    <2>3. ASSUME NEW c \in Runs PROVE Pool(c)' /\ Counted(c)'
      BY <2>1, UnloadTables
         DEF ClearsLib, Same, buffers, PoolInv, TypeOK, Pool, Counted, InLoop, Early
    <2> QED
      BY <2>2, <2>3 DEF PoolInv
  <1> QED
    BY <1>1, <1>2, <1>3

LEMMA PoolStep == PoolInv /\ [Next]_vars => PoolInv'
  <1> SUFFICES ASSUME PoolInv, [Next]_vars
               PROVE  PoolInv'
    OBVIOUS
  <1>a. ASSUME NEW r \in Runs
        PROVE  /\ PoolSize \in Nat /\ PoolSize >= 1 /\ Limit[r] \in Nat /\ frames[r] \in Nat
               /\ free[r] \in Nat /\ queued[r] \in Nat /\ lost[r] \in Nat
    BY CedarRunAssumption DEF PoolInv, TypeOK
  <1> USE PlacesKnown DEF PoolInv, TypeOK, Pool, Counted, Goto, Up, Down, Mark, Unmark, Limited,
          buffers, reader, libs, InLoop, Early
  <1>1. ASSUME NEW r \in Runs, Enter(r) PROVE PoolInv'
    BY <1>1 DEF Enter
  <1>2. ASSUME NEW r \in Runs, SetStop(r) \/ ClosePipe(r) \/ ReaderStalls(r) PROVE PoolInv'
    BY <1>2 DEF SetStop, ClosePipe, ReaderStalls
  <1>3. ASSUME NEW r \in Runs, Fail(r) PROVE PoolInv'
    <2>1. TypeOK'
      BY <1>3 DEF Fail
    <2>2. pc[r] \notin {"drain", "write", "giveback"}
      BY <1>3, Tables DEF Fail, LoadPcs, Libs
    <2>3. ASSUME NEW q \in Runs PROVE Pool(q)' /\ Counted(q)'
      BY <1>3, <2>2 DEF Fail
    <2> QED
      BY <2>1, <2>3
  <1>4. ASSUME NEW r \in Runs,
               FindSymbols(r) \/ HasAddresses(r) \/ LeaveLoop(r) \/ Encode(r)
        PROVE  PoolInv'
    BY <1>4 DEF FindSymbols, HasAddresses, LeaveLoop, Encode
  <1>5. ASSUME NEW r \in Runs, GetBuffer(r) PROVE PoolInv'
    <2>1. TypeOK'
      BY <1>5, <1>a DEF GetBuffer, Flags
    <2>2. ASSUME NEW q \in Runs PROVE Pool(q)' /\ Counted(q)'
      BY <1>5, <1>a DEF GetBuffer
    <2> QED
      BY <2>1, <2>2
  <1>6. ASSUME NEW r \in Runs, Capture(r) PROVE PoolInv'
    BY <1>6, <1>a DEF Capture, Finished
  <1>7. ASSUME NEW r \in Runs, Submit(r) PROVE PoolInv'
    BY <1>7 DEF Submit, Flags
  <1>8. ASSUME NEW r \in Runs, Fetch(r) \/ Written(r) \/ Drained(r) PROVE PoolInv'
    BY <1>8 DEF Fetch, Written, Drained
  <1>9. ASSUME NEW r \in Runs, Reclaim(r) PROVE PoolInv'
    BY <1>9 DEF Reclaim
  <1>10. ASSUME NEW r \in Runs, ReclaimNull(r) PROVE PoolInv'
    BY <1>10, <1>a DEF ReclaimNull
  <1>11. ASSUME NEW r \in Runs, GiveBack(r) PROVE PoolInv'
    <2>1. TypeOK'
      BY <1>11, <1>a DEF GiveBack, Return
    <2>2. ASSUME NEW q \in Runs PROVE Pool(q)' /\ Counted(q)'
      BY <1>11, <1>a DEF GiveBack, Return
    <2> QED
      BY <2>1, <2>2
  <1>12. ASSUME NEW r \in Runs, Unsubmit(r) PROVE PoolInv'
    <2>1. TypeOK'
      BY <1>12, <1>a DEF Unsubmit, Return
    <2>2. ASSUME NEW q \in Runs PROVE Pool(q)' /\ Counted(q)'
      BY <1>12, <1>a DEF Unsubmit, Return
    <2> QED
      BY <2>1, <2>2
  <1>13. ASSUME NEW r \in Runs, KeepSubmitted(r) PROVE PoolInv'
    BY <1>13, <1>a DEF KeepSubmitted
  <1>14. ASSUME NEW r \in Runs, Unhand(r) PROVE PoolInv'
    BY <1>14, <1>a DEF Unhand, Return
  <1>15. ASSUME NEW r \in Runs, Release(r) PROVE PoolInv'
    BY <1>15, <1>a, ReleaseTables DEF Release
  <1>16. ASSUME NEW r \in Runs, Leave(r) PROVE PoolInv'
    BY <1>16 DEF Leave
  <1>17. ASSUME UNCHANGED vars PROVE PoolInv'
    BY <1>17 DEF vars
  <1> QED
    BY <1>1, <1>2, <1>3, <1>4, <1>5, <1>6, <1>7, <1>8, <1>9, <1>10, <1>11, <1>12, <1>13,
       <1>14, <1>15, <1>16, <1>17, AcquireKept, LibsKept DEF Next, Step

(* For any number of calls, overlapping or not, and any pool, and however   *)
(* often ReturnOneAllocInputBuffer fails: no more than one buffer is        *)
(* pending in the encoder, and the loop fills one that is not among those   *)
(* that are free or lost.                                                   *)
THEOREM PoolAlwaysConserved == Spec => []PoolConserved
  <1>1. ASSUME PoolInv PROVE PoolConserved
    <2>1. ASSUME NEW r \in Runs PROVE queued[r] <= 1
      <3>1. queued[r] = 0 \/ queued[r] = 1
        BY <1>1 DEF PoolInv, Pool
      <3> QED
        BY <3>1
    <2>2. ASSUME NEW r \in Runs, pc[r] \in {"loop", "add"}
          PROVE  free[r] + lost[r] + 1 = PoolSize /\ queued[r] = 0
      BY <1>1, <2>2 DEF PoolInv, Pool, InLoop
    <2> QED
      BY <2>1, <2>2 DEF PoolConserved
  <1> QED
    BY PoolInit, PoolStep, <1>1, PTL DEF Spec

(* The variables of cedar_run keep their types, and no frame is encoded     *)
(* beyond the limit.                                                        *)
THEOREM TypeCorrect == Spec => []TypeOK
  <1>1. PoolInv => TypeOK
    BY DEF PoolInv
  <1> QED
    BY PoolInit, PoolStep, <1>1, PTL DEF Spec

-----------------------------------------------------------------------------
(* What the cleanup releases *)

(* What a call has released, by the place of the call *)
Gone(p) ==
    IF p \in {"close_venc", "clear_venc", "close_memory", "clear_memory", "close_ve",
              "clear_ve", "return", "over"} THEN {"pool", "init", "enc", "mem"}
    ELSE IF p = "close_mem" THEN {"pool", "init", "enc"}
    ELSE IF p = "destroy" THEN {"pool", "init"}
    ELSE IF p = "uninit" THEN {"pool"}
    ELSE {}

(* Until it releases something a call holds what its flags and pointers say, *)
(* which it got in the order of need.                                        *)
Held(r) ==
    /\ owns[r] = (flags[r] \cap Resources) \ Gone(pc[r])
    /\ pc[r] \in {"new", "over"} => flags[r] = {}
    /\ "pool" \in flags[r] => "init" \in flags[r]
    /\ "init" \in flags[r] => "enc" \in flags[r]
    /\ "enc" \in flags[r] => "mem" \in flags[r]
    /\ pc[r] = "make" => "mem" \in flags[r]
    /\ pc[r] = "init" => "enc" \in flags[r]
    /\ pc[r] = "pool" => "init" \in flags[r]

LEMMA HeldInit == ASSUME Init, NEW r \in Runs PROVE Held(r)
  BY DEF Init, Held, Gone

(* A step within the loop, or before the cleanup, that acquires nothing *)
LEMMA HeldOn ==
    ASSUME TypeOK, NEW r \in Runs, Held(r), NEW p, pc' = [pc EXCEPT ![r] = p],
           owns' = owns, flags' = [flags EXCEPT ![r] = flags'[r]],
           flags'[r] \cap Resources = flags[r] \cap Resources,
           p \notin {"new", "over", "make", "init", "pool"}, Gone(p) = Gone(pc[r])
    PROVE  Held(r)'
  <1>1. pc'[r] = p
    BY DEF TypeOK
  <1>2. \A x \in {"pool", "init", "enc", "mem"} : x \in flags'[r] <=> x \in flags[r]
    BY DEF Resources
  <1> QED
    BY <1>1, <1>2 DEF Held

LEMMA HeldStep ==
    ASSUME TypeOK, \A r \in Runs : Held(r), [Next]_vars
    PROVE  \A r \in Runs : Held(r)'
  <1>a. ASSUME NEW r \in Runs, pc'[r] = pc[r], flags'[r] = flags[r], owns'[r] = owns[r]
        PROVE  Held(r)'
    BY <1>a DEF Held
  <1>b. ASSUME NEW r \in Runs, NEW q \in Runs, q # r, Enter(r) \/ Step(r) \/ Fail(r)
        PROVE  pc'[q] = pc[q] /\ flags'[q] = flags[q] /\ owns'[q] = owns[q]
    <2>1. CASE Load(r) \/ Close(r) \/ Clear(r)
      BY <1>b, <2>1, LoadCases, CloseCases, ClearCases
         DEF LoadsLib, ClosesLib, ClearsLib, Same, TypeOK
    <2>2. CASE ~(Load(r) \/ Close(r) \/ Clear(r))
      BY <1>b, <2>2
         DEF Step, Enter, Fail, Acquire, FindSymbols, GetBuffer, HasAddresses, LeaveLoop,
             Capture, Submit, Encode, Fetch, Written, Drained, Reclaim, ReclaimNull,
             GiveBack, Unsubmit, KeepSubmitted, Unhand, Release, Leave, Goto, Mark, Unmark,
             TypeOK
    <2> QED
      BY <2>1, <2>2
  <1>1. ASSUME NEW r \in Runs, Enter(r) PROVE Held(r)'
    BY <1>1 DEF Enter, Goto, Held, Gone, TypeOK
  <1>2. ASSUME NEW r \in Runs, Fail(r) PROVE Held(r)'
    <2>1. Gone(pc[r]) = {} /\ Gone("done") = {}
      BY <1>2, Tables DEF Fail, LoadPcs, Libs, Gone
    <2> QED
      BY <1>2, <2>1, HeldOn DEF Fail, Goto, TypeOK
  <1>3. ASSUME NEW r \in Runs, Acquire(r) PROVE Held(r)'
    <2>1. /\ flags'[r] = flags[r] \cup Acquires[pc[r]]
          /\ owns'[r] = owns[r] \cup Acquires[pc[r]]
          /\ pc'[r] = Follows[pc[r]]
          /\ flags[r] \subseteq Flags
      BY <1>3 DEF Acquire, Mark, Goto, TypeOK
    <2>2. pc[r] \in AcquirePcs
      BY <1>3 DEF Acquire
    <2>3. Gone(pc[r]) = {} /\ Gone(pc'[r]) = {}
      BY <2>1, <2>2, Tables DEF Gone
    <2>4. Acquires[pc[r]] \subseteq Resources
      BY <2>2, Tables DEF Resources
    <2>5. owns'[r] = (flags'[r] \cap Resources) \ Gone(pc'[r])
      BY <2>1, <2>3, <2>4 DEF Held
    <2> QED
      BY <2>1, <2>2, <2>5, Tables DEF Held
  <1>4. ASSUME NEW r \in Runs, Load(r) PROVE Held(r)'
    <2>1. PICK l \in Libs, next \in {"memory", "venc", "syms"} : LoadsLib(r, l, next)
      BY <1>4, LoadCases DEF Libs
    <2> QED
      BY <2>1, HeldOn DEF LoadsLib, Same, Gone, Libs, TypeOK
  <1>5. ASSUME NEW r \in Runs, Close(r) PROVE Held(r)'
    <2>1. PICK l \in Libs, at \in ClosePcs, clear \in ClearPcs,
               next \in {"close_memory", "close_ve", "return"} :
                   ClosesLib(r, l, at, clear, next)
      BY <1>5, CloseCases, UnloadTables DEF Libs
    <2> QED
      BY <2>1, HeldOn, UnloadTables DEF ClosesLib, Same, Gone, TypeOK
  <1>6. ASSUME NEW r \in Runs, Clear(r) PROVE Held(r)'
    <2>1. PICK l \in Libs, at \in ClearPcs, next \in {"close_memory", "close_ve", "return"} :
                   ClearsLib(r, l, at, next)
      BY <1>6, ClearCases, UnloadTables DEF Libs
    <2> QED
      BY <2>1, HeldOn, UnloadTables DEF ClearsLib, Same, Gone, TypeOK
  <1>7. ASSUME NEW r \in Runs,
               \/ FindSymbols(r) \/ HasAddresses(r) \/ LeaveLoop(r) \/ Capture(r) \/ Encode(r)
               \/ Fetch(r) \/ Written(r) \/ Drained(r) \/ Reclaim(r) \/ ReclaimNull(r)
               \/ KeepSubmitted(r) \/ Unhand(r)
        PROVE  Held(r)'
    <2>1. /\ owns' = owns /\ flags' = flags /\ Gone(pc[r]) = {}
          /\ \E p \in {"ops", "loop", "done", "add", "drain", "write", "reclaim", "giveback",
                       "unhand", "free_pool"} : pc' = [pc EXCEPT ![r] = p]
      BY <1>7 DEF FindSymbols, HasAddresses, LeaveLoop, Capture, Encode, Fetch, Written,
                  Drained, Reclaim, ReclaimNull, KeepSubmitted, Unhand, Goto, Gone
    <2> QED
      BY <2>1, HeldOn DEF Gone, TypeOK
  <1>8. ASSUME NEW r \in Runs, GetBuffer(r) \/ Submit(r) \/ GiveBack(r) \/ Unsubmit(r)
        PROVE  Held(r)'
    <2>1. /\ owns' = owns /\ Gone(pc[r]) = {}
          /\ \E p \in {"virt", "loop", "encode", "next", "unhand"} : pc' = [pc EXCEPT ![r] = p]
          /\ \E x \in SUBSET {"got", "sent"} :
                \/ flags' = [flags EXCEPT ![r] = @ \cup x]
                \/ flags' = [flags EXCEPT ![r] = @ \ x]
      BY <1>8 DEF GetBuffer, Submit, GiveBack, Unsubmit, Mark, Unmark, Goto, Gone
    <2>2. flags'[r] \cap Resources = flags[r] \cap Resources
      BY <2>1 DEF Resources, TypeOK
    <2> QED
      BY <2>1, <2>2, HeldOn DEF Gone, TypeOK
  <1>9. ASSUME NEW r \in Runs, Release(r) PROVE Held(r)'
    <2>1. /\ flags' = flags /\ pc'[r] = AfterRelease[pc[r]]
          /\ owns'[r] = owns[r] \ ({Releases[pc[r]]} \cap flags[r])
          /\ pc[r] \in {"free_pool", "uninit", "destroy", "close_mem"}
      BY <1>9, ReleaseTables DEF Release, Goto, TypeOK
    <2>2. Gone(pc'[r]) = Gone(pc[r]) \cup {Releases[pc[r]]}
      BY <2>1, ReleaseTables DEF Gone
    <2>3. owns'[r] = (flags'[r] \cap Resources) \ Gone(pc'[r])
      BY <2>1, <2>2 DEF Held
    <2> QED
      BY <2>1, <2>3, ReleaseTables DEF Held
  <1>10. ASSUME NEW r \in Runs, Leave(r) PROVE Held(r)'
    <2>1. /\ flags'[r] = flags[r] \ Flags /\ pc'[r] = "over" /\ pc[r] = "return"
          /\ owns'[r] = owns[r] \ ({"desc", "fbuf", "fb"} \cap flags[r])
          /\ flags[r] \subseteq Flags
      BY <1>10 DEF Leave, Unmark, Goto, TypeOK
    <2>2. owns'[r] = {} /\ flags'[r] = {}
      BY <2>1 DEF Held, Gone, Resources
    <2> QED
      BY <2>1, <2>2 DEF Held
  <1>11. ASSUME NEW r \in Runs, SetStop(r) \/ ClosePipe(r) \/ ReaderStalls(r)
         PROVE  UNCHANGED <<pc, flags, owns>>
    BY <1>11 DEF SetStop, ClosePipe, ReaderStalls
  <1>12. ASSUME NEW r \in Runs, Step(r) PROVE Held(r)'
    BY <1>3, <1>4, <1>5, <1>6, <1>7, <1>8, <1>9, <1>10, <1>12 DEF Step
  <1> QED
    BY <1>a, <1>b, <1>1, <1>2, <1>11, <1>12 DEF Next, vars

(* Wherever any call failed, and whatever the others do: its cleanup        *)
(* releases only what the call holds, and each thing before what it needs.  *)
THEOREM AlwaysReleasedInOrder == Spec => []ReleasedInOrder
  <1> DEFINE IInv == PoolInv /\ \A r \in Runs : Held(r)
  <1>1. Init => IInv
    BY PoolInit, HeldInit
  <1>2. IInv /\ [Next]_vars => IInv'
    BY PoolStep, HeldStep DEF PoolInv
  <1>3. IInv => ReleasedInOrder
    <2> SUFFICES ASSUME IInv, NEW r \in Runs, pc[r] \in ReleasePcs,
                        Releases[pc[r]] \in flags[r]
                 PROVE  /\ Releases[pc[r]] \in owns[r]
                        /\ Needs[Releases[pc[r]]] \subseteq owns[r]
                        /\ \A y \in owns[r] \cap DOMAIN Needs : Releases[pc[r]] \notin Needs[y]
      BY DEF ReleasedInOrder
    <2>1. Held(r)
      OBVIOUS
    <2>2. CASE pc[r] = "free_pool"
      BY <2>1, <2>2, ReleaseTables, NeedsTable DEF Held, Gone, Resources
    <2>3. CASE pc[r] = "uninit"
      BY <2>1, <2>3, ReleaseTables, NeedsTable DEF Held, Gone, Resources
    <2>4. CASE pc[r] = "destroy"
      BY <2>1, <2>4, ReleaseTables, NeedsTable DEF Held, Gone, Resources
    <2>5. CASE pc[r] = "close_mem"
      BY <2>1, <2>5, ReleaseTables, NeedsTable DEF Held, Gone, Resources
    <2> QED
      BY <2>2, <2>3, <2>4, <2>5, ReleaseTables
  <1> QED
    BY <1>1, <1>2, <1>3, PTL DEF Spec

-----------------------------------------------------------------------------
(* The libraries *)

(* Where a call does not clear the global of a library any more *)
Past ==
    [venc   |-> {"new", "close_memory", "clear_memory", "close_ve", "clear_ve", "return", "over"},
     memory |-> {"new", "close_ve", "clear_ve", "return", "over"},
     ve     |-> {"new", "return", "over"}]

Cleared == [venc |-> "clear_venc", memory |-> "clear_memory", ve |-> "clear_ve"]

AllLoaded == {"syms", "ops", "open", "make", "init", "pool", "desc"} \cup LoopPcs

(* A global that is set has a call that will still clear it. *)
Kept == \A l \in handle : \E r \in Runs : pc[r] \notin Past[l]

Alone(r) == r \notin met /\ Active(r)

(* What a call that is alone finds in the globals, *)
Globals(r) ==
    /\ pc[r] \in {"fb", "fbuf", "ve", "return"} => handle = {}
    /\ pc[r] = "memory" => handle = {"ve"}
    /\ pc[r] = "venc" => handle = {"ve", "memory"}
    /\ pc[r] \in AllLoaded => handle = Libs
    /\ pc[r] = "clear_venc" => "venc" \in handle
    /\ pc[r] \in {"close_memory", "clear_memory", "close_ve", "clear_ve"} =>
          "venc" \notin handle
    /\ pc[r] = "clear_memory" => "memory" \in handle
    /\ pc[r] \in {"close_ve", "clear_ve"} => "memory" \notin handle
    /\ pc[r] = "clear_ve" => "ve" \in handle

(* and in the process *)
Open(r) == \A l \in handle : pc[r] # Cleared[l] => ref[l] > 0

(* If no calls ever met, a library is open once while its global says so, *)
(* except between closing it and clearing the global.                     *)
Balanced ==
    \A l \in Libs :
        ref[l] = IF l \in handle /\ \A r \in Runs : pc[r] # Cleared[l] THEN 1 ELSE 0

OneOf(r) == \A l \in Libs : ref[l] = IF l \in handle /\ pc[r] # Cleared[l] THEN 1 ELSE 0

Lonely(r) == \A q \in Runs : Active(q) => q = r

LoneInv ==
    /\ \A r \in Runs : Alone(r) => Lonely(r) /\ Globals(r) /\ Open(r)
    /\ met = {} => Balanced

LEMMA PastTable ==
    /\ Past["venc"] = {"new", "close_memory", "clear_memory", "close_ve", "clear_ve", "return",
                       "over"}
    /\ Past["memory"] = {"new", "close_ve", "clear_ve", "return", "over"}
    /\ Past["ve"] = {"new", "return", "over"}
    /\ Cleared["venc"] = "clear_venc" /\ Cleared["memory"] = "clear_memory"
    /\ Cleared["ve"] = "clear_ve"
  BY DEF Past, Cleared

LEMMA KeptOn ==
    ASSUME TypeOK, Kept, NEW r \in Runs, NEW p, pc' = [pc EXCEPT ![r] = p],
           handle' \subseteq handle,
           \A l \in handle' : pc[r] \notin Past[l] => p \notin Past[l]
    PROVE  Kept'
  <1> SUFFICES ASSUME NEW l \in handle' PROVE \E q \in Runs : pc'[q] \notin Past[l]
    BY DEF Kept
  <1>1. PICK q \in Runs : pc[q] \notin Past[l]
    BY DEF Kept
  <1>2. pc'[q] \notin Past[l]
    BY <1>1 DEF TypeOK
  <1> QED
    BY <1>2

LEMMA KeptStep == ASSUME TypeOK, Kept, [Next]_vars PROVE Kept'
  <1>a. handle \subseteq Libs
    BY DEF TypeOK
  <1>1. ASSUME NEW r \in Runs, Enter(r) PROVE Kept'
    <2>1. pc' = [pc EXCEPT ![r] = "fb"] /\ pc[r] = "new" /\ handle' = handle
      BY <1>1 DEF Enter, Goto, libs
    <2>2. \A l \in Libs : pc[r] \in Past[l]
      BY <2>1, PastTable DEF Libs
    <2>3. \A l \in handle' : pc[r] \notin Past[l] => "fb" \notin Past[l]
      BY <1>a, <2>1, <2>2
    <2> QED
      BY <2>1, <2>3, KeptOn
  <1>2. ASSUME NEW r \in Runs, Fail(r) PROVE Kept'
    <2>1. pc' = [pc EXCEPT ![r] = "done"] /\ handle' \subseteq handle
      BY <1>2 DEF Fail, Goto
    <2>2. \A l \in Libs : "done" \notin Past[l]
      BY PastTable DEF Libs
    <2>3. \A l \in handle' : pc[r] \notin Past[l] => "done" \notin Past[l]
      BY <1>a, <2>1, <2>2
    <2> QED
      BY <2>1, <2>3, KeptOn
  <1>3. ASSUME NEW r \in Runs, Load(r) PROVE Kept'
    <2>1. PICK l \in Libs, next \in {"memory", "venc", "syms"} : LoadsLib(r, l, next)
      BY <1>3, LoadCases DEF Libs
    <2>2. pc'[r] = next /\ \A q \in Runs \ {r} : pc'[q] = pc[q]
      BY <2>1 DEF LoadsLib, TypeOK
    <2>3. \A k \in Libs : next \notin Past[k]
      BY PastTable DEF Libs
    <2>4. \A k \in handle' : k \in Libs /\ (k = l \/ k \in handle)
      BY <2>1, <1>a DEF LoadsLib
    <2> QED
      BY <2>2, <2>3, <2>4 DEF Kept
  <1>4. ASSUME NEW r \in Runs, Close(r) PROVE Kept'
    <2>1. handle' = handle
      BY <1>4, CloseCases DEF ClosesLib
    <2>2. ASSUME NEW l, NEW at, NEW clear, NEW next, ClosesLib(r, l, at, clear, next),
                 <<l, at, clear, next>> \in
                     {<<"venc", "close_venc", "clear_venc", "close_memory">>,
                      <<"memory", "close_memory", "clear_memory", "close_ve">>,
                      <<"ve", "close_ve", "clear_ve", "return">>}
          PROVE  Kept'
      <3>1. PICK p : /\ pc' = [pc EXCEPT ![r] = p]
                     /\ p = clear \/ (p = next /\ l \notin handle)
        BY <2>2 DEF ClosesLib
      <3>2. \A k \in handle' : pc[r] \notin Past[k] => p \notin Past[k]
        BY <1>a, <2>1, <2>2, <3>1, PastTable DEF ClosesLib, Libs
      <3> QED
        BY <2>1, <3>1, <3>2, KeptOn
    <2> QED
      BY <1>4, <2>2, CloseCases
  <1>5. ASSUME NEW r \in Runs, Clear(r) PROVE Kept'
    <2>1. ASSUME NEW l, NEW at, NEW next, ClearsLib(r, l, at, next),
                 <<l, at, next>> \in {<<"venc", "clear_venc", "close_memory">>,
                                     <<"memory", "clear_memory", "close_ve">>,
                                     <<"ve", "clear_ve", "return">>}
          PROVE  Kept'
      <3>1. /\ pc' = [pc EXCEPT ![r] = next] /\ pc[r] = at
            /\ handle' = handle \ {l} /\ handle' \subseteq handle
        BY <2>1 DEF ClearsLib
      <3>2. \A k \in handle' : pc[r] \notin Past[k] => next \notin Past[k]
        BY <1>a, <2>1, <3>1, PastTable DEF Libs
      <3> QED
        BY <3>1, <3>2, KeptOn
    <2> QED
      BY <1>5, <2>1, ClearCases
  <1>6. ASSUME NEW r \in Runs, Step(r), ~Load(r), ~Close(r), ~Clear(r) PROVE Kept'
    <2>1. /\ handle' = handle
          /\ \E p \in Pcs : /\ pc' = [pc EXCEPT ![r] = p]
                            /\ \A l \in Libs : pc[r] \notin Past[l] => p \notin Past[l]
      <3>1. CASE Acquire(r)
        <4>1. /\ handle' = handle /\ pc[r] \in AcquirePcs
              /\ pc' = [pc EXCEPT ![r] = Follows[pc[r]]]
          BY <3>1 DEF Acquire, Goto, libs
        <4>2. /\ Follows[pc[r]] \in Pcs
              /\ \A l \in Libs : Follows[pc[r]] \notin Past[l]
          BY <4>1, Tables, PastTable, PlacesKnown DEF Libs
        <4> QED
          BY <4>1, <4>2
      <3>2. CASE Release(r)
        <4>1. /\ handle' = handle /\ pc[r] \in ReleasePcs
              /\ pc' = [pc EXCEPT ![r] = AfterRelease[pc[r]]]
          BY <3>2 DEF Release, Goto, libs
        <4>2. /\ AfterRelease[pc[r]] \in Pcs
              /\ \A l \in Libs : AfterRelease[pc[r]] \notin Past[l]
          BY <4>1, ReleaseTables, PastTable, PlacesKnown DEF Libs
        <4> QED
          BY <4>1, <4>2
      <3>3. CASE Leave(r)
        BY <3>3, PastTable, PlacesKnown DEF Leave, Goto, libs, Libs
      <3>4. CASE ~Acquire(r) /\ ~Release(r) /\ ~Leave(r)
        <4>1. /\ handle' = handle
              /\ \E p \in LoopPcs \cup {"ops", "done", "unhand", "free_pool"} :
                     pc' = [pc EXCEPT ![r] = p]
          BY <1>6, <3>4
             DEF Step, FindSymbols, GetBuffer, HasAddresses, LeaveLoop, Capture, Submit,
                 Encode, Fetch, Written, Drained, Reclaim, ReclaimNull, GiveBack, Unsubmit,
                 KeepSubmitted, Unhand, Goto, libs, LoopPcs
        <4>2. \A p \in LoopPcs \cup {"ops", "done", "unhand", "free_pool"} :
                 p \in Pcs /\ \A l \in Libs : p \notin Past[l]
          BY PastTable, PlacesKnown DEF LoopPcs, Libs
        <4> QED
          BY <4>1, <4>2
      <3> QED
        BY <3>1, <3>2, <3>3, <3>4
    <2> QED
      BY <1>a, <2>1, KeptOn
  <1>7. ASSUME NEW r \in Runs, SetStop(r) \/ ClosePipe(r) \/ ReaderStalls(r)
        PROVE  UNCHANGED <<pc, handle>>
    BY <1>7 DEF SetStop, ClosePipe, ReaderStalls, libs
  <1>8. ASSUME UNCHANGED <<pc, handle>> PROVE Kept'
    BY <1>8 DEF Kept
  <1> QED
    BY <1>1, <1>2, <1>3, <1>4, <1>5, <1>6, <1>7, <1>8 DEF Next, vars, libs

(* What is to be shown of a step of a call that is alone *)
LEMMA Focus ==
    ASSUME TypeOK, LoneInv, NEW r \in Runs, NEW p,
           Lonely(r), pc' = [pc EXCEPT ![r] = p], p # "new", met' = met,
           p # "over" => Globals(r)' /\ Open(r)',
           met = {} => OneOf(r)'
    PROVE  LoneInv'
  <1>1. pc'[r] = p /\ \A q \in Runs \ {r} : pc'[q] = pc[q] /\ pc[q] \in {"new", "over"}
    BY DEF TypeOK, Lonely, Active
  <1>2. \A q \in Runs : Active(q)' => q = r /\ p # "over"
    BY <1>1 DEF Active
  <1>3. ASSUME NEW q \in Runs, Alone(q)' PROVE Lonely(q)' /\ Globals(q)' /\ Open(q)'
    BY <1>2, <1>3 DEF Alone, Lonely
  <1>4. ASSUME met = {} PROVE Balanced'
    <2>1. \A l \in Libs : (\A q \in Runs : pc'[q] # Cleared[l]) <=> pc'[r] # Cleared[l]
      BY <1>1, PastTable DEF Libs
    <2> QED
      BY <1>4, <2>1 DEF Balanced, OneOf
  <1> QED
    BY <1>3, <1>4 DEF LoneInv

(* and what such a call knows before *)
LEMMA Knows ==
    ASSUME TypeOK, LoneInv, NEW r \in Runs, Alone(r)
    PROVE  Lonely(r) /\ Globals(r) /\ Open(r) /\ (met = {} => OneOf(r))
  <1>1. \A q \in Runs \ {r} : pc[q] \in {"new", "over"}
    BY DEF LoneInv, Lonely, Active
  <1>2. \A l \in Libs : (\A q \in Runs : pc[q] # Cleared[l]) <=> pc[r] # Cleared[l]
    BY <1>1, PastTable DEF Libs
  <1> QED
    BY <1>2 DEF LoneInv, Balanced, OneOf

(* A step that does not touch the libraries, between places where all are   *)
(* loaded                                                                   *)
LEMMA LoneOn ==
    ASSUME TypeOK, LoneInv, NEW r \in Runs, Alone(r), NEW p, pc' = [pc EXCEPT ![r] = p],
           met' = met, ref' = ref, handle' = handle,
           pc[r] \in AllLoaded \cup CleanPcs \cup {"fb", "fbuf"},
           \/ p \in AllLoaded /\ pc[r] \in AllLoaded
           \/ p \in CleanPcs \cup {"close_venc"}
           \/ p \in {"fbuf", "ve"} /\ pc[r] \in {"fb", "fbuf"}
    PROVE  LoneInv'
  <1>1. pc'[r] = p /\ handle \subseteq Libs
    BY DEF TypeOK
  <1>2. Lonely(r) /\ Globals(r) /\ Open(r) /\ (met = {} => OneOf(r))
    BY Knows
  <1>3. Globals(r)'
    BY <1>1, <1>2, ReleaseTables DEF Globals, AllLoaded, LoopPcs, CleanPcs
  <1>4. \A l \in Libs : pc[r] # Cleared[l] /\ p # Cleared[l]
    BY ReleaseTables, PastTable DEF AllLoaded, LoopPcs, CleanPcs, Libs
  <1>5. Open(r)' /\ (met = {} => OneOf(r)')
    BY <1>1, <1>2, <1>4 DEF Open, OneOf
  <1>6. p # "new"
    BY ReleaseTables DEF AllLoaded, LoopPcs, CleanPcs
  <1> QED
    BY <1>2, <1>3, <1>5, <1>6, Focus

LEMMA LoneLoad ==
    ASSUME TypeOK, LoneInv, NEW r \in Runs, Alone(r), NEW l, NEW next, LoadsLib(r, l, next),
           <<l, next>> \in {<<"ve", "memory">>, <<"memory", "venc">>, <<"venc", "syms">>}
    PROVE  LoneInv'
  <1>1. /\ pc' = [pc EXCEPT ![r] = next] /\ pc'[r] = next /\ pc[r] = l /\ met' = met
        /\ handle' = handle \cup {l} /\ ref[l] \in Nat
        /\ ref'[l] = ref[l] + 1 /\ \A k \in Libs \ {l} : ref'[k] = ref[k]
    BY DEF LoadsLib, Same, TypeOK, Libs
  <1>2. Lonely(r) /\ Globals(r) /\ Open(r) /\ (met = {} => OneOf(r))
    BY Knows
  <1>3. Globals(r)'
    BY <1>1, <1>2 DEF Globals, AllLoaded, LoopPcs, Libs
  <1>4. Open(r)'
    BY <1>1, <1>2, PastTable DEF Open, Globals, Libs
  <1>5. met = {} => OneOf(r)'
    BY <1>1, <1>2, PastTable DEF OneOf, Globals, Libs
  <1> QED
    BY <1>1, <1>2, <1>3, <1>4, <1>5, Focus

LEMMA LoneClose ==
    ASSUME TypeOK, LoneInv, NEW r \in Runs, Alone(r), NEW l, NEW at, NEW clear, NEW next,
           ClosesLib(r, l, at, clear, next),
           <<l, at, clear, next>> \in
               {<<"venc", "close_venc", "clear_venc", "close_memory">>,
                <<"memory", "close_memory", "clear_memory", "close_ve">>,
                <<"ve", "close_ve", "clear_ve", "return">>}
    PROVE  LoneInv'
  <1>1. pc[r] = at /\ handle' = handle /\ met' = met /\ handle \subseteq Libs /\ l \in Libs
    BY DEF ClosesLib, Same, TypeOK, Libs
  <1>2. Lonely(r) /\ Globals(r) /\ Open(r) /\ (met = {} => OneOf(r))
    BY Knows
  <1>3. CASE l \in handle
    <2>1. /\ pc' = [pc EXCEPT ![r] = clear] /\ pc'[r] = clear
          /\ \A k \in Libs \ {l} : ref'[k] = ref[k]
          /\ ref'[l] = IF ref[l] > 0 THEN ref[l] - 1 ELSE 0
      BY <1>1, <1>3 DEF ClosesLib, TypeOK
    <2>2. Globals(r)'
      BY <1>1, <1>2, <1>3, <2>1 DEF Globals, AllLoaded, LoopPcs
    <2>3. Open(r)'
      BY <1>1, <1>2, <2>1, PastTable DEF Open, Libs
    <2>4. met = {} => OneOf(r)'
      BY <1>1, <1>2, <1>3, <2>1, PastTable DEF OneOf, Libs
    <2> QED
      BY <1>1, <1>2, <2>1, <2>2, <2>3, <2>4, Focus
  <1>4. CASE l \notin handle
    <2>1. pc' = [pc EXCEPT ![r] = next] /\ pc'[r] = next /\ ref' = ref
      BY <1>4 DEF ClosesLib, TypeOK
    <2>2. Globals(r)'
      BY <1>1, <1>2, <1>4, <2>1 DEF Globals, AllLoaded, LoopPcs, Libs
    <2>3. Open(r)'
      BY <1>1, <1>2, <2>1, PastTable DEF Open, Libs
    <2>4. met = {} => OneOf(r)'
      BY <1>1, <1>2, <2>1, PastTable DEF OneOf, Libs
    <2> QED
      BY <1>1, <1>2, <2>1, <2>2, <2>3, <2>4, Focus
  <1> QED
    BY <1>3, <1>4

LEMMA LoneClear ==
    ASSUME TypeOK, LoneInv, NEW r \in Runs, Alone(r), NEW l, NEW at, NEW next,
           ClearsLib(r, l, at, next),
           <<l, at, next>> \in {<<"venc", "clear_venc", "close_memory">>,
                               <<"memory", "clear_memory", "close_ve">>,
                               <<"ve", "clear_ve", "return">>}
    PROVE  LoneInv'
  <1>1. /\ pc' = [pc EXCEPT ![r] = next] /\ pc'[r] = next /\ pc[r] = at /\ met' = met
        /\ handle' = handle \ {l} /\ ref' = ref /\ handle \subseteq Libs
    BY DEF ClearsLib, Same, TypeOK
  <1>2. Lonely(r) /\ Globals(r) /\ Open(r) /\ (met = {} => OneOf(r))
    BY Knows
  <1>3. Globals(r)'
    BY <1>1, <1>2 DEF Globals, AllLoaded, LoopPcs, Libs
  <1>4. Open(r)'
    BY <1>1, <1>2, PastTable DEF Open, Libs
  <1>5. met = {} => OneOf(r)'
    BY <1>1, <1>2, PastTable DEF OneOf, Libs
  <1> QED
    BY <1>1, <1>2, <1>3, <1>4, <1>5, Focus

(* A call that met another one: no call is alone. *)
LEMMA MetStep ==
    ASSUME TypeOK, LoneInv, NEW r \in Runs, r \in met, Active(r), NEW p,
           pc' = [pc EXCEPT ![r] = p], p # "new", met' = met
    PROVE  LoneInv'
  <1>1. ASSUME NEW q \in Runs PROVE ~Alone(q)'
    BY DEF LoneInv, Lonely, Alone, Active, TypeOK
  <1> QED
    BY <1>1 DEF LoneInv

LEMMA LoneStep == ASSUME TypeOK, Kept, LoneInv, [Next]_vars PROVE LoneInv'
  <1>1. ASSUME NEW r \in Runs, Enter(r) PROVE LoneInv'
    <2>1. pc'[r] = "fb" /\ pc[r] = "new" /\ UNCHANGED <<ref, handle>>
          /\ \A q \in Runs \ {r} : pc'[q] = pc[q]
      BY <1>1 DEF Enter, Goto, libs, TypeOK
    <2>2. CASE \A q \in Runs : ~Active(q)
      <3>1. met' = met
        BY <1>1, <2>2 DEF Enter
      <3>2. handle = {}
        BY <2>2, PastTable DEF Kept, TypeOK, Active, Libs
      <3>3. Lonely(r)'
        BY <2>1, <2>2 DEF Lonely, Active
      <3>4. Globals(r)' /\ Open(r)'
        BY <2>1, <3>2 DEF Globals, Open, AllLoaded, LoopPcs
      <3>5. met' = {} => Balanced'
        BY <2>1, <3>1, <3>2 DEF LoneInv, Balanced
      <3>6. \A q \in Runs : Alone(q)' => q = r
        BY <3>3 DEF Lonely, Alone
      <3> QED
        BY <3>3, <3>4, <3>5, <3>6 DEF LoneInv
    <2>3. CASE \E q \in Runs : Active(q)
      <3>1. met' = met \cup {q \in Runs : Active(q)} \cup {r}
        BY <1>1, <2>3 DEF Enter
      <3>2. ASSUME NEW q \in Runs PROVE ~Alone(q)'
        BY <2>1, <3>1 DEF Alone, Active
      <3> QED
        BY <3>1, <3>2 DEF LoneInv
    <2> QED
      BY <2>2, <2>3
  <1>2. ASSUME NEW r \in Runs, Step(r) \/ Fail(r), r \in met PROVE LoneInv'
    <2>1. Active(r) /\ met' = met /\ \E p : p # "new" /\ pc' = [pc EXCEPT ![r] = p]
      <3>1. CASE Acquire(r)
        BY <3>1, Tables DEF Acquire, Goto, Active
      <3>2. CASE Release(r)
        BY <3>2, ReleaseTables DEF Release, Goto, Active
      <3>3. CASE Load(r) \/ Close(r) \/ Clear(r)
        BY <3>3, LoadCases, CloseCases, ClearCases
           DEF LoadsLib, ClosesLib, ClearsLib, Same, Active
      <3>4. CASE Fail(r)
        BY <3>4, Tables DEF Fail, Goto, Active, LoadPcs, Libs
      <3>5. CASE /\ ~Acquire(r) /\ ~Release(r) /\ ~Load(r) /\ ~Close(r) /\ ~Clear(r)
                 /\ ~Fail(r)
        BY <1>2, <3>5
           DEF Step, FindSymbols, GetBuffer, HasAddresses, LeaveLoop, Capture, Submit, Encode,
               Fetch, Written, Drained, Reclaim, ReclaimNull, GiveBack, Unsubmit,
               KeepSubmitted, Unhand, Leave, Goto, Active
      <3> QED
        BY <3>1, <3>2, <3>3, <3>4, <3>5
    <2> QED
      BY <1>2, <2>1, MetStep
  <1>3. ASSUME NEW r \in Runs, Fail(r), r \notin met PROVE LoneInv'
    <2>1. /\ Alone(r) /\ pc' = [pc EXCEPT ![r] = "done"] /\ pc'[r] = "done"
          /\ ref' = ref /\ met' = met
          /\ pc[r] \in {"fb", "fbuf", "ve", "memory", "venc"} \cup AllLoaded
      BY <1>3, Tables DEF Fail, Goto, Alone, Active, TypeOK, LoadPcs, LoopPcs, Libs, AllLoaded
    <2>2. Lonely(r) /\ Globals(r) /\ Open(r) /\ (met = {} => OneOf(r))
      BY <2>1, Knows
    <2>3. handle' = handle
      BY <1>3, <2>1, <2>2 DEF Fail, Globals, AllLoaded, LoopPcs, Libs
    <2>4. \A l \in Libs : pc[r] # Cleared[l] /\ pc'[r] # Cleared[l]
      BY <2>1, PastTable DEF AllLoaded, LoopPcs, Libs
    <2>5. handle \subseteq Libs
      BY DEF TypeOK
    <2>6. Globals(r)'
      BY <2>1 DEF Globals, AllLoaded, LoopPcs
    <2>7. Open(r)' /\ (met = {} => OneOf(r)')
      BY <2>1, <2>2, <2>3, <2>4, <2>5 DEF Open, OneOf
    <2> QED
      BY <2>1, <2>2, <2>6, <2>7, Focus
  <1>4. ASSUME NEW r \in Runs, Acquire(r), r \notin met PROVE LoneInv'
    <2>1. /\ Alone(r) /\ pc' = [pc EXCEPT ![r] = Follows[pc[r]]]
          /\ UNCHANGED <<ref, handle, met>>
      BY <1>4, Tables DEF Acquire, Goto, Alone, Active, libs
    <2>2. CASE pc[r] \in {"fb", "fbuf"}
      <3>1. Follows[pc[r]] \in {"fbuf", "ve"}
        BY <2>2, Tables
      <3> QED
        BY <2>1, <2>2, <3>1, LoneOn
    <2>3. CASE pc[r] \in {"ops", "open", "make", "init", "pool", "desc"}
      <3>1. pc[r] \in AllLoaded /\ Follows[pc[r]] \in AllLoaded
        BY <2>3, Tables DEF AllLoaded, LoopPcs
      <3> QED
        BY <2>1, <3>1, LoneOn
    <2> QED
      BY <1>4, <2>2, <2>3, Tables DEF Acquire
  <1>5. ASSUME NEW r \in Runs, r \notin met, Load(r) \/ Close(r) \/ Clear(r) PROVE LoneInv'
    <2>1. Alone(r)
      BY <1>5, UnloadTables DEF Load, Close, Clear, Alone, Active, Libs
    <2>2. CASE Load(r)
      BY <2>1, <2>2, LoadCases, LoneLoad
    <2>3. CASE Close(r)
      BY <2>1, <2>3, CloseCases, LoneClose
    <2>4. CASE Clear(r)
      BY <2>1, <2>4, ClearCases, LoneClear
    <2> QED
      BY <1>5, <2>2, <2>3, <2>4
  <1>6. ASSUME NEW r \in Runs, r \notin met,
               \/ FindSymbols(r) \/ GetBuffer(r) \/ HasAddresses(r) \/ LeaveLoop(r)
               \/ Capture(r) \/ Submit(r) \/ Encode(r) \/ Fetch(r) \/ Written(r) \/ Drained(r)
               \/ Reclaim(r) \/ ReclaimNull(r) \/ GiveBack(r)
        PROVE  LoneInv'
    <2>1. /\ Alone(r) /\ pc[r] \in AllLoaded /\ UNCHANGED <<ref, handle, met>>
          /\ \E p \in AllLoaded \cup {"done"} : pc' = [pc EXCEPT ![r] = p]
      BY <1>6 DEF FindSymbols, GetBuffer, HasAddresses, LeaveLoop, Capture, Submit, Encode,
                  Fetch, Written, Drained, Reclaim, ReclaimNull, GiveBack, Goto, Alone, Active,
                  libs, AllLoaded, LoopPcs
    <2> QED
      BY <2>1, LoneOn DEF CleanPcs
  <1>7. ASSUME NEW r \in Runs, r \notin met,
               Unsubmit(r) \/ KeepSubmitted(r) \/ Unhand(r) \/ Release(r)
        PROVE  LoneInv'
    <2>1. /\ Alone(r) /\ pc[r] \in CleanPcs /\ UNCHANGED <<ref, handle, met>>
          /\ \E p \in CleanPcs \cup {"close_venc"} : pc' = [pc EXCEPT ![r] = p]
      BY <1>7, ReleaseTables
         DEF Unsubmit, KeepSubmitted, Unhand, Release, Goto, Alone, Active, libs, CleanPcs
    <2> QED
      BY <2>1, LoneOn
  <1>8. ASSUME NEW r \in Runs, r \notin met, Leave(r) PROVE LoneInv'
    <2>1. /\ Alone(r) /\ pc' = [pc EXCEPT ![r] = "over"] /\ pc'[r] = "over"
          /\ pc[r] = "return" /\ UNCHANGED <<ref, handle, met>>
      BY <1>8 DEF Leave, Goto, Alone, Active, TypeOK, libs
    <2>2. Lonely(r) /\ Globals(r) /\ (met = {} => OneOf(r))
      BY <2>1, Knows
    <2>3. met = {} => OneOf(r)'
      BY <2>1, <2>2, PastTable DEF OneOf, Libs
    <2> QED
      BY <2>1, <2>2, <2>3, Focus
  <1>9. ASSUME NEW r \in Runs, SetStop(r) \/ ClosePipe(r) \/ ReaderStalls(r)
        PROVE  UNCHANGED <<pc, ref, handle, met>>
    BY <1>9 DEF SetStop, ClosePipe, ReaderStalls, libs
  <1>10. ASSUME UNCHANGED <<pc, ref, handle, met>> PROVE LoneInv'
    BY <1>10 DEF LoneInv, Alone, Active, Lonely, Globals, Open, Balanced
  <1>11. ASSUME NEW r \in Runs, Step(r) PROVE LoneInv'
    BY <1>2, <1>4, <1>5, <1>6, <1>7, <1>8, <1>11 DEF Step
  <1>12. ASSUME NEW r \in Runs, Fail(r) PROVE LoneInv'
    BY <1>2, <1>3, <1>12
  <1> QED
    BY <1>1, <1>9, <1>10, <1>11, <1>12 DEF Next, vars, libs

LibInv == PoolInv /\ (\A r \in Runs : Held(r)) /\ Kept /\ LoneInv

LEMMA LibInductive == (Init => LibInv) /\ (LibInv /\ [Next]_vars => LibInv')
  <1>1. Init => Kept /\ LoneInv
    BY DEF Init, Kept, LoneInv, Alone, Active, Balanced, Libs
  <1> QED
    BY <1>1, PoolInit, PoolStep, HeldInit, HeldStep, KeptStep, LoneStep DEF LibInv, PoolInv

(* Whatever overlapping calls did to the globals before, a call that is     *)
(* alone has every library it loaded open until it unloads them itself.     *)
THEOREM LibsStayLoaded == Spec => []LibsLoaded
  <1>1. ASSUME LibInv, NEW r \in Runs \ met,
               pc[r] \in LoopPcs \cup {"ops", "open", "make", "init", "pool", "desc"}
        PROVE  \A l \in Libs : ref[l] > 0
    <2>1. Alone(r) /\ pc[r] \in AllLoaded
      BY <1>1 DEF Alone, Active, AllLoaded, LoopPcs
    <2>2. Globals(r) /\ Open(r)
      BY <1>1, <2>1 DEF LibInv, LoneInv
    <2>3. \A l \in Libs : pc[r] # Cleared[l]
      BY <2>1, PastTable DEF AllLoaded, LoopPcs, Libs
    <2> QED
      BY <2>1, <2>2, <2>3 DEF Globals, Open
  <1>2. LibInv => LibsLoaded
    BY <1>1 DEF LibsLoaded
  <1> QED
    BY LibInductive, <1>2, PTL DEF Spec

(* A call that has returned holds nothing of its own, whatever it failed at *)
(* and whatever the others did; when none is active the globals are clear,  *)
(* and if no calls ever met every library is closed.                        *)
THEOREM NothingEverLeft == Spec => []NothingLeft
  <1>1. ASSUME LibInv PROVE NothingLeft
    <2>1. ASSUME NEW r \in Runs, ~Active(r) PROVE owns[r] = {}
      BY <1>1, <2>1 DEF LibInv, Held, Active
    <2>2. ASSUME \A r \in Runs : ~Active(r)
          PROVE  handle = {} /\ (met = {} => \A l \in Libs : ref[l] = 0)
      <3>1. handle = {}
        BY <1>1, <2>2, PastTable DEF LibInv, PoolInv, TypeOK, Kept, Active, Libs
      <3> QED
        BY <1>1, <3>1 DEF LibInv, LoneInv, Balanced
    <2> QED
      BY <2>1, <2>2 DEF NothingLeft
  <1> QED
    BY LibInductive, <1>1, PTL DEF Spec
=============================================================================
