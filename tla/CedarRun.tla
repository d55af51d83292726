------------------------------ MODULE CedarRun ------------------------------
(***************************************************************************)
(* cedar_run, internal/stream/cedar_encoder_linux_arm64.c: the hardware    *)
(* encode loop. Every call acquires its resources one after the other, and *)
(* from any failure goes to one cleanup, which looks at its flags and      *)
(* pointers to know what to release.                                       *)
(*                                                                         *)
(* What is per call: the framebuffer, the memory adapter, the encoder, its *)
(* pool of input buffers. What calls share: the handles of the vendor's    *)
(* libraries, kept in globals, over the reference counts of dlopen. The    *)
(* vendor's calls and the framebuffer may fail at any time, calls of       *)
(* cedar_run may overlap, and whoever reads the stream may stop reading.   *)
(***************************************************************************)
EXTENDS Naturals

CONSTANTS
    Runs,       \* the calls of cedar_run
    PoolSize,   \* cfg->input_buffers
    Limit,      \* cfg->max_frames of each call, 0 for no limit
    Raw         \* the calls that write to the client and not into ffmpeg's pipe

ASSUME CedarRunAssumption ==
    /\ PoolSize \in Nat \ {0}
    /\ Limit \in [Runs -> Nat]
    /\ Raw \subseteq Runs

VARIABLES
    pc,      \* where each call is
    flags,   \* its flags that are set and its pointers that are not NULL
    owns,    \* what it really holds
    free,    \* the buffers in the free queue of its encoder's pool
    queued,  \* the buffers submitted and not taken back yet
    lost,    \* the buffers that the pool did not take back
    frames,  \* frame_count, when max_frames limits it
    stop,    \* the calls whose stop flag is set
    closed,  \* the calls whose pipe Stop has closed
    deaf,    \* the calls whose reader takes nothing
    ref,     \* how often each library is open in the process
    handle,  \* the globals that are not NULL
    met      \* history: the calls that were active together with another one

buffers == <<free, queued, lost>>
reader  == <<stop, closed, deaf>>
libs    == <<ref, handle>>
vars    == <<pc, flags, owns, buffers, frames, reader, libs, met>>

Libs == {"ve", "memory", "venc"}

(* What each step before the loop acquires, and the step that follows *)
Acquires ==
    [fb   |-> {"fb"},   fbuf |-> {"fbuf"}, ops  |-> {},       open |-> {"mem"},
     make |-> {"enc"},  init |-> {"init"}, pool |-> {"pool"}, desc |-> {"desc"}]

Follows ==
    [fb   |-> "fbuf", fbuf |-> "ve",   ve   |-> "memory", memory |-> "venc",
     venc |-> "syms", ops  |-> "open", open |-> "make",   make   |-> "init",
     init |-> "pool", pool |-> "desc", desc |-> "get"]

(* What each step of the cleanup releases *)
Releases ==
    [free_pool |-> "pool", uninit |-> "init", destroy |-> "enc", close_mem |-> "mem"]

AfterRelease ==
    [free_pool |-> "uninit", uninit |-> "destroy", destroy |-> "close_mem",
     close_mem |-> "close_venc"]

(* What has to be there for as long as a resource is: an encoder is         *)
(* initialised with the memory adapter's operations, its pool is part of it *)
Needs == [pool |-> {"init", "enc", "mem"}, init |-> {"enc", "mem"}, enc |-> {"mem"}, mem |-> {}]

(* unload_libs: the library each step closes, and the step that follows *)
Closes == [close_venc |-> "venc", close_memory |-> "memory", close_ve |-> "ve"]
Clears == [clear_venc |-> "venc", clear_memory |-> "memory", clear_ve |-> "ve"]

AfterUnload ==
    [venc |-> "close_memory", memory |-> "close_ve", ve |-> "return"]

Resources  == {"fb", "fbuf", "mem", "enc", "init", "pool", "desc"}
Flags      == Resources \cup {"got", "sent"}
AcquirePcs == DOMAIN Acquires
ReleasePcs == DOMAIN Releases
ClosePcs   == DOMAIN Closes
ClearPcs   == DOMAIN Clears
LoadPcs    == Libs \cup {"syms"}
LoopPcs    == {"get", "virt", "loop", "add", "encode", "drain", "write",
               "reclaim", "giveback", "next"}
CleanPcs   == {"done", "unhand"} \cup ReleasePcs
Pcs        == {"new", "return", "over"} \cup LoadPcs \cup LoopPcs \cup CleanPcs
              \cup AcquirePcs \cup ClosePcs \cup ClearPcs

Init ==
    /\ pc = [r \in Runs |-> "new"]
    /\ flags = [r \in Runs |-> {}] /\ owns = [r \in Runs |-> {}]
    /\ free = [r \in Runs |-> 0] /\ queued = [r \in Runs |-> 0]
    /\ lost = [r \in Runs |-> 0]
    /\ frames = [r \in Runs |-> 0]
    /\ stop = {} /\ closed = {} /\ deaf = {}
    /\ ref = [l \in Libs |-> 0] /\ handle = {}
    /\ met = {}

Goto(r, l)   == pc' = [pc EXCEPT ![r] = l]
Up(f, r)     == [f EXCEPT ![r] = @ + 1]
Down(f, r)   == [f EXCEPT ![r] = @ - 1]
Mark(r, x)   == flags' = [flags EXCEPT ![r] = @ \cup x]
Unmark(r, x) == flags' = [flags EXCEPT ![r] = @ \ x]
Limited(r)   == Limit[r] > 0
Active(r)    == pc[r] \notin {"new", "over"}

(* Mutant: the loop forgets its stop flag. *)
Finished_Deaf(r) == Limited(r) /\ frames[r] >= Limit[r]

(* The condition of the loop *)
Finished(r) == r \in stop \/ (Limited(r) /\ frames[r] >= Limit[r])

-----------------------------------------------------------------------------
(* Nothing in cedar_run keeps a second call out. *)
Enter(r) ==
    /\ pc[r] = "new"
    /\ Goto(r, "fb")
    /\ LET others == {q \in Runs : Active(q)} IN
        met' = IF others = {} THEN met ELSE met \cup others \cup {r}
    /\ UNCHANGED <<flags, owns, buffers, frames, reader, libs>>

(* cedarEncoder.Stop sets the flag, at any time, *)
SetStop(r) ==
    /\ Active(r)
    /\ stop' = stop \cup {r}
    /\ UNCHANGED <<pc, flags, owns, buffers, frames, closed, deaf, libs, met>>

(* and then closes the pipe and kills ffmpeg, if there is one. *)
ClosePipe(r) ==
    /\ r \in stop \ Raw
    /\ closed' = closed \cup {r}
    /\ UNCHANGED <<pc, flags, owns, buffers, frames, stop, deaf, libs, met>>

(* Mutant: a flag is set before the call that it stands for. *)
Fail_FlagFirst(r) ==
    /\ \/ pc[r] \in AcquirePcs \cup LoadPcs
       \/ pc[r] \in {"get", "virt", "add", "encode", "reclaim", "next"}
       \/ pc[r] = "loop" /\ ~Finished(r)
    /\ handle' = handle \ {pc[r]}
    /\ flags' = [flags EXCEPT ![r] = @ \cup IF pc[r] \in AcquirePcs THEN Acquires[pc[r]] ELSE {}]
    /\ Goto(r, "done")
    /\ UNCHANGED <<owns, buffers, frames, reader, ref, met>>

(* Any of the calls fails: goto done. A dlopen that fails has set its global *)
(* to NULL.                                                                  *)
Fail(r) ==
    /\ \/ pc[r] \in AcquirePcs \cup LoadPcs
       \/ pc[r] \in {"get", "virt", "add", "encode", "reclaim", "next"}
       \/ pc[r] = "loop" /\ ~Finished(r)
    /\ handle' = handle \ {pc[r]}
    /\ Goto(r, "done")
    /\ UNCHANGED <<flags, owns, buffers, frames, reader, ref, met>>

Acquire(r) ==
    /\ pc[r] \in AcquirePcs
    /\ Mark(r, Acquires[pc[r]])
    /\ owns' = [owns EXCEPT ![r] = @ \cup Acquires[pc[r]]]
    /\ free' = [free EXCEPT ![r] = IF pc[r] = "pool" THEN PoolSize ELSE @]
    /\ Goto(r, Follows[pc[r]])
    /\ UNCHANGED <<queued, lost, frames, reader, libs, met>>

(* load_symbols: one dlopen, its result stored in the global *)
Load(r) ==
    /\ pc[r] \in Libs
    /\ ref' = [ref EXCEPT ![pc[r]] = @ + 1]
    /\ handle' = handle \cup {pc[r]}
    /\ Goto(r, Follows[pc[r]])
    /\ UNCHANGED <<flags, owns, buffers, frames, reader, met>>

(* Mutant: the library is closed again once its symbols are known. *)
FindSymbols_Close(r) ==
    /\ pc[r] = "syms"
    /\ ref' = [ref EXCEPT !["venc"] = 0]
    /\ Goto(r, "ops")
    /\ UNCHANGED <<flags, owns, buffers, frames, reader, handle, met>>

FindSymbols(r) ==
    /\ pc[r] = "syms"
    /\ Goto(r, "ops")
    /\ UNCHANGED <<flags, owns, buffers, frames, reader, libs, met>>

(* GetOneAllocInputBuffer *)
GetBuffer(r) ==
    /\ pc[r] \in {"get", "next"} /\ free[r] > 0
    /\ free' = Down(free, r)
    /\ Mark(r, {"got"})
    /\ frames' = [frames EXCEPT ![r] = IF pc[r] = "next" /\ Limited(r) THEN @ + 1 ELSE @]
    /\ Goto(r, IF pc[r] = "get" THEN "virt" ELSE "loop")
    /\ UNCHANGED <<owns, queued, lost, reader, libs, met>>

HasAddresses(r) ==
    /\ pc[r] = "virt"
    /\ Goto(r, "loop")
    /\ UNCHANGED <<flags, owns, buffers, frames, reader, libs, met>>

LeaveLoop(r) ==
    /\ pc[r] = "loop" /\ Finished(r)
    /\ Goto(r, "done")
    /\ UNCHANGED <<flags, owns, buffers, frames, reader, libs, met>>

(* Capture a frame into the buffer. *)
Capture(r) ==
    /\ pc[r] = "loop" /\ ~Finished(r)
    /\ Goto(r, "add")
    /\ UNCHANGED <<flags, owns, buffers, frames, reader, libs, met>>

(* AddOneInputBuffer *)
Submit(r) ==
    /\ pc[r] = "add"
    /\ queued' = Up(queued, r)
    /\ Mark(r, {"sent"})
    /\ Goto(r, "encode")
    /\ UNCHANGED <<owns, free, lost, frames, reader, libs, met>>

(* VideoEncodeOneFrame *)
Encode(r) ==
    /\ pc[r] = "encode"
    /\ Goto(r, "drain")
    /\ UNCHANGED <<flags, owns, buffers, frames, reader, libs, met>>

(* GetOneBitstreamFrame, while ValidBitstreamFrameNum says there are more: *)
(* cedar_write_go is called with what came out                             *)
Fetch(r) ==
    /\ pc[r] = "drain"
    /\ Goto(r, "write")
    /\ UNCHANGED <<flags, owns, buffers, frames, reader, libs, met>>

(* The reader stops reading, with its buffers full, and reads on. *)
ReaderStalls(r) ==
    /\ pc[r] = "write"
    /\ deaf' \in {deaf \cup {r}, deaf \ {r}}
    /\ UNCHANGED <<pc, flags, owns, buffers, frames, stop, closed, libs, met>>

(* cedar_write_go returns once everything was taken, or the pipe is closed. *)
(* It has no deadline, and does not look at the stop flag.                  *)
Written(r) ==
    /\ pc[r] = "write"
    /\ r \notin deaf \/ r \in closed
    /\ Goto(r, "drain")
    /\ UNCHANGED <<flags, owns, buffers, frames, reader, libs, met>>

(* No more output for now, or GetOneBitstreamFrame fails *)
Drained(r) ==
    /\ pc[r] = "drain"
    /\ Goto(r, "reclaim")
    /\ UNCHANGED <<flags, owns, buffers, frames, reader, libs, met>>

(* Mutant: the encoded buffer stays with the encoder. *)
Reclaim_Never(r) ==
    /\ pc[r] = "reclaim"
    /\ Goto(r, "giveback")
    /\ UNCHANGED <<flags, owns, buffers, frames, reader, libs, met>>

(* AlreadyUsedInputBuffer *)
Reclaim(r) ==
    /\ pc[r] = "reclaim"
    /\ queued' = Down(queued, r)
    /\ Goto(r, "giveback")
    /\ UNCHANGED <<flags, owns, free, lost, frames, reader, libs, met>>

(* It returns a buffer without an address: goto done without the buffer. *)
ReclaimNull(r) ==
    /\ pc[r] = "reclaim"
    /\ queued' = Down(queued, r) /\ lost' = Up(lost, r)
    /\ Goto(r, "done")
    /\ UNCHANGED <<flags, owns, free, frames, reader, libs, met>>

(* ReturnOneAllocInputBuffer: the pool takes the buffer, or fails to. *)
Return(r) ==
    \/ free' = Up(free, r) /\ UNCHANGED lost
    \/ lost' = Up(lost, r) /\ UNCHANGED free

(* Its result is ignored: the flags are cleared in both cases. *)
GiveBack(r) ==
    /\ pc[r] = "giveback"
    /\ Return(r)
    /\ Unmark(r, {"got", "sent"})
    /\ Goto(r, "next")
    /\ UNCHANGED <<owns, queued, frames, reader, libs, met>>

-----------------------------------------------------------------------------
(* done *)

(* A submitted buffer is taken back and returned, if the encoder gives it. *)
Unsubmit(r) ==
    /\ pc[r] = "done" /\ "sent" \in flags[r] /\ queued[r] > 0
    /\ queued' = Down(queued, r)
    /\ Return(r)
    /\ Unmark(r, {"got", "sent"})
    /\ Goto(r, "unhand")
    /\ UNCHANGED <<owns, frames, reader, libs, met>>

(* Nothing was submitted, or the encoder gives nothing back, or a buffer *)
(* without an address.                                                   *)
KeepSubmitted(r) ==
    /\ pc[r] = "done"
    /\ \/ UNCHANGED <<queued, lost>>
       \/ /\ "sent" \in flags[r] /\ queued[r] > 0
          /\ queued' = Down(queued, r) /\ lost' = Up(lost, r)
    /\ Goto(r, "unhand")
    /\ UNCHANGED <<flags, owns, free, frames, reader, libs, met>>

(* if (buf_got && inbuf): also when what inbuf describes is still submitted, *)
(* or gone                                                                   *)
Unhand(r) ==
    /\ pc[r] = "unhand"
    /\ IF {"got", "desc"} \subseteq flags[r] THEN Return(r) ELSE UNCHANGED <<free, lost>>
    /\ Goto(r, "free_pool")
    /\ UNCHANGED <<flags, owns, queued, frames, reader, libs, met>>

(* The pool, the encoder and the memory adapter, each if its flag or pointer *)
(* says so. The pool goes with whatever is in its queues.                    *)
Release(r) ==
    /\ pc[r] \in ReleasePcs
    /\ owns' = [owns EXCEPT ![r] = @ \ ({Releases[pc[r]]} \cap flags[r])]
    /\ IF pc[r] = "free_pool"
       THEN /\ free' = [free EXCEPT ![r] = 0] /\ queued' = [queued EXCEPT ![r] = 0]
            /\ lost' = [lost EXCEPT ![r] = 0]
       ELSE UNCHANGED buffers
    /\ Goto(r, AfterRelease[pc[r]])
    /\ UNCHANGED <<flags, frames, reader, libs, met>>

(* A library is closed if its global is set, which is then cleared. Nothing *)
(* keeps another call from using the global in between.                     *)
Close(r) ==
    /\ pc[r] \in ClosePcs
    /\ LET l == Closes[pc[r]] IN
        IF l \in handle
        THEN /\ ref' = [ref EXCEPT ![l] = IF @ > 0 THEN @ - 1 ELSE 0]
             /\ Goto(r, CHOOSE c \in ClearPcs : Clears[c] = l)
        ELSE Goto(r, AfterUnload[l]) /\ UNCHANGED ref
    /\ UNCHANGED <<flags, owns, buffers, frames, reader, handle, met>>

(* Mutant: unload_libs leaves its globals as they are. *)
Clear_Keep(r) ==
    /\ pc[r] \in ClearPcs
    /\ Goto(r, AfterUnload[Clears[pc[r]]])
    /\ UNCHANGED <<flags, owns, buffers, frames, reader, libs, met>>

Clear(r) ==
    /\ pc[r] \in ClearPcs
    /\ handle' = handle \ {Clears[pc[r]]}
    /\ Goto(r, AfterUnload[Clears[pc[r]]])
    /\ UNCHANGED <<flags, owns, buffers, frames, reader, ref, met>>

(* Free the buffers of this call, close the framebuffer if it is open, and *)
(* return: the locals are gone.                                            *)
Leave(r) ==
    /\ pc[r] = "return"
    /\ owns' = [owns EXCEPT ![r] = @ \ ({"desc", "fbuf", "fb"} \cap flags[r])]
    /\ Unmark(r, Flags)
    /\ Goto(r, "over")
    /\ UNCHANGED <<buffers, frames, reader, libs, met>>

Step(r) ==
    \/ Acquire(r) \/ Load(r) \/ FindSymbols(r)
    \/ GetBuffer(r) \/ HasAddresses(r)
    \/ LeaveLoop(r) \/ Capture(r) \/ Submit(r) \/ Encode(r)
    \/ Fetch(r) \/ Written(r) \/ Drained(r)
    \/ Reclaim(r) \/ ReclaimNull(r) \/ GiveBack(r)
    \/ Unsubmit(r) \/ KeepSubmitted(r) \/ Unhand(r) \/ Release(r)
    \/ Close(r) \/ Clear(r) \/ Leave(r)

Next ==
    \E r \in Runs :
        Enter(r) \/ SetStop(r) \/ ClosePipe(r) \/ ReaderStalls(r) \/ Fail(r) \/ Step(r)

Spec == Init /\ [][Next]_vars

(* Every call of the vendor's library returns, the encoder holds finitely   *)
(* many frames of output, and a Stop goes on to close the pipe. The reader  *)
(* owes nothing.                                                            *)
Fairness ==
    \A r \in Runs :
        /\ WF_vars(Step(r) \/ Fail(r))
        /\ SF_vars(Drained(r))
        /\ WF_vars(ClosePipe(r))

FairSpec == Spec /\ Fairness

-----------------------------------------------------------------------------
(* Properties *)

(* The types of the variables. *)
TypeOK ==
    /\ pc \in [Runs -> Pcs]
    /\ flags \in [Runs -> SUBSET Flags] /\ owns \in [Runs -> SUBSET Resources]
    /\ free \in [Runs -> Nat] /\ queued \in [Runs -> Nat] /\ lost \in [Runs -> Nat]
    /\ frames \in [Runs -> Nat]
    /\ \A r \in Runs : frames[r] <= Limit[r]
    /\ Raw \subseteq Runs /\ stop \subseteq Runs /\ closed \subseteq Runs /\ deaf \subseteq Runs
    /\ ref \in [Libs -> Nat]
    /\ handle \subseteq Libs
    /\ met \subseteq Runs

(* However often the pool fails to take a buffer back, which nobody looks   *)
(* at, at most one buffer is pending in the encoder, and the loop fills a   *)
(* buffer of its own: the others are all free or lost. A run that loses its *)
(* last one ends instead of reusing what it has given away.                 *)
PoolConserved ==
    \A r \in Runs :
        /\ queued[r] <= 1
        /\ pc[r] \in {"loop", "add"} => free[r] + lost[r] + 1 = PoolSize /\ queued[r] = 0

(* Wherever a call failed, and whatever other calls do meanwhile, its       *)
(* cleanup releases only what it holds, and nothing that something else it  *)
(* holds still needs.                                                       *)
ReleasedInOrder ==
    \A r \in Runs : pc[r] \in ReleasePcs =>
        LET x == Releases[pc[r]] IN
        x \in flags[r] => /\ x \in owns[r]
                          /\ Needs[x] \subseteq owns[r]
                          /\ \A y \in owns[r] \cap DOMAIN Needs : x \notin Needs[y]

(* A call that has returned, from whatever point it failed at, holds        *)
(* nothing, and when no call is active the globals are ready for the next   *)
(* one, even if calls overlapped. If none ever did no library is open.      *)
NothingLeft ==
    /\ \A r \in Runs : ~Active(r) => owns[r] = {}
    /\ (\A r \in Runs : ~Active(r)) =>
        handle = {} /\ (met = {} => \A l \in Libs : ref[l] = 0)

(* A call that is alone finds the libraries it loaded until it unloads them *)
(* itself, whatever earlier calls that overlapped did to the globals: no    *)
(* vendor function is called after its library has gone.                    *)
LibsLoaded ==
    \A r \in Runs \ met :
        pc[r] \in LoopPcs \cup {"ops", "open", "make", "init", "pool", "desc"} =>
            \A l \in Libs : ref[l] > 0

(* A call told to stop returns: whatever the reader does if there is a pipe *)
(* that Stop can close; if it writes to the client itself, only if the      *)
(* client does not stop reading for good.                                   *)
StopHeeded ==
    \A r \in Runs :
        (r \in Raw => <>[](r \notin deaf)) => (r \in stop ~> pc[r] = "over")
=============================================================================
