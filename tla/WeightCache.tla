----------------------------- MODULE WeightCache -----------------------------
(***************************************************************************)
(* engines/model_weight_cache.py with its callers: an LRU of loaded modules *)
(* and ONNX sessions, one of whose modules is meant to stay on the device.  *)
(* A pass of core/separator_run.py acquires its model from the cache or     *)
(* from disk, infers, may run other passes in the middle (a pre-process, a  *)
(* secondary or a splitter model) or a helper network, and stashes what it  *)
(* holds.  A failed run parks everything, twice: the worker does, and a     *)
(* thread that the window starts.  The device is an accelerator.            *)
(***************************************************************************)
EXTENDS Naturals, Sequences, FiniteSets, SequencesExt

CONSTANTS Keys,       \* cache keys; a key stands for its model file, too
          Ort,        \* those of ONNX sessions
          Helpers,    \* vr_denoiser, Apollo: cached before their use, and not stashed
          Early,      \* Demucs with a pre-process model: another pass before it infers
          Again,      \* MDX-Net with a second demix after its secondary model
          None,
          MaxEntries, \* max_entries
          MaxRuns, MaxPasses, \* bounds: runs, passes of each at the top
          MaxDepth    \* bound: passes within passes

ASSUME CacheAssumption ==
  /\ IsFiniteSet(Keys) /\ Ort \subseteq Keys /\ Helpers \subseteq Keys \ Ort
  /\ Early \subseteq Keys /\ Again \subseteq Keys
  /\ None \notin Keys /\ MaxEntries \in Nat \ {0}
  /\ MaxRuns \in Nat /\ MaxPasses \in Nat /\ MaxDepth \in Nat \ {0}

VARIABLES items,    \* _items: what is cached under each key
          older,    \* its order: pairs of keys, of which the first was used before
          resident, \* _device_resident_key
          device,   \* the modules on the device, and the sessions that are open
          stack,    \* the passes that are under way, the innermost last
          run,      \* of the worker: "idle", "running", "failing", "parked"
          cleanup,  \* the window's cleanup thread is about to park
          runs, passes,
          mixed,    \* ghost: there were passes within passes, or helpers
          raced     \* ghost: a cleanup thread parked while a pass was under way

vars == <<items, older, resident, device, stack, run, cleanup, runs, passes, mixed, raced>>

Objects == Keys \X (1..MaxDepth + 1)  \* the modules and sessions of a key
NoObject == <<None, 0>>
Absent   == <<None, 1>>               \* there is no entry
Frames  == [key : Keys, obj : Objects \cup {NoObject}, hit : BOOLEAN, within : SUBSET Keys,
            at : {"prepare", "acquire", "infer", "after"}]

TypeOK ==
  /\ items \in [Keys -> Objects \cup {NoObject, Absent}]
  /\ older \in SUBSET (Keys \X Keys)
  /\ resident \in Keys \cup {None}
  /\ device \subseteq Objects
  /\ stack \in Seq(Frames)
  /\ run \in {"idle", "running", "failing", "parked"}
  /\ cleanup \in BOOLEAN /\ mixed \in BOOLEAN /\ raced \in BOOLEAN
  /\ runs \in 0..MaxRuns /\ passes \in 0..MaxPasses

Init ==
  /\ items = [k \in Keys |-> Absent] /\ older = {} /\ resident = None /\ device = {} /\ stack = <<>>
  /\ run = "idle" /\ cleanup = FALSE /\ runs = 0 /\ passes = 0
  /\ mixed = FALSE /\ raced = FALSE

----------------------------------------------------------------------------
(* The cache.  c = [items, older, resident, device] is its state and the device's. *)

Cache == [items |-> items, older |-> older, resident |-> resident, device |-> device]
Becomes(c) == /\ items' = c.items /\ older' = c.older
              /\ resident' = c.resident /\ device' = c.device

Entries(c) == {k \in Keys : c.items[k] # Absent}

\* The object that is cached under k.
Held(its, k) == IF its[k] = Absent THEN NoObject ELSE its[k]

\* move_to_end
ToEnd(c, k) ==
  [c EXCEPT !.older = {e \in @ : k \notin {e[1], e[2]}} \cup ((Entries(c) \ {k}) \X {k})]

\* A mutant: a hit does not make the entry the most recent one.
Left(c, k) == c

\* get
Touched(c, k) == IF k \in Entries(c) THEN ToEnd(c, k) ELSE c

\* A mutant: the module on the device stays when another one takes its place.
Crowded(c, k) == c

\* _park_device_resident_locked(except_key = k)
ParkResident(c, k) ==
  IF c.resident \in {None, k} THEN c
  ELSE [c EXCEPT !.device = @ \ {Held(c.items, c.resident)}, !.resident = None]

\* The entries of K are destroyed, and none of them is the resident one any more.
Destroyed(c, K) ==
  [items    |-> [k \in Keys |-> IF k \in K THEN Absent ELSE c.items[k]],
   older    |-> {e \in c.older : {e[1], e[2]} \cap K = {}},
   resident |-> IF c.resident \in K THEN None ELSE c.resident,
   device   |-> c.device \ {c.items[k] : k \in K}]

\* popitem(last=False)
Oldest(c) == CHOOSE k \in Entries(c) : \A j \in Entries(c) \ {k} : <<k, j>> \in c.older

\* A mutant: the key of an entry that is evicted stays the resident one.
Evicted(c) == [Destroyed(c, {Oldest(c)}) EXCEPT !.resident = c.resident]

EvictOldest(c) == Destroyed(c, {Oldest(c)})

\* put: an entry that replaces that of its key ...
Stored(c, k, o) ==
  LET want == k \notin Ort
      c1   == IF want THEN ParkResident(c, k) ELSE c
      old  == Held(c1.items, k)
  IN ToEnd([items    |-> [c1.items EXCEPT ![k] = o],
            older    |-> c1.older,
            resident |-> IF want THEN k ELSE c1.resident,
            device   |-> IF old = o THEN c1.device ELSE c1.device \ {old}], k)

\* ... and at the limit the place of another.
Put(c, k, o) ==
  LET d == Stored(c, k, o)
  IN IF Cardinality(Entries(d)) > MaxEntries THEN EvictOldest(d) ELSE d

\* A mutant: park_all parks the resident module, and drops the sessions.
ParkOne(c, protect) ==
  LET parked == {k \in Entries(c) : k \in Ort \cup {c.resident} /\ k \notin protect}
  IN [c EXCEPT !.items    = [k \in Keys |-> IF k \in parked \cap Ort THEN NoObject ELSE @[k]],
               !.resident = IF @ \in protect THEN @ ELSE None,
               !.device   = @ \ {c.items[k] : k \in parked}]

\* _park_entries_locked: modules to the host, and sessions dropped from their entries.
Park(c, protect) ==
  LET parked == Entries(c) \ protect
  IN [c EXCEPT !.items    = [k \in Keys |-> IF k \in parked \cap Ort THEN NoObject ELSE @[k]],
               !.resident = IF @ \in parked THEN None ELSE @,
               !.device   = @ \ {c.items[k] : k \in parked}]

\* clear_except and clear
Clear(c, protect) == Destroyed(c, Keys \ protect)

\* ensure_weight_cache_vram_headroom for k in a run over the keys of protect: as many
\* of the steps as it takes until there is enough memory.
Reclaims(k, protect) ==
  LET parked  == Park(Cache, {k})
      cleared == Clear(parked, protect)
  IN {Cache, parked, cleared, Park(cleared, {}), Clear(cleared, {})}

----------------------------------------------------------------------------
(* The worker.                                                              *)

Top        == Last(stack)
SetTop(f)  == stack' = Front(stack) \o <<f>>
InUse      == {stack[i].obj : i \in DOMAIN stack}
Cached     == {items[k] : k \in Keys} \cap Objects
NewFrame(k, at) == [key |-> k, obj |-> NoObject, hit |-> FALSE, within |-> {}, at |-> at]

\* A new object for k.
FreshOf(k) == CHOOSE o \in {k} \X (1..MaxDepth + 1) : o \notin InUse \cup Cached

StartRun ==
  /\ run \in {"idle", "parked"} /\ runs < MaxRuns
  /\ run' = "running" /\ runs' = runs + 1 /\ passes' = 0
  /\ UNCHANGED <<items, older, resident, device, stack, cleanup, mixed, raced>>

\* run_separate_pass at the top of the run
BeginPass(k) ==
  /\ run = "running" /\ stack = <<>> /\ passes < MaxPasses
  /\ k \notin Helpers
  /\ stack' = <<NewFrame(k, "prepare")>> /\ passes' = passes + 1
  /\ UNCHANGED <<items, older, resident, device, run, cleanup, runs, mixed, raced>>

\* prepare_separator_vram
Prepare ==
  /\ stack # <<>> /\ Top.at = "prepare"
  /\ \E protect \in SUBSET Keys : Top.key \in protect
       /\ \E c \in Reclaims(Top.key, protect) : Becomes(c)
  /\ SetTop([Top EXCEPT !.at = "acquire"])
  /\ UNCHANGED <<run, cleanup, runs, passes, mixed, raced>>

\* get, and materialize_module
Hit ==
  /\ run = "running" /\ stack # <<>> /\ Top.at = "acquire"
  /\ LET o == Held(items, Top.key) IN
       /\ o # NoObject
       /\ Becomes([Touched(Cache, Top.key) EXCEPT !.device = @ \cup {o}])
       /\ SetTop([Top EXCEPT !.obj = o, !.hit = TRUE, !.at = "infer"])
  /\ UNCHANGED <<run, cleanup, runs, passes, mixed, raced>>

\* The model is loaded from its file, onto the device.  A helper is cached at once.
Load ==
  /\ run = "running" /\ stack # <<>> /\ Top.at = "acquire"
  /\ Held(items, Top.key) = NoObject
  /\ LET o == FreshOf(Top.key)
         c == [Touched(Cache, Top.key) EXCEPT !.device = @ \cup {o}]
     IN IF Top.key \in Helpers
        THEN Becomes(Put(c, Top.key, o)) ELSE Becomes(c)
  /\ SetTop([Top EXCEPT !.obj = FreshOf(Top.key), !.at = "infer"])
  /\ UNCHANGED <<run, cleanup, runs, passes, mixed, raced>>

Infer ==
  /\ run = "running" /\ stack # <<>> /\ Top.at = "infer"
  /\ SetTop([Top EXCEPT !.at = "after"])
  /\ UNCHANGED <<items, older, resident, device, run, cleanup, runs, passes, mixed, raced>>

InferAgain ==
  /\ run = "running" /\ stack # <<>> /\ Top.at = "after" /\ Top.key \in Again
  /\ SetTop([Top EXCEPT !.at = "infer"])
  /\ UNCHANGED <<items, older, resident, device, run, cleanup, runs, passes, mixed, raced>>

\* process_secondary_model, process_chain_model, vr_denoiser
Nest(k) ==
  /\ run = "running" /\ stack # <<>> /\ Len(stack) < MaxDepth
  /\ Top.key \notin Helpers
  /\ Top.at = "after" \/ (Top.at = "infer" /\ Top.key \in Early)
  /\ stack' = Append([i \in DOMAIN stack |-> [stack[i] EXCEPT !.within = @ \cup {k}]],
                     NewFrame(k, "acquire"))
  /\ mixed' = TRUE
  /\ UNCHANGED <<items, older, resident, device, run, cleanup, runs, passes, raced>>

\* An exception, out of memory or another one: every pass is left by its finally.
Fail ==
  /\ run = "running" /\ stack # <<>>
  /\ run' = "failing"
  /\ UNCHANGED <<items, older, resident, device, stack, cleanup, runs, passes, mixed, raced>>

\* release_separator: stash_separator puts what the separator holds.
Release ==
  /\ stack # <<>> /\ (run = "failing" \/ Top.at = "after")
  /\ IF Top.obj = NoObject \/ Top.key \in Helpers
     THEN Becomes(Cache) ELSE Becomes(Put(Cache, Top.key, Top.obj))
  /\ stack' = Front(stack)
  /\ UNCHANGED <<run, cleanup, runs, passes, mixed, raced>>

\* park_after_oom: the run goes on with a smaller segment ...
Recover ==
  /\ run = "failing" /\ stack = <<>> /\ passes < MaxPasses
  /\ Becomes(Park(Cache, {})) /\ run' = "running"
  /\ UNCHANGED <<stack, cleanup, runs, passes, mixed, raced>>

\* ... or ends: the worker parks, and _on_error starts a thread that does so again.
EndFailed ==
  /\ run = "failing" /\ stack = <<>>
  /\ Becomes(Park(Cache, {})) /\ run' = "parked" /\ cleanup' = TRUE
  /\ UNCHANGED <<stack, runs, passes, mixed, raced>>

EndRun ==
  /\ run = "running" /\ stack = <<>>
  /\ run' = "idle"
  /\ UNCHANGED <<items, older, resident, device, stack, cleanup, runs, passes, mixed, raced>>

\* release_inference_memory(park_weights=True) of the window's thread.
CleanupParks ==
  /\ cleanup /\ cleanup' = FALSE
  /\ Becomes(Park(Cache, {}))
  /\ raced' = (raced \/ stack # <<>>)
  /\ UNCHANGED <<stack, run, runs, passes, mixed>>

Next == \/ StartRun \/ Prepare \/ Hit \/ Load \/ Infer \/ InferAgain \/ Fail \/ Release
        \/ Recover \/ EndFailed \/ EndRun \/ CleanupParks
        \/ \E k \in Keys : BeginPass(k) \/ Nest(k)

Spec == Init /\ [][Next]_vars

----------------------------------------------------------------------------
(* Properties.                                                              *)

\* The resident key names an entry that has a module: no eviction, reclaim or park
\* leaves it behind, and no park of "the resident module" misses one.
ResidentIsCached == resident # None => Held(items, resident) # NoObject

Modules == {o \in Cached : o[1] \notin Ort}

\* As long as passes do not nest, the resident module is on the device, so that the
\* next file does not move it, and no other idle module is.
OneModuleWarm ==
  ~mixed /\ ~raced =>
    /\ resident # None => Held(items, resident) \in device
    /\ \A o \in Modules \cap device : o \in InUse \/ o[1] = resident

\* After a failed run nothing that is cached is left on the device, whatever passes
\* and helpers had put there.
FailureFreesDevice == run = "parked" => Cached \cap device = {}

\* A pass that took its model from the cache still finds it there, with its module or
\* session, unless passes for MaxEntries other keys ran within it.
HitSurvives ==
  ~raced => \A i \in DOMAIN stack :
    stack[i].hit /\ Cardinality(stack[i].within) < MaxEntries
      => Held(items, stack[i].key) = stack[i].obj
=============================================================================
