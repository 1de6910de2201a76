------------------------------ MODULE Connector ------------------------------
(***************************************************************************)
(* connector/src/kvcache_connector/connector.py and client.py: the vLLM    *)
(* connector of one engine, its scheduler side and one worker per tensor-  *)
(* parallel rank, over the RPCs of ReadPath.                               *)
(*                                                                         *)
(* vLLM is external.  It runs one request at a time, may hold a prefix of  *)
(* it in its own cache, does not compute what the connector said it has,   *)
(* and recomputes a request from its first block with a load error on.     *)
(* The scheduler and the workers never have a call out at the same time,   *)
(* so the scheduler calls in the name of rank 0, whose key it uses.        *)
(***************************************************************************)
EXTENDS ReadPath

CONSTANTS
  Ranks,  \* the workers; each is also the name of its shard
  Rank0,
  MaxRequests

ASSUME ConnectorAssumption ==
  /\ Ranks \subseteq Callers \cap Shards /\ Rank0 \in Ranks /\ Owners[Rank0] # <<>>
  /\ MaxRequests \in Nat

VARIABLES
  engine,     \* the request in hand, and the plan for it
  requests,   \* how many there have been
  worker,     \* how far each rank is with it
  slot,       \* what the paged cache of each rank holds for each block
  loadErrors, \* load_errors
  unloaded,   \* history: some promised block was neither loaded nor reported
  wrong       \* history: some forward pass used a block that was not there

connVars == <<engine, requests, worker, slot, loadErrors, unloaded, wrong>>

CacheAddr == Owners[Rank0][1]

NoRequest == [phase |-> "idle", first |-> 0, exact |-> FALSE, batch |-> "alone",
              hits |-> 0, versions |-> <<>>]

\* The rest of the batch: nothing, a request in decode, which has no plan, or one that
\* has blocks to save and none to load.
Batches == {"alone", "decode", "miss"}

ConnInit ==
  /\ engine = NoRequest /\ requests = 0
  /\ worker = [r \in Ranks |-> [at |-> "idle", next |-> 0]]
  /\ slot = [r \in Ranks |-> [b \in Blocks |-> "empty"]]
  /\ loadErrors = [r \in Ranks |-> {}] /\ unloaded = FALSE /\ wrong = FALSE

ConnTypeOK ==
  /\ engine.phase \in {"idle", "lookup", "load", "save"} /\ engine.first \in 0..NBlocks
  /\ requests \in 0..MaxRequests /\ engine.batch \in Batches
  /\ engine.hits \in 0..NBlocks /\ Len(engine.versions) = engine.hits
  /\ worker \in [Ranks -> [at : {"idle", "ready", "rpc"}, next : 0..(NBlocks + 1)]]
  /\ slot \in [Ranks -> [Blocks -> {"empty", "good", "bad"}]]
  /\ loadErrors \in [Ranks -> SUBSET Blocks] /\ {unloaded, wrong} \subseteq BOOLEAN

-----------------------------------------------------------------------------
(* The scheduler side.                                                     *)

\* get_num_new_matched_tokens: vLLM has the first blocks itself; the prompt ends with
\* its last full block or goes on, which is told apart only when vLLM has none.
Query(first, exact, batch) ==
  /\ engine.phase = "idle" /\ requests < MaxRequests /\ requests' = requests + 1
  /\ exact => first = 0
  /\ engine' = [NoRequest EXCEPT !.phase = "lookup", !.first = first, !.exact = exact,
                                 !.batch = batch]
  /\ Lookup(Rank0, CacheAddr, Rank0, [b \in Blocks |-> Want(b, 0)])
  /\ UNCHANGED <<worker, slot, loadErrors, unloaded, wrong>>

Present(b) == got[Rank0].status = "ok" /\ got[Rank0].presence[b] # 0
Run(first) ==
  CHOOSE n \in 0..(NBlocks - first) :
    /\ \A b \in (first + 1)..(first + n) : Present(b)
    /\ first + n < NBlocks => ~Present(first + n + 1)

\* Mutant: the whole prompt may be matched.
HitsAll(first, exact) == Run(first)

\* A match of as many tokens as the prompt has is cut by one block.
Hits(first, exact) ==
  IF exact /\ Run(first) = NBlocks THEN NBlocks - 1 ELSE Run(first)

Match ==
  /\ engine.phase = "lookup" /\ got[Rank0].status \in {"ok", "error"}
  /\ LET hits == Hits(engine.first, engine.exact) IN
     engine' = [engine EXCEPT !.phase = "load", !.hits = hits,
                  !.versions = [j \in 1..hits |-> got[Rank0].presence[engine.first + j]]]
  /\ worker' = [r \in Ranks |-> [at |-> "ready", next |-> 0]]
  /\ slot' = [r \in Ranks |-> [b \in Blocks |-> IF b <= engine.first THEN "good" ELSE "empty"]]
  /\ got' = [got EXCEPT ![Rank0] = Nothing]
  /\ UNCHANGED <<rpc, serverVars, loadErrors, unloaded, wrong, requests>>

-----------------------------------------------------------------------------
(* The workers.                                                            *)

HitBlock(j) == engine.first + j
Done(r) == worker' = [worker EXCEPT ![r].at = "idle"]

\* start_load_kv: plan i is row i of the block table, which is certain only when as many
\* plans have blocks to load as the batch has rows; else nothing is loaded.
StartLoad(r) ==
  /\ engine.phase = "load" /\ worker[r].at = "ready"
  /\ IF engine.hits = 0 \/ engine.batch # "alone"
     THEN /\ Done(r) /\ unloaded' = (unloaded \/ engine.hits > 0)
          /\ UNCHANGED pathVars
     ELSE /\ BatchFetch(r, CacheAddr, r,
                        [j \in 1..engine.hits |-> Want(HitBlock(j), engine.versions[j])])
          /\ worker' = [worker EXCEPT ![r].at = "rpc"]
          /\ UNCHANGED unloaded
  /\ UNCHANGED <<engine, slot, loadErrors, wrong, requests>>

\* Mutant: a buffer without its last frame is taken for a payload.
PayloadsOfFound(r) ==
  {j \in 1..engine.hits : got[r].found[j]}

\* batch_fetch: a payload needs its last frame, and a call that failed gives none.
Payloads(r) == {j \in 1..engine.hits : Accepted(r, j)}

Quality(b, buf) ==
  IF Len(buf) = Chunks[b] /\ (\A k \in DOMAIN buf : buf[k].kv.good) THEN "good" ELSE "bad"

\* _load_plan: a missing payload is skipped, one that does not deserialize reported.
CopyIn(r, failing) ==
  /\ engine.phase = "load" /\ worker[r].at = "rpc" /\ got[r].status \in {"ok", "error"}
  /\ failing \subseteq Payloads(r)
  /\ LET loaded == {HitBlock(j) : j \in Payloads(r) \ failing}
         BufOf(b) == got[r].buf[b - engine.first]
     IN slot' = [slot EXCEPT ![r] = [b \in Blocks |-> IF b \in loaded THEN Quality(b, BufOf(b)) ELSE @[b]]]
  /\ loadErrors' = [loadErrors EXCEPT ![r] = {HitBlock(j) : j \in failing}]
  /\ unloaded' = (unloaded \/ Payloads(r) # 1..engine.hits)
  /\ Done(r) /\ got' = [got EXCEPT ![r] = Nothing]
  /\ UNCHANGED <<rpc, serverVars, engine, wrong, requests>>

\* vLLM: the forward pass over what the slots hold, from the first reported block on
\* recomputed; the ranks exchange partial sums, so a bad slot of one spoils all.
Reported == UNION {loadErrors[r] : r \in Ranks}
Used(b) == b <= engine.first + engine.hits /\ \A e \in Reported : b < e
Forward ==
  /\ engine.phase = "load" /\ \A r \in Ranks : worker[r].at = "idle"
  /\ LET sound == \A r \in Ranks, b \in Blocks : Used(b) => slot[r][b] = "good" IN
     /\ slot' = [r \in Ranks |-> [b \in Blocks |->
                   IF Used(b) THEN slot[r][b] ELSE IF sound THEN "good" ELSE "bad"]]
     /\ wrong' = (wrong \/ ~sound)
  /\ loadErrors' = [r \in Ranks |-> {}]
  /\ worker' = [r \in Ranks |-> [at |-> "ready", next |-> engine.first + engine.hits + 1]]
  /\ engine' = [engine EXCEPT !.phase = "save"]
  /\ UNCHANGED <<pathVars, unloaded, requests>>

\* wait_for_save and _save_plan: when as many plans have blocks to save as the batch has
\* rows, one Write per block beyond the hits.
SaveBlock(r) ==
  /\ engine.phase = "save" /\ worker[r].at = "ready"
  /\ IF worker[r].next > NBlocks \/ engine.batch = "decode"
     THEN Done(r) /\ UNCHANGED pathVars
     ELSE /\ Write(r, CacheAddr, KV(r, worker[r].next, 1, slot[r][worker[r].next] = "good"))
          /\ worker' = [worker EXCEPT ![r].at = "rpc"]
  /\ UNCHANGED <<engine, slot, loadErrors, unloaded, wrong, requests>>

Saved(r) ==
  /\ engine.phase = "save" /\ worker[r].at = "rpc" /\ got[r].status \in {"ok", "error"}
  /\ worker' = [worker EXCEPT ![r] = [at |-> "ready", next |-> @.next + 1]]
  /\ got' = [got EXCEPT ![r] = Nothing]
  /\ UNCHANGED <<rpc, serverVars, engine, slot, loadErrors, unloaded, wrong, requests>>

Finish ==
  /\ engine.phase = "save" /\ \A r \in Ranks : worker[r].at = "idle"
  /\ engine' = NoRequest
  /\ slot' = [r \in Ranks |-> [b \in Blocks |-> "empty"]]
  /\ UNCHANGED <<pathVars, worker, loadErrors, unloaded, wrong, requests>>

Engine ==
  \/ Match \/ Forward \/ Finish
  \/ \E r \in Ranks :
       \/ StartLoad(r) \/ SaveBlock(r) \/ Saved(r)
       \/ \E failing \in SUBSET (1..NBlocks) : CopyIn(r, failing)

ConnNext ==
  \/ Engine
  \/ \E first \in 0..(NBlocks - 1), exact \in BOOLEAN, batch \in Batches :
       Query(first, exact, batch)

-----------------------------------------------------------------------------
\* "never report a 100% external match" (connector.py:219): while vLLM has nothing of
\* an exact prompt itself, a block of it is left to compute and to save.
SomethingLeftToCompute ==
  engine.phase \in {"load", "save"} /\ engine.exact /\ engine.first = 0 => engine.hits < NBlocks

\* A promise that was kept or reported never spoils anything: as long as every promised
\* block of every rank was loaded or reported, every forward pass used the right KV and
\* every payload in a store, in the bucket or on its way there is the KV of its block.
OnlyUnloadedSpoils ==
  ~unloaded =>
    /\ ~wrong
    /\ \A s \in Ranks, b \in Blocks :
         /\ cold[s][b] # Absent => cold[s][b].kv.good
         /\ \A n \in Servers : hot[n][s][b] # Absent => hot[n][s][b].kv.good
    /\ \A o \in orphans : o.kv.good

\* "A missing/partial shard degrades to recompute via the ADR 0016 load guard, never to a
\* wrong serve" (connector.py:52).
NeverAWrongServe == ~wrong
=============================================================================
