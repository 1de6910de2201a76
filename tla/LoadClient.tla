----------------------------- MODULE LoadClient -----------------------------
(***************************************************************************)
(* A worker of cmd/loadgen/main.go with -verify, over the RPCs of          *)
(* ReadPath: oneRequestWithFailover goes to the owners in turn, oneRequest *)
(* reuses the longest prefix Lookup found and writes the rest to the       *)
(* primary, and fetch compares what it received with payload = f(hash).    *)
(***************************************************************************)
EXTENDS ReadPath

CONSTANTS
  Loader,     \* the worker, and the name of its model
  MaxLoads    \* a bound on its requests

ASSUME LoaderAssumption == Loader \in Callers \cap Shards /\ Owners[Loader] # <<>>

VARIABLE load \* where the worker is in its request, and what it has counted

LoadInit ==
  load = [at |-> "idle", conn |-> 1, i |-> 1, run |-> 0, requests |-> 0,
          hits |-> 0, writes |-> 0, violations |-> 0]

Conns == Owners[Loader]

LoadTypeOK ==
  /\ load.at \in {"idle", "dial", "lookup", "next", "fetch", "write"}
  /\ load.conn \in DOMAIN Conns /\ load.i \in 1..(NBlocks + 1) /\ load.run \in 0..NBlocks
  /\ {load.requests, load.hits, load.writes, load.violations} \subseteq Nat

Keeping == UNCHANGED <<rpc, serverVars>>
Returned(kinds) == load.at = kinds /\ rpc[Loader].kind = "none"
Consume == got' = [got EXCEPT ![Loader] = Nothing]

BeginRequest ==
  /\ load.at = "idle" /\ load.requests < MaxLoads
  /\ load' = [load EXCEPT !.at = "dial", !.requests = @ + 1, !.conn = 1,
                          !.hits = 0, !.writes = 0]
  /\ UNCHANGED pathVars

CallLookup ==
  /\ load.at = "dial" /\ load' = [load EXCEPT !.at = "lookup"]
  /\ Lookup(Loader, Conns[load.conn], Loader, [b \in Blocks |-> Want(b, 0)])

\* An error of the call: the next owner, or the request is given up.
Failover ==
  /\ Returned("lookup") \/ Returned("fetch") \/ Returned("write")
  /\ got[Loader].status = "error"
  /\ load' = IF load.conn < Len(Conns)
             THEN [load EXCEPT !.at = "dial", !.conn = @ + 1]
             ELSE [load EXCEPT !.at = "idle"]
  /\ Consume /\ Keeping

\* The longest contiguous run of present blocks from the first.
Looked ==
  /\ Returned("lookup") /\ got[Loader].status = "ok"
  /\ LET present == got[Loader].presence IN
     load' = [load EXCEPT !.at = "next", !.i = 1,
       !.run = CHOOSE n \in 0..NBlocks :
                 /\ \A b \in 1..n : present[b] # 0
                 /\ n < NBlocks => present[n + 1] = 0]
  /\ Consume /\ Keeping

\* Only the primary mints versions.
AllowWrites == load.conn = 1

CallFetch ==
  /\ load.at = "next" /\ load.i <= load.run
  /\ load' = [load EXCEPT !.at = "fetch"]
  /\ Fetch(Loader, Conns[load.conn], Loader, load.i)

CallWrite ==
  /\ load.at = "next" /\ load.i > load.run /\ load.i <= NBlocks /\ AllowWrites
  /\ load' = [load EXCEPT !.at = "write"]
  /\ Write(Loader, Conns[load.conn], KV(Loader, load.i, 1, TRUE))

EndRequest ==
  /\ load.at = "next" /\ load.i > load.run /\ (load.i > NBlocks \/ ~AllowWrites)
  /\ load' = [load EXCEPT !.at = "idle"]
  /\ UNCHANGED pathVars

\* Every payload of the block is the same function of its hash; the comparison is of the
\* bytes and their number.
Verified(buf, b) ==
  Len(buf) = Chunks[b] /\ \A k \in DOMAIN buf : buf[k].i = k /\ buf[k].kv.block = b

\* A NotFound ends the reuse of the prefix: the rest is written.
Fetched ==
  /\ Returned("fetch")
  /\ \/ /\ got[Loader].status = "ok"
        /\ load' = [load EXCEPT !.at = "next", !.i = @ + 1, !.hits = @ + 1,
             !.violations = IF Verified(got[Loader].buf[1], load.i) THEN @ ELSE @ + 1]
     \/ /\ got[Loader].status = "notfound"
        /\ load' = [load EXCEPT !.at = "next", !.run = load.i - 1]
  /\ Consume /\ Keeping

Wrote ==
  /\ Returned("write") /\ got[Loader].status = "ok"
  /\ load' = [load EXCEPT !.at = "next", !.i = @ + 1, !.writes = @ + 1]
  /\ Consume /\ Keeping

LoadNext ==
  \/ BeginRequest \/ CallLookup \/ Failover \/ Looked \/ CallFetch \/ CallWrite
  \/ EndRequest \/ Fetched \/ Wrote

-----------------------------------------------------------------------------
\* "a single mis-served byte fails the build" (main.go:193): the verifying load counts no
\* violation, whatever is evicted, replicated, re-admitted, overwritten or broken off
\* under it, on either owner.
NoViolation == load.violations = 0
=============================================================================
